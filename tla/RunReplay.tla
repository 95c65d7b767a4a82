----------------------------- MODULE RunReplay ------------------------------
(***************************************************************************)
(* One run, from the tool calls and protocol events of its agents, through *)
(* the hub's log, to the run record that a consumer of the protocol builds *)
(* from the log (packages/protocol/src/projections.ts) and to the status   *)
(* that the hub shows of it.                                               *)
(*                                                                         *)
(* Agents number their events themselves: a number may be skipped or used  *)
(* twice, and events arrive in any order, late or never.  The consumer     *)
(* keeps its record and resumes it with the events that have come since.   *)
(* An event's id stands for its time and for what it says.                 *)
(***************************************************************************)
EXTENDS ProtocolEvents

CONSTANTS
  Posts,      \* what agents post: [agent, kind, sources, data]
  Me,         \* the run: [conn, run, agent]
  MaxEvents,  \* bound on the events sent
  MaxSlips    \* bound on the numbers skipped or used again

\* Numbers and ids are numbers; Absent is no moment and no completion.
RunAssumption ==
  /\ MaxEvents \in Nat
  /\ \A id \in 1 .. MaxEvents : \A s \in Terminals : Absent \notin {id, [status |-> s, said |-> id]}

VARIABLES
  flight,  \* events sent and not yet delivered
  log,     \* the events table: the rows of this run
  used,    \* [seq, id, slips]: the number used last, the events sent, the slips
  saved    \* the run record the consumer keeps

vars == <<flight, log, used, saved>>

-----------------------------------------------------------------------------
(* The tools of the MCP bridge (services/mcp/src/hub-client.ts): what each  *)
(* call posts.  A source is [id, place], its place the URL and the moment. *)

PostOf(kind, sources, data) ==
  [agent |-> Me.agent, kind |-> kind, sources |-> Ids(sources), data |-> data]

\* HubClient.claims cites sources by their ids alone.
BridgeClaims(claims) == {{[id |-> i, place |-> Absent] : i \in cited} : cited \in claims}

ObserveSource(source) == PostOf("source.observed", {source}, [source |-> source.id])

BridgeItem(rev, sources, claims) ==
  [shaped |-> TRUE, run |-> Me.run, agent |-> Me.agent, rev |-> rev,
   refs |-> sources, claims |-> BridgeClaims(claims)]
PublishFeedItem(sources, claims) ==
  PostOf("feed.item.published", sources, [item |-> BridgeItem(1, sources, claims)])

UpdateFeedItem(rev, sources, claims) ==
  PostOf("feed.item.updated", sources, [item |-> BridgeItem(rev + 1, sources, claims), previous |-> rev])
WithdrawFeedItem(rev, sources) ==
  PostOf("feed.item.withdrawn", sources, [revision |-> rev, by |-> Me.agent])

ProposeAction(sources) ==
  PostOf("action.proposed", sources,
    [proposal |-> [shaped |-> TRUE, run |-> Me.run, agent |-> Me.agent, conn |-> Me.conn,
                   payload |-> "mail", hash |-> "mail", by |-> [kind |-> "agent", id |-> Me.agent],
                   refs |-> sources]])

RecordFeedback(sources) == PostOf("feedback.recorded", sources, [feedback |-> "useful"])

CompleteRun(status, sources) == PostOf(KindOfEnd(status), sources, [status |-> status])

-----------------------------------------------------------------------------
(* The consumer: projectRunEvents.                                          *)

Queued ==
  [status |-> "queued", started |-> Absent, ended |-> Absent, completion |-> Absent,
   last |-> 0, conn |-> Me.conn, run |-> Me.run, agent |-> Me.agent]

\* What it throws, in place of a run.
Refused == [status |-> "refused"]

\* normalizeEventsForReplay
Normal(events) ==
  /\ \A e \in events : EnvelopeOK(e)
  /\ \A d, e \in events : d # e => d.id # e.id /\ d.key # e.key /\ d.seq # e.seq

\* The order of the numbers, then of the ids; and the n-th event in it.
Before(d, e) == d.seq < e.seq \/ (d.seq = e.seq /\ d.id < e.id)
Nth(events, n) == CHOOSE e \in events : Cardinality({d \in events : Before(d, e)}) = n - 1

\* assertEventTargetsRun
Targets(e, run) == <<e.run, e.agent, e.conn>> = <<run.run, run.agent, run.conn>>

\* mutant: any event gets a run going
FollowsWhenever(run, e) ==
  /\ Targets(e, run) /\ e.seq = run.last + 1
  /\ run.status \notin Terminals
  /\ e.kind = "run.started" => run.status = "queued"

\* SEQUENCE_GAP, EVENT_AFTER_TERMINAL, INVALID_RUN_TRANSITION, RUN_NOT_STARTED
Follows(run, e) ==
  /\ Targets(e, run) /\ e.seq = run.last + 1
  /\ run.status \notin Terminals
  /\ (e.kind = "run.started") <=> (run.status = "queued")

Step(run, e) ==
  IF run = Refused \/ ~Follows(run, e) THEN Refused
  ELSE LET next == [run EXCEPT !.last = e.seq] IN
       CASE e.kind = "run.started" -> [next EXCEPT !.status = "running", !.started = e.id]
         [] e.kind \in Ends ->
              [next EXCEPT !.status = StatusOfEnd(e.kind), !.ended = e.id,
                           !.completion = [status |-> StatusOfEnd(e.kind), said |-> e.id]]
         [] OTHER -> next

Replay(run, events) ==
  LET Upto[n \in 0 .. Cardinality(events)] == IF n = 0 THEN run ELSE Step(Upto[n - 1], Nth(events, n))
  IN IF RunOK(run) /\ Normal(events) THEN Upto[Cardinality(events)] ELSE Refused

-----------------------------------------------------------------------------
(* The hub: latestRunStatus, projectRun.                                    *)

Proceeds == FeedKinds \cup {"feed.item.withdrawn", "run.started", "run.progress", "source.observed", "feedback.recorded"}
HubStep(status, e) ==
  CASE e.kind \in Proceeds -> "running"
    [] e.kind = "action.proposed" -> "awaiting_approval"
    [] e.kind \in Ends -> StatusOfEnd(e.kind)
    [] OTHER -> status

\* compareEventOrder is Before as well.
HubStatus(events) ==
  LET Upto[n \in 0 .. Cardinality(events)] == IF n = 0 THEN "pending" ELSE HubStep(Upto[n - 1], Nth(events, n))
  IN Upto[Cardinality(events)]

-----------------------------------------------------------------------------

Init == flight = {} /\ log = {} /\ used = [seq |-> 0, id |-> 0, slips |-> 0] /\ saved = Queued

\* HubClient.envelope, and the sequence that the tool was called with.
Envelope(post, seq) ==
  [id |-> used.id + 1, key |-> <<Me.conn, Me.run, seq, post.kind>>, seq |-> seq,
   conn |-> Me.conn, run |-> Me.run, agent |-> post.agent, shaped |-> TRUE,
   kind |-> post.kind, sources |-> post.sources, data |-> post.data]

Send(post) ==
  /\ used.id < MaxEvents
  /\ \E seq \in {used.seq, used.seq + 1, used.seq + 2} :
       /\ flight' = flight \cup {Envelope(post, seq)}
       /\ used' = [seq |-> seq, id |-> used.id + 1,
                   slips |-> IF seq = used.seq + 1 THEN used.slips ELSE used.slips + 1]
       /\ used'.slips <= MaxSlips
  /\ UNCHANGED <<log, saved>>

\* HubIngest: an event whose key is taken is refused.
Store(e) ==
  /\ e \in flight
  /\ flight' = flight \ {e}
  /\ log' = IF HubAccepts(e) /\ (\A row \in log : row.key # e.key) THEN log \cup {e} ELSE log
  /\ UNCHANGED <<used, saved>>

Later(run) == {e \in log : e.seq > run.last}

Follow ==
  LET run == Replay(saved, Later(saved)) IN
  /\ run # Refused /\ saved' = run
  /\ UNCHANGED <<flight, log, used>>

Next == (\E post \in Posts : Send(post)) \/ (\E e \in flight : Store(e)) \/ Follow

Spec == Init /\ [][Next]_vars

-----------------------------------------------------------------------------
(* Properties.                                                              *)

\* The status that the hub shows of a run is that of the protocol's record.
SameStatus(run, status) ==
  CASE run.status = "queued" -> status = "pending"
    [] run.status = "running" -> status \in {"running", "awaiting_approval"}
    [] OTHER -> status = run.status

\* A stored log that replays gives one run, however it is cut: replayed at once,
\* replayed to any event and then resumed from the record, and resumed by a
\* consumer that followed it while events came late and out of order; and the hub,
\* which checks none of what replay does, shows that run's status.  A record never
\* counts an event that is not stored (projectRunEvents).
ReplaysAgree ==
  LET full == Replay(Queued, log) IN
  /\ \A n \in 1 .. saved.last : \E e \in log : e.seq = n
  /\ full # Refused =>
       /\ SameStatus(full, HubStatus(log))
       /\ Replay(saved, Later(saved)) = full
       /\ \A n \in 0 .. full.last :
            LET cut == Replay(Queued, {e \in log : e.seq <= n})
            IN cut # Refused /\ Replay(cut, Later(cut)) = full
=============================================================================
