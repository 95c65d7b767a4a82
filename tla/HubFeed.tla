------------------------------ MODULE HubFeed -------------------------------
(***************************************************************************)
(* The projections that GET /v1/feed, /v1/runs/:id and /v1/sources compute *)
(* from the log, and the agents that write the log after reading them.     *)
(*                                                                         *)
(* Each run numbers its own events.  An agent reads the feed, then revises *)
(* or withdraws the revision that it read, which other runs may have moved *)
(* on; posts reach the log in any order and late.                          *)
(***************************************************************************)
EXTENDS Naturals, Sequences, FiniteSets

CONSTANTS
  Run, Item, Source,
  Kind,          \* kinds of event besides those of the feed
  Times,         \* values of occurred_at: the producers' clocks, not in step
  MaxSent,       \* bound on the events sent
  MaxRead        \* maxEventsPerRead

Numbers == 1..MaxSent
FeedKind == {"feed.item.published", "feed.item.updated", "feed.item.withdrawn"}
RunKind == {"run.started", "run.completed", "run.partial", "run.failed",
            "action.proposed", "feedback.recorded", "unknown"}

\* What an instance must give; the module that instantiates assumes it.
FeedAssumption == MaxSent \in Nat /\ MaxRead \in Nat \ {0}
                    /\ Times \subseteq Nat /\ Kind \subseteq RunKind

VARIABLES
  log,     \* the events table in order of arrival
  flight,  \* events sent and not yet stored
  sent,    \* number of events sent
  last,    \* per run: the sequence number used last
  seen     \* per run and item: the revision read last, 0 for none

vars == <<log, flight, sent, last, seen>>

\* An event is a record of its id, run, sequence, time, kind, item (a set),
\* revision (data.feed_item.revision or data.feed_item_revision) and sources; its
\* content is its id.  Kinds of the run have no item.
Table == DOMAIN log
Arrived == {log[i] : i \in Table}

-----------------------------------------------------------------------------
(* Reading.                                                                *)

\* compareEventOrder
Before(d, e) ==
  \/ d.sequence < e.sequence
  \/ d.sequence = e.sequence /\ d.time < e.time
  \/ d.sequence = e.sequence /\ d.time = e.time /\ d.id < e.id

\* mutant: revisions in the order of the events
RevisionBeforeByEvent(d, e) == Before(d, e)

RevisionBefore(d, e) == d.revision < e.revision \/ (d.revision = e.revision /\ Before(d, e))

\* Which row comes before which: what a sort does not tell apart stays as it
\* arrived.  A reduction of sorted rows ends with what the last of them makes
\* of the reduction of the others.
Ahead(i, j) == Before(log[i], log[j]) \/ (~Before(log[j], log[i]) /\ i < j)
RevisionAhead(i, j) ==
  RevisionBefore(log[i], log[j]) \/ (~RevisionBefore(log[j], log[i]) /\ i < j)

Latest(rows) == CHOOSE i \in rows : \A j \in rows \ {i} : Ahead(j, i)
LatestRevision(rows) == CHOOSE i \in rows : \A j \in rows \ {i} : RevisionAhead(j, i)
EarliestRevision(rows) == CHOOSE i \in rows : \A j \in rows \ {i} : RevisionAhead(i, j)

\* listEvents: ORDER BY sequence, occurred_at, canonical_event_id LIMIT.
Listed(rows) == {i \in rows : Cardinality({j \in rows \ {i} : Ahead(j, i)}) < MaxRead}

\* listRunEvents
OfRun(r) == Listed({i \in Table : log[i].run = r})

\* latestRunStatus
StatusAfter(status, e) ==
  CASE e.kind \in FeedKind \cup {"run.started", "feedback.recorded"} -> "running"
    [] e.kind = "action.proposed" -> "awaiting_approval"
    [] e.kind = "run.partial" -> "partial"
    [] e.kind = "run.completed" -> "completed"
    [] e.kind = "run.failed" -> "failed"
    [] OTHER -> status

\* projectRun
RunStatus(r) ==
  LET rows == OfRun(r)
      status[S \in SUBSET rows] ==
        IF S = {} THEN "pending" ELSE StatusAfter(status[S \ {Latest(S)}], log[Latest(S)])
  IN status[rows]

Revisions(rows, f) == {i \in rows : f \in log[i].item /\ log[i].kind # "feed.item.withdrawn"}
Publications(rows, f) == {i \in Revisions(rows, f) : log[i].kind = "feed.item.published"}

\* mutant: only the run that published an item may revise it
ApplyOwnRun(payload, e) ==
  IF /\ e.kind = "feed.item.updated" /\ e.revision = payload.revision + 1
     /\ e.run = payload.run
  THEN e ELSE payload

\* The payload is the event that carries it; validation makes the previous
\* revision of an update one less than its revision.
Apply(payload, e) ==
  IF e.kind = "feed.item.updated" /\ e.revision = payload.revision + 1 THEN e ELSE payload

Withdrawn(rows, f, revision) ==
  \E i \in rows : /\ log[i].kind = "feed.item.withdrawn"
                  /\ f \in log[i].item /\ log[i].revision = revision

\* The event that projectCanonicalFeedItems ends with for f, as a set: empty
\* when nothing published f.
Current(rows, f) ==
  LET published == Publications(rows, f)
      revisions == Revisions(rows, f)
      payload[S \in SUBSET revisions] ==
        IF S = {} THEN log[EarliestRevision(published)]
        ELSE Apply(payload[S \ {LatestRevision(S)}], log[LatestRevision(S)])
  IN IF published = {} THEN {} ELSE {payload[revisions]}

\* The items of projectFeedItems with the event each one shows.
Feed(rows) ==
  UNION {{[item |-> f, shown |-> p] :
            p \in {q \in Current(rows, f) : ~Withdrawn(rows, f, q.revision)}} : f \in Item}

\* projectSources: who described a source last, and who ever cited it.
Describe(sources, e) ==
  [s \in Source |->
     IF s \notin e.sources THEN sources[s]
     ELSE [last |-> {e.id}, events |-> sources[s].events \cup {e.id},
           runs |-> sources[s].runs \cup {e.run}]]

SourceItems(rows) ==
  LET sources[S \in SUBSET rows] ==
        IF S = {} THEN [s \in Source |-> [last |-> {}, events |-> {}, runs |-> {}]]
        ELSE Describe(sources[S \ {Latest(S)}], log[Latest(S)])
  IN sources[rows]

-----------------------------------------------------------------------------
(* Writing.                                                                *)

Init ==
  /\ log = <<>> /\ flight = {} /\ sent = 0
  /\ last = [r \in Run |-> 0]
  /\ seen = [r \in Run |-> [f \in Item |-> 0]]

\* The agent numbers its events in order.
Send(r, kind, item, revision, sources) ==
  /\ sent < MaxSent
  /\ sent' = sent + 1
  /\ last' = [last EXCEPT ![r] = @ + 1]
  /\ \E t \in Times :
       flight' = flight \cup {[id |-> sent + 1, run |-> r, sequence |-> last[r] + 1, time |-> t,
                               kind |-> kind, item |-> item, revision |-> revision,
                               sources |-> sources]}
  /\ UNCHANGED <<log, seen>>

\* publishFeedItem, updateFeedItem and withdrawFeedItem of the bridge.
Publish(r, f) == \E S \in SUBSET Source : Send(r, "feed.item.published", {f}, 1, S)
Update(r, f) ==
  seen[r][f] > 0 /\ \E S \in SUBSET Source : Send(r, "feed.item.updated", {f}, seen[r][f] + 1, S)
Withdraw(r, f) ==
  seen[r][f] > 0 /\ Send(r, "feed.item.withdrawn", {f}, seen[r][f], {})

Report(r) == \E k \in Kind : Send(r, k, {}, 0, {})

\* list_feed
Read(r) ==
  LET shown == Feed(Listed(Table)) IN
  /\ seen' = [seen EXCEPT ![r] =
       [f \in Item |-> IF \E i \in shown : i.item = f
                       THEN (CHOOSE i \in shown : i.item = f).shown.revision ELSE 0]]
  /\ seen' # seen
  /\ UNCHANGED <<log, flight, sent, last>>

\* HubIngest: each event is stored once, whenever it gets in.
Store(e) ==
  /\ e \in flight
  /\ flight' = flight \ {e}
  /\ log' = Append(log, e)
  /\ UNCHANGED <<sent, last, seen>>

Next ==
  \/ \E r \in Run : Report(r) \/ Read(r) \/ \E f \in Item : Publish(r, f) \/ Update(r, f) \/ Withdraw(r, f)
  \/ \E e \in flight : Store(e)

Spec == Init /\ [][Next]_vars

-----------------------------------------------------------------------------
(* Properties.                                                             *)

\* What the readers see is a function of the set of stored events, defined
\* here without an order of arrival ("late events do not depend on arrival
\* order").  A run is where its last known event put it; an item is at the
\* end of the longest chain of updates from revision 1, the first of
\* several updates to a revision counting; a source is as its last citer
\* described it.  All of it while the log fits a single read.
First(S) == {d \in S : \A e \in S \ {d} : Before(d, e)}
Final(S) == {d \in S : \A e \in S \ {d} : Before(e, d)}

StatusOf(S) ==
  LET known == {e \in S : e.kind # "unknown"}
  IN IF known = {} THEN "pending" ELSE StatusAfter("pending", CHOOSE e \in Final(known) : TRUE)

ItemOf(S, f) ==
  LET At(n) == {e \in S : f \in e.item /\ e.revision = n
                          /\ e.kind = IF n = 1 THEN "feed.item.published" ELSE "feed.item.updated"}
      reached == {n \in Numbers : \A m \in 1..n : At(m) # {}}
      top == {n \in reached : n + 1 \notin reached}
      withdrawn == {n \in top : \E e \in S : e.kind = "feed.item.withdrawn"
                                             /\ f \in e.item /\ e.revision = n}
  IN UNION {First(At(n)) : n \in top \ withdrawn}

ArrivalOrderIsIrrelevant ==
  Len(log) <= MaxRead =>
    /\ \A r \in Run : RunStatus(r) = StatusOf({e \in Arrived : e.run = r})
    /\ \A f \in Item : {i.shown : i \in {j \in Feed(Listed(Table)) : j.item = f}} = ItemOf(Arrived, f)
    /\ \A s \in Source :
         SourceItems(Listed(Table))[s].last = {e.id : e \in Final({d \in Arrived : s \in d.sources})}

\* A late event may extend what an item went through but never takes the
\* item back to an earlier revision, also while it is hidden.
Regressed ==
  /\ log' # log /\ Len(log') <= MaxRead
  /\ \E f \in Item : \E p \in Current(Listed(Table), f) :
       \A q \in Current(Listed(Table), f)' : q.revision < p.revision
RevisionsNeverRegress == [][~Regressed]_vars
=============================================================================
