----------------------------- MODULE HubIngest ------------------------------
(***************************************************************************)
(* POST /v1/events from the tool call of an agent to the events table.     *)
(*                                                                         *)
(* A producer turns a call into a signed post and waits for the answer; a  *)
(* post that is lost, answered late or refused makes it call again, with a *)
(* new post.  Posts may be delivered in any order and more than once.  The *)
(* hub handles any number of posts at a time, and a handler meets the      *)
(* database in separate statements: the nonce batch, the lookup, INSERT OR *)
(* IGNORE and the second lookup.  A statement can fail with or without its *)
(* effect and a handler can be evicted between any two.                    *)
(***************************************************************************)
EXTENDS Naturals

CONSTANTS
  Call,            \* tool calls of the agents, each made once or retried
  ConnOf, KeyOf, BodyOf,  \* connection, idempotency key and content of a call
  EventId(_, _),   \* the event id that the n-th post of a call carries
  Id,              \* all event ids
  Malformed,       \* contents that parseAfiEvent refuses
  Worker,          \* requests the hub handles at a time
  NoPost,          \* the post of an idle worker
  Window,          \* replayWindowSeconds
  Crowd,           \* which calls meet in one behaviour
  MaxNow,          \* bound on the clock while each crowd is at work
  Tries, MaxTries, \* bounds on the posts of each and of any call
  MaxFaults        \* bound on lost answers, redeliveries, failures, evictions

ASSUME IngestAssumption ==
  /\ Crowd \subseteq SUBSET Call /\ MaxNow \in [Crowd -> Nat]
  /\ {Window, MaxTries, MaxFaults} \subseteq Nat
  /\ Tries \in [Call -> 0..MaxTries]
  /\ \A c \in Call, n \in 1..MaxTries : EventId(c, n) \in Id

VARIABLES
  crowd,    \* the calls of this behaviour
  now,      \* the hub's clock
  calls,    \* per call: posts made so far and what the producer knows
  posts,    \* posts made; delivery leaves them in place
  taken,    \* posts delivered at least once
  worker,   \* per worker: step, post, and the clock when the request came in
  nonces,   \* the ingest_nonces table
  claims,   \* history: nonces accepted, with the arrival time of their request
  rows,     \* the events table
  answers,  \* history: [post, outcome, record], record as a set of rows
  faults

client == <<crowd, calls, posts>>
hub == <<worker, nonces, claims, rows>>
vars == <<crowd, now, calls, posts, taken, worker, nonces, claims, rows, answers, faults>>

\* The signed event: HubClient.envelope, or an adapter that keeps its ids.
Signed(c, n) == [id |-> EventId(c, n), conn |-> ConnOf[c], key |-> KeyOf[c], body |-> BodyOf[c]]
EventOf(p) == Signed(p.call, p.nth)
Event == {Signed(c, n) : c \in Call, n \in 1..MaxTries}

Accepted == {"inserted", "duplicate"}

Nonce(p) == <<p.call, p.nth>>

Idle == [step |-> "idle", post |-> NoPost, at |-> 0]

Init ==
  /\ crowd \in Crowd
  /\ now = 0
  /\ calls = [c \in Call |-> [tries |-> 0, status |-> "idle"]]
  /\ worker = [w \in Worker |-> Idle]
  /\ posts = {} /\ taken = {} /\ nonces = {} /\ claims = {}
  /\ rows = {} /\ answers = {} /\ faults = 0

Fault == faults < MaxFaults /\ faults' = faults + 1

-----------------------------------------------------------------------------
(* The producer.                                                           *)

\* HubClient.publish: a new nonce and timestamp every time.
Publish(c) ==
  /\ c \in crowd /\ calls[c].status \in {"idle", "failed"}
  /\ calls[c].tries < Tries[c]
  /\ calls' = [calls EXCEPT ![c] = [tries |-> @.tries + 1, status |-> "waiting"]]
  /\ posts' = posts \cup {[call |-> c, nth |-> calls[c].tries + 1, sent |-> now]}
  /\ UNCHANGED <<crowd, now, taken, hub, answers, faults>>

Current(c, p) == p.call = c /\ p.nth = calls[c].tries

\* HubClient.parse: anything but a 2xx status is thrown at the agent.
Hear(c) ==
  /\ calls[c].status = "waiting"
  /\ \E a \in answers :
       /\ Current(c, a.post)
       /\ calls' = [calls EXCEPT ![c].status =
                      IF a.outcome \in Accepted THEN "accepted" ELSE "failed"]
  /\ UNCHANGED <<crowd, now, posts, taken, hub, answers, faults>>

\* fetch rejects: the post or its answer was lost, or took too long.
Lose(c) ==
  /\ calls[c].status = "waiting"
  /\ calls' = [calls EXCEPT ![c].status = "failed"]
  /\ Fault
  /\ UNCHANGED <<crowd, now, posts, taken, hub, answers>>

\* fetch rejects: the handler of the post was evicted.
Disconnect(c) ==
  /\ calls[c].status = "waiting"
  /\ \E p \in taken : Current(c, p)
  /\ \A w \in Worker : worker[w].step # "idle" => ~Current(c, worker[w].post)
  /\ \A a \in answers : ~Current(c, a.post)
  /\ calls' = [calls EXCEPT ![c].status = "failed"]
  /\ UNCHANGED <<crowd, now, posts, taken, hub, answers, faults>>

-----------------------------------------------------------------------------
(* The hub.                                                                *)

Respond(w, outcome, record) ==
  /\ worker' = [worker EXCEPT ![w] = Idle]
  /\ answers' = answers \cup {[post |-> worker[w].post, outcome |-> outcome, record |-> record]}

Goto(w, step) == worker' = [worker EXCEPT ![w].step = step] /\ UNCHANGED answers

\* assertTimestampInWindow.  The producer's clock is the hub's.
Fresh(p) == now - p.sent <= Window

\* ingest, to the nonce; the clock is read here, before the body arrives.
Receive(w, p) ==
  /\ worker[w] = Idle
  /\ IF p \in taken THEN Fault ELSE UNCHANGED faults
  /\ taken' = taken \cup {p}
  /\ IF ~Fresh(p)
       THEN /\ answers' = answers \cup {[post |-> p, outcome |-> "stale", record |-> {}]}
            /\ UNCHANGED worker
       ELSE /\ worker' = [worker EXCEPT ![w] = [step |-> "claim", post |-> p, at |-> now]]
            /\ UNCHANGED answers
  /\ UNCHANGED <<now, client, nonces, claims, rows>>

\* mutant: a nonce is dropped at the last instant of its window
UnexpiredStrict(at) == {n \in nonces : n.expires > at}

Unexpired(at) == {n \in nonces : n.expires >= at}

\* claimNonce: clean up and insert or ignore, in one batch.
ClaimRows(w) ==
  LET h == worker[w]
      fresh == \A n \in Unexpired(h.at) : n.nonce # Nonce(h.post)
  IN nonces' = Unexpired(h.at) \cup
       (IF fresh THEN {[nonce |-> Nonce(h.post), expires |-> h.at + Window]} ELSE {})

Claim(w) ==
  /\ worker[w].step = "claim"
  /\ ClaimRows(w)
  /\ LET h == worker[w] IN
       IF \E n \in Unexpired(h.at) : n.nonce = Nonce(h.post)
         THEN Respond(w, "replay", {}) /\ UNCHANGED claims
         ELSE /\ claims' = claims \cup {[nonce |-> Nonce(h.post), at |-> h.at]}
              /\ IF BodyOf[h.post.call] \in Malformed
                   THEN Respond(w, "invalid", {})
                   ELSE Goto(w, "lookup")
  /\ UNCHANGED <<now, client, taken, rows, faults>>

\* mutant: received_at takes part in the comparison
VerdictWithReceipt(e, r) == "conflict"

\* mutant: the key decides alone
VerdictByKey(e, r) == IF r.key = e.key THEN "duplicate" ELSE "conflict"

\* duplicateResult
Verdict(e, r) ==
  IF r = e \/ (r.key # e.key /\ [r EXCEPT !.key = e.key] = e) THEN "duplicate" ELSE "conflict"

\* findExisting: by key or id on the connection, the key's row first.
Existing(e) ==
  LET matches == {r \in rows : r.conn = e.conn /\ (r.key = e.key \/ r.id = e.id)}
  IN {r \in matches : r.key = e.key \/ \A s \in matches : s.key # e.key}

\* mutant: the table has no unique idempotency key
ClashingIds(e) == {r \in rows : r.id = e.id}

\* PRIMARY KEY (canonical_event_id), UNIQUE (connection_id, idempotency_key)
\* and UNIQUE (connection_id, external_event_id)
Clashing(e) ==
  {r \in rows : r.id = e.id \/ (r.conn = e.conn /\ (r.key = e.key \/ r.id = e.id))}

Lookup(w) ==
  LET e == EventOf(worker[w].post) IN
  /\ worker[w].step = "lookup"
  /\ IF Existing(e) = {}
       THEN Goto(w, "insert")
       ELSE \E r \in Existing(e) : Respond(w, Verdict(e, r), {r})
  /\ UNCHANGED <<now, client, taken, nonces, claims, rows, faults>>

\* INSERT OR IGNORE
InsertRow(e) == rows' = IF Clashing(e) = {} THEN rows \cup {e} ELSE rows

Insert(w) ==
  LET e == EventOf(worker[w].post) IN
  /\ worker[w].step = "insert"
  /\ InsertRow(e)
  /\ IF rows' # rows THEN Respond(w, "inserted", {e}) ELSE Goto(w, "relookup")
  /\ UNCHANGED <<now, client, taken, nonces, claims, faults>>

\* The row that blocked the insert is not found: a throw, answered with 500.
Relookup(w) ==
  LET e == EventOf(worker[w].post) IN
  /\ worker[w].step = "relookup"
  /\ IF Existing(e) = {}
       THEN Respond(w, "error", {})
       ELSE \E r \in Existing(e) : Respond(w, Verdict(e, r), {r})
  /\ UNCHANGED <<now, client, taken, nonces, claims, rows, faults>>

\* A statement throws, with its effect or without: 500.
StoreFails(w) ==
  /\ worker[w].step # "idle"
  /\ Fault
  /\ Respond(w, "error", {})
  /\ \/ worker[w].step = "claim" /\ ClaimRows(w) /\ UNCHANGED rows
     \/ worker[w].step = "insert" /\ InsertRow(EventOf(worker[w].post)) /\ UNCHANGED nonces
     \/ UNCHANGED <<nonces, rows>>
  /\ UNCHANGED <<now, client, taken, claims>>

\* The isolate that handles the request ends.
Evict(w) ==
  /\ worker[w].step # "idle"
  /\ Fault
  /\ worker' = [worker EXCEPT ![w] = Idle]
  /\ UNCHANGED <<now, client, taken, nonces, claims, rows, answers>>

Tick == now < MaxNow[crowd] /\ now' = now + 1
        /\ UNCHANGED <<client, taken, hub, answers, faults>>

Handle(w) == Claim(w) \/ Lookup(w) \/ Insert(w) \/ Relookup(w)

Next ==
  \/ \E c \in Call : Publish(c) \/ Hear(c) \/ Lose(c) \/ Disconnect(c)
  \/ \E w \in Worker : (\E p \in posts : Receive(w, p)) \/ Handle(w) \/ StoreFails(w) \/ Evict(w)
  \/ Tick

Spec == Init /\ [][Next]_vars

\* The hub answers what reaches it, posts reach it, and producers call again.
Fairness ==
  /\ \A c \in Call : WF_vars(Publish(c)) /\ WF_vars(Hear(c)) /\ WF_vars(Disconnect(c))
  /\ \A c \in Call : \A n \in 1..Tries[c] :
       WF_vars(\E w \in Worker, p \in posts \ taken : Nonce(p) = <<c, n>> /\ Receive(w, p))
  /\ \A w \in Worker : WF_vars(Handle(w))

FairSpec == Spec /\ Fairness

-----------------------------------------------------------------------------
(* Properties.                                                             *)

\* A post answered with 202 has its content in the table, for good, under
\* the id that the answer names (app.ts ingest, D1EventStore.append).
AcceptedIsStored ==
  \A a \in answers : a.outcome \in Accepted =>
    \E r \in rows : /\ a.record = {r}
                    /\ r.conn = ConnOf[a.post.call] /\ r.body = BodyOf[a.post.call]

\* 500 is only answered when the database failed: the insert that is ignored
\* always finds, on the connection, the row that blocked it.
ErrorsNeedFaults == (\E a \in answers : a.outcome = "error") => faults > 0

\* An answer is justified: by the table, or by a fault.
AnswersAreTrue == AcceptedIsStored /\ ErrorsNeedFaults

\* A nonce is accepted again only when more than the replay window has gone
\* by since the request that claimed it first ("a nonce can be claimed only
\* once per key inside that window"), although both read the clock early.
NonceReused ==
  \E c \in claims, w \in Worker :
    /\ worker[w].step = "claim" /\ worker'[w].step = "lookup"
    /\ c.nonce = Nonce(worker[w].post) /\ now <= c.at + Window
NonceWindow == [][~NonceReused]_vars

\* A producer that repeats one envelope until it is accepted, alone on its
\* key and id, is accepted in the end: no failure leaves an event half in.
OwnEnvelope(c) ==
  /\ BodyOf[c] \notin Malformed
  /\ \A n \in 1..MaxTries : EventId(c, n) = EventId(c, 1)
  /\ \A d \in Call \ {c}, n \in 1..MaxTries :
       EventId(d, n) # EventId(c, 1) /\ (ConnOf[d] = ConnOf[c] => KeyOf[d] # KeyOf[c])
EnvelopesGetIn ==
  \A c \in {d \in Call : OwnEnvelope(d) /\ Tries[d] = MaxTries} :
    (c \in crowd) ~> (calls[c].status = "accepted")

\* The handlers' statements add up to the one-step append of the in-memory
\* store, whatever interleaving, failure or eviction happens.
InStore == {"lookup", "insert", "relookup"}
Atomic == INSTANCE EventStore WITH
  open <- {[by |-> w, event |-> EventOf(worker[w].post)] :
             w \in {v \in Worker : worker[v].step \in InStore}},
  given <- {[event |-> EventOf(b[1].post), outcome |-> b[1].outcome, record |-> b[2]] :
              b \in UNION {{a} \X a.record : a \in answers}}
ImplementsEventStore == Atomic!EventStoreSpec
=============================================================================
