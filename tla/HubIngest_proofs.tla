-------------------------- MODULE HubIngest_proofs --------------------------
(***************************************************************************)
(* Proofs about HubIngest, for any calls, connections, keys and contents,  *)
(* any number of workers, any window, and any deliveries, lost answers,    *)
(* failing statements and evictions.                                       *)
(*                                                                         *)
(* Posted is the typing.  The answers need Found besides (what a lookup or *)
(* a blocked insert has met is still in the table), and the nonces need    *)
(* Remembered (a claim's row is in the table for as long as it counts).    *)
(***************************************************************************)
EXTENDS HubIngest, TLAPS

Post == [call : Call, nth : 1..MaxTries, sent : Nat]
WorkerStep == {"idle", "claim", "lookup", "insert", "relookup"}
Receives(w) == \E p \in posts : Receive(w, p)
Outcome == {"inserted", "duplicate", "conflict", "stale", "replay", "invalid", "error"}

Posted ==
  /\ now \in Nat /\ faults \in Nat
  /\ calls \in [Call -> [tries : Nat, status : {"idle", "waiting", "accepted", "failed"}]]
  /\ posts \subseteq Post
  /\ worker \in [Worker -> [step : WorkerStep, post : Post \cup {NoPost}, at : Nat]]
  /\ \A w \in Worker : worker[w].step # "idle" => worker[w].post \in Post /\ worker[w].at <= now
  /\ rows \subseteq Event
  /\ answers \subseteq [post : Post, outcome : Outcome, record : SUBSET Event]
  /\ nonces \subseteq [nonce : Call \X (1..MaxTries), expires : Nat]
  /\ claims \subseteq [nonce : Call \X (1..MaxTries), at : Nat]

-----------------------------------------------------------------------------
(* Posts and events *)

\* A post carries one of the events, and is known by its nonce.
LEMMA PostsCarryEvents ==
  ASSUME NEW p \in Post
  PROVE  /\ EventOf(p) \in Event /\ Nonce(p) \in Call \X (1..MaxTries)
         /\ EventOf(p).conn = ConnOf[p.call] /\ EventOf(p).body = BodyOf[p.call]
         /\ EventOf(p).id = EventId(p.call, p.nth) /\ EventOf(p).key = KeyOf[p.call]
<1>1. p.call \in Call /\ p.nth \in 1..MaxTries
  BY DEF Post
<1> QED
  BY <1>1 DEF EventOf, Event, Signed, Nonce

\* A duplicate has the content and the connection of the event it stands for.
LEMMA DuplicatesAgree ==
  ASSUME NEW e \in Event, NEW r \in Event, Verdict(e, r) = "duplicate"
  PROVE  r.conn = e.conn /\ r.body = e.body
BY DEF Verdict, Event, Signed

LEMMA VerdictIsOutcome == \A e, r : Verdict(e, r) \in {"duplicate", "conflict"}
BY DEF Verdict

LEMMA ExistingAreRows == \A e : Existing(e) \subseteq rows
BY DEF Existing

LEMMA PostedInit == Init => Posted
BY DEF Init, Posted, Idle, WorkerStep

\* A response ends the request and adds an answer.
LEMMA RespondKeeps ==
  ASSUME Posted, NEW w \in Worker, worker[w].step # "idle", NEW o \in Outcome, NEW R \in SUBSET Event,
         Respond(w, o, R)
  PROVE  /\ worker' \in [Worker -> [step : WorkerStep, post : Post \cup {NoPost}, at : Nat]]
         /\ worker'[w] = Idle /\ \A v \in Worker \ {w} : worker'[v] = worker[v]
         /\ answers' = answers \cup {[post |-> worker[w].post, outcome |-> o, record |-> R]}
         /\ answers' \subseteq [post : Post, outcome : Outcome, record : SUBSET Event]
<1>1. worker[w].post \in Post /\ Idle \in [step : WorkerStep, post : Post \cup {NoPost}, at : Nat]
  BY DEF Posted, Idle, WorkerStep
<1>2. [post |-> worker[w].post, outcome |-> o, record |-> R] \in [post : Post, outcome : Outcome, record : SUBSET Event]
  BY <1>1
<1> QED
  BY <1>1, <1>2 DEF Posted, Respond

\* A handler that goes on keeps its post and its clock.
LEMMA GotoKeeps ==
  ASSUME Posted, NEW w \in Worker, NEW s \in WorkerStep, Goto(w, s)
  PROVE  /\ worker' \in [Worker -> [step : WorkerStep, post : Post \cup {NoPost}, at : Nat]]
         /\ worker'[w].step = s /\ worker'[w].post = worker[w].post /\ worker'[w].at = worker[w].at
         /\ \A v \in Worker \ {w} : worker'[v] = worker[v]
         /\ answers' = answers
BY DEF Posted, Goto

LEMMA PostedStep ==
  ASSUME IngestAssumption, Posted, [Next]_vars PROVE Posted'
<1> USE DEF client, hub
<1>1. ASSUME NEW c \in Call, Publish(c) PROVE Posted'
  <2>1. calls[c].tries \in Nat /\ calls[c].tries < Tries[c] /\ Tries[c] \in 0..MaxTries /\ MaxTries \in Nat
    BY <1>1 DEF Publish, Posted, IngestAssumption
  <2>2. calls[c].tries + 1 \in 1..MaxTries
    BY <2>1
  <2>3. posts' \subseteq Post
    BY <1>1, <2>2 DEF Publish, Posted, Post
  <2>4. calls' \in [Call -> [tries : Nat, status : {"idle", "waiting", "accepted", "failed"}]]
    BY <1>1, <2>1 DEF Publish, Posted
  <2> QED
    BY <1>1, <2>3, <2>4 DEF Publish, Posted
<1>2. ASSUME NEW c \in Call, Hear(c) \/ Lose(c) \/ Disconnect(c) PROVE Posted'
  <2>1. calls' \in [Call -> [tries : Nat, status : {"idle", "waiting", "accepted", "failed"}]]
    BY <1>2 DEF Hear, Lose, Disconnect, Posted
  <2>2. faults' \in Nat
    BY <1>2 DEF Hear, Lose, Disconnect, Fault, Posted
  <2> QED
    BY <1>2, <2>1, <2>2 DEF Hear, Lose, Disconnect, Posted
<1>3. ASSUME NEW w \in Worker, NEW p \in posts, Receive(w, p) PROVE Posted'
  <2>1. p \in Post /\ now \in Nat
    BY DEF Posted
  <2>2. faults' \in Nat
    BY <1>3 DEF Receive, Fault, Posted
  <2>3. CASE ~Fresh(p)
    <3>1. [post |-> p, outcome |-> "stale", record |-> {}] \in [post : Post, outcome : Outcome, record : SUBSET Event]
      BY <2>1 DEF Outcome
    <3> QED
      BY <1>3, <2>2, <2>3, <3>1 DEF Receive, Posted
  <2>4. CASE Fresh(p)
    <3>1. worker' = [worker EXCEPT ![w] = [step |-> "claim", post |-> p, at |-> now]] /\ answers' = answers
      BY <1>3, <2>4 DEF Receive
    <3>2. [step |-> "claim", post |-> p, at |-> now] \in [step : WorkerStep, post : Post \cup {NoPost}, at : Nat]
      BY <2>1 DEF WorkerStep
    <3>3. worker' \in [Worker -> [step : WorkerStep, post : Post \cup {NoPost}, at : Nat]]
      BY <3>1, <3>2 DEF Posted
    <3>4. \A v \in Worker : worker'[v].step # "idle" => worker'[v].post \in Post /\ worker'[v].at <= now
      BY <2>1, <3>1 DEF Posted
    <3> QED
      BY <1>3, <2>2, <3>1, <3>3, <3>4 DEF Receive, Posted
  <2> QED
    BY <2>3, <2>4
<1>4. ASSUME NEW w \in Worker, worker[w].step # "idle",
             \/ \E o \in Outcome, R \in SUBSET Event : Respond(w, o, R)
             \/ \E s \in WorkerStep : Goto(w, s)
             \/ worker' = [worker EXCEPT ![w] = Idle] /\ UNCHANGED answers,
             rows' \subseteq Event,
             nonces' \subseteq [nonce : Call \X (1..MaxTries), expires : Nat],
             claims' \subseteq [nonce : Call \X (1..MaxTries), at : Nat],
             faults' \in Nat, UNCHANGED <<now, calls, posts>>
      PROVE  Posted'
  <2>1. ASSUME NEW o \in Outcome, NEW R \in SUBSET Event, Respond(w, o, R) PROVE Posted'
    BY <1>4, <2>1, RespondKeeps DEF Posted, Idle
  <2>2. ASSUME NEW s \in WorkerStep, Goto(w, s) PROVE Posted'
    BY <1>4, <2>2, GotoKeeps DEF Posted
  <2>3. CASE worker' = [worker EXCEPT ![w] = Idle] /\ UNCHANGED answers
    BY <1>4, <2>3 DEF Posted, Idle, WorkerStep
  <2> QED
    BY <1>4, <2>1, <2>2, <2>3
<1>5. ASSUME NEW w \in Worker, worker[w].step # "idle", ClaimRows(w)
      PROVE  nonces' \subseteq [nonce : Call \X (1..MaxTries), expires : Nat]
  <2>1. Nonce(worker[w].post) \in Call \X (1..MaxTries) /\ worker[w].at + Window \in Nat
    BY <1>5, PostsCarryEvents DEF Posted, IngestAssumption
  <2> QED
    BY <1>5, <2>1 DEF ClaimRows, Unexpired, Posted
<1>6. ASSUME NEW w \in Worker, worker[w].step # "idle", InsertRow(EventOf(worker[w].post))
      PROVE  rows' \subseteq Event
  BY <1>6, PostsCarryEvents DEF InsertRow, Posted
<1>7. ASSUME NEW w \in Worker, Claim(w) PROVE Posted'
  <2>1. worker[w].step # "idle" /\ ClaimRows(w) /\ UNCHANGED <<now, calls, posts, rows, faults>>
    BY <1>7 DEF Claim
  <2>2. claims' \subseteq [nonce : Call \X (1..MaxTries), at : Nat]
    <3>1. [nonce |-> Nonce(worker[w].post), at |-> worker[w].at] \in [nonce : Call \X (1..MaxTries), at : Nat]
      BY <2>1, PostsCarryEvents DEF Posted
    <3> QED
      BY <1>7, <3>1 DEF Claim, Posted
  <2>3. \/ \E o \in Outcome, R \in SUBSET Event : Respond(w, o, R)
        \/ \E s \in WorkerStep : Goto(w, s)
    BY <1>7 DEF Claim, Outcome, WorkerStep
  <2> QED
    BY <1>4, <1>5, <2>1, <2>2, <2>3 DEF Posted
<1>8. ASSUME NEW w \in Worker, Lookup(w) \/ Relookup(w) PROVE Posted'
  <2>1. worker[w].step # "idle" /\ UNCHANGED <<now, calls, posts, rows, nonces, claims, faults>>
    BY <1>8 DEF Lookup, Relookup
  <2>2. \/ \E o \in Outcome, R \in SUBSET Event : Respond(w, o, R)
        \/ \E s \in WorkerStep : Goto(w, s)
    <3> DEFINE e == EventOf(worker[w].post)
    <3>1. ASSUME NEW r \in Existing(e), Respond(w, Verdict(e, r), {r})
          PROVE  \E o \in Outcome, R \in SUBSET Event : Respond(w, o, R)
      <4>1. Verdict(e, r) \in Outcome /\ {r} \in SUBSET Event
        BY VerdictIsOutcome, ExistingAreRows DEF Outcome, Posted
      <4> QED
        BY <3>1, <4>1
    <3>2. "error" \in Outcome /\ {} \in SUBSET Event /\ "insert" \in WorkerStep
      BY DEF Outcome, WorkerStep
    <3> QED
      BY <1>8, <3>1, <3>2 DEF Lookup, Relookup
  <2> QED
    BY <1>4, <2>1, <2>2 DEF Posted
<1>9. ASSUME NEW w \in Worker, Insert(w) PROVE Posted'
  <2>1. worker[w].step # "idle" /\ InsertRow(EventOf(worker[w].post))
          /\ UNCHANGED <<now, calls, posts, nonces, claims, faults>>
    BY <1>9 DEF Insert
  <2>2. {EventOf(worker[w].post)} \in SUBSET Event /\ "inserted" \in Outcome /\ "relookup" \in WorkerStep
    BY <2>1, PostsCarryEvents DEF Posted, Outcome, WorkerStep
  <2>3. \/ \E o \in Outcome, R \in SUBSET Event : Respond(w, o, R)
        \/ \E s \in WorkerStep : Goto(w, s)
    BY <1>9, <2>2 DEF Insert
  <2> QED
    BY <1>4, <1>6, <2>1, <2>3 DEF Posted
<1>10. ASSUME NEW w \in Worker, StoreFails(w) PROVE Posted'
  <2>1. worker[w].step # "idle" /\ Respond(w, "error", {}) /\ UNCHANGED <<now, calls, posts, claims>>
    BY <1>10 DEF StoreFails
  <2>2. faults' \in Nat
    BY <1>10 DEF StoreFails, Fault, Posted
  <2>3. rows' \subseteq Event /\ nonces' \subseteq [nonce : Call \X (1..MaxTries), expires : Nat]
    BY <1>5, <1>6, <1>10, <2>1 DEF StoreFails, Posted
  <2>4. "error" \in Outcome /\ {} \in SUBSET Event
    BY DEF Outcome
  <2> QED
    BY <1>4, <2>1, <2>2, <2>3, <2>4 DEF Posted
<1>11. ASSUME NEW w \in Worker, Evict(w) PROVE Posted'
  <2>1. faults' \in Nat
    BY <1>11 DEF Evict, Fault, Posted
  <2> QED
    BY <1>4, <1>11, <2>1 DEF Evict, Posted
<1>12. CASE Tick
  BY <1>12 DEF Tick, Posted
<1>13. CASE UNCHANGED vars
  BY <1>13 DEF vars, Posted
<1> QED
  BY <1>1, <1>2, <1>3, <1>7, <1>8, <1>9, <1>10, <1>11, <1>12, <1>13 DEF Next, Handle

-----------------------------------------------------------------------------
(* Answers *)

\* What has an id in common with e is on the connection of e.
Matching(e) == {r \in rows : r.conn = e.conn /\ (r.key = e.key \/ r.id = e.id)}

\* Ids are the producers' UUIDs: no two connections choose the same one.  The
\* schema takes the id alone as its primary key, and an insert that met another
\* connection's row would be answered with 500 although nothing had failed.
IdsApart ==
  \A c, d \in Call, n, m \in 1..MaxTries : EventId(c, n) = EventId(d, m) => ConnOf[c] = ConnOf[d]

Found ==
  /\ AcceptedIsStored
  /\ IdsApart => /\ ErrorsNeedFaults
                 /\ \A w \in Worker : worker[w].step = "relookup" => Matching(EventOf(worker[w].post)) # {}

\* findExisting returns a row whenever one holds the key or the id.
LEMMA ExistingIfMatching ==
  ASSUME NEW e, Matching(e) # {} PROVE Existing(e) # {}
<1>1. PICK r \in Matching(e) : TRUE
  OBVIOUS
<1>2. CASE r.key = e.key
  BY <1>1, <1>2 DEF Matching, Existing
<1>3. CASE \A s \in Matching(e) : s.key # e.key
  BY <1>1, <1>3 DEF Matching, Existing
<1>4. CASE \E s \in Matching(e) : s.key = e.key
  BY <1>4 DEF Matching, Existing
<1> QED
  BY <1>3, <1>4

\* With ids apart, whatever blocks an insert is on the event's own connection.
LEMMA BlockersMatch ==
  ASSUME Posted, IdsApart, NEW e \in Event, Clashing(e) # {} PROVE Matching(e) # {}
<1>1. PICK r \in rows : r.id = e.id \/ (r.conn = e.conn /\ (r.key = e.key \/ r.id = e.id))
  BY DEF Clashing
<1>2. PICK c \in Call, n \in 1..MaxTries : e = Signed(c, n)
  BY DEF Event
<1>3. PICK d \in Call, m \in 1..MaxTries : r = Signed(d, m)
  BY DEF Event, Posted
<1>4. r.id = e.id => r.conn = e.conn
  BY <1>2, <1>3 DEF IdsApart, Signed
<1> QED
  BY <1>1, <1>4 DEF Matching

\* Rows are never removed or changed.
LEMMA RowsGrow == ASSUME [Next]_vars PROVE rows \subseteq rows'
BY DEF Next, Publish, Hear, Lose, Disconnect, Receive, Handle, Claim, Lookup, Insert, Relookup,
       StoreFails, InsertRow, Evict, Tick, client, hub, vars

\* An answer that is no acceptance and no error, or that a row or a fault stands behind.
Justified(a) ==
  /\ a.outcome \in Accepted => \E r \in rows' : /\ a.record = {r} /\ r.conn = ConnOf[a.post.call]
                                               /\ r.body = BodyOf[a.post.call]
  /\ IdsApart /\ a.outcome = "error" => faults' > 0

LEMMA FoundInit == Init => Found
BY DEF Init, Found, AcceptedIsStored, ErrorsNeedFaults, Idle

\* Every answer that a step adds is justified.
LEMMA AnswersJustified ==
  ASSUME Posted, Found, [Next]_vars, NEW a \in answers' \ answers PROVE Justified(a)
<1> USE DEF client, hub
<1>1. ASSUME NEW w \in Worker, NEW p \in posts, Receive(w, p) PROVE Justified(a)
  BY <1>1 DEF Receive, Justified, Accepted
<1>2. ASSUME NEW w \in Worker, Claim(w) PROVE Justified(a)
  BY <1>2 DEF Claim, Respond, Goto, Justified, Accepted
<1>3. ASSUME NEW w \in Worker, Lookup(w) \/ Relookup(w) PROVE Justified(a)
  <2> DEFINE e == EventOf(worker[w].post)
  <2>1. worker[w].post \in Post /\ rows' = rows
    BY <1>3 DEF Lookup, Relookup, Posted
  <2>2. ASSUME NEW r \in Existing(e), a = [post |-> worker[w].post, outcome |-> Verdict(e, r), record |-> {r}]
        PROVE  Justified(a)
    <3>1. r \in rows /\ r \in Event /\ e \in Event
      BY <2>1, ExistingAreRows, PostsCarryEvents DEF Posted
    <3>2. Verdict(e, r) # "error" /\ Verdict(e, r) # "inserted"
      BY VerdictIsOutcome
    <3>3. Verdict(e, r) = "duplicate" => r.conn = ConnOf[worker[w].post.call] /\ r.body = BodyOf[worker[w].post.call]
      BY <2>1, <3>1, DuplicatesAgree, PostsCarryEvents
    <3> QED
      BY <2>1, <2>2, <3>1, <3>2, <3>3 DEF Justified, Accepted
  <2>3. CASE worker[w].step = "relookup" /\ Existing(e) = {}
    <3>1. ~IdsApart
      BY <2>3, ExistingIfMatching DEF Found
    <3>2. a.outcome = "error"
      BY <1>3, <2>3 DEF Lookup, Relookup, Respond
    <3> QED
      BY <3>1, <3>2 DEF Justified, Accepted
  <2> QED
    BY <1>3, <2>2, <2>3 DEF Lookup, Relookup, Respond, Goto
<1>4. ASSUME NEW w \in Worker, Insert(w) PROVE Justified(a)
  <2> DEFINE e == EventOf(worker[w].post)
  <2>1. worker[w].post \in Post
    BY <1>4 DEF Insert, Posted
  <2>2. a = [post |-> worker[w].post, outcome |-> "inserted", record |-> {e}] /\ e \in rows'
    BY <1>4 DEF Insert, InsertRow, Respond, Goto
  <2> QED
    BY <2>1, <2>2, PostsCarryEvents DEF Justified, Accepted
<1>5. ASSUME NEW w \in Worker, StoreFails(w) PROVE Justified(a)
  <2>1. faults' > 0
    BY <1>5 DEF StoreFails, Fault, Posted
  <2> QED
    BY <1>5, <2>1 DEF StoreFails, Respond, Justified, Accepted
<1> QED
  BY <1>1, <1>2, <1>3, <1>4, <1>5 DEF Next, Handle, Publish, Hear, Lose, Disconnect, Evict, Tick, vars

\* A fault is counted, and never forgotten.
LEMMA FaultsGrow == ASSUME Posted, [Next]_vars PROVE faults' \in Nat /\ faults' >= faults
<1>0. faults \in Nat
  BY DEF Posted
<1>1. faults' = faults \/ faults' = faults + 1
  BY DEF Next, Publish, Hear, Lose, Disconnect, Receive, Handle, Claim, Lookup, Insert, Relookup,
         StoreFails, Evict, Tick, Fault, vars
<1> QED
  BY <1>0, <1>1

\* A handler moves in a step of its own.
LEMMA OneHandlerMoves ==
  ASSUME Posted, [Next]_vars, NEW w \in Worker, worker'[w] # worker[w]
  PROVE  (\E p \in posts : Receive(w, p)) \/ Handle(w) \/ StoreFails(w) \/ Evict(w)
<1>1. ASSUME NEW v \in Worker, Receives(v) \/ Handle(v) \/ StoreFails(v) \/ Evict(v) PROVE v = w
  <2>1. \E x : worker' = [worker EXCEPT ![v] = x]
    <3>1. CASE Receives(v)
      BY <3>1 DEF Receives, Receive
    <3>2. CASE Handle(v)
      BY <3>2 DEF Handle, Claim, Lookup, Insert, Relookup, Respond, Goto
    <3>3. CASE StoreFails(v) \/ Evict(v)
      BY <3>3 DEF StoreFails, Evict, Respond
    <3> QED
      BY <1>1, <3>1, <3>2, <3>3
  <2> QED
    BY <2>1 DEF Posted
<1>2. \E v \in Worker : Receives(v) \/ Handle(v) \/ StoreFails(v) \/ Evict(v)
  BY DEF Next, Receives, Publish, Hear, Lose, Disconnect, Tick, client, hub, vars
<1> QED
  BY <1>1, <1>2 DEF Receives

LEMMA FoundStep ==
  ASSUME Posted, Found, [Next]_vars, Posted' PROVE Found'
<1> USE DEF client, hub
<1>1. rows \subseteq rows' /\ \A a \in answers' \ answers : Justified(a)
  BY RowsGrow, AnswersJustified
<1>2. AcceptedIsStored'
  BY <1>1 DEF Found, AcceptedIsStored, Justified
<1>3. faults \in Nat /\ faults' \in Nat /\ faults' >= faults
  BY FaultsGrow DEF Posted
<1>4. IdsApart => ErrorsNeedFaults'
  BY <1>1, <1>3 DEF Found, ErrorsNeedFaults, Justified
<1>5. ASSUME IdsApart, NEW w \in Worker, worker'[w].step = "relookup"
      PROVE  Matching(EventOf(worker[w].post))' # {}
  <2>1. CASE worker[w].step = "relookup" /\ worker'[w].post = worker[w].post
    BY <1>1, <1>5, <2>1 DEF Found, Matching, EventOf, Signed
  <2>2. CASE Insert(w)
    <3> DEFINE e == EventOf(worker[w].post)
    <3>1. e \in Event /\ worker[w].post \in Post
      BY <2>2, PostsCarryEvents DEF Insert, Posted
    <3>2. rows' = rows /\ worker'[w].post = worker[w].post
      BY <1>5, <2>2 DEF Insert, Respond, Goto, Posted, Idle
    <3>3. Clashing(e) # {}
      BY <1>5, <2>2, <3>2 DEF Insert, InsertRow, Respond, Idle, Posted, Clashing
    <3>4. Matching(e) # {}
      BY <1>5, <3>1, <3>3, BlockersMatch
    <3> QED
      BY <3>2, <3>4 DEF Matching, EventOf, Signed
  <2>3. (worker[w].step = "relookup" /\ worker'[w].post = worker[w].post) \/ Insert(w)
    <3>1. CASE worker'[w] = worker[w]
      BY <1>5, <3>1
    <3>2. CASE worker'[w] # worker[w]
      <4>1. \/ \E p \in posts : Receive(w, p)
            \/ Handle(w) \/ StoreFails(w) \/ Evict(w)
        BY <3>2, OneHandlerMoves
      <4> QED
        BY <1>5, <4>1 DEF Posted, Receive, Handle, Claim, Lookup, Relookup, StoreFails, Evict, Respond, Goto, Idle
    <3> QED
      BY <3>1, <3>2
  <2> QED
    BY <2>1, <2>2, <2>3
<1> QED
  BY <1>2, <1>4, <1>5 DEF Found, IdsApart

\* A post answered with 202 has its content in the table; with ids apart, 500 is
\* answered only when a statement has failed.
THEOREM AnswersAreAlwaysTrue ==
  ASSUME IngestAssumption, IdsApart PROVE Spec => []AnswersAreTrue
<1>1. Spec => [](Posted /\ Found)
  BY PostedInit, PostedStep, FoundInit, FoundStep, PTL DEF Spec
<1>2. Posted /\ Found => AnswersAreTrue
  BY DEF Found, AnswersAreTrue
<1> QED
  BY <1>1, <1>2, PTL

\* The first half needs nothing of the ids.
THEOREM AcceptedIsAlwaysStored ==
  ASSUME IngestAssumption PROVE Spec => []AcceptedIsStored
<1>1. Spec => [](Posted /\ Found)
  BY PostedInit, PostedStep, FoundInit, FoundStep, PTL DEF Spec
<1>2. Posted /\ Found => AcceptedIsStored
  BY DEF Found
<1> QED
  BY <1>1, <1>2, PTL

-----------------------------------------------------------------------------
(* Nonces *)

\* While a claim counts, its row is in the table.
Remembered ==
  \A c \in claims :
    \/ now > c.at + Window
    \/ \E n \in nonces : n.nonce = c.nonce /\ n.expires = c.at + Window

LEMMA RememberedInit == Init => Remembered
BY DEF Init, Remembered

\* A clean-up removes only rows whose window has passed by the hub's clock.
LEMMA UnexpiredStay ==
  ASSUME IngestAssumption, Posted, NEW w \in Worker, worker[w].step = "claim", NEW c \in claims,
         NEW n \in nonces, n.nonce = c.nonce, n.expires = c.at + Window, now <= c.at + Window
  PROVE  n \in Unexpired(worker[w].at)
<1>1. worker[w].at \in Nat /\ worker[w].at <= now /\ now \in Nat /\ c.at \in Nat /\ Window \in Nat
  BY DEF Posted, IngestAssumption
<1> QED
  BY <1>1 DEF Unexpired

LEMMA RememberedStep ==
  ASSUME IngestAssumption, Posted, Remembered, [Next]_vars PROVE Remembered'
<1> USE DEF client, hub
<1>0. now \in Nat /\ Window \in Nat /\ \A c \in claims : c.at \in Nat
  BY DEF Posted, IngestAssumption
<1>1. ASSUME NEW w \in Worker, worker[w].step = "claim", ClaimRows(w), now' = now, NEW c \in claims
      PROVE  now' > c.at + Window \/ \E n \in nonces' : n.nonce = c.nonce /\ n.expires = c.at + Window
  <2>1. CASE now > c.at + Window
    BY <1>1, <2>1
  <2>2. CASE now <= c.at + Window
    <3>1. PICK n \in nonces : n.nonce = c.nonce /\ n.expires = c.at + Window
      BY <1>0, <2>2 DEF Remembered
    <3>2. n \in Unexpired(worker[w].at)
      BY <1>1, <2>2, <3>1, UnexpiredStay
    <3> QED
      BY <1>1, <3>1, <3>2 DEF ClaimRows
  <2> QED
    BY <1>0, <2>1, <2>2
<1>2. ASSUME NEW w \in Worker, Claim(w) PROVE Remembered'
  <2> DEFINE h == worker[w]
  <2>1. h.step = "claim" /\ ClaimRows(w) /\ now' = now
    BY <1>2 DEF Claim
  <2>2. ASSUME NEW c \in claims' \ claims
        PROVE  \E n \in nonces' : n.nonce = c.nonce /\ n.expires = c.at + Window
    <3>1. /\ c = [nonce |-> Nonce(h.post), at |-> h.at]
          /\ \A n \in Unexpired(h.at) : n.nonce # Nonce(h.post)
      BY <1>2 DEF Claim
    <3>2. [nonce |-> Nonce(h.post), expires |-> h.at + Window] \in nonces'
      BY <2>1, <3>1 DEF ClaimRows
    <3> QED
      BY <3>1, <3>2
  <2> QED
    BY <1>1, <2>1, <2>2 DEF Remembered
<1>3. ASSUME NEW w \in Worker, StoreFails(w) PROVE Remembered'
  <2>1. UNCHANGED <<now, claims>> /\ (UNCHANGED nonces \/ (worker[w].step = "claim" /\ ClaimRows(w)))
    BY <1>3 DEF StoreFails
  <2> QED
    BY <1>1, <2>1 DEF Remembered
<1>4. CASE Tick
  BY <1>0, <1>4 DEF Tick, Remembered
<1>5. CASE UNCHANGED <<now, claims, nonces>>
  BY <1>5 DEF Remembered
<1>6. ASSUME NEW w \in Worker, Receives(w) \/ Lookup(w) \/ Insert(w) \/ Relookup(w) \/ Evict(w)
      PROVE  UNCHANGED <<now, claims, nonces>>
  BY <1>6 DEF Receives, Receive, Lookup, Insert, Relookup, Evict
<1>7. ASSUME NEW c \in Call, Publish(c) \/ Hear(c) \/ Lose(c) \/ Disconnect(c)
      PROVE  UNCHANGED <<now, claims, nonces>>
  BY <1>7 DEF Publish, Hear, Lose, Disconnect
<1>8. UNCHANGED vars => UNCHANGED <<now, claims, nonces>>
  BY DEF vars
<1> QED
  BY <1>2, <1>3, <1>4, <1>5, <1>6, <1>7, <1>8 DEF Next, Handle, Receives

\* No handler gets past the nonce check with a nonce that counts.
LEMMA NoncesAreRefused ==
  ASSUME IngestAssumption, Posted, Remembered, [Next]_vars PROVE ~NonceReused
<1> SUFFICES ASSUME NEW c \in claims, NEW w \in Worker,
                    worker[w].step = "claim", worker'[w].step = "lookup",
                    c.nonce = Nonce(worker[w].post), now <= c.at + Window
             PROVE  FALSE
  BY DEF NonceReused
<1>1. now \in Nat /\ Window \in Nat /\ c.at \in Nat
  BY DEF Posted, IngestAssumption
<1>2. PICK n \in nonces : n.nonce = c.nonce /\ n.expires = c.at + Window
  BY <1>1 DEF Remembered
<1>3. n \in Unexpired(worker[w].at)
  BY <1>2, UnexpiredStay
<1>4. Claim(w)
  BY OneHandlerMoves DEF Posted, Receive, Handle, Lookup, Insert, Relookup, StoreFails, Evict, Respond, Idle
<1>5. Respond(w, "replay", {})
  BY <1>2, <1>3, <1>4 DEF Claim
<1> QED
  BY <1>5 DEF Respond, Idle, Posted

\* A nonce is accepted at most once while its window lasts, although both requests
\* read the clock before they reach the table.
THEOREM NoncesCountOnce ==
  ASSUME IngestAssumption PROVE Spec => NonceWindow
<1>1. Spec => [](Posted /\ Remembered)
  BY PostedInit, PostedStep, RememberedInit, RememberedStep, PTL DEF Spec
<1>2. Posted /\ Remembered /\ [Next]_vars => [~NonceReused]_vars
  BY NoncesAreRefused
<1> QED
  BY <1>1, <1>2, PTL DEF Spec, NonceWindow

-----------------------------------------------------------------------------
(* The handlers' statements as one append *)

Opened == {[by |-> w, event |-> EventOf(worker[w].post)] : w \in {v \in Worker : worker[v].step \in InStore}}
Said(a, r) == [event |-> EventOf(a.post), outcome |-> a.outcome, record |-> r]
Pairs(A) == UNION {{a} \X a.record : a \in A}
Given == {Said(b[1], b[2]) : b \in Pairs(answers)}
AppendOf(w) == [by |-> w, event |-> EventOf(worker[w].post)]

LEMMA SaidOfAnswers ==
  ASSUME NEW A, NEW x
  PROVE  x \in {Said(b[1], b[2]) : b \in Pairs(A)} <=> \E a \in A : \E r \in a.record : x = Said(a, r)
<1>1. ASSUME NEW a \in A, NEW r \in a.record PROVE <<a, r>> \in Pairs(A)
  <2>1. <<a, r>> \in {a} \X a.record
    OBVIOUS
  <2> QED
    BY <2>1 DEF Pairs
<1>2. ASSUME NEW b \in Pairs(A) PROVE \E a \in A : \E r \in a.record : b[1] = a /\ b[2] = r
  <2>1. PICK a \in A : b \in {a} \X a.record
    BY DEF Pairs
  <2> QED
    BY <2>1
<1>3. ASSUME NEW b \in Pairs(A), x = Said(b[1], b[2]) PROVE \E a \in A : \E r \in a.record : x = Said(a, r)
  BY <1>2, <1>3
<1>4. ASSUME NEW a \in A, NEW r \in a.record, x = Said(a, r) PROVE \E b \in Pairs(A) : x = Said(b[1], b[2])
  <2>1. <<a, r>>[1] = a /\ <<a, r>>[2] = r
    OBVIOUS
  <2> QED
    BY <1>1, <1>4, <2>1
<1> QED
  BY <1>3, <1>4

\* A handler that leaves the store closes its own append and no other.
LEMMA Closes ==
  ASSUME Posted, NEW w \in Worker, worker[w].step \in InStore, worker' = [worker EXCEPT ![w] = Idle]
  PROVE  AppendOf(w) \in Opened /\ Opened' = Opened \ {AppendOf(w)}
<1>1. /\ worker'[w].step = "idle"
      /\ \A v \in Worker \ {w} : worker'[v] = worker[v] /\ AppendOf(v) # AppendOf(w) /\ AppendOf(v)' = AppendOf(v)
  BY DEF Posted, Idle, AppendOf, EventOf, Signed
<1>2. \A x : x \in Opened <=> \E v \in Worker : worker[v].step \in InStore /\ x = AppendOf(v)
  BY DEF Opened, AppendOf
<1>3. \A x : x \in Opened' <=> \E v \in Worker : worker'[v].step \in InStore /\ x = AppendOf(v)'
  BY DEF Opened, AppendOf
<1>4. worker'[w].step \notin InStore
  BY <1>1 DEF InStore
<1> QED
  BY <1>1, <1>2, <1>3, <1>4

\* Steps of a handler outside the store, or within it, open and close nothing.
LEMMA Stays ==
  ASSUME Posted, NEW w \in Worker, NEW x \in [step : WorkerStep, post : Post \cup {NoPost}, at : Nat],
         worker' = [worker EXCEPT ![w] = x],
         \/ worker[w].step \notin InStore /\ x.step \notin InStore
         \/ worker[w].step \in InStore /\ x.step \in InStore /\ x.post = worker[w].post
  PROVE  Opened' = Opened
<1>1. worker'[w] = x /\ \A v \in Worker \ {w} : worker'[v] = worker[v]
  BY DEF Posted
<1>2. \A y : y \in Opened <=> \E v \in Worker : worker[v].step \in InStore /\ y = AppendOf(v)
  BY DEF Opened, AppendOf
<1>3. \A y : y \in Opened' <=> \E v \in Worker : worker'[v].step \in InStore /\ y = AppendOf(v)'
  BY DEF Opened, AppendOf
<1>4. \A v \in Worker : (worker'[v].step \in InStore <=> worker[v].step \in InStore)
                         /\ (worker[v].step \in InStore => AppendOf(v)' = AppendOf(v))
  BY <1>1 DEF AppendOf, EventOf, Signed
<1>5. ASSUME NEW y PROVE y \in Opened' <=> y \in Opened
  BY <1>2, <1>3, <1>4
<1> QED
  BY <1>5

\* An answer adds what it says of its record, if it has one.
LEMMA Gives ==
  ASSUME NEW a, answers' = answers \cup {a}
  PROVE  Given' = Given \cup {Said(a, r) : r \in a.record}
<1>1. \A x : x \in Given <=> \E b \in answers : \E r \in b.record : x = Said(b, r)
  BY SaidOfAnswers DEF Given
<1>2. \A x : x \in Given' <=> \E b \in answers' : \E r \in b.record : x = Said(b, r)
  <2>1. Given' = {Said(b[1], b[2]) : b \in Pairs(answers')}
    BY DEF Given, Pairs, Said, EventOf, Signed
  <2>2. \A x : x \in {Said(b[1], b[2]) : b \in Pairs(answers')}
               <=> \E b \in answers' : \E r \in b.record : x = Said(b, r)
    BY SaidOfAnswers
  <2> QED
    BY <2>1, <2>2
<1> QED
  BY <1>1, <1>2

\* A handler that enters the store opens its append.
LEMMA Opens ==
  ASSUME Posted, NEW w \in Worker, worker[w].step \notin InStore, Goto(w, "lookup")
  PROVE  /\ \A c \in Opened : c.by # w
         /\ Opened' = Opened \cup {AppendOf(w)}
<1>1. /\ worker'[w].step = "lookup" /\ worker'[w].post = worker[w].post
      /\ \A v \in Worker \ {w} : worker'[v] = worker[v]
  BY GotoKeeps DEF WorkerStep
<1>2. \A y : y \in Opened <=> \E v \in Worker : worker[v].step \in InStore /\ y = AppendOf(v)
  BY DEF Opened, AppendOf
<1>3. \A y : y \in Opened' <=> \E v \in Worker : worker'[v].step \in InStore /\ y = AppendOf(v)'
  BY DEF Opened, AppendOf
<1>4. \A v \in Worker : AppendOf(v)' = AppendOf(v)
  BY <1>1 DEF AppendOf, EventOf, Signed
<1>5. "lookup" \in InStore
  BY DEF InStore
<1>6. \A c \in Opened : c.by # w
  BY <1>2 DEF AppendOf
<1>7. ASSUME NEW y PROVE y \in Opened' <=> y \in Opened \cup {AppendOf(w)}
  BY <1>1, <1>2, <1>3, <1>4, <1>5
<1> QED
  BY <1>6, <1>7

\* An answer without a record says nothing of the store.
LEMMA SaysNothing ==
  ASSUME NEW a, answers' = answers \cup {a}, a.record = {} PROVE Given' = Given
BY Gives

\* The rows that an insert or an answer of the store is about.
LEMMA ClashesOnTheConnection ==
  ASSUME NEW e
  PROVE  /\ Matching(e) = Atomic!SameKey(e) \cup Atomic!SameId(e)
         /\ Clashing(e) = {} => Atomic!SameKey(e) \cup Atomic!SameId(e) = {}
BY DEF Matching, Clashing, Atomic!SameKey, Atomic!SameId

\* A row found is the row of the key, or a row of the id where the key is free.
LEMMA FoundByKeyOrId ==
  ASSUME NEW e, NEW r \in Existing(e)
  PROVE  \/ r \in Atomic!SameKey(e)
         \/ r \in Atomic!SameId(e) /\ Atomic!SameKey(e) = {}
BY DEF Existing, Atomic!SameKey, Atomic!SameId

StoreStep == Atomic!EventStoreNext \/ UNCHANGED <<rows, Opened, Given>>

\* An answer with the row that was found.
LEMMA FoundIsAnswered ==
  ASSUME Posted, NEW w \in Worker, worker[w].step \in InStore, UNCHANGED rows,
         NEW r \in Existing(EventOf(worker[w].post)),
         Respond(w, Verdict(EventOf(worker[w].post), r), {r})
  PROVE  StoreStep
<1> DEFINE c == AppendOf(w)
           e == EventOf(worker[w].post)
           a == [post |-> worker[w].post, outcome |-> Verdict(e, r), record |-> {r}]
<1>1. c \in Opened /\ Opened' = Opened \ {c}
  BY Closes DEF Respond
<1>2. Given' = Given \cup {Said(a, r)}
  <2>1. answers' = answers \cup {a} /\ a.record = {r}
    BY DEF Respond
  <2> HIDE DEF a
  <2> QED
    BY <2>1, Gives
<1>3. Said(a, r) = [event |-> c.event, outcome |-> Atomic!Verdict(c.event, r), record |-> r] /\ c.event = e
  BY DEF Said, AppendOf, Verdict, Atomic!Verdict
<1>4. Atomic!Return(c, Atomic!Verdict(c.event, r), r)
  BY <1>1, <1>2, <1>3 DEF Atomic!Return, Opened, Given, AppendOf, EventOf, Signed, Said, Pairs
<1>5. Atomic!AnswerByKey(c) \/ Atomic!AnswerById(c)
  BY <1>3, <1>4, FoundByKeyOrId DEF Atomic!AnswerByKey, Atomic!AnswerById
<1> QED
  BY <1>1, <1>5 DEF StoreStep, Atomic!EventStoreNext, Opened

\* A handler that leaves the store without an answer of it.
LEMMA UnansweredIsFailure ==
  ASSUME Posted, NEW w \in Worker, worker[w].step \in InStore,
         worker' = [worker EXCEPT ![w] = Idle], Given' = Given,
         UNCHANGED rows \/ InsertRow(EventOf(worker[w].post))
  PROVE  StoreStep
<1>1. PICK c \in Opened : c = AppendOf(w) /\ Opened' = Opened \ {c}
  BY Closes
<1>2. \/ UNCHANGED rows
      \/ Atomic!SameKey(c.event) \cup Atomic!SameId(c.event) = {} /\ rows' = rows \cup {c.event}
  BY <1>1, ClashesOnTheConnection DEF InsertRow, AppendOf
<1>3. Atomic!Fail(c)
  BY <1>1, <1>2 DEF Atomic!Fail, Opened, Given, Said, Pairs
<1> QED
  BY <1>1, <1>3 DEF StoreStep, Atomic!EventStoreNext, Opened

\* Steps that neither enter nor leave the store leave its view alone.
LEMMA OutsideTheStore ==
  ASSUME Posted, NEW w \in Worker, worker[w].step \notin InStore,
         NEW x \in [step : WorkerStep, post : Post \cup {NoPost}, at : Nat], x.step \notin InStore,
         worker' = [worker EXCEPT ![w] = x], UNCHANGED rows,
         UNCHANGED answers \/ \E a : answers' = answers \cup {a} /\ a.record = {}
  PROVE  StoreStep
<1>1. Opened' = Opened
  BY Stays
<1>2. Given' = Given
  BY SaysNothing DEF Given, Pairs, Said, EventOf, Signed
<1> QED
  BY <1>1, <1>2 DEF StoreStep

\* A step that leaves requests, rows and answers alone.
LEMMA UnseenByTheStore ==
  ASSUME UNCHANGED <<worker, rows, answers>> PROVE StoreStep
BY DEF StoreStep, Opened, Given, Pairs, Said, EventOf, Signed

LEMMA ReceiveIsOutside ==
  ASSUME Posted, NEW w \in Worker, NEW p \in posts, Receive(w, p) PROVE StoreStep
<1>1. UNCHANGED rows /\ worker[w].step \notin InStore
  BY DEF Receive, hub, Idle, InStore
<1>2. CASE Fresh(p)
  <2> DEFINE x == [step |-> "claim", post |-> p, at |-> now]
  <2>1. x \in [step : WorkerStep, post : Post \cup {NoPost}, at : Nat] /\ x.step \notin InStore
    BY DEF Posted, WorkerStep, InStore
  <2>2. worker' = [worker EXCEPT ![w] = x] /\ UNCHANGED answers
    BY <1>2 DEF Receive
  <2> HIDE DEF x
  <2> QED
    BY <1>1, <2>1, <2>2, OutsideTheStore
<1>3. CASE ~Fresh(p)
  <2>1. Opened' = Opened
    BY <1>3 DEF Receive, Opened, EventOf, Signed
  <2> DEFINE a == [post |-> p, outcome |-> "stale", record |-> {}]
  <2>2. answers' = answers \cup {a} /\ a.record = {}
    BY <1>3 DEF Receive
  <2> HIDE DEF a
  <2>3. Given' = Given
    BY <2>2, SaysNothing
  <2> QED
    BY <1>1, <2>1, <2>3 DEF StoreStep
<1> QED
  BY <1>2, <1>3

LEMMA ClaimAsks ==
  ASSUME Posted, NEW w \in Worker, Claim(w) PROVE StoreStep
<1>1. UNCHANGED rows /\ worker[w].step \notin InStore /\ worker[w].post \in Post
  BY DEF Claim, Posted, InStore
<1>2. ASSUME NEW o, Respond(w, o, {}) PROVE StoreStep
  <2> DEFINE a == [post |-> worker[w].post, outcome |-> o, record |-> {}]
  <2>1. answers' = answers \cup {a} /\ a.record = {} /\ worker' = [worker EXCEPT ![w] = Idle]
    BY <1>2 DEF Respond
  <2>2. Idle \in [step : WorkerStep, post : Post \cup {NoPost}, at : Nat] /\ Idle.step \notin InStore
    BY DEF Idle, WorkerStep, InStore
  <2> QED
    BY <1>1, <2>1, <2>2, OutsideTheStore
<1>3. CASE Goto(w, "lookup")
  <2>1. PICK e \in Event : e = EventOf(worker[w].post)
    BY <1>1, PostsCarryEvents
  <2>2. Opened' = Opened \cup {[by |-> w, event |-> e]} /\ \A c \in Opened : c.by # w
    BY <1>1, <1>3, <2>1, Opens DEF AppendOf
  <2>3. Given' = Given
    BY <1>3 DEF Goto, Given, Pairs, Said, EventOf, Signed
  <2>4. Atomic!Ask(w, e)
    BY <1>1, <2>2, <2>3 DEF Atomic!Ask, Opened, Given, Pairs, Said
  <2> QED
    BY <2>4 DEF StoreStep, Atomic!EventStoreNext
<1> QED
  BY <1>2, <1>3 DEF Claim

\* Within the store nothing is seen of a handler that goes on.
LEMMA GoingOnIsUnseen ==
  ASSUME Posted, NEW w \in Worker, NEW s \in InStore, worker[w].step \in InStore, Goto(w, s), UNCHANGED rows
  PROVE  StoreStep
<1> DEFINE x == [worker[w] EXCEPT !.step = s]
<1>1. x \in [step : WorkerStep, post : Post \cup {NoPost}, at : Nat] /\ x.step = s /\ x.post = worker[w].post
  BY DEF Posted, WorkerStep, InStore
<1>2. worker' = [worker EXCEPT ![w] = x] /\ UNCHANGED answers
  BY DEF Goto
<1> HIDE DEF x
<1>3. Opened' = Opened
  BY <1>1, <1>2, Stays
<1>4. Given' = Given
  BY <1>2 DEF Given, Pairs, Said, EventOf, Signed
<1> QED
  BY <1>3, <1>4 DEF StoreStep

\* A handler in the store that answers 500.
LEMMA ErrorIsFailure ==
  ASSUME Posted, NEW w \in Worker, worker[w].step \in InStore, Respond(w, "error", {}),
         UNCHANGED rows \/ InsertRow(EventOf(worker[w].post))
  PROVE  StoreStep
<1> DEFINE a == [post |-> worker[w].post, outcome |-> "error", record |-> {}]
<1>1. answers' = answers \cup {a} /\ a.record = {} /\ worker' = [worker EXCEPT ![w] = Idle]
  BY DEF Respond
<1> HIDE DEF a
<1>2. Given' = Given
  BY <1>1, SaysNothing
<1> QED
  BY <1>1, <1>2, UnansweredIsFailure

LEMMA LookupAnswers ==
  ASSUME Posted, NEW w \in Worker, Lookup(w) \/ Relookup(w) PROVE StoreStep
<1>1. worker[w].step \in InStore /\ UNCHANGED rows
  BY DEF Lookup, Relookup, InStore
<1>2. CASE Goto(w, "insert")
  BY <1>1, <1>2, GoingOnIsUnseen DEF InStore
<1>3. CASE Respond(w, "error", {})
  BY <1>1, <1>3, ErrorIsFailure
<1>4. CASE \E r \in Existing(EventOf(worker[w].post)) : Respond(w, Verdict(EventOf(worker[w].post), r), {r})
  BY <1>1, <1>4, FoundIsAnswered
<1> QED
  BY <1>2, <1>3, <1>4 DEF Lookup, Relookup

LEMMA InsertAdds ==
  ASSUME Posted, NEW w \in Worker, Insert(w) PROVE StoreStep
<1> DEFINE e == EventOf(worker[w].post)
           a == [post |-> worker[w].post, outcome |-> "inserted", record |-> {e}]
<1>1. worker[w].step \in InStore /\ InsertRow(e)
  BY DEF Insert, InStore
<1>2. CASE rows' = rows
  <2>1. Goto(w, "relookup")
    BY <1>2 DEF Insert
  <2> QED
    BY <1>1, <1>2, <2>1, GoingOnIsUnseen DEF InStore
<1>3. CASE rows' # rows
  <2>1. Respond(w, "inserted", {e}) /\ Clashing(e) = {} /\ rows' = rows \cup {e}
    BY <1>1, <1>3 DEF Insert, InsertRow
  <2>2. PICK c \in Opened : c = AppendOf(w) /\ Opened' = Opened \ {c}
    BY <1>1, <2>1, Closes DEF Respond
  <2>3. Given' = Given \cup {Said(a, e)}
    <3>1. answers' = answers \cup {a} /\ a.record = {e}
      BY <2>1 DEF Respond
    <3> HIDE DEF a
    <3> QED
      BY <3>1, Gives
  <2>4. Said(a, e) = [event |-> c.event, outcome |-> "inserted", record |-> c.event] /\ c.event = e
    BY <2>2 DEF Said, AppendOf
  <2>5. Atomic!SameKey(c.event) \cup Atomic!SameId(c.event) = {}
    BY <2>1, <2>4, ClashesOnTheConnection
  <2>6. Atomic!Insert(c)
    BY <2>1, <2>2, <2>3, <2>4, <2>5 DEF Atomic!Insert, Atomic!Return, Opened, Given, Pairs, Said
  <2> QED
    BY <2>2, <2>6 DEF StoreStep, Atomic!EventStoreNext, Opened
<1> QED
  BY <1>2, <1>3

\* A failing statement or an eviction, before the store or in it.
LEMMA InterruptionIsFailure ==
  ASSUME Posted, NEW w \in Worker, StoreFails(w) \/ Evict(w) PROVE StoreStep
<1>1. /\ UNCHANGED rows \/ (worker[w].step = "insert" /\ InsertRow(EventOf(worker[w].post)))
      /\ worker' = [worker EXCEPT ![w] = Idle]
      /\ UNCHANGED answers \/ Respond(w, "error", {})
  BY DEF StoreFails, Evict, Respond
<1>2. CASE worker[w].step \in InStore
  <2>1. CASE Respond(w, "error", {})
    BY <1>1, <1>2, <2>1, ErrorIsFailure
  <2>2. CASE UNCHANGED answers
    <3>1. Given' = Given
      BY <2>2 DEF Given, Pairs, Said, EventOf, Signed
    <3> QED
      BY <1>1, <1>2, <3>1, UnansweredIsFailure
  <2> QED
    BY <1>1, <2>1, <2>2
<1>3. CASE worker[w].step \notin InStore
  <2>1. UNCHANGED rows
    BY <1>1, <1>3 DEF InStore
  <2>2. Idle \in [step : WorkerStep, post : Post \cup {NoPost}, at : Nat] /\ Idle.step \notin InStore
    BY DEF Idle, WorkerStep, InStore
  <2>3. UNCHANGED answers \/ \E a : answers' = answers \cup {a} /\ a.record = {}
    BY <1>1 DEF Respond
  <2> QED
    BY <1>1, <1>3, <2>1, <2>2, <2>3, OutsideTheStore
<1> QED
  BY <1>2, <1>3

\* The handlers' separate statements, with any interleaving, failure or eviction,
\* add up to one atomic append for each event.
THEOREM AppendsAreAtomic ==
  ASSUME IngestAssumption PROVE Spec => ImplementsEventStore
<1>1. Init => Atomic!EventStoreInit
  BY DEF Init, Idle, InStore, Atomic!EventStoreInit
<1>2. Posted /\ [Next]_vars => StoreStep
  <2> SUFFICES ASSUME Posted, [Next]_vars PROVE StoreStep
    OBVIOUS
  <2>1. ASSUME NEW c \in Call, Publish(c) \/ Hear(c) \/ Lose(c) \/ Disconnect(c) PROVE StoreStep
    BY <2>1, UnseenByTheStore DEF Publish, Hear, Lose, Disconnect, hub
  <2>2. CASE Tick
    BY <2>2, UnseenByTheStore DEF Tick, hub
  <2>3. CASE UNCHANGED vars
    BY <2>3, UnseenByTheStore DEF vars
  <2> QED
    BY <2>1, <2>2, <2>3, ReceiveIsOutside, ClaimAsks, LookupAnswers, InsertAdds, InterruptionIsFailure
       DEF Next, Handle
<1>3. StoreStep => [Atomic!EventStoreNext]_<<rows, Opened, Given>>
  BY DEF StoreStep
<1>4. Posted /\ [Next]_vars => [Atomic!EventStoreNext]_<<rows, Opened, Given>>
  BY <1>2, <1>3
<1> QED
  BY <1>1, <1>4, PostedInit, PostedStep, PTL DEF Spec, ImplementsEventStore, Atomic!EventStoreSpec, Opened, Given, Said, Pairs
=============================================================================
