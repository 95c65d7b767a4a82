--------------------------- MODULE ContextLedger ---------------------------
(***************************************************************************)
(* services/context-kernel/src/ledger.ts: the append-only context ledger   *)
(* of a workspace, its idempotency markers and its encrypted bodies, as    *)
(* several kernel processes use it through ContextKernel.open, change,     *)
(* correct, delete and pruneExpiredEntities, with deaths and I/O errors    *)
(* between any two file-system effects.                                    *)
(*                                                                         *)
(* `log` is the sequence of event files in commit order.  Each event       *)
(* carries what appendChange computed from the ledger it had read: its     *)
(* sequence number, the previous event (for previous_event_hash), and the  *)
(* entity's revision.  Ids are drawn from one counter, `minted`; the body  *)
(* object of an event has the event's id.  The append lock is the Mutex    *)
(* FileLock implements; a dead holder's lock is recovered when it dies.    *)
(***************************************************************************)
EXTENDS Naturals, Sequences, FiniteSets

CONSTANTS
  Proc,        \* kernel processes
  NoProc,      \* "the append lock is free"
  Request,     \* the calls callers make (see RequestType)
  Key,         \* idempotency keys
  EntityType, EntityId,
  EventName,   \* event ids a caller may choose, NoName among them: "let the kernel mint one"
  NoName,
  RunType,     \* the entity type "run"
  MaxMinted,   \* bound: ids minted, so also events committed
  Mortal,      \* the processes that may die
  Faults       \* file-system calls that may fail, see the actions that use it

NoId == 0
Entity == [type : EntityType, id : EntityId]
Op == {"change", "correct", "delete", "expire"}
Actor == {"owner", "stranger", "agent", "system"}
Basis == {"explicit", "observed", "system"}

\* A ChangeInput or DeleteInput, as much of it as ledger.ts decides on.
\* `body`: a private body is given; `final`: isTerminalRunEvent of the event
\* it would make; `misdated`: recorded_at would predate occurred_at.
RequestType ==
  [op : Op, key : Key, name : EventName, entity : Entity, expected : Nat,
   actor : Actor, basis : Basis, sup : Nat, tomb : BOOLEAN,
   body : BOOLEAN, final : BOOLEAN, misdated : BOOLEAN]

ASSUME LedgerAssumption ==
  /\ NoProc \notin Proc
  /\ NoName \in EventName
  /\ MaxMinted \in Nat
  /\ Mortal \subseteq Proc
  /\ Faults \subseteq {"body", "bodySync", "commit", "commitSync", "marker"}
  /\ Request # {} /\ Request \subseteq RequestType
  \* What appendDeletion and appendExpiry put in the ChangeInput themselves.
  /\ \A r \in Request :
       /\ r.op \in {"delete", "expire"} => r.tomb /\ ~r.body /\ ~r.final /\ r.sup = NoId
       /\ r.op = "delete" => r.basis = "explicit"
       /\ r.op = "expire" => r.basis = "system" /\ r.actor = "system"

EventType ==
  [id : Nat, input : Request, sup : Nat, seq : Nat, prev : Nat, rev : Nat]
MarkerType == [id : Nat, input : Request, sup : Nat]
AnyRequest == CHOOSE r \in Request : TRUE    \* stands for "none yet"
NoEvent == [id |-> NoId]
NoMarker == [id |-> NoId]

Code == {"none", "created", "replayed", "NOT_FOUND", "LEDGER_BUSY", "LEDGER_CORRUPT",
         "IDEMPOTENCY_CONFLICT", "EVENT_ID_CONFLICT", "ENTITY_TOMBSTONED",
         "RUN_TERMINAL", "ENTITY_ID_CONFLICT", "AUTHORITY_DENIED",
         "REVISION_CONFLICT", "SUPERSESSION_CONFLICT",
         "INVALID_TIMESTAMP_ORDER", "EIO"}

VARIABLES
  log,      \* ledger/events: the committed events
  markers,  \* ledger/idempotency: [Key -> marker or NoMarker]
  bodies,   \* objects/private: ids of the body objects on disk
  minted,   \* ids drawn so far
  lock,     \* holder of append.lock
  pc,       \* where each process is
  req,      \* the request it serves
  sup,      \* supersedes_event_id as sent to appendChange
  draft,    \* the event it is about to commit
  left,     \* body objects it has decided to remove and not removed yet
  result    \* what its last call returned or threw

vars == <<log, markers, bodies, minted, lock, pc, req, sup, draft, left, result>>
disk == <<log, markers, bodies, minted>>

Go(p, where) == pc' = [pc EXCEPT ![p] = where]
Answer(p, code) == result' = [result EXCEPT ![p] = code]

-----------------------------------------------------------------------------
(* Reading the ledger *)

HasBody(e) == e.input.body

\* readEvents: sequence numbers are 1, 2, ... and every event names the one before it.
ChainOK(l) ==
  \A i \in DOMAIN l :
    /\ l[i].seq = i
    /\ l[i].prev = IF i = 1 THEN NoId ELSE l[i - 1].id

\* entityEvents.at(-1): i is the index of the entity's current event, 0 if it has none.
IsCurrent(l, en, i) ==
  \/ i = 0 /\ \A j \in DOMAIN l : l[j].input.entity # en
  \/ /\ i \in DOMAIN l /\ l[i].input.entity = en
     /\ \A j \in DOMAIN l : l[j].input.entity = en => j <= i

Revision(l, i) == IF i = 0 THEN 0 ELSE l[i].rev

Tombstoned(l, en) == \E i \in DOMAIN l : i # 0 /\ IsCurrent(l, en, i) /\ l[i].input.tomb

\* reconcilePrivateBodies: the objects of every revision of every entity that
\* is not tombstoned.
Retained(l) ==
  {l[i].id : i \in {j \in DOMAIN l : HasBody(l[j]) /\ ~Tombstoned(l, l[j].input.entity)}}

BodiesOf(l, en) == {l[i].id : i \in {j \in DOMAIN l : HasBody(l[j]) /\ l[j].input.entity = en}}

Init ==
  /\ log = <<>> /\ bodies = {} /\ minted = 0
  /\ markers = [k \in Key |-> NoMarker]
  /\ lock = NoProc
  /\ pc = [p \in Proc |-> "down"]
  /\ req = [p \in Proc |-> AnyRequest]
  /\ sup = [p \in Proc |-> NoId]
  /\ draft = [p \in Proc |-> NoEvent]
  /\ left = [p \in Proc |-> {}]
  /\ result = [p \in Proc |-> "none"]

-----------------------------------------------------------------------------
(* ContextKernel.open, as far as reconcilePrivateBodies *)

Open(p) ==
  /\ pc[p] = "down"
  /\ Go(p, "openWait")
  /\ UNCHANGED <<disk, lock, req, sup, draft, left, result>>

OpenBusy(p) ==
  /\ pc[p] = "openWait" /\ lock # NoProc
  /\ Go(p, "down") /\ Answer(p, "LEDGER_BUSY")
  /\ UNCHANGED <<disk, lock, req, sup, draft, left>>

ReconcileUnlocked(p) ==              \* mutant: without withAppendLock
  /\ pc[p] = "openWait"
  /\ left' = [left EXCEPT ![p] = bodies \ Retained(log)]
  /\ lock' = p /\ Go(p, "sweep")
  /\ UNCHANGED <<disk, req, sup, draft, result>>

\* Under the append lock: read the events, list the files, decide what goes.
ReconcileScan(p) ==
  /\ pc[p] = "openWait" /\ lock = NoProc
  /\ IF ChainOK(log)
       THEN /\ lock' = p /\ Go(p, "sweep")
            /\ left' = [left EXCEPT ![p] = bodies \ Retained(log)]
            /\ UNCHANGED result
       ELSE /\ Go(p, "down") /\ Answer(p, "LEDGER_CORRUPT")
            /\ UNCHANGED <<lock, left>>
  /\ UNCHANGED <<disk, req, sup, draft>>

RemoveOne(p) ==
  /\ pc[p] \in {"sweep", "erasing"}
  /\ \E o \in left[p] :
       /\ bodies' = bodies \ {o}
       /\ left' = [left EXCEPT ![p] = @ \ {o}]
  /\ UNCHANGED <<log, markers, minted, lock, pc, req, sup, draft, result>>

ReconcileEnd(p) ==
  /\ pc[p] = "sweep" /\ left[p] = {}
  /\ lock' = NoProc /\ Go(p, "idle") /\ Answer(p, "none")
  /\ UNCHANGED <<disk, req, sup, draft, left>>

-----------------------------------------------------------------------------
(* Before the lock *)

\* validateChangeInput, enforceWorkspaceAuthority and the tombstone test.
Authorised(r) ==
  /\ r.actor # "stranger"
  /\ r.actor = "agent" => r.basis = "observed"
  /\ r.basis = "explicit" => r.actor = "owner"
  /\ r.tomb => r.op \in {"delete", "expire"}

InCall(p) == pc[p] \notin {"down", "openWait", "sweep", "idle"}

\* Only a change goes straight to appendChange; the others first read the
\* current event, without the lock, to name it in supersedes_event_id.
Submit(p) ==
  /\ pc[p] = "idle"
  /\ minted + Cardinality({q \in Proc : InCall(q)}) < MaxMinted
  /\ \E r \in Request :
       /\ req' = [req EXCEPT ![p] = r]
       /\ sup' = [sup EXCEPT ![p] = r.sup]
       /\ Answer(p, "none")
       /\ Go(p, IF r.op = "change" THEN "check" ELSE "lookup")
  /\ UNCHANGED <<disk, lock, draft, left>>

Lookup(p) ==
  /\ pc[p] = "lookup"
  /\ IF ~ChainOK(log)
       THEN Go(p, "idle") /\ Answer(p, "LEDGER_CORRUPT") /\ UNCHANGED sup
       ELSE \E i \in DOMAIN log \cup {0} :
              /\ IsCurrent(log, req[p].entity, i)
              /\ IF i = 0
                   THEN Go(p, "idle") /\ Answer(p, "NOT_FOUND") /\ UNCHANGED sup
                   ELSE /\ sup' = [sup EXCEPT ![p] = IF @ = NoId THEN log[i].id ELSE @]
                        /\ Go(p, "check") /\ UNCHANGED result
  /\ UNCHANGED <<disk, lock, req, draft, left>>

Check(p) ==
  /\ pc[p] = "check"
  /\ IF Authorised(req[p])
       THEN Go(p, "wait") /\ UNCHANGED result
       ELSE Go(p, "idle") /\ Answer(p, "AUTHORITY_DENIED")
  /\ UNCHANGED <<disk, lock, req, sup, draft, left>>

Acquire(p) ==
  /\ pc[p] = "wait" /\ lock = NoProc
  /\ lock' = p /\ Go(p, "decide")
  /\ UNCHANGED <<disk, req, sup, draft, left, result>>

Busy(p) ==
  /\ pc[p] = "wait" /\ lock # NoProc
  /\ Go(p, "idle") /\ Answer(p, "LEDGER_BUSY")
  /\ UNCHANGED <<disk, lock, req, sup, draft, left>>

-----------------------------------------------------------------------------
(* appendChange, under the append lock *)

SameRequestWithId(p, x) ==           \* mutant: the minted event id is hashed too
  x.input = req[p] /\ x.sup = sup[p] /\ x.id = draft[p].id

\* Two requests have one request_hash when input and supersedes_event_id agree.
SameRequest(p, x) == x.input = req[p] /\ x.sup = sup[p]

Marker(p) == markers[req[p].key]
Marked(p) == Marker(p) # NoMarker
HasKey(p, i) == log[i].input.key = req[p].key
KeyUsedNever(p) == FALSE             \* mutant: only the receipts are consulted
KeyUsed(p) == \E i \in DOMAIN log : HasKey(p, i)

Settle(p, code) == Go(p, "unlock") /\ Answer(p, code)

\* resolveIdempotentReplay finds the receipt of this very request.
Replay(p) ==
  /\ pc[p] = "decide" /\ Marked(p) /\ SameRequest(p, Marker(p))
  /\ Settle(p, "replayed")
  /\ UNCHANGED <<disk, lock, req, sup, draft, left>>

\* The key's receipt, or its event when the receipt was never written, is another request's.
Conflict(p) ==
  /\ pc[p] = "decide"
  /\ \/ Marked(p) /\ ~SameRequest(p, Marker(p))
     \/ ~Marked(p) /\ ChainOK(log) /\ \E i \in DOMAIN log : HasKey(p, i) /\ ~SameRequest(p, log[i])
  /\ Settle(p, "IDEMPOTENCY_CONFLICT")
  /\ UNCHANGED <<disk, lock, req, sup, draft, left>>

\* The event is there without its receipt: write the receipt, return the event.
Heal(p) ==
  /\ pc[p] = "decide" /\ ~Marked(p) /\ ChainOK(log)
  /\ \E i \in DOMAIN log :
       /\ HasKey(p, i) /\ SameRequest(p, log[i])
       /\ draft' = [draft EXCEPT ![p] = log[i]]
  /\ Go(p, "mark") /\ Answer(p, "replayed")
  /\ UNCHANGED <<disk, lock, req, sup, left>>

\* The grounds on which a new event is refused; i is the index of the
\* entity's current event, 0 if it has none.
EventIdTaken(r) == r.name # NoName /\ \E j \in DOMAIN log : log[j].input.name = r.name
Ended(i) == i # 0 /\ log[i].input.tomb

RunTerminalIgnored(r, i) == FALSE    \* mutant: runs.ts alone is trusted
RunTerminal(r, i) == r.entity.type = RunType /\ i # 0 /\ log[i].input.final /\ ~r.tomb

EntityIdTaken(r) ==
  r.expected = 0 /\ \E j \in DOMAIN log : log[j].input.entity.id = r.entity.id

NotOwners(r, i) ==
  i # 0 /\ log[i].input.basis = "explicit" /\ r.actor # "owner" /\ r.op # "expire"

StaleRevisionOnly(r, i) == r.expected > Revision(log, i)   \* mutant: # becomes >
WrongRevision(r, i) == Revision(log, i) # r.expected

WrongSupersedes(s, i) == s # NoId /\ (i = 0 \/ log[i].id # s)

\* In the order readEvents and appendChange test them.
Refusals(r, s, i) ==
  << <<"LEDGER_CORRUPT", ~ChainOK(log)>>,
     <<"EVENT_ID_CONFLICT", EventIdTaken(r)>>,
     <<"ENTITY_TOMBSTONED", Ended(i)>>,
     <<"RUN_TERMINAL", RunTerminal(r, i)>>,
     <<"ENTITY_ID_CONFLICT", EntityIdTaken(r)>>,
     <<"AUTHORITY_DENIED", NotOwners(r, i)>>,
     <<"REVISION_CONFLICT", WrongRevision(r, i)>>,
     <<"SUPERSESSION_CONFLICT", WrongSupersedes(s, i)>>,
     <<"INVALID_TIMESTAMP_ORDER", r.misdated>> >>

Fresh(p) == pc[p] = "decide" /\ ~Marked(p) /\ (ChainOK(log) => ~KeyUsed(p))

Refuse(p) ==
  /\ Fresh(p)
  /\ \E i \in DOMAIN log \cup {0} :
       /\ IsCurrent(log, req[p].entity, i)
       /\ LET checks == Refusals(req[p], sup[p], i) IN
            \E n \in DOMAIN checks :
              /\ checks[n][2] /\ \A m \in 1..(n - 1) : ~checks[m][2]
              /\ Settle(p, checks[n][1])
  /\ UNCHANGED <<disk, lock, req, sup, draft, left>>

Acceptable(r, s, i) ==
  LET checks == Refusals(r, s, i) IN \A n \in DOMAIN checks : ~checks[n][2]

DraftWithoutRevision(p) ==           \* mutant: the event lacks entity.revision
  /\ Fresh(p)
  /\ \E i \in DOMAIN log \cup {0} :
       /\ IsCurrent(log, req[p].entity, i)
       /\ Acceptable(req[p], sup[p], i)
       /\ draft' = [draft EXCEPT ![p] =
            [id |-> minted + 1, input |-> req[p], sup |-> sup[p], seq |-> Len(log) + 1,
             prev |-> IF log = <<>> THEN NoId ELSE log[Len(log)].id]]
  /\ minted' = minted + 1
  /\ Go(p, IF req[p].body THEN "body" ELSE "commit")
  /\ UNCHANGED <<log, markers, bodies, lock, req, sup, left, result>>

Draft(p) ==
  /\ Fresh(p)
  /\ \E i \in DOMAIN log \cup {0} :
       /\ IsCurrent(log, req[p].entity, i)
       /\ Acceptable(req[p], sup[p], i)
       /\ draft' = [draft EXCEPT ![p] =
            [id |-> minted + 1, input |-> req[p], sup |-> sup[p],
             seq |-> Len(log) + 1,
             prev |-> IF log = <<>> THEN NoId ELSE log[Len(log)].id,
             rev |-> Revision(log, i) + 1]]
  /\ minted' = minted + 1
  /\ Go(p, IF req[p].body THEN "body" ELSE "commit")
  /\ UNCHANGED <<log, markers, bodies, lock, req, sup, left, result>>

\* storePrivateBody.
StoreBody(p) ==
  /\ pc[p] = "body"
  /\ bodies' = bodies \cup {draft[p].id}
  /\ Go(p, "commit")
  /\ UNCHANGED <<log, markers, minted, lock, req, sup, draft, left, result>>

\* It throws before the object is linked, or after: the object then stays,
\* because privateBody was never assigned.
BodyFails(p) ==
  /\ pc[p] = "body"
  /\ \/ "body" \in Faults /\ UNCHANGED bodies
     \/ "bodySync" \in Faults /\ bodies' = bodies \cup {draft[p].id}
  /\ Settle(p, "EIO")
  /\ UNCHANGED <<log, markers, minted, lock, req, sup, draft, left>>

\* writeJsonCreateOnly(event).
Commit(p) ==
  /\ pc[p] = "commit"
  /\ log' = Append(log, draft[p])
  /\ Go(p, "mark") /\ Answer(p, "created")
  /\ UNCHANGED <<markers, bodies, minted, lock, req, sup, draft, left>>

\* It throws, before the event file is linked or after (the directory cannot
\* be synced); eventCommitted is false either way and the body is removed.
CommitFails(p) ==
  /\ pc[p] = "commit"
  /\ \/ "commit" \in Faults /\ UNCHANGED log
     \/ "commitSync" \in Faults /\ log' = Append(log, draft[p])
  /\ bodies' = bodies \ {draft[p].id}
  /\ Settle(p, "EIO")
  /\ UNCHANGED <<markers, minted, lock, req, sup, draft, left>>

\* writeIdempotencyMarker; under the lock no other receipt can be in the way.
Mark(p) ==
  /\ pc[p] = "mark"
  /\ markers' = [markers EXCEPT ![req[p].key] =
                   [id |-> draft[p].id, input |-> draft[p].input, sup |-> draft[p].sup]]
  /\ Go(p, "unlock")
  /\ UNCHANGED <<log, bodies, minted, lock, req, sup, draft, left, result>>

\* It throws: the event stays, the caller gets the error.
MarkFails(p) ==
  /\ pc[p] = "mark" /\ "marker" \in Faults
  /\ Settle(p, "EIO")
  /\ UNCHANGED <<disk, lock, req, sup, draft, left>>

\* appendChange returns or throws; a returning deletion or expiry goes on to erase.
Unlock(p) ==
  /\ pc[p] = "unlock"
  /\ lock' = NoProc
  /\ draft' = [draft EXCEPT ![p] = NoEvent]
  /\ Go(p, IF req[p].op \in {"delete", "expire"} /\ result[p] \in {"created", "replayed"}
             THEN "erase" ELSE "idle")
  /\ UNCHANGED <<disk, req, sup, left, result>>

-----------------------------------------------------------------------------
(* eraseEntityBodies, after the lock is released *)

EraseSuperseded(p) ==                \* mutant: only the last revision's body
  /\ pc[p] = "erase"
  /\ Go(p, "erasing")
  /\ left' = [left EXCEPT ![p] = BodiesOf(log, req[p].entity) \cap {sup[p]}]
  /\ UNCHANGED <<disk, lock, req, sup, draft, result>>

EraseScan(p) ==
  /\ pc[p] = "erase"
  /\ IF ChainOK(log)
       THEN Go(p, "erasing") /\ left' = [left EXCEPT ![p] = BodiesOf(log, req[p].entity)]
            /\ UNCHANGED result
       ELSE Go(p, "idle") /\ Answer(p, "LEDGER_CORRUPT") /\ UNCHANGED left
  /\ UNCHANGED <<disk, lock, req, sup, draft>>

EraseEnd(p) ==
  /\ pc[p] = "erasing" /\ left[p] = {}
  /\ Go(p, "idle")
  /\ UNCHANGED <<disk, lock, req, sup, draft, left, result>>

-----------------------------------------------------------------------------
\* The process dies: what it remembers is gone, what it wrote stays, and its
\* lock is recovered because its pid is dead.
Die(p) ==
  /\ p \in Mortal /\ pc[p] # "down"
  /\ Go(p, "down") /\ Answer(p, "none")
  /\ lock' = IF lock = p THEN NoProc ELSE lock
  /\ draft' = [draft EXCEPT ![p] = NoEvent]
  /\ left' = [left EXCEPT ![p] = {}]
  /\ req' = [req EXCEPT ![p] = AnyRequest]
  /\ sup' = [sup EXCEPT ![p] = NoId]
  /\ UNCHANGED disk

Locked(p) ==
  \/ Replay(p) \/ Conflict(p) \/ Heal(p) \/ Refuse(p) \/ Draft(p)
  \/ StoreBody(p) \/ BodyFails(p) \/ Commit(p) \/ CommitFails(p)
  \/ Mark(p) \/ MarkFails(p) \/ Unlock(p)

Step(p) ==
  \/ ReconcileScan(p) \/ RemoveOne(p) \/ ReconcileEnd(p)
  \/ Lookup(p) \/ Check(p) \/ Acquire(p)
  \/ Locked(p)
  \/ EraseScan(p) \/ EraseEnd(p)

Next ==
  \E p \in Proc : Open(p) \/ OpenBusy(p) \/ Submit(p) \/ Busy(p) \/ Die(p) \/ Step(p)

Spec == Init /\ [][Next]_vars

-----------------------------------------------------------------------------
PC == {"down", "openWait", "sweep", "idle", "lookup", "check", "wait", "decide",
       "body", "commit", "mark", "unlock", "erase", "erasing"}

\* Type invariant.
TypeOK ==
  /\ log \in Seq(EventType)
  /\ markers \in [Key -> MarkerType \cup {NoMarker}]
  /\ bodies \subseteq Nat /\ minted \in Nat
  /\ lock \in Proc \cup {NoProc}
  /\ pc \in [Proc -> PC]
  /\ req \in [Proc -> Request]
  /\ sup \in [Proc -> Nat]
  /\ draft \in [Proc -> EventType \cup {NoEvent}]
  /\ left \in [Proc -> SUBSET Nat]
  /\ result \in [Proc -> Code]

\* The sequence and hash chain readEvents insists on never breaks, so the
\* ledger stays readable whatever interleaving of appends and deaths.
LedgerReadable == ChainOK(log)

\* An idempotency key commits at most one event, also when the process died
\* or failed between the event file and the receipt.
OneEventPerKey ==
  \A i, j \in DOMAIN log : log[i].input.key = log[j].input.key => i = j

\* A receipt names an event of its key with exactly the request it records.
ReceiptsMatch ==
  \A k \in Key : markers[k] # NoMarker =>
    \E i \in DOMAIN log :
      /\ log[i].input.key = k /\ log[i].id = markers[k].id
      /\ log[i].input = markers[k].input /\ log[i].sup = markers[k].sup

SameEntity(i, j) == log[i].input.entity = log[j].input.entity

\* validateRevisionChains (projector.ts) never throws: revisions count up by
\* one, supersedes names the revision before, nothing follows a tombstone.
RevisionsChain ==
  \A i \in DOMAIN log :
    \/ /\ log[i].rev = 1 /\ log[i].sup = NoId
       /\ \A j \in 1..(i - 1) : ~SameEntity(i, j)
    \/ \E j \in 1..(i - 1) :
         /\ SameEntity(i, j) /\ log[i].rev = log[j].rev + 1
         /\ ~log[j].input.tomb /\ log[i].sup \in {NoId, log[j].id}
         /\ \A k \in (j + 1)..(i - 1) : ~SameEntity(i, k)

\* The history readers rely on: chained, one event per key, receipts that
\* match, and one line of revisions per entity.
Lineage == LedgerReadable /\ OneEventPerKey /\ ReceiptsMatch /\ RevisionsChain

\* A completed run takes no further event but its tombstone (ledger.ts RUN_TERMINAL).
RunsEnd ==
  \A i, j \in DOMAIN log :
    (i < j /\ SameEntity(i, j) /\ log[i].input.entity.type = RunType /\ log[i].input.final)
      => log[j].input.tomb

\* What the owner stated explicitly only the owner changes; the one exception
\* is the system's expiry.
ExplicitProtected ==
  \A i, j \in DOMAIN log :
    /\ j < i /\ SameEntity(i, j) /\ log[j].input.basis = "explicit"
    /\ \A k \in (j + 1)..(i - 1) : ~SameEntity(i, k)
    => log[i].input.actor = "owner" \/ (log[i].input.op = "expire" /\ log[i].input.tomb)

\* An entity id names one entity of one type for ever.
EntityIdsGlobal ==
  \A i, j \in DOMAIN log :
    log[i].input.entity.id = log[j].input.entity.id => SameEntity(i, j)

\* No mix of calls gets past what appendChange reserves: an ended run, the
\* owner's explicit context, an id in use.
Authority == RunsEnd /\ ExplicitProtected /\ EntityIdsGlobal

\* The body of every revision of every entity that is not tombstoned is on
\* disk: neither opening nor a deletion of something else removes it.
BodiesKept == Retained(log) \subseteq bodies

\* When opening has reconciled, only bodies of live entities are left.
OpenIsClean == [][\A p \in Proc : ReconcileEnd(p) => bodies \subseteq Retained(log)]_vars

\* When a deletion or an expiry returns, every body the entity ever had is gone.
DeletionErases ==
  [][\A p \in Proc : EraseEnd(p) => bodies \cap BodiesOf(log, req[p].entity) = {}]_vars

\* What was to go is gone: after a reconciliation (ledger.ts:315) and after a
\* deletion or an expiry (ledger.ts:513), whatever died or raced before.
ErasureIsComplete == OpenIsClean /\ DeletionErases

\* A retried request whose event is committed is answered with that event,
\* never refused.  Stated for plain changes, and for deletions, of which
\* ledger.ts says "Erasure is retried even for an idempotent replay".
Committed(r) == \E i \in DOMAIN log : log[i].input = r
RetryRefused(ops) ==
  \E p \in Proc : req[p].op \in ops /\ Committed(req[p]) /\ (Conflict(p) \/ Refuse(p))
ChangeRetriesReplay == [][~RetryRefused({"change"})]_vars
DeleteRetriesReplay == [][~RetryRefused({"delete"})]_vars

-----------------------------------------------------------------------------
\* What the ledger promises: each committed event is an atomic
\* compare-and-swap on its entity (AbstractLedger).
Abstract == INSTANCE AbstractLedger WITH history <- [i \in DOMAIN log |-> log[i].input]
ImplementsAbstract == Abstract!LedgerSpec
=============================================================================
