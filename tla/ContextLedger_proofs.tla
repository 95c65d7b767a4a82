------------------------ MODULE ContextLedger_proofs ------------------------
(***************************************************************************)
(* Proofs about ContextLedger, for every set of processes, requests, keys, *)
(* deaths and faults.  Typed strengthens the type invariant by the type of *)
(* a draft; Sound adds who holds the lock and that the lock holder's draft *)
(* still fits the ledger it was computed from.  Tidy adds what each        *)
(* process is about to do to the private bodies, Counted that revisions    *)
(* count events: the bodies and the refinement rest on these.              *)
(***************************************************************************)
EXTENDS ContextLedger, FiniteSetTheorems, TLAPS

Drafting == {"body", "commit", "mark"}
Holding == {"sweep", "decide", "body", "commit", "mark", "unlock"}

Typed ==
  /\ TypeOK
  /\ \A p \in Proc : pc[p] \in Drafting => draft[p] \in EventType

LEMMA RequestFields ==
  ASSUME NEW r \in Request
  PROVE  r.key \in Key /\ r.entity \in Entity /\ r.sup \in Nat /\ r.expected \in Nat
         /\ r.body \in BOOLEAN /\ r.tomb \in BOOLEAN /\ r.final \in BOOLEAN
BY LedgerAssumption DEF RequestType

LEMMA EventFields ==
  ASSUME NEW e \in EventType
  PROVE  e.id \in Nat /\ e.input \in Request /\ e.sup \in Nat /\ e.rev \in Nat
         /\ e.seq \in Nat /\ e.prev \in Nat
BY DEF EventType

LEMMA AnyRequestIsOne == AnyRequest \in Request
BY LedgerAssumption DEF AnyRequest

LEMMA EntriesTyped ==
  ASSUME TypeOK, NEW i \in DOMAIN log
  PROVE  log[i] \in EventType /\ i \in 1..Len(log)
BY DEF TypeOK

\* Every refusal is one of the codes an appendChange can throw.
LEMMA RefusalCodes ==
  ASSUME NEW r, NEW s, NEW i, NEW n \in DOMAIN Refusals(r, s, i)
  PROVE  Refusals(r, s, i)[n][1] \in Code
<1>1. DOMAIN Refusals(r, s, i) = 1..9
  BY DEF Refusals
<1>2. n \in {1, 2, 3, 4, 5, 6, 7, 8, 9}
  BY <1>1
<1> QED
  BY <1>2 DEF Refusals, Code

\* An accepted request passes every test of appendChange.
LEMMA AcceptableMeans ==
  ASSUME NEW r, NEW s, NEW i, Acceptable(r, s, i)
  PROVE  /\ ChainOK(log) /\ ~Ended(i) /\ ~RunTerminal(r, i)
         /\ ~EntityIdTaken(r) /\ ~NotOwners(r, i)
         /\ ~WrongRevision(r, i) /\ ~WrongSupersedes(s, i)
<1> DEFINE c == Refusals(r, s, i)
<1>1. /\ DOMAIN c = 1..9
      /\ c[1][2] = ~ChainOK(log) /\ c[3][2] = Ended(i) /\ c[4][2] = RunTerminal(r, i)
      /\ c[5][2] = EntityIdTaken(r) /\ c[6][2] = NotOwners(r, i)
      /\ c[7][2] = WrongRevision(r, i) /\ c[8][2] = WrongSupersedes(s, i)
  BY DEF Refusals
<1>2. \A n \in DOMAIN c : ~c[n][2]
  BY DEF Acceptable
<1> HIDE DEF c
<1>3. 1 \in 1..9 /\ 3 \in 1..9 /\ 4 \in 1..9 /\ 5 \in 1..9 /\ 6 \in 1..9 /\ 7 \in 1..9 /\ 8 \in 1..9
  OBVIOUS
<1> QED
  BY <1>1, <1>2, <1>3
-----------------------------------------------------------------------------
(* Types *)

\* The body objects of an entity are ids.
LEMMA BodiesAreIds ==
  ASSUME TypeOK, NEW en
  PROVE  BodiesOf(log, en) \subseteq Nat
BY EntriesTyped, EventFields DEF BodiesOf

LEMMA TypedInit == Init => Typed
BY AnyRequestIsOne, LedgerAssumption DEF Init, Typed, TypeOK, PC, Code, Drafting, NoId, NoMarker, NoEvent

Drafted(p, i) ==
  [id |-> minted + 1, input |-> req[p], sup |-> sup[p], seq |-> Len(log) + 1,
   prev |-> IF log = <<>> THEN NoId ELSE log[Len(log)].id, rev |-> Revision(log, i) + 1]

\* What Draft computes is an event.
LEMMA DraftTyped ==
  ASSUME Typed, NEW p \in Proc, Draft(p)
  PROVE  draft'[p] \in EventType /\ draft' = [draft EXCEPT ![p] = draft'[p]]
<1> USE DEF Typed, TypeOK
<1>1. PICK i \in DOMAIN log \cup {0} :
        draft' = [draft EXCEPT ![p] = Drafted(p, i)]
  BY DEF Draft, Drafted
<1>2. Revision(log, i) \in Nat
  BY EntriesTyped, EventFields DEF Revision
<1>3. (IF log = <<>> THEN NoId ELSE log[Len(log)].id) \in Nat
  <2>1. CASE log = <<>>
    BY <2>1 DEF NoId
  <2>2. CASE log # <<>>
    <3>1. Len(log) \in DOMAIN log
      BY <2>2
    <3> QED
      BY <2>2, <3>1, EntriesTyped, EventFields
  <2> QED
    BY <2>1, <2>2
<1>4. minted + 1 \in Nat /\ Len(log) + 1 \in Nat /\ req[p] \in Request /\ sup[p] \in Nat
  OBVIOUS
<1>5. draft'[p] = Drafted(p, i)
  BY <1>1
<1>6. draft'[p] \in EventType
  BY <1>2, <1>3, <1>4, <1>5 DEF EventType, Drafted
<1> QED
  BY <1>1, <1>5, <1>6

LEMMA TypedStep == Typed /\ [Next]_vars => Typed'
<1> SUFFICES ASSUME Typed, [Next]_vars PROVE Typed'
  OBVIOUS
<1> USE DEF Typed, TypeOK, Drafting, Go, Answer, disk
<1>1. ASSUME NEW p \in Proc, Open(p) PROVE Typed'
  BY <1>1 DEF Open, PC, Code
<1>2. ASSUME NEW p \in Proc, OpenBusy(p) PROVE Typed'
  BY <1>2 DEF OpenBusy, PC, Code
<1>3. ASSUME NEW p \in Proc, ReconcileScan(p) PROVE Typed'
  <2>1. bodies \ Retained(log) \in SUBSET Nat
    OBVIOUS
  <2> QED
    BY <1>3, <2>1 DEF ReconcileScan, PC, Code
<1>4. ASSUME NEW p \in Proc, RemoveOne(p) PROVE Typed'
  BY <1>4 DEF RemoveOne, PC, Code
<1>5. ASSUME NEW p \in Proc, ReconcileEnd(p) PROVE Typed'
  BY <1>5 DEF ReconcileEnd, PC, Code
<1>6. ASSUME NEW p \in Proc, Submit(p) PROVE Typed'
  <2>1. PICK r \in Request :
          /\ req' = [req EXCEPT ![p] = r]
          /\ sup' = [sup EXCEPT ![p] = r.sup]
          /\ Answer(p, "none")
          /\ Go(p, IF r.op = "change" THEN "check" ELSE "lookup")
    BY <1>6 DEF Submit
  <2>2. r.sup \in Nat
    BY RequestFields
  <2> QED
    BY <1>6, <2>1, <2>2 DEF Submit, PC, Code
<1>7. ASSUME NEW p \in Proc, Lookup(p) PROVE Typed'
  <2>1. \A i \in DOMAIN log : log[i].id \in Nat
    BY EntriesTyped, EventFields
  <2>2. sup' \in [Proc -> Nat]
    BY <1>7, <2>1 DEF Lookup
  <2>3. pc' \in [Proc -> PC] /\ result' \in [Proc -> Code]
        /\ \A q \in Proc : pc'[q] \in Drafting => pc'[q] = pc[q]
    BY <1>7 DEF Lookup, PC, Code
  <2> QED
    BY <1>7, <2>2, <2>3 DEF Lookup
<1>8. ASSUME NEW p \in Proc, Check(p) PROVE Typed'
  BY <1>8 DEF Check, PC, Code
<1>9. ASSUME NEW p \in Proc, Acquire(p) PROVE Typed'
  BY <1>9 DEF Acquire, PC, Code
<1>10. ASSUME NEW p \in Proc, Busy(p) PROVE Typed'
  BY <1>10 DEF Busy, PC, Code
<1>11. ASSUME NEW p \in Proc, Replay(p) PROVE Typed'
  BY <1>11 DEF Replay, PC, Code, Settle
<1>12. ASSUME NEW p \in Proc, Conflict(p) PROVE Typed'
  BY <1>12 DEF Conflict, PC, Code, Settle
<1>13. ASSUME NEW p \in Proc, Heal(p) PROVE Typed'
  BY <1>13 DEF Heal, PC, Code
<1>14. ASSUME NEW p \in Proc, Refuse(p) PROVE Typed'
  <2>0. PICK i \in DOMAIN log \cup {0} :
          \E n \in DOMAIN Refusals(req[p], sup[p], i) : Settle(p, Refusals(req[p], sup[p], i)[n][1])
    BY <1>14 DEF Refuse
  <2>1. PICK n \in DOMAIN Refusals(req[p], sup[p], i) :
          Settle(p, Refusals(req[p], sup[p], i)[n][1])
    BY <2>0
  <2>2. Refusals(req[p], sup[p], i)[n][1] \in Code
    BY RefusalCodes
  <2> QED
    BY <1>14, <2>1, <2>2 DEF Refuse, Settle, PC
<1>15. ASSUME NEW p \in Proc, Draft(p) PROVE Typed'
  <2>1. draft'[p] \in EventType /\ draft' = [draft EXCEPT ![p] = draft'[p]]
    BY <1>15, DraftTyped
  <2>2. minted' \in Nat
    BY <1>15 DEF Draft
  <2> QED
    BY <1>15, <2>1, <2>2 DEF Draft, PC
<1>16. ASSUME NEW p \in Proc, StoreBody(p) PROVE Typed'
  <2>1. draft[p] \in EventType /\ draft[p].id \in Nat
    BY <1>16, EventFields DEF StoreBody
  <2>2. bodies' \subseteq Nat
    BY <1>16, <2>1 DEF StoreBody
  <2> QED
    BY <1>16, <2>2 DEF StoreBody, PC
<1>17. ASSUME NEW p \in Proc, BodyFails(p) PROVE Typed'
  <2>1. draft[p] \in EventType /\ draft[p].id \in Nat
    BY <1>17, EventFields DEF BodyFails
  <2>2. bodies' \subseteq Nat
    BY <1>17, <2>1 DEF BodyFails
  <2>3. pc' = [pc EXCEPT ![p] = "unlock"] /\ result' = [result EXCEPT ![p] = "EIO"]
        /\ UNCHANGED <<log, markers, minted, lock, req, sup, draft, left>>
    BY <1>17 DEF BodyFails, Settle
  <2> QED
    BY <2>2, <2>3 DEF PC, Code
<1>18. ASSUME NEW p \in Proc, Commit(p) PROVE Typed'
  BY <1>18 DEF Commit, PC, Code
<1>19. ASSUME NEW p \in Proc, CommitFails(p) PROVE Typed'
  <2>1. draft[p] \in EventType /\ draft[p].id \in Nat
    BY <1>19, EventFields DEF CommitFails
  <2>2. bodies' \subseteq Nat
    BY <1>19, <2>1 DEF CommitFails
  <2>3. log' \in Seq(EventType)
    <3>1. log' = log \/ log' = Append(log, draft[p])
      BY <1>19 DEF CommitFails
    <3>2. Append(log, draft[p]) \in Seq(EventType)
      BY <2>1
    <3> QED
      BY <3>1, <3>2
  <2>4. pc' = [pc EXCEPT ![p] = "unlock"] /\ result' = [result EXCEPT ![p] = "EIO"]
        /\ UNCHANGED <<markers, minted, lock, req, sup, draft, left>>
    BY <1>19 DEF CommitFails, Settle
  <2> QED
    BY <2>2, <2>3, <2>4 DEF PC, Code
<1>20. ASSUME NEW p \in Proc, Mark(p) PROVE Typed'
  <2>1. [id |-> draft[p].id, input |-> draft[p].input, sup |-> draft[p].sup] \in MarkerType
    BY <1>20, EventFields DEF Mark, MarkerType
  <2> QED
    BY <1>20, <2>1 DEF Mark, PC
<1>21. ASSUME NEW p \in Proc, MarkFails(p) PROVE Typed'
  BY <1>21 DEF MarkFails, PC, Code, Settle
<1>22. ASSUME NEW p \in Proc, Unlock(p) PROVE Typed'
  BY <1>22 DEF Unlock, PC, Code
<1>23. ASSUME NEW p \in Proc, EraseScan(p) PROVE Typed'
  <2>1. BodiesOf(log, req[p].entity) \in SUBSET Nat
    BY BodiesAreIds
  <2> QED
    BY <1>23, <2>1 DEF EraseScan, PC, Code
<1>24. ASSUME NEW p \in Proc, EraseEnd(p) PROVE Typed'
  BY <1>24 DEF EraseEnd, PC, Code
<1>25. ASSUME NEW p \in Proc, Die(p) PROVE Typed'
  <2>1. NoId \in Nat /\ AnyRequest \in Request
    BY AnyRequestIsOne DEF NoId
  <2> QED
    BY <1>25, <2>1 DEF Die, PC, Code
<1>26. CASE UNCHANGED vars
  BY <1>26 DEF vars
<1> QED
  BY <1>1, <1>2, <1>3, <1>4, <1>5, <1>6, <1>7, <1>8, <1>9, <1>10, <1>11, <1>12, <1>13, <1>14, <1>15, <1>16, <1>17, <1>18, <1>19, <1>20, <1>21, <1>22, <1>23, <1>24, <1>25, <1>26 DEF Next, Step, Locked
\* In every reachable state of the ledger its variables have their types,
\* whatever processes die and whatever calls fail.
THEOREM TypeCorrect == Spec => []TypeOK
<1>1. Typed => TypeOK
  BY DEF Typed
<1> QED
  BY <1>1, TypedInit, TypedStep, PTL DEF Spec

-----------------------------------------------------------------------------
(* The history of committed events *)

\* What appendChange has made sure of when it commits e to the ledger l.
Continues(l, e, i) ==
  /\ IsCurrent(l, e.input.entity, i)
  /\ e.rev = Revision(l, i) + 1
  /\ i = 0 => e.sup = NoId
  /\ i # 0 =>
       /\ ~l[i].input.tomb
       /\ e.sup \in {NoId, l[i].id}
       /\ e.input.entity.type = RunType /\ l[i].input.final => e.input.tomb
       /\ l[i].input.basis = "explicit" =>
            e.input.actor = "owner" \/ (e.input.op = "expire" /\ e.input.tomb)

Fits(l, e) ==
  /\ e.seq = Len(l) + 1
  /\ e.prev = IF l = <<>> THEN NoId ELSE l[Len(l)].id
  /\ \A i \in DOMAIN l : l[i].input.key # e.input.key
  /\ \A i \in DOMAIN l :
       l[i].input.entity.id = e.input.entity.id => l[i].input.entity = e.input.entity
  /\ \E i \in DOMAIN l \cup {0} : Continues(l, e, i)

History ==
  /\ LedgerReadable /\ OneEventPerKey /\ ReceiptsMatch
  /\ RevisionsChain /\ RunsEnd /\ ExplicitProtected /\ EntityIdsGlobal

\* Nothing but a commit or a receipt touches the history.
LEMMA HistoryStays == History /\ UNCHANGED <<log, markers>> => History'
BY DEF History, LedgerReadable, OneEventPerKey, ReceiptsMatch, RevisionsChain,
       RunsEnd, ExplicitProtected, EntityIdsGlobal, SameEntity

LEMMA Appended ==
  ASSUME TypeOK, NEW e \in EventType, log' = Append(log, e)
  PROVE  /\ Len(log) \in Nat /\ DOMAIN log = 1..Len(log)
         /\ DOMAIN log' = 1..(Len(log) + 1) /\ Len(log') = Len(log) + 1
         /\ \A i \in 1..Len(log) : log'[i] = log[i]
         /\ log'[Len(log) + 1] = e
BY DEF TypeOK

\* RevisionsChain at one index of a ledger.
Chained(l, i) ==
  \/ /\ l[i].rev = 1 /\ l[i].sup = NoId
     /\ \A j \in 1..(i - 1) : l[i].input.entity # l[j].input.entity
  \/ \E j \in 1..(i - 1) :
       /\ l[i].input.entity = l[j].input.entity /\ l[i].rev = l[j].rev + 1
       /\ ~l[j].input.tomb /\ l[i].sup \in {NoId, l[j].id}
       /\ \A k \in (j + 1)..(i - 1) : l[i].input.entity # l[k].input.entity

\* Committing an event that fits keeps every invariant of the history.
LEMMA AppendKeeps ==
  ASSUME TypeOK, History, NEW e \in EventType, Fits(log, e),
         log' = Append(log, e), markers' = markers
  PROVE  History'
<1> DEFINE n == Len(log)
<1>1. /\ n \in Nat /\ DOMAIN log = 1..n /\ DOMAIN log' = 1..(n + 1)
      /\ \A i \in 1..n : log'[i] = log[i]
      /\ log'[n + 1] = e
  BY Appended
<1>2. /\ e.seq = n + 1
      /\ e.prev = IF log = <<>> THEN NoId ELSE log[n].id
      /\ \A i \in 1..n : log[i].input.key # e.input.key
      /\ \A i \in 1..n :
           log[i].input.entity.id = e.input.entity.id => log[i].input.entity = e.input.entity
  BY <1>1 DEF Fits
<1>3. PICK c \in 1..n \cup {0} : Continues(log, e, c)
  BY <1>1 DEF Fits
<1>4. log = <<>> <=> n = 0
  BY DEF TypeOK
<1> HIDE DEF n
<1>5. LedgerReadable'
  <2>1. \A i \in 1..n : log[i].seq = i /\ log[i].prev = IF i = 1 THEN NoId ELSE log[i - 1].id
    BY <1>1 DEF History, LedgerReadable, ChainOK
  <2>2. ASSUME NEW i \in 1..(n + 1)
        PROVE  log'[i].seq = i /\ log'[i].prev = IF i = 1 THEN NoId ELSE log'[i - 1].id
    <3>1. CASE i = n + 1
      BY <1>1, <1>2, <1>4, <3>1
    <3>2. CASE i # n + 1
      BY <1>1, <2>1, <3>2
    <3> QED
      BY <3>1, <3>2
  <2> QED
    BY <1>1, <2>2 DEF LedgerReadable, ChainOK
<1>6. OneEventPerKey'
  <2>1. \A i, j \in 1..n : log[i].input.key = log[j].input.key => i = j
    BY <1>1 DEF History, OneEventPerKey
  <2> QED
    BY <1>1, <1>2, <2>1 DEF OneEventPerKey
<1>7. ReceiptsMatch'
  <2>1. ASSUME NEW k \in Key, markers[k] # NoMarker
        PROVE  \E i \in 1..(n + 1) :
                 /\ log'[i].input.key = k /\ log'[i].id = markers[k].id
                 /\ log'[i].input = markers[k].input /\ log'[i].sup = markers[k].sup
    <3>1. PICK i \in 1..n :
            /\ log[i].input.key = k /\ log[i].id = markers[k].id
            /\ log[i].input = markers[k].input /\ log[i].sup = markers[k].sup
      BY <1>1, <2>1 DEF History, ReceiptsMatch
    <3> QED
      BY <1>1, <3>1
  <2> QED
    BY <1>1, <2>1 DEF ReceiptsMatch
<1>8. RevisionsChain'
  <2>1. \A i \in 1..n : Chained(log, i)
    BY <1>1 DEF History, RevisionsChain, SameEntity, Chained
  <2>2. ASSUME NEW i \in 1..n PROVE Chained(log', i)
    <3>1. \A j \in 1..i : log'[j] = log[j]
      BY <1>1
    <3>2. i \in 1..i /\ \A j \in 1..(i - 1) : j \in 1..i /\ \A k \in (j + 1)..(i - 1) : k \in 1..i
      BY <1>1
    <3>3. CASE /\ log[i].rev = 1 /\ log[i].sup = NoId
               /\ \A j \in 1..(i - 1) : log[i].input.entity # log[j].input.entity
      BY <3>1, <3>2, <3>3 DEF Chained
    <3>4. ASSUME NEW j \in 1..(i - 1),
                 /\ log[i].input.entity = log[j].input.entity /\ log[i].rev = log[j].rev + 1
                 /\ ~log[j].input.tomb /\ log[i].sup \in {NoId, log[j].id}
                 /\ \A k \in (j + 1)..(i - 1) : log[i].input.entity # log[k].input.entity
          PROVE  Chained(log', i)
      <4>1. \A k \in (j + 1)..(i - 1) : log'[i].input.entity # log'[k].input.entity
        BY <3>1, <3>2, <3>4
      <4> QED
        BY <3>1, <3>2, <3>4, <4>1 DEF Chained
    <3> QED
      BY <2>1, <3>3, <3>4 DEF Chained
  <2>3. Chained(log', n + 1)
    <3>0. (n + 1) - 1 = n
      BY <1>1
    <3>1. CASE c = 0
      <4>1. \A j \in 1..n : log[j].input.entity # e.input.entity
        BY <1>1, <1>3, <3>1 DEF Continues, IsCurrent
      <4>2. e.rev = 1 /\ e.sup = NoId
        BY <1>3, <3>1 DEF Continues, Revision
      <4> QED
        BY <1>1, <3>0, <4>1, <4>2 DEF Chained
    <3>2. CASE c # 0
      <4>1. /\ c \in 1..n /\ log[c].input.entity = e.input.entity
            /\ \A j \in 1..n : log[j].input.entity = e.input.entity => j <= c
            /\ e.rev = log[c].rev + 1 /\ ~log[c].input.tomb /\ e.sup \in {NoId, log[c].id}
        BY <1>1, <1>3, <3>2 DEF Continues, IsCurrent, Revision
      <4>2. \A k \in (c + 1)..n : k \in 1..n /\ log[k].input.entity # e.input.entity
        BY <1>1, <4>1
      <4> QED
        BY <1>1, <3>0, <4>1, <4>2 DEF Chained
    <3> QED
      BY <3>1, <3>2
  <2>4. \A i \in 1..(n + 1) : Chained(log', i)
    BY <1>1, <2>2, <2>3
  <2> QED
    BY <1>1, <2>4 DEF RevisionsChain, SameEntity, Chained
<1>9. RunsEnd'
  <2>1. ASSUME NEW i \in 1..n, log[i].input.entity = e.input.entity,
               e.input.entity.type = RunType, log[i].input.final
        PROVE  e.input.tomb
    <3>1. /\ c \in 1..n /\ log[c].input.entity = e.input.entity /\ i <= c /\ ~log[c].input.tomb
          /\ log[c].input.final => e.input.tomb
      BY <1>1, <1>3, <2>1 DEF Continues, IsCurrent
    <3>2. i < c => log[c].input.tomb
      BY <1>1, <2>1, <3>1 DEF History, RunsEnd, SameEntity
    <3> QED
      BY <2>1, <3>1, <3>2
  <2>2. \A i, j \in 1..n :
          (i < j /\ log[i].input.entity = log[j].input.entity
             /\ log[i].input.entity.type = RunType /\ log[i].input.final) => log[j].input.tomb
    BY <1>1 DEF History, RunsEnd, SameEntity
  <2>3. ASSUME NEW i \in 1..(n + 1), NEW j \in 1..(n + 1), i < j,
               log'[i].input.entity = log'[j].input.entity,
               log'[i].input.entity.type = RunType, log'[i].input.final
        PROVE  log'[j].input.tomb
    <3>1. i \in 1..n /\ log'[i] = log[i]
      BY <1>1, <2>3
    <3>2. CASE j = n + 1
      BY <1>1, <2>1, <2>3, <3>1, <3>2
    <3>3. CASE j # n + 1
      BY <1>1, <2>2, <2>3, <3>1, <3>3
    <3> QED
      BY <3>2, <3>3
  <2> QED
    BY <1>1, <2>3 DEF RunsEnd, SameEntity
<1>10. ExplicitProtected'
  <2>1. \A i, j \in 1..n :
          /\ j < i /\ log[i].input.entity = log[j].input.entity /\ log[j].input.basis = "explicit"
          /\ \A k \in (j + 1)..(i - 1) : log[i].input.entity # log[k].input.entity
          => log[i].input.actor = "owner" \/ (log[i].input.op = "expire" /\ log[i].input.tomb)
    BY <1>1 DEF History, ExplicitProtected, SameEntity
  <2>2. ASSUME NEW j \in 1..n, log[j].input.entity = e.input.entity, log[j].input.basis = "explicit",
               \A k \in (j + 1)..n : log[k].input.entity # e.input.entity
        PROVE  e.input.actor = "owner" \/ (e.input.op = "expire" /\ e.input.tomb)
    <3>1. /\ c \in 1..n /\ log[c].input.entity = e.input.entity /\ j <= c
          /\ log[c].input.basis = "explicit" =>
                e.input.actor = "owner" \/ (e.input.op = "expire" /\ e.input.tomb)
      BY <1>1, <1>3, <2>2 DEF Continues, IsCurrent
    <3>2. c = j
      BY <1>1, <2>2, <3>1
    <3> QED
      BY <2>2, <3>1, <3>2
  <2>3. ASSUME NEW i \in 1..(n + 1), NEW j \in 1..(n + 1), j < i,
               log'[i].input.entity = log'[j].input.entity, log'[j].input.basis = "explicit",
               \A k \in (j + 1)..(i - 1) : log'[i].input.entity # log'[k].input.entity
        PROVE  log'[i].input.actor = "owner" \/ (log'[i].input.op = "expire" /\ log'[i].input.tomb)
    <3>1. j \in 1..n /\ log'[j] = log[j]
      BY <1>1, <2>3
    <3>2. CASE i = n + 1
      <4>1. \A k \in (j + 1)..n : k \in 1..n /\ log[k].input.entity # e.input.entity
        BY <1>1, <2>3, <3>1, <3>2
      <4> QED
        BY <1>1, <2>2, <2>3, <3>1, <3>2, <4>1
    <3>3. CASE i # n + 1
      <4>1. \A k \in (j + 1)..(i - 1) : k \in 1..n
        BY <1>1, <3>1, <3>3
      <4> QED
        BY <1>1, <2>1, <2>3, <3>1, <3>3, <4>1
    <3> QED
      BY <3>2, <3>3
  <2> QED
    BY <1>1, <2>3 DEF ExplicitProtected, SameEntity
<1>11. EntityIdsGlobal'
  <2>1. \A i, j \in 1..n : log[i].input.entity.id = log[j].input.entity.id
          => log[i].input.entity = log[j].input.entity
    BY <1>1 DEF History, EntityIdsGlobal, SameEntity
  <2> QED
    BY <1>1, <1>2, <2>1 DEF EntityIdsGlobal, SameEntity
<1> QED
  BY <1>5, <1>6, <1>7, <1>8, <1>9, <1>10, <1>11 DEF History
-----------------------------------------------------------------------------
(* The inductive invariant *)

\* The append lock is held exactly in the locked section.
Locking == \A p \in Proc : lock = p <=> pc[p] \in Holding

\* A draft fits the ledger until it is committed, and is in it until its
\* receipt is written.
DraftOK(p) ==
  /\ pc[p] \in {"body", "commit"} => Fits(log, draft[p]) /\ draft[p].input = req[p]
  /\ pc[p] = "mark" => draft[p].input = req[p] /\ \E i \in DOMAIN log : log[i] = draft[p]

Sound == Typed /\ Locking /\ History /\ \A p \in Proc : DraftOK(p)

LEMMA SoundInit == Init => Sound
<1> SUFFICES ASSUME Init PROVE Sound
  OBVIOUS
<1>1. Typed
  BY TypedInit
<1>2. Locking
  BY LedgerAssumption DEF Init, Locking, Holding
<1>3. DOMAIN log = {}
  BY DEF Init
<1>4. History
  BY <1>3 DEF Init, History, LedgerReadable, ChainOK, OneEventPerKey, ReceiptsMatch, RevisionsChain,
              RunsEnd, ExplicitProtected, EntityIdsGlobal
<1>5. \A p \in Proc : DraftOK(p)
  BY DEF Init, DraftOK
<1> QED
  BY <1>1, <1>2, <1>4, <1>5 DEF Sound

LEMMA LockingStep == Typed /\ Locking /\ [Next]_vars => Locking'
<1> SUFFICES ASSUME Typed, Locking, [Next]_vars PROVE Locking'
  OBVIOUS
<1>0. lock \in Proc \cup {NoProc} /\ pc \in [Proc -> PC] /\ NoProc \notin Proc
  BY LedgerAssumption DEF Typed, TypeOK
<1> USE <1>0 DEF Locking, Holding, Go, Settle
<1>1. ASSUME NEW p \in Proc, Open(p) PROVE Locking'
  BY <1>1 DEF Open
<1>2. ASSUME NEW p \in Proc, OpenBusy(p) PROVE Locking'
  BY <1>2 DEF OpenBusy
<1>3. ASSUME NEW p \in Proc, ReconcileScan(p) PROVE Locking'
  BY <1>3 DEF ReconcileScan
<1>4. ASSUME NEW p \in Proc, RemoveOne(p) PROVE Locking'
  BY <1>4 DEF RemoveOne
<1>5. ASSUME NEW p \in Proc, ReconcileEnd(p) PROVE Locking'
  BY <1>5 DEF ReconcileEnd
<1>6. ASSUME NEW p \in Proc, Submit(p) PROVE Locking'
  BY <1>6 DEF Submit
<1>7. ASSUME NEW p \in Proc, Lookup(p) PROVE Locking'
  BY <1>7 DEF Lookup
<1>8. ASSUME NEW p \in Proc, Check(p) PROVE Locking'
  BY <1>8 DEF Check
<1>9. ASSUME NEW p \in Proc, Acquire(p) PROVE Locking'
  BY <1>9 DEF Acquire
<1>10. ASSUME NEW p \in Proc, Busy(p) PROVE Locking'
  BY <1>10 DEF Busy
<1>11. ASSUME NEW p \in Proc, Replay(p) PROVE Locking'
  BY <1>11 DEF Replay
<1>12. ASSUME NEW p \in Proc, Conflict(p) PROVE Locking'
  BY <1>12 DEF Conflict
<1>13. ASSUME NEW p \in Proc, Heal(p) PROVE Locking'
  BY <1>13 DEF Heal
<1>14. ASSUME NEW p \in Proc, Refuse(p) PROVE Locking'
  <2>1. pc[p] = "decide" /\ pc' = [pc EXCEPT ![p] = "unlock"] /\ lock' = lock
    BY <1>14 DEF Refuse, Fresh
  <2> QED
    BY <2>1
<1>15. ASSUME NEW p \in Proc, Draft(p) PROVE Locking'
  <2>1. pc[p] = "decide" /\ lock' = lock
        /\ (pc' = [pc EXCEPT ![p] = "body"] \/ pc' = [pc EXCEPT ![p] = "commit"])
    BY <1>15 DEF Draft, Fresh
  <2> QED
    BY <2>1
<1>16. ASSUME NEW p \in Proc, StoreBody(p) PROVE Locking'
  BY <1>16 DEF StoreBody
<1>17. ASSUME NEW p \in Proc, BodyFails(p) PROVE Locking'
  BY <1>17 DEF BodyFails
<1>18. ASSUME NEW p \in Proc, Commit(p) PROVE Locking'
  BY <1>18 DEF Commit
<1>19. ASSUME NEW p \in Proc, CommitFails(p) PROVE Locking'
  BY <1>19 DEF CommitFails
<1>20. ASSUME NEW p \in Proc, Mark(p) PROVE Locking'
  BY <1>20 DEF Mark
<1>21. ASSUME NEW p \in Proc, MarkFails(p) PROVE Locking'
  BY <1>21 DEF MarkFails
<1>22. ASSUME NEW p \in Proc, Unlock(p) PROVE Locking'
  BY <1>22 DEF Unlock
<1>23. ASSUME NEW p \in Proc, EraseScan(p) PROVE Locking'
  BY <1>23 DEF EraseScan
<1>24. ASSUME NEW p \in Proc, EraseEnd(p) PROVE Locking'
  BY <1>24 DEF EraseEnd
<1>25. ASSUME NEW p \in Proc, Die(p) PROVE Locking'
  BY <1>25 DEF Die
<1>26. CASE UNCHANGED vars
  BY <1>26 DEF vars
<1> QED
  BY <1>1, <1>2, <1>3, <1>4, <1>5, <1>6, <1>7, <1>8, <1>9, <1>10, <1>11, <1>12, <1>13, <1>14, <1>15, <1>16, <1>17, <1>18, <1>19, <1>20, <1>21, <1>22, <1>23, <1>24, <1>25, <1>26 DEF Next, Step, Locked

\* An accepted draft fits the ledger it was computed from.
LEMMA DraftFits ==
  ASSUME Sound, NEW p \in Proc, Draft(p)
  PROVE  Fits(log, draft'[p]) /\ draft'[p].input = req[p]
<1> DEFINE r == req[p]
<1>0. Typed /\ TypeOK /\ History /\ draft \in [Proc -> EventType \cup {NoEvent}] /\ r \in Request
  BY DEF Sound, Typed, TypeOK
<1>1. PICK i \in DOMAIN log \cup {0} :
        /\ IsCurrent(log, r.entity, i)
        /\ Acceptable(r, sup[p], i)
        /\ draft' = [draft EXCEPT ![p] = Drafted(p, i)]
  BY DEF Draft, Drafted
<1> DEFINE e == Drafted(p, i)
<1>2. draft'[p] = e
  BY <1>0, <1>1
<1>3. /\ e.input = r /\ e.sup = sup[p] /\ e.seq = Len(log) + 1
      /\ e.prev = (IF log = <<>> THEN NoId ELSE log[Len(log)].id)
      /\ e.rev = Revision(log, i) + 1
  BY DEF Drafted
<1>4. /\ ChainOK(log) /\ ~Ended(i) /\ ~RunTerminal(r, i) /\ ~EntityIdTaken(r)
      /\ ~NotOwners(r, i) /\ ~WrongRevision(r, i) /\ ~WrongSupersedes(sup[p], i)
  BY <1>1, AcceptableMeans
<1> HIDE DEF e
<1>5. \A j \in DOMAIN log : log[j].input.key # e.input.key
  BY <1>3, <1>4 DEF Draft, Fresh, KeyUsed, HasKey
<1>6. \A j \in DOMAIN log :
        log[j].input.entity.id = e.input.entity.id => log[j].input.entity = e.input.entity
  <2>1. CASE i = 0
    <3>1. r.expected = 0
      BY <1>4, <2>1 DEF WrongRevision, Revision
    <3> QED
      BY <1>3, <1>4, <3>1 DEF EntityIdTaken
  <2>2. CASE i # 0
    <3>1. i \in DOMAIN log /\ log[i].input.entity = r.entity
      BY <1>1, <2>2 DEF IsCurrent
    <3> QED
      BY <1>0, <1>3, <3>1 DEF History, EntityIdsGlobal, SameEntity
  <2> QED
    BY <2>1, <2>2
<1>7. Continues(log, e, i)
  <2>1. r.op = "expire" => r.tomb
    BY <1>0, LedgerAssumption
  <2>2. i = 0 => e.sup = NoId
    BY <1>3, <1>4 DEF WrongSupersedes
  <2>3. i # 0 =>
          /\ ~log[i].input.tomb /\ e.sup \in {NoId, log[i].id}
          /\ e.input.entity.type = RunType /\ log[i].input.final => e.input.tomb
          /\ log[i].input.basis = "explicit" =>
               e.input.actor = "owner" \/ (e.input.op = "expire" /\ e.input.tomb)
    BY <1>3, <1>4, <2>1 DEF Ended, WrongSupersedes, RunTerminal, NotOwners
  <2> QED
    BY <1>1, <1>3, <2>2, <2>3 DEF Continues
<1> QED
  BY <1>1, <1>2, <1>3, <1>5, <1>6, <1>7 DEF Fits
\* A draft that is not touched stays right while the ledger does not change.
LEMMA DraftStays ==
  ASSUME NEW q \in Proc, DraftOK(q), log' = log,
         pc'[q] \notin Drafting \/ (pc'[q] = pc[q] /\ draft'[q] = draft[q] /\ req'[q] = req[q])
  PROVE  DraftOK(q)'
BY DEF DraftOK, Drafting

LEMMA SoundStep == Sound /\ [Next]_vars => Sound'
<1> SUFFICES ASSUME Sound, [Next]_vars PROVE Sound'
  OBVIOUS
<1>0. /\ Typed /\ TypeOK /\ Locking /\ History /\ \A q \in Proc : DraftOK(q)
      /\ lock \in Proc \cup {NoProc} /\ NoProc \notin Proc
      /\ pc \in [Proc -> PC] /\ req \in [Proc -> Request] /\ draft \in [Proc -> EventType \cup {NoEvent}]
  BY LedgerAssumption DEF Sound, Typed, TypeOK
<1>a. Typed' /\ Locking'
  BY <1>0, TypedStep, LockingStep
<1>b. SUFFICES History' /\ \A q \in Proc : DraftOK(q)'
  BY <1>a DEF Sound
<1>1. ASSUME NEW p \in Proc, Open(p) PROVE History' /\ \A q \in Proc : DraftOK(q)'
  <2>1. UNCHANGED <<log, markers>>
    BY <1>1 DEF Open, disk
  <2>2. ASSUME NEW q \in Proc
        PROVE  pc'[q] \notin Drafting \/ (pc'[q] = pc[q] /\ draft'[q] = draft[q] /\ req'[q] = req[q])
    BY <1>0, <1>1 DEF Open, Go, Settle, Drafting
  <2> QED
    BY <1>0, <2>1, <2>2, HistoryStays, DraftStays
<1>2. ASSUME NEW p \in Proc, OpenBusy(p) PROVE History' /\ \A q \in Proc : DraftOK(q)'
  <2>1. UNCHANGED <<log, markers>>
    BY <1>2 DEF OpenBusy, disk
  <2>2. ASSUME NEW q \in Proc
        PROVE  pc'[q] \notin Drafting \/ (pc'[q] = pc[q] /\ draft'[q] = draft[q] /\ req'[q] = req[q])
    BY <1>0, <1>2 DEF OpenBusy, Go, Settle, Drafting
  <2> QED
    BY <1>0, <2>1, <2>2, HistoryStays, DraftStays
<1>3. ASSUME NEW p \in Proc, ReconcileScan(p) PROVE History' /\ \A q \in Proc : DraftOK(q)'
  <2>1. UNCHANGED <<log, markers>>
    BY <1>3 DEF ReconcileScan, disk
  <2>2. ASSUME NEW q \in Proc
        PROVE  pc'[q] \notin Drafting \/ (pc'[q] = pc[q] /\ draft'[q] = draft[q] /\ req'[q] = req[q])
    BY <1>0, <1>3 DEF ReconcileScan, Go, Settle, Drafting
  <2> QED
    BY <1>0, <2>1, <2>2, HistoryStays, DraftStays
<1>4. ASSUME NEW p \in Proc, RemoveOne(p) PROVE History' /\ \A q \in Proc : DraftOK(q)'
  <2>1. UNCHANGED <<log, markers>>
    BY <1>4 DEF RemoveOne, disk
  <2>2. ASSUME NEW q \in Proc
        PROVE  pc'[q] \notin Drafting \/ (pc'[q] = pc[q] /\ draft'[q] = draft[q] /\ req'[q] = req[q])
    BY <1>0, <1>4 DEF RemoveOne, Go, Settle, Drafting
  <2> QED
    BY <1>0, <2>1, <2>2, HistoryStays, DraftStays
<1>5. ASSUME NEW p \in Proc, ReconcileEnd(p) PROVE History' /\ \A q \in Proc : DraftOK(q)'
  <2>1. UNCHANGED <<log, markers>>
    BY <1>5 DEF ReconcileEnd, disk
  <2>2. ASSUME NEW q \in Proc
        PROVE  pc'[q] \notin Drafting \/ (pc'[q] = pc[q] /\ draft'[q] = draft[q] /\ req'[q] = req[q])
    BY <1>0, <1>5 DEF ReconcileEnd, Go, Settle, Drafting
  <2> QED
    BY <1>0, <2>1, <2>2, HistoryStays, DraftStays
<1>6. ASSUME NEW p \in Proc, Submit(p) PROVE History' /\ \A q \in Proc : DraftOK(q)'
  <2>1. UNCHANGED <<log, markers>>
    BY <1>6 DEF Submit, disk
  <2>2. ASSUME NEW q \in Proc
        PROVE  pc'[q] \notin Drafting \/ (pc'[q] = pc[q] /\ draft'[q] = draft[q] /\ req'[q] = req[q])
    BY <1>0, <1>6 DEF Submit, Go, Settle, Drafting
  <2> QED
    BY <1>0, <2>1, <2>2, HistoryStays, DraftStays
<1>7. ASSUME NEW p \in Proc, Lookup(p) PROVE History' /\ \A q \in Proc : DraftOK(q)'
  <2>1. UNCHANGED <<log, markers>>
    BY <1>7 DEF Lookup, disk
  <2>2. ASSUME NEW q \in Proc
        PROVE  pc'[q] \notin Drafting \/ (pc'[q] = pc[q] /\ draft'[q] = draft[q] /\ req'[q] = req[q])
    BY <1>0, <1>7 DEF Lookup, Go, Settle, Drafting
  <2> QED
    BY <1>0, <2>1, <2>2, HistoryStays, DraftStays
<1>8. ASSUME NEW p \in Proc, Check(p) PROVE History' /\ \A q \in Proc : DraftOK(q)'
  <2>1. UNCHANGED <<log, markers>>
    BY <1>8 DEF Check, disk
  <2>2. ASSUME NEW q \in Proc
        PROVE  pc'[q] \notin Drafting \/ (pc'[q] = pc[q] /\ draft'[q] = draft[q] /\ req'[q] = req[q])
    BY <1>0, <1>8 DEF Check, Go, Settle, Drafting
  <2> QED
    BY <1>0, <2>1, <2>2, HistoryStays, DraftStays
<1>9. ASSUME NEW p \in Proc, Acquire(p) PROVE History' /\ \A q \in Proc : DraftOK(q)'
  <2>1. UNCHANGED <<log, markers>>
    BY <1>9 DEF Acquire, disk
  <2>2. ASSUME NEW q \in Proc
        PROVE  pc'[q] \notin Drafting \/ (pc'[q] = pc[q] /\ draft'[q] = draft[q] /\ req'[q] = req[q])
    BY <1>0, <1>9 DEF Acquire, Go, Settle, Drafting
  <2> QED
    BY <1>0, <2>1, <2>2, HistoryStays, DraftStays
<1>10. ASSUME NEW p \in Proc, Busy(p) PROVE History' /\ \A q \in Proc : DraftOK(q)'
  <2>1. UNCHANGED <<log, markers>>
    BY <1>10 DEF Busy, disk
  <2>2. ASSUME NEW q \in Proc
        PROVE  pc'[q] \notin Drafting \/ (pc'[q] = pc[q] /\ draft'[q] = draft[q] /\ req'[q] = req[q])
    BY <1>0, <1>10 DEF Busy, Go, Settle, Drafting
  <2> QED
    BY <1>0, <2>1, <2>2, HistoryStays, DraftStays
<1>11. ASSUME NEW p \in Proc, Replay(p) PROVE History' /\ \A q \in Proc : DraftOK(q)'
  <2>1. UNCHANGED <<log, markers>>
    BY <1>11 DEF Replay, disk
  <2>2. ASSUME NEW q \in Proc
        PROVE  pc'[q] \notin Drafting \/ (pc'[q] = pc[q] /\ draft'[q] = draft[q] /\ req'[q] = req[q])
    BY <1>0, <1>11 DEF Replay, Go, Settle, Drafting
  <2> QED
    BY <1>0, <2>1, <2>2, HistoryStays, DraftStays
<1>12. ASSUME NEW p \in Proc, Conflict(p) PROVE History' /\ \A q \in Proc : DraftOK(q)'
  <2>1. UNCHANGED <<log, markers>>
    BY <1>12 DEF Conflict, disk
  <2>2. ASSUME NEW q \in Proc
        PROVE  pc'[q] \notin Drafting \/ (pc'[q] = pc[q] /\ draft'[q] = draft[q] /\ req'[q] = req[q])
    BY <1>0, <1>12 DEF Conflict, Go, Settle, Drafting
  <2> QED
    BY <1>0, <2>1, <2>2, HistoryStays, DraftStays
<1>13. ASSUME NEW p \in Proc, Refuse(p) PROVE History' /\ \A q \in Proc : DraftOK(q)'
  <2>1. UNCHANGED <<log, markers>>
    BY <1>13 DEF Refuse, disk
  <2>2. ASSUME NEW q \in Proc
        PROVE  pc'[q] \notin Drafting \/ (pc'[q] = pc[q] /\ draft'[q] = draft[q] /\ req'[q] = req[q])
    BY <1>0, <1>13 DEF Refuse, Fresh, Go, Settle, Drafting
  <2> QED
    BY <1>0, <2>1, <2>2, HistoryStays, DraftStays
<1>14. ASSUME NEW p \in Proc, BodyFails(p) PROVE History' /\ \A q \in Proc : DraftOK(q)'
  <2>1. UNCHANGED <<log, markers>>
    BY <1>14 DEF BodyFails, disk
  <2>2. ASSUME NEW q \in Proc
        PROVE  pc'[q] \notin Drafting \/ (pc'[q] = pc[q] /\ draft'[q] = draft[q] /\ req'[q] = req[q])
    BY <1>0, <1>14 DEF BodyFails, Go, Settle, Drafting
  <2> QED
    BY <1>0, <2>1, <2>2, HistoryStays, DraftStays
<1>15. ASSUME NEW p \in Proc, MarkFails(p) PROVE History' /\ \A q \in Proc : DraftOK(q)'
  <2>1. UNCHANGED <<log, markers>>
    BY <1>15 DEF MarkFails, disk
  <2>2. ASSUME NEW q \in Proc
        PROVE  pc'[q] \notin Drafting \/ (pc'[q] = pc[q] /\ draft'[q] = draft[q] /\ req'[q] = req[q])
    BY <1>0, <1>15 DEF MarkFails, Go, Settle, Drafting
  <2> QED
    BY <1>0, <2>1, <2>2, HistoryStays, DraftStays
<1>16. ASSUME NEW p \in Proc, Unlock(p) PROVE History' /\ \A q \in Proc : DraftOK(q)'
  <2>1. UNCHANGED <<log, markers>>
    BY <1>16 DEF Unlock, disk
  <2>2. ASSUME NEW q \in Proc
        PROVE  pc'[q] \notin Drafting \/ (pc'[q] = pc[q] /\ draft'[q] = draft[q] /\ req'[q] = req[q])
    BY <1>0, <1>16 DEF Unlock, Go, Settle, Drafting
  <2> QED
    BY <1>0, <2>1, <2>2, HistoryStays, DraftStays
<1>17. ASSUME NEW p \in Proc, EraseScan(p) PROVE History' /\ \A q \in Proc : DraftOK(q)'
  <2>1. UNCHANGED <<log, markers>>
    BY <1>17 DEF EraseScan, disk
  <2>2. ASSUME NEW q \in Proc
        PROVE  pc'[q] \notin Drafting \/ (pc'[q] = pc[q] /\ draft'[q] = draft[q] /\ req'[q] = req[q])
    BY <1>0, <1>17 DEF EraseScan, Go, Settle, Drafting
  <2> QED
    BY <1>0, <2>1, <2>2, HistoryStays, DraftStays
<1>18. ASSUME NEW p \in Proc, EraseEnd(p) PROVE History' /\ \A q \in Proc : DraftOK(q)'
  <2>1. UNCHANGED <<log, markers>>
    BY <1>18 DEF EraseEnd, disk
  <2>2. ASSUME NEW q \in Proc
        PROVE  pc'[q] \notin Drafting \/ (pc'[q] = pc[q] /\ draft'[q] = draft[q] /\ req'[q] = req[q])
    BY <1>0, <1>18 DEF EraseEnd, Go, Settle, Drafting
  <2> QED
    BY <1>0, <2>1, <2>2, HistoryStays, DraftStays
<1>19. ASSUME NEW p \in Proc, Die(p) PROVE History' /\ \A q \in Proc : DraftOK(q)'
  <2>1. UNCHANGED <<log, markers>>
    BY <1>19 DEF Die, disk
  <2>2. ASSUME NEW q \in Proc
        PROVE  pc'[q] \notin Drafting \/ (pc'[q] = pc[q] /\ draft'[q] = draft[q] /\ req'[q] = req[q])
    BY <1>0, <1>19 DEF Die, Go, Settle, Drafting
  <2> QED
    BY <1>0, <2>1, <2>2, HistoryStays, DraftStays
<1>20. ASSUME NEW p \in Proc, Heal(p) PROVE History' /\ \A q \in Proc : DraftOK(q)'
  <2>1. UNCHANGED <<log, markers>>
    BY <1>20 DEF Heal, disk
  <2>2. \A q \in Proc \ {p} : pc'[q] = pc[q] /\ draft'[q] = draft[q] /\ req'[q] = req[q]
    BY <1>0, <1>20 DEF Heal, Go
  <2>3. DraftOK(p)'
    <3>1. PICK i \in DOMAIN log : SameRequest(p, log[i]) /\ draft' = [draft EXCEPT ![p] = log[i]]
      BY <1>20 DEF Heal
    <3>2. pc'[p] = "mark" /\ draft'[p] = log[i] /\ draft'[p].input = req[p] /\ req' = req
      BY <1>0, <1>20, <3>1 DEF Heal, Go, SameRequest
    <3> QED
      BY <2>1, <3>2 DEF DraftOK
  <2> QED
    BY <1>0, <2>1, <2>2, <2>3, HistoryStays, DraftStays
<1>21. ASSUME NEW p \in Proc, Draft(p) PROVE History' /\ \A q \in Proc : DraftOK(q)'
  <2>1. UNCHANGED <<log, markers, req>>
    BY <1>21 DEF Draft
  <2>2. \A q \in Proc \ {p} : pc'[q] = pc[q] /\ draft'[q] = draft[q]
    BY <1>0, <1>21 DEF Draft, Go
  <2>3. DraftOK(p)'
    <3>1. pc'[p] # "mark"
      BY <1>0, <1>21 DEF Draft, Go
    <3>2. Fits(log, draft'[p]) /\ draft'[p].input = req[p]
      BY <1>21, DraftFits
    <3> QED
      BY <2>1, <3>1, <3>2 DEF DraftOK
  <2> QED
    BY <1>0, <2>1, <2>2, <2>3, HistoryStays, DraftStays
<1>22. ASSUME NEW p \in Proc, StoreBody(p) PROVE History' /\ \A q \in Proc : DraftOK(q)'
  <2>1. UNCHANGED <<log, markers, req, draft>>
    BY <1>22 DEF StoreBody
  <2>2. \A q \in Proc \ {p} : pc'[q] = pc[q]
    BY <1>0, <1>22 DEF StoreBody, Go
  <2>3. DraftOK(p)'
    <3>1. pc[p] = "body" /\ pc'[p] = "commit"
      BY <1>0, <1>22 DEF StoreBody, Go
    <3> QED
      BY <1>0, <2>1, <3>1 DEF DraftOK
  <2> QED
    BY <1>0, <2>1, <2>2, <2>3, HistoryStays, DraftStays
<1>23. ASSUME NEW p \in Proc, Commit(p) PROVE History' /\ \A q \in Proc : DraftOK(q)'
  <2>0. \A q \in Proc \ {p} : pc[q] \notin Drafting
    BY <1>0, <1>23 DEF Commit, Locking, Holding, Drafting
  <2>1. log' = Append(log, draft[p]) /\ UNCHANGED <<markers, req, draft>> /\ pc[p] = "commit"
        /\ pc' = [pc EXCEPT ![p] = "mark"]
    BY <1>23 DEF Commit, Go
  <2>2. draft[p] \in EventType /\ Fits(log, draft[p]) /\ draft[p].input = req[p]
    BY <1>0, <2>1 DEF DraftOK, Typed, Drafting
  <2>3. History'
    BY <1>0, <2>1, <2>2, AppendKeeps
  <2>4. ASSUME NEW q \in Proc PROVE DraftOK(q)'
    <3>1. CASE q = p
      <4>1. Len(log) + 1 \in DOMAIN log' /\ log'[Len(log) + 1] = draft[p]
        BY <1>0, <2>1, <2>2, Appended
      <4> QED
        BY <1>0, <2>1, <2>2, <3>1, <4>1 DEF DraftOK
    <3>2. CASE q # p
      BY <1>0, <2>0, <2>1, <3>2 DEF DraftOK, Drafting
    <3> QED
      BY <3>1, <3>2
  <2> QED
    BY <2>3, <2>4
<1>24. ASSUME NEW p \in Proc, CommitFails(p) PROVE History' /\ \A q \in Proc : DraftOK(q)'
  <2>0. \A q \in Proc \ {p} : pc[q] \notin Drafting
    BY <1>0, <1>24 DEF CommitFails, Locking, Holding, Drafting
  <2>1. (log' = log \/ log' = Append(log, draft[p])) /\ UNCHANGED <<markers, req, draft>> /\ pc[p] = "commit"
        /\ pc' = [pc EXCEPT ![p] = "unlock"]
    BY <1>24 DEF CommitFails, Settle, Go
  <2>2. draft[p] \in EventType /\ Fits(log, draft[p])
    BY <1>0, <2>1 DEF DraftOK, Typed, Drafting
  <2>3. History'
    BY <1>0, <2>1, <2>2, AppendKeeps, HistoryStays
  <2>4. ASSUME NEW q \in Proc PROVE DraftOK(q)'
    BY <1>0, <2>0, <2>1 DEF DraftOK, Drafting
  <2> QED
    BY <2>3, <2>4
<1>25. ASSUME NEW p \in Proc, Mark(p) PROVE History' /\ \A q \in Proc : DraftOK(q)'
  <2>1. UNCHANGED <<log, req, draft>> /\ pc[p] = "mark" /\ pc' = [pc EXCEPT ![p] = "unlock"]
        /\ markers' = [markers EXCEPT ![req[p].key] =
                          [id |-> draft[p].id, input |-> draft[p].input, sup |-> draft[p].sup]]
    BY <1>25 DEF Mark, Go
  <2>2. /\ draft[p].input = req[p] /\ req[p] \in Request
        /\ \E i \in DOMAIN log : log[i] = draft[p]
    BY <1>0, <2>1 DEF DraftOK
  <2>3. ReceiptsMatch'
    <3>1. markers \in [Key -> MarkerType \cup {NoMarker}] /\ req[p].key \in Key
      BY <1>0, <2>2, RequestFields DEF TypeOK
    <3>2. ASSUME NEW k \in Key, markers'[k] # NoMarker
          PROVE  \E i \in DOMAIN log :
                   /\ log[i].input.key = k /\ log[i].id = markers'[k].id
                   /\ log[i].input = markers'[k].input /\ log[i].sup = markers'[k].sup
      <4>1. CASE k = req[p].key
        BY <2>1, <2>2, <3>1, <4>1
      <4>2. CASE k # req[p].key
        <5>1. markers'[k] = markers[k]
          BY <2>1, <3>1, <4>2
        <5> QED
          BY <1>0, <3>2, <5>1 DEF History, ReceiptsMatch
      <4> QED
        BY <4>1, <4>2
    <3> QED
      BY <2>1, <3>2 DEF ReceiptsMatch
  <2>4. History'
    BY <1>0, <2>1, <2>3 DEF History, LedgerReadable, OneEventPerKey, RevisionsChain,
         RunsEnd, ExplicitProtected, EntityIdsGlobal, SameEntity
  <2>5. ASSUME NEW q \in Proc
        PROVE  pc'[q] \notin Drafting \/ (pc'[q] = pc[q] /\ draft'[q] = draft[q] /\ req'[q] = req[q])
    BY <1>0, <2>1 DEF Drafting
  <2> QED
    BY <1>0, <2>1, <2>4, <2>5, DraftStays
<1>26. CASE UNCHANGED vars
  <2>1. UNCHANGED <<log, markers, pc, draft, req>>
    BY <1>26 DEF vars
  <2> QED
    BY <1>0, <2>1, HistoryStays, DraftStays
<1> QED
  BY <1>1, <1>2, <1>3, <1>4, <1>5, <1>6, <1>7, <1>8, <1>9, <1>10, <1>11, <1>12, <1>13, <1>14, <1>15, <1>16, <1>17, <1>18, <1>19, <1>20, <1>21, <1>22, <1>23, <1>24, <1>25, <1>26 DEF Next, Step, Locked

\* The inductive invariant holds in every reachable state.
THEOREM SoundAlways == Spec => []Sound
BY SoundInit, SoundStep, PTL DEF Spec
\* No interleaving of appends, deaths and failing calls breaks the sequence and
\* hash chain readEvents insists on.
THEOREM ReadableAlways == Spec => []LedgerReadable
<1>1. Sound => LedgerReadable
  BY DEF Sound, History
<1> QED
  BY <1>1, SoundAlways, PTL

\* An idempotency key commits at most one event, although the receipt is
\* written after the event and may never be.
THEOREM KeysCommitOnce == Spec => []OneEventPerKey
<1>1. Sound => OneEventPerKey
  BY DEF Sound, History
<1> QED
  BY <1>1, SoundAlways, PTL

\* A receipt always names a committed event of its key with the same request.
THEOREM ReceiptsAlwaysMatch == Spec => []ReceiptsMatch
<1>1. Sound => ReceiptsMatch
  BY DEF Sound, History
<1> QED
  BY <1>1, SoundAlways, PTL

\* The revisions of every entity form one chain that ends at its tombstone.
THEOREM RevisionsAlwaysChain == Spec => []RevisionsChain
<1>1. Sound => RevisionsChain
  BY DEF Sound, History
<1> QED
  BY <1>1, SoundAlways, PTL

\* After a run's terminal event only its tombstone is committed.
THEOREM RunsAlwaysEnd == Spec => []RunsEnd
<1>1. Sound => RunsEnd
  BY DEF Sound, History
<1> QED
  BY <1>1, SoundAlways, PTL

\* Explicit context is superseded by the owner or by the system's expiry alone.
THEOREM ExplicitAlwaysProtected == Spec => []ExplicitProtected
<1>1. Sound => ExplicitProtected
  BY DEF Sound, History
<1> QED
  BY <1>1, SoundAlways, PTL

\* An entity id is never used for two entity types.
THEOREM EntityIdsStayGlobal == Spec => []EntityIdsGlobal
<1>1. Sound => EntityIdsGlobal
  BY DEF Sound, History
<1> QED
  BY <1>1, SoundAlways, PTL

\* The four together: the history every reader and writer starts from.
THEOREM LineageAlways == Spec => []Lineage
<1>1. Sound => Lineage
  BY DEF Sound, History, Lineage
<1> QED
  BY <1>1, SoundAlways, PTL

\* What is reserved stays reserved, whatever calls are mixed and retried.
THEOREM AuthorityAlways == Spec => []Authority
<1>1. Sound => Authority
  BY DEF Sound, History, Authority
<1> QED
  BY <1>1, SoundAlways, PTL

-----------------------------------------------------------------------------
(* Retries *)

\* A plain change is sent, drafted and committed with the supersedes_event_id
\* its caller gave.
AsSent(e) == e.input.op = "change" => e.sup = e.input.sup
SentOK(p) ==
  /\ req[p].op = "change" => pc[p] # "lookup" /\ (InCall(p) => sup[p] = req[p].sup)
  /\ pc[p] \in {"body", "commit"} => AsSent(draft[p])
Verbatim ==
  /\ \A i \in DOMAIN log : AsSent(log[i])
  /\ \A p \in Proc : SentOK(p)

LEMMA VerbatimInit == Init => Verbatim
BY DEF Init, Verbatim, SentOK, InCall

LEMMA VerbatimStep == Sound /\ Verbatim /\ [Next]_vars => Verbatim'
<1> SUFFICES ASSUME Sound, Verbatim, [Next]_vars PROVE Verbatim'
  OBVIOUS
<1>0. /\ TypeOK /\ \A q \in Proc : SentOK(q)
      /\ pc \in [Proc -> PC] /\ req \in [Proc -> Request] /\ sup \in [Proc -> Nat]
      /\ draft \in [Proc -> EventType \cup {NoEvent}]
      /\ \A i \in DOMAIN log : AsSent(log[i])
  BY DEF Sound, Typed, TypeOK, Verbatim
<1>1. ASSUME NEW p \in Proc, Open(p) PROVE Verbatim'
  <2>1. log' = log
    BY <1>1 DEF Open, disk
  <2>2. ASSUME NEW q \in Proc PROVE SentOK(q)'
    BY <1>0, <1>1 DEF Open, SentOK, AsSent, InCall, Go, Settle
  <2> QED
    BY <1>0, <2>1, <2>2 DEF Verbatim
<1>2. ASSUME NEW p \in Proc, OpenBusy(p) PROVE Verbatim'
  <2>1. log' = log
    BY <1>2 DEF OpenBusy, disk
  <2>2. ASSUME NEW q \in Proc PROVE SentOK(q)'
    BY <1>0, <1>2 DEF OpenBusy, SentOK, AsSent, InCall, Go, Settle
  <2> QED
    BY <1>0, <2>1, <2>2 DEF Verbatim
<1>3. ASSUME NEW p \in Proc, ReconcileScan(p) PROVE Verbatim'
  <2>1. log' = log
    BY <1>3 DEF ReconcileScan, disk
  <2>2. ASSUME NEW q \in Proc PROVE SentOK(q)'
    BY <1>0, <1>3 DEF ReconcileScan, SentOK, AsSent, InCall, Go, Settle
  <2> QED
    BY <1>0, <2>1, <2>2 DEF Verbatim
<1>4. ASSUME NEW p \in Proc, RemoveOne(p) PROVE Verbatim'
  <2>1. log' = log
    BY <1>4 DEF RemoveOne, disk
  <2>2. ASSUME NEW q \in Proc PROVE SentOK(q)'
    BY <1>0, <1>4 DEF RemoveOne, SentOK, AsSent, InCall, Go, Settle
  <2> QED
    BY <1>0, <2>1, <2>2 DEF Verbatim
<1>5. ASSUME NEW p \in Proc, ReconcileEnd(p) PROVE Verbatim'
  <2>1. log' = log
    BY <1>5 DEF ReconcileEnd, disk
  <2>2. ASSUME NEW q \in Proc PROVE SentOK(q)'
    BY <1>0, <1>5 DEF ReconcileEnd, SentOK, AsSent, InCall, Go, Settle
  <2> QED
    BY <1>0, <2>1, <2>2 DEF Verbatim
<1>6. ASSUME NEW p \in Proc, Check(p) PROVE Verbatim'
  <2>1. log' = log
    BY <1>6 DEF Check, disk
  <2>2. ASSUME NEW q \in Proc PROVE SentOK(q)'
    BY <1>0, <1>6 DEF Check, SentOK, AsSent, InCall, Go, Settle
  <2> QED
    BY <1>0, <2>1, <2>2 DEF Verbatim
<1>7. ASSUME NEW p \in Proc, Acquire(p) PROVE Verbatim'
  <2>1. log' = log
    BY <1>7 DEF Acquire, disk
  <2>2. ASSUME NEW q \in Proc PROVE SentOK(q)'
    BY <1>0, <1>7 DEF Acquire, SentOK, AsSent, InCall, Go, Settle
  <2> QED
    BY <1>0, <2>1, <2>2 DEF Verbatim
<1>8. ASSUME NEW p \in Proc, Busy(p) PROVE Verbatim'
  <2>1. log' = log
    BY <1>8 DEF Busy, disk
  <2>2. ASSUME NEW q \in Proc PROVE SentOK(q)'
    BY <1>0, <1>8 DEF Busy, SentOK, AsSent, InCall, Go, Settle
  <2> QED
    BY <1>0, <2>1, <2>2 DEF Verbatim
<1>9. ASSUME NEW p \in Proc, Replay(p) PROVE Verbatim'
  <2>1. log' = log
    BY <1>9 DEF Replay, disk
  <2>2. ASSUME NEW q \in Proc PROVE SentOK(q)'
    BY <1>0, <1>9 DEF Replay, SentOK, AsSent, InCall, Go, Settle
  <2> QED
    BY <1>0, <2>1, <2>2 DEF Verbatim
<1>10. ASSUME NEW p \in Proc, Conflict(p) PROVE Verbatim'
  <2>1. log' = log
    BY <1>10 DEF Conflict, disk
  <2>2. ASSUME NEW q \in Proc PROVE SentOK(q)'
    BY <1>0, <1>10 DEF Conflict, SentOK, AsSent, InCall, Go, Settle
  <2> QED
    BY <1>0, <2>1, <2>2 DEF Verbatim
<1>11. ASSUME NEW p \in Proc, Refuse(p) PROVE Verbatim'
  <2>1. log' = log
    BY <1>11 DEF Refuse, disk
  <2>2. ASSUME NEW q \in Proc PROVE SentOK(q)'
    BY <1>0, <1>11 DEF Refuse, Fresh, SentOK, AsSent, InCall, Go, Settle
  <2> QED
    BY <1>0, <2>1, <2>2 DEF Verbatim
<1>12. ASSUME NEW p \in Proc, StoreBody(p) PROVE Verbatim'
  <2>1. log' = log
    BY <1>12 DEF StoreBody, disk
  <2>2. ASSUME NEW q \in Proc PROVE SentOK(q)'
    BY <1>0, <1>12 DEF StoreBody, SentOK, AsSent, InCall, Go, Settle
  <2> QED
    BY <1>0, <2>1, <2>2 DEF Verbatim
<1>13. ASSUME NEW p \in Proc, BodyFails(p) PROVE Verbatim'
  <2>1. log' = log
    BY <1>13 DEF BodyFails, disk
  <2>2. ASSUME NEW q \in Proc PROVE SentOK(q)'
    BY <1>0, <1>13 DEF BodyFails, SentOK, AsSent, InCall, Go, Settle
  <2> QED
    BY <1>0, <2>1, <2>2 DEF Verbatim
<1>14. ASSUME NEW p \in Proc, Mark(p) PROVE Verbatim'
  <2>1. log' = log
    BY <1>14 DEF Mark, disk
  <2>2. ASSUME NEW q \in Proc PROVE SentOK(q)'
    BY <1>0, <1>14 DEF Mark, SentOK, AsSent, InCall, Go, Settle
  <2> QED
    BY <1>0, <2>1, <2>2 DEF Verbatim
<1>15. ASSUME NEW p \in Proc, MarkFails(p) PROVE Verbatim'
  <2>1. log' = log
    BY <1>15 DEF MarkFails, disk
  <2>2. ASSUME NEW q \in Proc PROVE SentOK(q)'
    BY <1>0, <1>15 DEF MarkFails, SentOK, AsSent, InCall, Go, Settle
  <2> QED
    BY <1>0, <2>1, <2>2 DEF Verbatim
<1>16. ASSUME NEW p \in Proc, Heal(p) PROVE Verbatim'
  <2>1. log' = log
    BY <1>16 DEF Heal, disk
  <2>2. ASSUME NEW q \in Proc PROVE SentOK(q)'
    BY <1>0, <1>16 DEF Heal, SentOK, AsSent, InCall, Go, Settle
  <2> QED
    BY <1>0, <2>1, <2>2 DEF Verbatim
<1>17. ASSUME NEW p \in Proc, Unlock(p) PROVE Verbatim'
  <2>1. log' = log
    BY <1>17 DEF Unlock, disk
  <2>2. ASSUME NEW q \in Proc PROVE SentOK(q)'
    BY <1>0, <1>17 DEF Unlock, SentOK, AsSent, InCall, Go, Settle
  <2> QED
    BY <1>0, <2>1, <2>2 DEF Verbatim
<1>18. ASSUME NEW p \in Proc, EraseScan(p) PROVE Verbatim'
  <2>1. log' = log
    BY <1>18 DEF EraseScan, disk
  <2>2. ASSUME NEW q \in Proc PROVE SentOK(q)'
    BY <1>0, <1>18 DEF EraseScan, SentOK, AsSent, InCall, Go, Settle
  <2> QED
    BY <1>0, <2>1, <2>2 DEF Verbatim
<1>19. ASSUME NEW p \in Proc, EraseEnd(p) PROVE Verbatim'
  <2>1. log' = log
    BY <1>19 DEF EraseEnd, disk
  <2>2. ASSUME NEW q \in Proc PROVE SentOK(q)'
    BY <1>0, <1>19 DEF EraseEnd, SentOK, AsSent, InCall, Go, Settle
  <2> QED
    BY <1>0, <2>1, <2>2 DEF Verbatim
<1>20. ASSUME NEW p \in Proc, Lookup(p) PROVE Verbatim'
  <2>1. log' = log
    BY <1>20 DEF Lookup, disk
  <2>2. ASSUME NEW q \in Proc PROVE SentOK(q)'
    BY <1>0, <1>20 DEF Lookup, SentOK, AsSent, InCall, Go, Settle
  <2> QED
    BY <1>0, <2>1, <2>2 DEF Verbatim
<1>21. ASSUME NEW p \in Proc, Submit(p) PROVE Verbatim'
  <2>1. log' = log
    BY <1>21 DEF Submit, disk
  <2>2. ASSUME NEW q \in Proc PROVE SentOK(q)'
    BY <1>0, <1>21 DEF Submit, SentOK, AsSent, InCall, Go, Settle
  <2> QED
    BY <1>0, <2>1, <2>2 DEF Verbatim
<1>22. ASSUME NEW p \in Proc, Die(p) PROVE Verbatim'
  <2>1. log' = log
    BY <1>22 DEF Die, disk
  <2>2. ASSUME NEW q \in Proc PROVE SentOK(q)'
    BY <1>0, <1>22 DEF Die, SentOK, AsSent, InCall, Go, Settle
  <2> QED
    BY <1>0, <2>1, <2>2 DEF Verbatim
<1>23. ASSUME NEW p \in Proc, Draft(p) PROVE Verbatim'
  <2>1. /\ UNCHANGED <<log, req, sup>> /\ pc[p] = "decide"
        /\ \A q \in Proc \ {p} : pc'[q] = pc[q] /\ draft'[q] = draft[q]
        /\ draft'[p].input = req[p] /\ draft'[p].sup = sup[p]
    BY <1>0, <1>23 DEF Draft, Fresh, Go
  <2>2. ASSUME NEW q \in Proc PROVE SentOK(q)'
    BY <1>0, <1>23, <2>1 DEF Draft, SentOK, AsSent, InCall, Go
  <2> QED
    BY <1>0, <2>1, <2>2 DEF Verbatim
<1>24. ASSUME NEW p \in Proc, Commit(p) PROVE Verbatim'
  <2>1. /\ log' = log \/ log' = Append(log, draft[p])
        /\ UNCHANGED <<req, sup, draft>> /\ pc[p] = "commit" /\ pc' = [pc EXCEPT ![p] = "mark"]
    BY <1>24 DEF Commit, Go, Settle
  <2>2. ASSUME NEW q \in Proc PROVE SentOK(q)'
    BY <1>0, <2>1 DEF SentOK, AsSent, InCall
  <2>3. draft[p] \in EventType /\ AsSent(draft[p])
    BY <1>0, <2>1 DEF SentOK, Sound, Typed, Drafting
  <2>4. ASSUME NEW i \in DOMAIN log' PROVE AsSent(log'[i])
    <3>1. CASE log' = log
      BY <1>0, <2>4, <3>1
    <3>2. CASE log' = Append(log, draft[p])
      BY <1>0, <2>3, <2>4, <3>2, Appended
    <3> QED
      BY <2>1, <3>1, <3>2
  <2> QED
    BY <2>2, <2>4 DEF Verbatim, AsSent
<1>25. ASSUME NEW p \in Proc, CommitFails(p) PROVE Verbatim'
  <2>1. /\ log' = log \/ log' = Append(log, draft[p])
        /\ UNCHANGED <<req, sup, draft>> /\ pc[p] = "commit" /\ pc' = [pc EXCEPT ![p] = "unlock"]
    BY <1>25 DEF CommitFails, Go, Settle
  <2>2. ASSUME NEW q \in Proc PROVE SentOK(q)'
    BY <1>0, <2>1 DEF SentOK, AsSent, InCall
  <2>3. draft[p] \in EventType /\ AsSent(draft[p])
    BY <1>0, <2>1 DEF SentOK, Sound, Typed, Drafting
  <2>4. ASSUME NEW i \in DOMAIN log' PROVE AsSent(log'[i])
    <3>1. CASE log' = log
      BY <1>0, <2>4, <3>1
    <3>2. CASE log' = Append(log, draft[p])
      BY <1>0, <2>3, <2>4, <3>2, Appended
    <3> QED
      BY <2>1, <3>1, <3>2
  <2> QED
    BY <2>2, <2>4 DEF Verbatim, AsSent
<1>26. CASE UNCHANGED vars
  BY <1>0, <1>26 DEF vars, Verbatim, SentOK, AsSent, InCall
<1> QED
  BY <1>1, <1>2, <1>3, <1>4, <1>5, <1>6, <1>7, <1>8, <1>9, <1>10, <1>11, <1>12, <1>13, <1>14, <1>15, <1>16, <1>17, <1>18, <1>19, <1>20, <1>21, <1>22, <1>23, <1>24, <1>25, <1>26 DEF Next, Step, Locked

\* A repeated change whose event is committed is never refused.
LEMMA RetriesReplay == Sound /\ Verbatim => ~RetryRefused({"change"})
<1> SUFFICES ASSUME Sound, Verbatim, NEW p \in Proc, req[p].op = "change", Committed(req[p]),
                    Conflict(p) \/ Refuse(p)
             PROVE  FALSE
  BY DEF RetryRefused
<1>1. PICK i \in DOMAIN log : log[i].input = req[p]
  BY DEF Committed
<1>2. /\ TypeOK /\ History /\ SentOK(p) /\ AsSent(log[i]) /\ req[p] \in Request /\ req[p].key \in Key
  BY RequestFields DEF Sound, Typed, TypeOK, Verbatim
<1>3. pc[p] = "decide"
  BY DEF Conflict, Refuse, Fresh
<1>4. sup[p] = req[p].sup /\ log[i].sup = sup[p]
  BY <1>1, <1>2, <1>3 DEF SentOK, AsSent, InCall
<1>5. ChainOK(log) /\ KeyUsed(p) /\ ~Refuse(p)
  BY <1>1, <1>2 DEF History, LedgerReadable, KeyUsed, HasKey, Refuse, Fresh
<1>6. \A j \in DOMAIN log : HasKey(p, j) => SameRequest(p, log[j])
  BY <1>1, <1>2, <1>4 DEF History, OneEventPerKey, HasKey, SameRequest
<1>7. Marked(p) => SameRequest(p, Marker(p))
  BY <1>1, <1>2, <1>4 DEF History, OneEventPerKey, ReceiptsMatch, Marked, Marker, SameRequest
<1> QED
  BY <1>5, <1>6, <1>7 DEF Conflict

\* Retrying a change is safe: however the first attempt ended, the answer is
\* its event.
THEOREM ChangesRetrySafely == Spec => ChangeRetriesReplay
<1>1. Spec => []Verbatim
  BY VerbatimInit, VerbatimStep, SoundAlways, PTL DEF Spec
<1>2. Sound /\ Verbatim /\ [Next]_vars => [~RetryRefused({"change"})]_vars
  BY RetriesReplay
<1> QED
  BY <1>1, <1>2, SoundAlways, PTL DEF Spec, ChangeRetriesReplay

-----------------------------------------------------------------------------
(* Private bodies *)

\* An event's id is its own and its body's; a tombstone is the entity's last event.
OwnIds ==
  /\ \A i, j \in DOMAIN log : log[i].id = log[j].id => i = j
  /\ \A i \in DOMAIN log : log[i].id <= minted
  /\ \A p \in Proc : pc[p] \in {"body", "commit"} =>
       draft[p].id <= minted /\ \A i \in DOMAIN log : log[i].id # draft[p].id

TombsLast == \A i, j \in DOMAIN log : i < j /\ SameEntity(i, j) => ~log[i].input.tomb

\* What a process is about to remove, and what it is about to commit a body for.
TaskOK(p) ==
  /\ pc[p] = "commit" /\ draft[p].input.body => draft[p].id \in bodies
  /\ pc[p] = "sweep" => left[p] \cap Retained(log) = {} /\ bodies \subseteq Retained(log) \cup left[p]
  /\ pc[p] = "unlock" /\ result[p] \in {"created", "replayed"} => Committed(req[p])
  /\ pc[p] \in {"erase", "erasing"} => req[p].op \in {"delete", "expire"} /\ Committed(req[p])
  /\ pc[p] = "erasing" => /\ left[p] \subseteq BodiesOf(log, req[p].entity)
                          /\ bodies \cap BodiesOf(log, req[p].entity) \subseteq left[p]

Tidy == OwnIds /\ TombsLast /\ \A p \in Proc : TaskOK(p)

LEMMA OneHolder ==
  ASSUME Sound, NEW p \in Proc, NEW q \in Proc, pc[p] \in Holding, pc[q] \in Holding PROVE p = q
BY DEF Sound, Locking

LEMMA TidyInit == Init => Tidy
BY DEF Init, Tidy, OwnIds, TombsLast, TaskOK

\* An entity is tombstoned when any of its events is a tombstone.
LEMMA TombstonedMeans ==
  ASSUME TypeOK, TombsLast, NEW en
  PROVE  Tombstoned(log, en) <=> \E i \in DOMAIN log : log[i].input.entity = en /\ log[i].input.tomb
<1>1. \A i \in DOMAIN log : i \in Nat \ {0}
  BY EntriesTyped DEF TypeOK
<1>2. ASSUME NEW i \in DOMAIN log, log[i].input.entity = en, log[i].input.tomb
      PROVE  i # 0 /\ IsCurrent(log, en, i)
  BY <1>1, <1>2 DEF IsCurrent, TombsLast, SameEntity
<1> QED
  BY <1>1, <1>2 DEF Tombstoned, IsCurrent

LEMMA RetainedMeans ==
  ASSUME NEW l, NEW x
  PROVE  x \in Retained(l) <=>
           \E i \in DOMAIN l : x = l[i].id /\ l[i].input.body /\ ~Tombstoned(l, l[i].input.entity)
BY DEF Retained, HasBody

LEMMA BodiesMean ==
  ASSUME NEW l, NEW en, NEW x
  PROVE  x \in BodiesOf(l, en) <=> \E i \in DOMAIN l : x = l[i].id /\ l[i].input.body /\ l[i].input.entity = en
BY DEF BodiesOf, HasBody

\* The bodies of a deleted or expired entity are not retained.
LEMMA ErasedNotRetained ==
  ASSUME TypeOK, OwnIds, TombsLast, NEW r \in Request, r.op \in {"delete", "expire"}, Committed(r)
  PROVE  /\ Tombstoned(log, r.entity)
         /\ BodiesOf(log, r.entity) \cap Retained(log) = {}
<1>1. PICK i \in DOMAIN log : log[i].input = r
  BY DEF Committed
<1>2. r.tomb
  BY LedgerAssumption
<1>3. Tombstoned(log, r.entity)
  BY <1>1, <1>2, TombstonedMeans
<1>4. ASSUME NEW x \in BodiesOf(log, r.entity), x \in Retained(log) PROVE FALSE
  <2>1. PICK j \in DOMAIN log : x = log[j].id /\ log[j].input.entity = r.entity
    BY BodiesMean
  <2>2. PICK k \in DOMAIN log : x = log[k].id /\ ~Tombstoned(log, log[k].input.entity)
    BY <1>4, RetainedMeans
  <2> QED
    BY <1>3, <2>1, <2>2 DEF OwnIds
<1> QED
  BY <1>3, <1>4

\* The current event of a ledger without a tombstone for e's entity.
LEMMA NotEndedNotTombstoned ==
  ASSUME TypeOK, TombsLast, NEW e, Fits(log, e)
  PROVE  \A i \in DOMAIN log : log[i].input.entity = e.input.entity => ~log[i].input.tomb
<1>1. PICK c \in DOMAIN log \cup {0} : Continues(log, e, c)
  BY DEF Fits
<1>2. \A i \in DOMAIN log : i \in Nat \ {0}
  BY EntriesTyped DEF TypeOK
<1>3. CASE c = 0
  BY <1>1, <1>2, <1>3 DEF Continues, IsCurrent
<1>4. CASE c # 0
  <2>1. c \in DOMAIN log /\ ~log[c].input.tomb /\ log[c].input.entity = e.input.entity
        /\ \A i \in DOMAIN log : log[i].input.entity = e.input.entity => i <= c
    BY <1>1, <1>4 DEF Continues, IsCurrent
  <2> QED
    BY <1>2, <2>1 DEF TombsLast, SameEntity
<1> QED
  BY <1>3, <1>4

\* Committing an event that fits retains at most its body more.
LEMMA AppendRetains ==
  ASSUME TypeOK, TypeOK', TombsLast, NEW e \in EventType, Fits(log, e), log' = Append(log, e)
  PROVE  /\ TombsLast'
         /\ \A x \in Retained(log') : x \in Retained(log) \/ (x = e.id /\ e.input.body)
         /\ \A en : en # e.input.entity => BodiesOf(log', en) = BodiesOf(log, en)
         /\ \A r : Committed(r) => Committed(r)'
         /\ ~Tombstoned(log, e.input.entity)
<1> DEFINE n == Len(log)
<1>1. /\ n \in Nat /\ DOMAIN log = 1..n /\ DOMAIN log' = 1..(n + 1)
      /\ \A i \in 1..n : log'[i] = log[i]
      /\ log'[n + 1] = e
  BY Appended
<1> HIDE DEF n
<1>2. \A i \in 1..n : log[i].input.entity = e.input.entity => ~log[i].input.tomb
  BY <1>1, NotEndedNotTombstoned
<1>3. TombsLast'
  <2>1. ASSUME NEW i \in 1..(n + 1), NEW j \in 1..(n + 1), i < j, log'[i].input.entity = log'[j].input.entity
        PROVE  ~log'[i].input.tomb
    <3>1. i \in 1..n
      BY <1>1, <2>1
    <3>2. CASE j = n + 1
      BY <1>1, <1>2, <2>1, <3>1, <3>2
    <3>3. CASE j \in 1..n
      BY <1>1, <2>1, <3>1, <3>3 DEF TombsLast, SameEntity
    <3> QED
      BY <1>1, <3>2, <3>3
  <2> QED
    BY <1>1, <2>1 DEF TombsLast, SameEntity
<1>4. \A en : Tombstoned(log, en) => Tombstoned(log', en)
  <2>1. ASSUME NEW en, Tombstoned(log, en) PROVE Tombstoned(log', en)
    <3>1. PICK i \in DOMAIN log : log[i].input.entity = en /\ log[i].input.tomb
      BY <2>1, TombstonedMeans
    <3>2. i \in DOMAIN log' /\ log'[i].input.entity = en /\ log'[i].input.tomb
      BY <1>1, <3>1
    <3>3. i # 0 /\ IsCurrent(log', en, i)
      <4>1. \A j \in DOMAIN log' : i < j => log'[j].input.entity # en
        BY <1>3, <3>2 DEF TombsLast, SameEntity
      <4> QED
        BY <1>1, <3>2, <4>1 DEF IsCurrent
    <3> QED
      BY <3>2, <3>3 DEF Tombstoned
  <2> QED
    BY <2>1
<1>5. ASSUME NEW x \in Retained(log') PROVE x \in Retained(log) \/ (x = e.id /\ e.input.body)
  <2>1. PICK i \in DOMAIN log' : x = log'[i].id /\ log'[i].input.body /\ ~Tombstoned(log', log'[i].input.entity)
    BY RetainedMeans
  <2>2. CASE i = n + 1
    BY <1>1, <2>1, <2>2
  <2>3. CASE i # n + 1
    <3>1. i \in DOMAIN log /\ log'[i] = log[i]
      BY <1>1, <2>3
    <3> QED
      BY <1>4, <2>1, <3>1, RetainedMeans
  <2> QED
    BY <2>2, <2>3
<1>6. ASSUME NEW en, en # e.input.entity PROVE BodiesOf(log', en) = BodiesOf(log, en)
  <2>1. ASSUME NEW x PROVE x \in BodiesOf(log', en) <=> x \in BodiesOf(log, en)
    <3>1. \A i \in 1..(n + 1) : log'[i].input.entity = en => i \in 1..n
      BY <1>1, <1>6
    <3>2. \A i \in 1..n : i \in 1..(n + 1)
      BY <1>1
    <3>3. x \in BodiesOf(log', en) <=>
            \E i \in 1..(n + 1) : x = log'[i].id /\ log'[i].input.body /\ log'[i].input.entity = en
      BY <1>1 DEF BodiesOf, HasBody
    <3>4. x \in BodiesOf(log, en) <=> \E i \in 1..n : x = log[i].id /\ log[i].input.body /\ log[i].input.entity = en
      BY <1>1, BodiesMean
    <3> QED
      BY <1>1, <3>1, <3>2, <3>3, <3>4
  <2> QED
    BY <2>1
<1>7. ASSUME NEW r, Committed(r) PROVE Committed(r)'
  BY <1>1, <1>7 DEF Committed
<1>8. ~Tombstoned(log, e.input.entity)
  BY <1>1, <1>2, TombstonedMeans
<1> QED
  BY <1>3, <1>5, <1>6, <1>7, <1>8

\* q's part of the process variables.
Still(q) ==
  /\ pc'[q] = pc[q] /\ req'[q] = req[q] /\ draft'[q] = draft[q]
  /\ left'[q] = left[q] /\ result'[q] = result[q]

\* What p does to bodies while it holds the lock concerns its draft's body alone.
OwnBodyOnly(p) ==
  /\ pc[p] \in {"body", "commit"}
  /\ bodies' \subseteq bodies \cup {draft[p].id} /\ bodies \subseteq bodies' \cup {draft[p].id}

LEMMA TaskStays ==
  ASSUME NEW q, TaskOK(q), UNCHANGED <<log, bodies>>, Still(q) PROVE TaskOK(q)'
BY DEF TaskOK, Still, Retained, Tombstoned, IsCurrent, BodiesOf, Committed, HasBody

LEMMA TaskSurvivesRemoval ==
  ASSUME Sound, Tidy, NEW p \in Proc, NEW q \in Proc \ {p}, RemoveOne(p), Still(q) PROVE TaskOK(q)'
<1>1. PICK o \in left[p] : bodies' = bodies \ {o}
  BY DEF RemoveOne
<1>2. log' = log /\ TaskOK(q)
  BY DEF RemoveOne, Tidy
<1>3. ASSUME pc[q] = "commit", draft[q].id = o PROVE FALSE
  <2>1. pc[p] = "erasing"
    BY <1>3, OneHolder DEF RemoveOne, Holding
  <2>2. o \in BodiesOf(log, req[p].entity)
    BY <1>1, <2>1 DEF Tidy, TaskOK
  <2>3. PICK i \in DOMAIN log : o = log[i].id
    BY <2>2, BodiesMean
  <2> QED
    BY <1>3, <2>3 DEF Tidy, OwnIds
<1>4. Retained(log)' = Retained(log) /\ \A en : BodiesOf(log, en)' = BodiesOf(log, en)
  BY <1>2 DEF Retained, Tombstoned, IsCurrent, BodiesOf, HasBody
<1> QED
  BY <1>1, <1>2, <1>3, <1>4 DEF TaskOK, Still, Committed, BodiesOf, HasBody, Retained, Tombstoned, IsCurrent

\* The tasks of the others while p stores, commits or withdraws its draft.
LEMMA TaskSurvivesCommit ==
  ASSUME Sound, Tidy, TypeOK', NEW p \in Proc, NEW q \in Proc \ {p}, OwnBodyOnly(p), Still(q),
         UNCHANGED log \/ (pc[p] = "commit" /\ log' = Append(log, draft[p]))
  PROVE  TaskOK(q)'
<1> DEFINE d == draft[p]
<1>1. /\ TypeOK /\ d \in EventType /\ Fits(log, d) /\ pc[q] \notin Holding
      /\ \A i \in DOMAIN log : log[i].id # d.id
  BY OneHolder DEF OwnBodyOnly, Sound, Typed, Drafting, DraftOK, Holding, Tidy, OwnIds
<1>2. CASE pc[q] \notin {"erase", "erasing"}
  BY <1>1, <1>2 DEF TaskOK, Still, Holding
<1>3. CASE pc[q] \in {"erase", "erasing"}
  <2> DEFINE en == req[q].entity
  <2>1. TaskOK(q) /\ req[q] \in Request
    BY <1>1 DEF Tidy, TypeOK
  <2>2. req[q].op \in {"delete", "expire"} /\ Committed(req[q])
    BY <1>3, <2>1 DEF TaskOK
  <2>3. Tombstoned(log, en)
    BY <1>1, <2>1, <2>2, ErasedNotRetained DEF Tidy
  <2>4. Committed(req[q])' /\ BodiesOf(log', en) = BodiesOf(log, en)
    <3>1. CASE log' = log
      BY <2>2, <3>1 DEF Committed, Still
    <3>2. CASE log' = Append(log, d)
      <4>1. /\ \A e : e # d.input.entity => BodiesOf(log', e) = BodiesOf(log, e)
            /\ Committed(req[q])'
            /\ ~Tombstoned(log, d.input.entity)
        <5>1. TombsLast
          BY DEF Tidy
        <5>2. \A r : Committed(r) => \E i \in DOMAIN log' : log'[i].input = r
          BY <1>1, <3>2, <5>1, AppendRetains DEF Committed
        <5> HIDE DEF d
        <5>3. /\ \A e : e # d.input.entity => BodiesOf(log', e) = BodiesOf(log, e)
              /\ ~Tombstoned(log, d.input.entity)
          BY <1>1, <3>2, <5>1, AppendRetains
        <5> QED
          BY <2>2, <5>2, <5>3 DEF Committed, Still
      <4> QED
        BY <2>3, <4>1
    <3> QED
      BY <3>1, <3>2
  <2>5. d.id \notin BodiesOf(log, en)
    BY <1>1, BodiesMean
  <2>6. bodies' \cap BodiesOf(log', en) = bodies \cap BodiesOf(log, en)
    BY <2>4, <2>5 DEF OwnBodyOnly
  <2> QED
    BY <1>3, <2>1, <2>2, <2>4, <2>6 DEF TaskOK, Still
<1> QED
  BY <1>2, <1>3

\* Steps that touch neither the log nor a body.
Quiet(p) ==
  \/ Open(p) \/ OpenBusy(p) \/ ReconcileScan(p) \/ ReconcileEnd(p) \/ Submit(p) \/ Lookup(p) \/ Check(p)
  \/ Acquire(p) \/ Busy(p) \/ Replay(p) \/ Conflict(p) \/ Heal(p) \/ Refuse(p) \/ Draft(p)
  \/ Mark(p) \/ MarkFails(p) \/ Unlock(p) \/ EraseScan(p) \/ EraseEnd(p) \/ Die(p)

\* A step is its process's own.
LEMMA OthersStill ==
  ASSUME TypeOK, NEW p \in Proc, NEW q \in Proc \ {p},
         Quiet(p) \/ RemoveOne(p) \/ StoreBody(p) \/ BodyFails(p) \/ Commit(p) \/ CommitFails(p)
  PROVE  Still(q)
<1> USE DEF Still, TypeOK, Go, Answer, Settle
<1>1. CASE Open(p) \/ OpenBusy(p) \/ ReconcileScan(p) \/ ReconcileEnd(p) \/ Submit(p) \/ Lookup(p) \/ Check(p)
           \/ Acquire(p) \/ Busy(p)
  BY <1>1 DEF Open, OpenBusy, ReconcileScan, ReconcileEnd, Submit, Lookup, Check, Acquire, Busy
<1>2. CASE Replay(p) \/ Conflict(p) \/ Heal(p) \/ Draft(p)
  BY <1>2 DEF Replay, Conflict, Heal, Draft
<1>3. CASE Refuse(p)
  BY <1>3 DEF Refuse
<1>4. CASE Mark(p) \/ MarkFails(p) \/ Unlock(p) \/ EraseScan(p) \/ EraseEnd(p) \/ Die(p)
  BY <1>4 DEF Mark, MarkFails, Unlock, EraseScan, EraseEnd, Die
<1>5. CASE RemoveOne(p) \/ StoreBody(p) \/ BodyFails(p) \/ Commit(p) \/ CommitFails(p)
  BY <1>5 DEF RemoveOne, StoreBody, BodyFails, Commit, CommitFails
<1> QED
  BY <1>1, <1>2, <1>3, <1>4, <1>5 DEF Quiet

LEMMA QuietDisk ==
  ASSUME NEW p \in Proc, Quiet(p) PROVE UNCHANGED <<log, bodies>>
<1> USE DEF disk
<1>1. CASE Open(p) \/ OpenBusy(p) \/ ReconcileScan(p) \/ ReconcileEnd(p) \/ Submit(p) \/ Lookup(p) \/ Check(p)
           \/ Acquire(p) \/ Busy(p)
  BY <1>1 DEF Open, OpenBusy, ReconcileScan, ReconcileEnd, Submit, Lookup, Check, Acquire, Busy
<1>2. CASE Replay(p) \/ Conflict(p) \/ Heal(p) \/ Refuse(p) \/ Draft(p)
  BY <1>2 DEF Replay, Conflict, Heal, Refuse, Draft
<1>3. CASE Mark(p) \/ MarkFails(p) \/ Unlock(p) \/ EraseScan(p) \/ EraseEnd(p) \/ Die(p)
  BY <1>3 DEF Mark, MarkFails, Unlock, EraseScan, EraseEnd, Die
<1> QED
  BY <1>1, <1>2, <1>3 DEF Quiet

\* A refusal is no success.
LEMMA RefusalIsNoSuccess ==
  ASSUME NEW r, NEW s, NEW i, NEW n \in DOMAIN Refusals(r, s, i)
  PROVE  Refusals(r, s, i)[n][1] \notin {"created", "replayed"}
<1>1. n \in {1, 2, 3, 4, 5, 6, 7, 8, 9}
  BY DEF Refusals
<1> QED
  BY <1>1 DEF Refusals

\* The tasks a process takes up, at the step that it takes.
LEMMA OwnQuietTask ==
  ASSUME Sound, Tidy, NEW p \in Proc, Quiet(p) PROVE TaskOK(p)'
<1>0. /\ UNCHANGED <<log, bodies>> /\ TypeOK /\ TaskOK(p) /\ DraftOK(p) /\ History
      /\ pc[p] \in PC /\ req[p] \in Request
  BY QuietDisk DEF Sound, Typed, TypeOK, Tidy
<1>a. Retained(log)' = Retained(log) /\ BodiesOf(log, req[p].entity)' = BodiesOf(log', req'[p].entity)
  BY <1>0 DEF Retained, Tombstoned, IsCurrent, BodiesOf, HasBody
<1> USE DEF TypeOK, Go, Answer, Settle
<1>1. CASE Open(p) \/ OpenBusy(p) \/ ReconcileEnd(p) \/ Submit(p) \/ Lookup(p) \/ Check(p)
           \/ Acquire(p) \/ Busy(p) \/ Conflict(p) \/ Heal(p) \/ MarkFails(p) \/ EraseEnd(p) \/ Die(p)
  <2>1. \/ pc'[p] \notin {"commit", "sweep", "unlock", "erase", "erasing"}
        \/ pc'[p] = "unlock" /\ result'[p] \notin {"created", "replayed"}
    BY <1>0, <1>1 DEF Open, OpenBusy, ReconcileEnd, Submit, Lookup, Check, Acquire, Busy, Conflict, Heal,
                      MarkFails, EraseEnd, Die
  <2> QED
    BY <2>1 DEF TaskOK
<1>2. CASE Refuse(p)
  <2>1. PICK i \in DOMAIN log \cup {0} :
          \E n \in DOMAIN Refusals(req[p], sup[p], i) : Settle(p, Refusals(req[p], sup[p], i)[n][1])
    BY <1>2 DEF Refuse
  <2>2. PICK n \in DOMAIN Refusals(req[p], sup[p], i) :
          Settle(p, Refusals(req[p], sup[p], i)[n][1])
    BY <2>1
  <2>3. pc'[p] = "unlock" /\ result'[p] \notin {"created", "replayed"}
    BY <1>0, <2>2, RefusalIsNoSuccess
  <2> QED
    BY <2>3 DEF TaskOK
<1>3. CASE ReconcileScan(p)
  <2>1. (pc'[p] = "sweep" /\ left'[p] = bodies \ Retained(log)) \/ pc'[p] = "down"
    BY <1>0, <1>3 DEF ReconcileScan
  <2> QED
    BY <1>0, <1>a, <2>1 DEF TaskOK
<1>4. CASE Replay(p)
  <2>1. Marker(p) # NoMarker /\ Marker(p).input = req[p] /\ req[p].key \in Key
    BY <1>0, <1>4, RequestFields DEF Replay, Marked, SameRequest
  <2>2. Committed(req[p])
    <3>1. PICK i \in DOMAIN log : log[i].input = markers[req[p].key].input
      BY <1>0, <2>1 DEF History, ReceiptsMatch, Marker
    <3> QED
      BY <2>1, <3>1 DEF Marker, Committed
  <2>3. pc'[p] = "unlock" /\ req' = req
    BY <1>0, <1>4 DEF Replay
  <2> QED
    BY <1>0, <2>2, <2>3 DEF TaskOK, Committed
<1>5. CASE Draft(p)
  <2>1. /\ pc'[p] = IF req[p].body THEN "body" ELSE "commit"
        /\ draft'[p].input = req[p]
    BY <1>0, <1>5 DEF Draft
  <2> QED
    BY <1>0, <2>1, RequestFields DEF TaskOK
<1>6. CASE Mark(p)
  <2>1. Committed(req[p])
    BY <1>0, <1>6 DEF Mark, DraftOK, Committed
  <2>2. pc'[p] = "unlock" /\ req' = req
    BY <1>0, <1>6 DEF Mark
  <2> QED
    BY <1>0, <2>1, <2>2 DEF TaskOK, Committed
<1>7. CASE Unlock(p)
  <2>1. /\ req' = req /\ pc[p] = "unlock"
        /\ pc'[p] = "idle" \/ (pc'[p] = "erase" /\ req[p].op \in {"delete", "expire"}
                                 /\ result[p] \in {"created", "replayed"})
    BY <1>0, <1>7 DEF Unlock
  <2> QED
    BY <1>0, <2>1 DEF TaskOK, Committed
<1>8. CASE EraseScan(p)
  <2>1. /\ req' = req /\ pc[p] = "erase"
        /\ pc'[p] = "idle" \/ (pc'[p] = "erasing" /\ left'[p] = BodiesOf(log, req[p].entity))
    BY <1>0, <1>8 DEF EraseScan
  <2> QED
    BY <1>0, <1>a, <2>1 DEF TaskOK, Committed
<1> QED
  BY <1>1, <1>2, <1>3, <1>4, <1>5, <1>6, <1>7, <1>8 DEF Quiet

\* The tasks a process is at while it removes, stores or commits.
LEMMA OwnLoudTask ==
  ASSUME Sound, Tidy, NEW p \in Proc,
         RemoveOne(p) \/ StoreBody(p) \/ BodyFails(p) \/ Commit(p) \/ CommitFails(p)
  PROVE  TaskOK(p)'
<1>0. TypeOK /\ TaskOK(p)
  BY DEF Sound, Typed, Tidy
<1> USE DEF TypeOK, Go, Answer, Settle
<1>1. CASE RemoveOne(p)
  <2>1. PICK o \in left[p] : bodies' = bodies \ {o} /\ left' = [left EXCEPT ![p] = @ \ {o}]
    BY <1>1 DEF RemoveOne
  <2>2. UNCHANGED <<log, pc, req>> /\ pc[p] \in {"sweep", "erasing"} /\ left'[p] = left[p] \ {o}
    BY <1>0, <1>1, <2>1 DEF RemoveOne
  <2>3. Retained(log)' = Retained(log) /\ BodiesOf(log, req[p].entity)' = BodiesOf(log, req[p].entity)
    BY <2>2 DEF Retained, Tombstoned, IsCurrent, BodiesOf, HasBody
  <2> QED
    BY <1>0, <2>1, <2>2, <2>3 DEF TaskOK, Committed
<1>2. CASE StoreBody(p)
  <2>1. pc'[p] = "commit" /\ draft'[p] = draft[p] /\ draft[p].id \in bodies'
    BY <1>0, <1>2 DEF StoreBody
  <2> QED
    BY <2>1 DEF TaskOK
<1>3. CASE Commit(p)
  <2>1. pc'[p] = "mark"
    BY <1>0, <1>3 DEF Commit
  <2> QED
    BY <2>1 DEF TaskOK
<1>4. CASE BodyFails(p) \/ CommitFails(p)
  <2>1. pc'[p] = "unlock" /\ result'[p] = "EIO"
    BY <1>0, <1>4 DEF BodyFails, CommitFails
  <2> QED
    BY <2>1 DEF TaskOK
<1> QED
  BY <1>1, <1>2, <1>3, <1>4

LEMMA LoudBodies ==
  ASSUME NEW p \in Proc, StoreBody(p) \/ BodyFails(p) \/ Commit(p) \/ CommitFails(p)
  PROVE  /\ OwnBodyOnly(p)
         /\ UNCHANGED log \/ (pc[p] = "commit" /\ log' = Append(log, draft[p]))
         /\ minted' = minted /\ draft' = draft
BY DEF OwnBodyOnly, StoreBody, BodyFails, Commit, CommitFails

LEMMA TasksStep ==
  ASSUME Sound, Tidy, [Next]_vars, TypeOK', NEW q \in Proc PROVE TaskOK(q)'
<1>0. TypeOK /\ TaskOK(q)
  BY DEF Sound, Typed, Tidy
<1>1. ASSUME NEW p \in Proc, Quiet(p) PROVE TaskOK(q)'
  <2>1. CASE p = q
    BY <1>1, <2>1, OwnQuietTask
  <2>2. CASE p # q
    <3>1. Still(q)
      BY <1>0, <1>1, <2>2, OthersStill
    <3> QED
      BY <1>0, <1>1, <3>1, QuietDisk, TaskStays
  <2> QED
    BY <2>1, <2>2
<1>2. ASSUME NEW p \in Proc, RemoveOne(p) \/ StoreBody(p) \/ BodyFails(p) \/ Commit(p) \/ CommitFails(p)
      PROVE  TaskOK(q)'
  <2>1. CASE p = q
    BY <1>2, <2>1, OwnLoudTask
  <2>2. CASE p # q
    <3>1. Still(q)
      BY <1>0, <1>2, <2>2, OthersStill
    <3>2. CASE RemoveOne(p)
      BY <2>2, <3>1, <3>2, TaskSurvivesRemoval
    <3>3. CASE ~RemoveOne(p)
      BY <1>2, <2>2, <3>1, <3>3, LoudBodies, TaskSurvivesCommit
    <3> QED
      BY <3>2, <3>3
  <2> QED
    BY <2>1, <2>2
<1>3. CASE UNCHANGED vars
  BY <1>0, <1>3, TaskStays DEF vars, Still
<1> QED
  BY <1>1, <1>2, <1>3 DEF Next, Step, Locked, Quiet

\* Ids stay apart: a draft's is new, and nobody else drafts.
LEMMA OwnIdsStep ==
  ASSUME Sound, OwnIds, [Next]_vars PROVE OwnIds'
<1>0. TypeOK /\ minted \in Nat
  BY DEF Sound, Typed, TypeOK
<1>1. ASSUME UNCHANGED <<log, minted>>,
             \A q \in Proc : pc'[q] \in {"body", "commit"} => pc[q] \in {"body", "commit"} /\ draft'[q] = draft[q]
      PROVE  OwnIds'
  BY <1>1 DEF OwnIds
<1> USE DEF TypeOK, Go, Answer, Settle, disk
<1>2. ASSUME NEW p \in Proc, Draft(p) PROVE OwnIds'
  <2>1. /\ log' = log /\ minted' = minted + 1 /\ draft'[p].id = minted + 1
        /\ \A q \in Proc \ {p} : pc'[q] = pc[q] /\ draft'[q] = draft[q]
    BY <1>0, <1>2 DEF Draft
  <2>2. \A i \in DOMAIN log : log[i].id \in Nat /\ log[i].id <= minted
    BY <1>0, EntriesTyped, EventFields DEF OwnIds
  <2>3. \A q \in Proc \ {p} : pc[q] \notin {"body", "commit"}
    BY <1>2, OneHolder DEF Draft, Fresh, Holding
  <2>4. \A q \in Proc : pc'[q] \in {"body", "commit"} => q = p
    BY <2>1, <2>3
  <2>5. \A i \in DOMAIN log' : log'[i].id <= minted' /\ log'[i].id # draft'[p].id
    BY <1>0, <2>1, <2>2
  <2>6. \A i, j \in DOMAIN log' : log'[i].id = log'[j].id => i = j
    BY <2>1 DEF OwnIds
  <2>7. draft'[p].id <= minted'
    BY <1>0, <2>1
  <2> QED
    BY <2>4, <2>5, <2>6, <2>7 DEF OwnIds
<1>3. ASSUME NEW p \in Proc, StoreBody(p) \/ BodyFails(p) \/ Commit(p) \/ CommitFails(p) PROVE OwnIds'
  <2>1. /\ minted' = minted /\ draft' = draft /\ pc[p] \in {"body", "commit"}
        /\ UNCHANGED log \/ (pc[p] = "commit" /\ log' = Append(log, draft[p]) /\ pc'[p] \notin {"body", "commit"})
        /\ \A q \in Proc \ {p} : pc'[q] = pc[q]
    BY <1>0, <1>3 DEF StoreBody, BodyFails, Commit, CommitFails
  <2>2. \A q \in Proc \ {p} : pc[q] \notin {"body", "commit"}
    BY <2>1, OneHolder DEF Holding
  <2>3. CASE log' = log
    BY <2>1, <2>2, <2>3 DEF OwnIds
  <2>4. CASE log' = Append(log, draft[p]) /\ pc[p] = "commit" /\ pc'[p] \notin {"body", "commit"}
    <3> DEFINE d == draft[p]
               n == Len(log)
    <3>1. d \in EventType /\ d.id <= minted /\ \A i \in DOMAIN log : log[i].id # d.id
      BY <2>4 DEF Sound, Typed, Drafting, OwnIds
    <3>2. /\ n \in Nat /\ DOMAIN log = 1..n /\ DOMAIN log' = 1..(n + 1)
          /\ \A i \in 1..n : log'[i] = log[i]
          /\ log'[n + 1] = d
      BY <1>0, <2>4, <3>1, Appended
    <3> HIDE DEF d, n
    <3>3. \A i, j \in 1..(n + 1) : log'[i].id = log'[j].id => i = j
      BY <3>1, <3>2 DEF OwnIds
    <3>4. \A i \in 1..(n + 1) : log'[i].id <= minted'
      BY <2>1, <3>1, <3>2 DEF OwnIds
    <3> QED
      BY <2>1, <2>2, <2>4, <3>2, <3>3, <3>4 DEF OwnIds
  <2> QED
    BY <2>1, <2>3, <2>4
<1>4. ASSUME NEW p \in Proc, Open(p) \/ OpenBusy(p) \/ ReconcileScan(p) \/ ReconcileEnd(p) \/ Submit(p) \/ Lookup(p)
                             \/ Check(p) \/ Acquire(p) \/ Busy(p) \/ RemoveOne(p) PROVE OwnIds'
  BY <1>0, <1>1, <1>4 DEF Open, OpenBusy, ReconcileScan, ReconcileEnd, Submit, Lookup, Check, Acquire, Busy, RemoveOne
<1>5. ASSUME NEW p \in Proc, Replay(p) \/ Conflict(p) \/ Heal(p) \/ Refuse(p) PROVE OwnIds'
  <2>1. /\ UNCHANGED <<log, minted>> /\ pc'[p] \in {"unlock", "mark"}
        /\ \A q \in Proc \ {p} : pc'[q] = pc[q] /\ draft'[q] = draft[q]
    BY <1>0, <1>5 DEF Replay, Conflict, Heal, Refuse
  <2> QED
    BY <1>1, <2>1
<1>6. ASSUME NEW p \in Proc, Mark(p) \/ MarkFails(p) \/ Unlock(p) \/ EraseScan(p) \/ EraseEnd(p) \/ Die(p)
      PROVE  OwnIds'
  BY <1>0, <1>1, <1>6 DEF Mark, MarkFails, Unlock, EraseScan, EraseEnd, Die
<1>7. CASE UNCHANGED vars
  BY <1>1, <1>7 DEF vars
<1> QED
  BY <1>2, <1>3, <1>4, <1>5, <1>6, <1>7 DEF Next, Step, Locked

\* The log changes by a commit of a draft that fits.
LEMMA LogGrows ==
  ASSUME Sound, [Next]_vars
  PROVE  \/ log' = log
         \/ \E p \in Proc : /\ pc[p] = "commit" /\ log' = Append(log, draft[p])
                            /\ draft[p] \in EventType /\ Fits(log, draft[p]) /\ draft[p].input = req[p]
                            /\ Commit(p) \/ (CommitFails(p) /\ "commitSync" \in Faults)
<1>1. ASSUME NEW p \in Proc, Commit(p) \/ CommitFails(p), log' # log
      PROVE  /\ pc[p] = "commit" /\ log' = Append(log, draft[p])
             /\ draft[p] \in EventType /\ Fits(log, draft[p]) /\ draft[p].input = req[p]
             /\ Commit(p) \/ (CommitFails(p) /\ "commitSync" \in Faults)
  BY <1>1 DEF Commit, CommitFails, Sound, Typed, Drafting, DraftOK
<1>2. ASSUME NEW p \in Proc, Quiet(p) \/ RemoveOne(p) \/ StoreBody(p) \/ BodyFails(p) PROVE log' = log
  BY <1>2, QuietDisk DEF RemoveOne, StoreBody, BodyFails
<1> QED
  BY <1>1, <1>2 DEF Next, Step, Locked, Quiet, vars

LEMMA TidyStep == Sound /\ Tidy /\ [Next]_vars => Tidy'
<1> SUFFICES ASSUME Sound, Tidy, [Next]_vars PROVE Tidy'
  OBVIOUS
<1>1. TypeOK /\ TypeOK'
  BY SoundStep DEF Sound, Typed
<1>2. OwnIds'
  BY OwnIdsStep DEF Tidy
<1>3. TombsLast'
  <2>1. CASE log' = log
    BY <2>1 DEF Tidy, TombsLast, SameEntity
  <2>2. ASSUME NEW e \in EventType, Fits(log, e), log' = Append(log, e) PROVE TombsLast'
    BY <1>1, <2>2, AppendRetains DEF Tidy
  <2> QED
    BY <2>1, <2>2, LogGrows
<1>4. \A q \in Proc : TaskOK(q)'
  BY <1>1, TasksStep
<1> QED
  BY <1>2, <1>3, <1>4 DEF Tidy

LEMMA TidyAlways == Spec => [](Sound /\ Tidy)
BY SoundInit, SoundStep, TidyInit, TidyStep, PTL DEF Spec

\* A retained body leaves the disk only when a commit is reported as failed although
\* its file was linked.
LEMMA BodiesStay ==
  ASSUME "commitSync" \notin Faults, Sound, Tidy, TypeOK', BodiesKept, [Next]_vars PROVE BodiesKept'
<1>0. TypeOK /\ TombsLast
  BY DEF Sound, Typed, Tidy
<1>1. CASE UNCHANGED <<log, bodies>>
  BY <1>1 DEF BodiesKept, Retained, Tombstoned, IsCurrent, HasBody
<1>2. ASSUME log' = log, \A x \in Retained(log) : x \in bodies' PROVE BodiesKept'
  BY <1>2 DEF BodiesKept, Retained, Tombstoned, IsCurrent, HasBody
<1>3. ASSUME NEW p \in Proc, RemoveOne(p) PROVE BodiesKept'
  <2>1. PICK o \in left[p] : bodies' = bodies \ {o}
    BY <1>3 DEF RemoveOne
  <2>2. o \notin Retained(log)
    <3>1. CASE pc[p] = "sweep"
      BY <2>1, <3>1 DEF Tidy, TaskOK
    <3>2. CASE pc[p] = "erasing"
      <4>1. /\ o \in BodiesOf(log, req[p].entity)
            /\ req[p] \in Request /\ req[p].op \in {"delete", "expire"} /\ Committed(req[p])
        BY <1>0, <2>1, <3>2 DEF Tidy, TaskOK, TypeOK
      <4> QED
        BY <1>0, <4>1, ErasedNotRetained DEF Tidy
    <3> QED
      BY <1>3, <3>1, <3>2 DEF RemoveOne
  <2> QED
    BY <1>2, <1>3, <2>1, <2>2 DEF RemoveOne, BodiesKept
<1>4. ASSUME NEW p \in Proc, StoreBody(p) \/ BodyFails(p) \/ CommitFails(p) PROVE BodiesKept'
  <2>1. log' = log /\ OwnBodyOnly(p)
    BY <1>4, LoudBodies DEF CommitFails, StoreBody, BodyFails
  <2>2. draft[p].id \notin Retained(log)
    BY <2>1, RetainedMeans DEF OwnBodyOnly, Tidy, OwnIds
  <2> QED
    BY <1>2, <2>1, <2>2 DEF OwnBodyOnly, BodiesKept
<1>5. ASSUME NEW p \in Proc, Commit(p) PROVE BodiesKept'
  <2>1. /\ bodies' = bodies /\ log' = Append(log, draft[p]) /\ pc[p] = "commit"
    BY <1>5 DEF Commit
  <2>2. draft[p] \in EventType /\ Fits(log, draft[p]) /\ (draft[p].input.body => draft[p].id \in bodies)
    BY <2>1 DEF Sound, Typed, Drafting, DraftOK, Tidy, TaskOK
  <2>3. \A x \in Retained(log') : x \in Retained(log) \/ (x = draft[p].id /\ draft[p].input.body)
    <3> DEFINE d == draft[p]
    <3>1. d \in EventType /\ Fits(log, d) /\ log' = Append(log, d)
      BY <2>1, <2>2
    <3> HIDE DEF d
    <3>2. \A x \in Retained(log') : x \in Retained(log) \/ (x = d.id /\ d.input.body)
      BY <1>0, <3>1, AppendRetains
    <3> QED
      BY <3>2 DEF d
  <2> QED
    BY <2>1, <2>2, <2>3 DEF BodiesKept
<1> QED
  BY <1>1, <1>3, <1>4, <1>5, QuietDisk DEF Next, Step, Locked, Quiet, vars

\* The body of every revision of every live entity stays on disk, whatever opens,
\* deletions and deaths interleave, as long as a linked event is not taken for a failure.
THEOREM BodiesAlwaysKept ==
  ASSUME "commitSync" \notin Faults PROVE Spec => []BodiesKept
<1>1. Init => BodiesKept
  BY DEF Init, BodiesKept, Retained
<1>2. Sound /\ Tidy /\ BodiesKept /\ [Next]_vars => BodiesKept'
  <2>1. Sound /\ [Next]_vars => TypeOK'
    BY SoundStep DEF Sound, Typed
  <2> QED
    BY <2>1, BodiesStay
<1> QED
  BY <1>1, <1>2, TidyAlways, PTL DEF Spec

\* When a reconciliation, a deletion or an expiry ends, everything it had to remove is
\* gone, whatever raced with it, died or failed.
THEOREM ErasureAlwaysComplete == Spec => ErasureIsComplete
<1>1. Tidy /\ [Next]_vars => [\A p \in Proc : ReconcileEnd(p) => bodies \subseteq Retained(log)]_vars
  BY DEF Tidy, TaskOK, ReconcileEnd
<1>2. Tidy /\ [Next]_vars
        => [\A p \in Proc : EraseEnd(p) => bodies \cap BodiesOf(log, req[p].entity) = {}]_vars
  BY DEF Tidy, TaskOK, EraseEnd
<1> QED
  BY <1>1, <1>2, TidyAlways, PTL DEF Spec, ErasureIsComplete, OpenIsClean, DeletionErases

-----------------------------------------------------------------------------
(* The ledger as one sequence of accepted requests *)

\* An event's revision is the number of events its entity has had by then.
EventsOf(l, en, i) == {j \in DOMAIN l : j <= i /\ l[j].input.entity = en}
Counted == \A i \in DOMAIN log : log[i].rev = Cardinality(EventsOf(log, log[i].input.entity, i))

\* What a draft was checked for besides Fits.
DraftNamed(p) ==
  pc[p] \in {"body", "commit"} =>
    /\ draft[p].rev = draft[p].input.expected + 1
    /\ draft[p].input.name # NoName => \A i \in DOMAIN log : log[i].input.name # draft[p].input.name

\* Drafts are made once and kept; the ledger waits for them.
LEMMA DraftsWait ==
  ASSUME Sound, [Next]_vars, NEW q \in Proc, pc'[q] \in {"body", "commit"}
  PROVE  Draft(q) \/ (pc[q] \in {"body", "commit"} /\ draft'[q] = draft[q] /\ log' = log)
<1>0. TypeOK
  BY DEF Sound, Typed
<1>1. ASSUME NEW p \in Proc, p # q, Quiet(p) \/ RemoveOne(p) \/ StoreBody(p) \/ BodyFails(p) \/ Commit(p) \/ CommitFails(p)
      PROVE  pc[q] \in {"body", "commit"} /\ draft'[q] = draft[q] /\ log' = log
  <2>1. pc'[q] = pc[q] /\ draft'[q] = draft[q]
    BY <1>0, <1>1, OthersStill DEF Still
  <2>2. ~Commit(p) /\ ~CommitFails(p)
    BY <1>1, <2>1, OneHolder DEF Commit, CommitFails, Holding
  <2> QED
    BY <1>1, <2>1, <2>2, QuietDisk DEF RemoveOne, StoreBody, BodyFails
<1> USE DEF TypeOK, Go, Answer, Settle, disk
<1>2. CASE Open(q) \/ OpenBusy(q) \/ ReconcileScan(q) \/ ReconcileEnd(q) \/ Submit(q) \/ Lookup(q)
           \/ Check(q) \/ Acquire(q) \/ Busy(q)
  BY <1>0, <1>2 DEF Open, OpenBusy, ReconcileScan, ReconcileEnd, Submit, Lookup, Check, Acquire, Busy
<1>3. CASE Replay(q) \/ Conflict(q) \/ Heal(q) \/ Refuse(q)
  <2>1. pc'[q] \in {"unlock", "mark"}
    BY <1>0, <1>3 DEF Replay, Conflict, Heal, Refuse
  <2> QED
    BY <2>1
<1>4. CASE Mark(q) \/ MarkFails(q) \/ Unlock(q) \/ EraseScan(q) \/ EraseEnd(q) \/ Die(q)
  BY <1>0, <1>4 DEF Mark, MarkFails, Unlock, EraseScan, EraseEnd, Die
<1>5. CASE RemoveOne(q) \/ StoreBody(q) \/ BodyFails(q) \/ Commit(q) \/ CommitFails(q)
  BY <1>0, <1>5 DEF RemoveOne, StoreBody, BodyFails, Commit, CommitFails
<1>6. CASE UNCHANGED vars
  BY <1>6 DEF vars
<1> QED
  BY <1>1, <1>2, <1>3, <1>4, <1>5, <1>6 DEF Next, Step, Locked, Quiet

LEMMA NamedStep ==
  ASSUME Sound, \A p \in Proc : DraftNamed(p), [Next]_vars, NEW q \in Proc PROVE DraftNamed(q)'
<1>1. CASE Draft(q)
  <2>0. TypeOK
    BY DEF Sound, Typed
  <2>1. PICK i \in DOMAIN log \cup {0} :
          /\ Acceptable(req[q], sup[q], i)
          /\ draft' = [draft EXCEPT ![q] = Drafted(q, i)]
    BY <1>1 DEF Draft, Drafted
  <2>2. draft'[q] = Drafted(q, i) /\ log' = log
    BY <1>1, <2>0, <2>1 DEF Draft, TypeOK
  <2>3. ~WrongRevision(req[q], i) /\ ~EventIdTaken(req[q])
    <3> DEFINE c == Refusals(req[q], sup[q], i)
    <3>1. 2 \in DOMAIN c /\ c[2][2] = EventIdTaken(req[q])
      BY DEF Refusals
    <3>2. ~c[2][2]
      BY <2>1, <3>1 DEF Acceptable
    <3> HIDE DEF c
    <3> QED
      BY <2>1, <3>1, <3>2, AcceptableMeans
  <2> QED
    BY <2>2, <2>3 DEF DraftNamed, Drafted, WrongRevision, EventIdTaken
<1>2. CASE pc'[q] \in {"body", "commit"} /\ pc[q] \in {"body", "commit"} /\ draft'[q] = draft[q] /\ log' = log
  BY <1>2 DEF DraftNamed
<1> QED
  BY <1>1, <1>2, DraftsWait DEF DraftNamed

LEMMA EventsFinite ==
  ASSUME TypeOK, NEW en, NEW i PROVE IsFiniteSet(EventsOf(log, en, i)) /\ EventsOf(log, en, i) \subseteq 1..Len(log)
<1>1. Len(log) \in Nat /\ DOMAIN log = 1..Len(log)
  BY DEF TypeOK
<1>2. IsFiniteSet(1..Len(log))
  BY <1>1, FS_Interval
<1>3. EventsOf(log, en, i) \subseteq 1..Len(log)
  BY <1>1 DEF EventsOf
<1> QED
  BY <1>2, <1>3, FS_Subset

\* The revision of the entity's current event counts all its events.
LEMMA RevisionCounts ==
  ASSUME TypeOK, Counted, NEW en, NEW c \in DOMAIN log \cup {0}, IsCurrent(log, en, c)
  PROVE  Revision(log, c) = Cardinality(EventsOf(log, en, Len(log)))
<1>1. Len(log) \in Nat /\ DOMAIN log = 1..Len(log)
  BY DEF TypeOK
<1>2. CASE c = 0
  <2>1. EventsOf(log, en, Len(log)) = {}
    BY <1>1, <1>2 DEF IsCurrent, EventsOf
  <2> QED
    BY <1>2, <2>1, FS_EmptySet DEF Revision
<1>3. CASE c # 0
  <2>1. c \in DOMAIN log /\ log[c].input.entity = en /\ \A j \in DOMAIN log : log[j].input.entity = en => j <= c
    BY <1>3 DEF IsCurrent
  <2>2. EventsOf(log, en, c) = EventsOf(log, en, Len(log))
    BY <1>1, <2>1 DEF EventsOf
  <2> QED
    BY <1>3, <2>1, <2>2 DEF Counted, Revision
<1> QED
  BY <1>2, <1>3

LEMMA CountedStep ==
  ASSUME TypeOK, Counted, NEW e \in EventType, Fits(log, e), log' = Append(log, e) PROVE Counted'
<1> DEFINE n == Len(log)
           en == e.input.entity
<1>1. /\ n \in Nat /\ DOMAIN log = 1..n /\ DOMAIN log' = 1..(n + 1)
      /\ \A i \in 1..n : log'[i] = log[i]
      /\ log'[n + 1] = e
  BY Appended
<1>2. e.rev = Cardinality(EventsOf(log, en, n)) + 1
  <2>1. PICK c \in DOMAIN log \cup {0} : Continues(log, e, c)
    BY DEF Fits
  <2>2. IsCurrent(log, en, c) /\ e.rev = Revision(log, c) + 1
    BY <2>1 DEF Continues
  <2> QED
    BY <2>2, RevisionCounts
<1>3. /\ EventsOf(log', en, n + 1) = EventsOf(log, en, n) \cup {n + 1}
      /\ n + 1 \notin EventsOf(log, en, n)
  BY <1>1 DEF EventsOf
<1>4. Cardinality(EventsOf(log, en, n) \cup {n + 1}) = Cardinality(EventsOf(log, en, n)) + 1
  BY <1>3, EventsFinite, FS_AddElement
<1>5. \A i \in 1..n : \A x : EventsOf(log', x, i) = EventsOf(log, x, i)
  BY <1>1 DEF EventsOf
<1> HIDE DEF n, en
<1>6. ASSUME NEW i \in 1..(n + 1) PROVE log'[i].rev = Cardinality(EventsOf(log', log'[i].input.entity, i))
  <2>1. CASE i = n + 1
    BY <1>1, <1>2, <1>3, <1>4, <2>1 DEF en
  <2>2. CASE i # n + 1
    <3>1. i \in 1..n
      BY <1>1, <2>2
    <3> QED
      BY <1>1, <1>5, <3>1 DEF Counted
  <2> QED
    BY <2>1, <2>2
<1> QED
  BY <1>1, <1>6 DEF Counted

\* The requests whose events the log holds, in order.
Requests == [i \in DOMAIN log |-> log[i].input]

LEMMA RequestsAppended ==
  ASSUME TypeOK, NEW e \in EventType, log' = Append(log, e)
  PROVE  Requests' = Append(Requests, e.input)
<1> DEFINE n == Len(log)
<1>1. /\ n \in Nat /\ DOMAIN log = 1..n /\ DOMAIN log' = 1..(n + 1)
      /\ \A i \in 1..n : log'[i] = log[i]
      /\ log'[n + 1] = e
  BY Appended
<1> HIDE DEF n
<1>2. Requests = [i \in 1..n |-> log[i].input] /\ Requests' = [i \in 1..(n + 1) |-> log'[i].input]
  BY <1>1 DEF Requests
<1>3. Requests \in Seq(Request) /\ Len(Requests) = n
  <2>1. \A i \in 1..n : log[i].input \in Request
    BY <1>1, EntriesTyped, EventFields
  <2> QED
    BY <1>1, <1>2, <2>1
<1>4. e.input \in Request
  BY EventFields
<1>5. /\ DOMAIN Append(Requests, e.input) = 1..(n + 1)
      /\ \A i \in 1..n : Append(Requests, e.input)[i] = Requests[i]
      /\ Append(Requests, e.input)[n + 1] = e.input
      /\ Append(Requests, e.input) = [i \in 1..(n + 1) |-> Append(Requests, e.input)[i]]
  BY <1>1, <1>3, <1>4
<1>6. \A i \in 1..(n + 1) : Requests'[i] = Append(Requests, e.input)[i]
  BY <1>1, <1>2, <1>5
<1> QED
  BY <1>2, <1>5, <1>6

\* The abstract ledger counts as this one does.
LEMMA CountsAgree == ASSUME NEW S PROVE Abstract!Cardinality(S) = Cardinality(S)
BY DEF Abstract!Cardinality, Cardinality

\* What fits is legal.
LEMMA DraftsAreLegal ==
  ASSUME Sound, TombsLast, Counted, NEW p \in Proc, pc[p] = "commit", DraftNamed(p)
  PROVE  Abstract!Legal(draft[p].input)
<1> DEFINE e == draft[p]
           r == e.input
<1>0. /\ TypeOK /\ History /\ e \in EventType /\ Fits(log, e) /\ r \in Request
      /\ Len(log) \in Nat /\ DOMAIN log = 1..Len(log)
  BY EventFields DEF Sound, Typed, TypeOK, Drafting, DraftOK
<1>1. PICK c \in DOMAIN log \cup {0} : Continues(log, e, c)
  BY <1>0 DEF Fits
<1>2. Abstract!Of(r.entity) = EventsOf(log, r.entity, Len(log))
  BY <1>0 DEF Abstract!Of, EventsOf
<1>3. Cardinality(EventsOf(log, r.entity, Len(log))) = r.expected
  <2>1. e.rev = Revision(log, c) + 1 /\ IsCurrent(log, r.entity, c) /\ e.rev = r.expected + 1
    BY <1>1 DEF Continues, DraftNamed
  <2>2. Revision(log, c) = Cardinality(EventsOf(log, r.entity, Len(log)))
    BY <1>0, <2>1, RevisionCounts
  <2>3. Revision(log, c) \in Nat /\ r.expected \in Nat
    BY <1>0, EntriesTyped, EventFields, RequestFields DEF Revision
  <2> QED
    BY <2>1, <2>2, <2>3
<1>4. \A i \in DOMAIN log :
        /\ log[i].input.key # r.key
        /\ r.name # NoName => log[i].input.name # r.name
        /\ log[i].input.entity.id = r.entity.id => log[i].input.entity = r.entity
  BY <1>0 DEF Fits, DraftNamed
<1>5. \A i \in DOMAIN log : log[i].input.entity = r.entity => ~log[i].input.tomb
  BY <1>0, NotEndedNotTombstoned
<1>6. ASSUME NEW i \in DOMAIN log, log[i].input.entity = r.entity
      PROVE  c \in DOMAIN log /\ c # 0 /\ log[c].input.entity = r.entity /\ i <= c
  BY <1>0, <1>1, <1>6 DEF Continues, IsCurrent
<1>7. ASSUME NEW i \in DOMAIN log, log[i].input.entity = r.entity, log[i].input.final, r.entity.type = RunType
      PROVE  r.tomb
  <2>1. c \in DOMAIN log /\ c # 0 /\ log[c].input.entity = r.entity /\ i <= c
    BY <1>6, <1>7
  <2>2. i < c => log[c].input.tomb
    BY <1>0, <1>7, <2>1 DEF History, RunsEnd, SameEntity
  <2>3. i = c
    BY <1>0, <1>5, <2>1, <2>2
  <2> QED
    BY <1>1, <1>7, <2>1, <2>3 DEF Continues
<1>8. ASSUME NEW i \in DOMAIN log, log[i].input.entity = r.entity, log[i].input.basis = "explicit",
             \A j \in DOMAIN log : log[j].input.entity = r.entity => j <= i
      PROVE  r.actor = "owner" \/ r.op = "expire"
  <2>1. c \in DOMAIN log /\ c # 0 /\ log[c].input.entity = r.entity /\ i <= c
    BY <1>6, <1>8
  <2>2. i = c
    BY <1>0, <1>8, <2>1
  <2> QED
    BY <1>1, <1>8, <2>1, <2>2 DEF Continues
<1> HIDE DEF e, r
<1>9. \A i : i \in Abstract!Of(r.entity) <=> i \in DOMAIN log /\ log[i].input.entity = r.entity
  BY DEF Abstract!Of
<1>10. Abstract!Legal(r)
  <2>1. Abstract!Cardinality(Abstract!Of(r.entity)) = r.expected
    BY <1>2, <1>3, CountsAgree
  <2>2. DOMAIN Requests = DOMAIN log /\ \A i \in DOMAIN log : Requests[i] = log[i].input
    BY DEF Requests
  <2>3. \A i \in DOMAIN Requests :
          /\ Requests[i].key # r.key
          /\ r.name # NoName => Requests[i].name # r.name
          /\ Requests[i].entity.id = r.entity.id => Requests[i].entity = r.entity
    BY <1>4, <2>2
  <2>4. \A i \in Abstract!Of(r.entity) :
          /\ ~Requests[i].tomb
          /\ Requests[i].final /\ r.entity.type = RunType => r.tomb
    BY <1>5, <1>7, <1>9, <2>2
  <2>5. \A i \in Abstract!Of(r.entity) :
          (\A j \in Abstract!Of(r.entity) : j <= i) /\ Requests[i].basis = "explicit"
            => r.actor = "owner" \/ r.op = "expire"
    BY <1>8, <1>9, <2>2
  <2>6. LET Explicit(x) == x.basis = "explicit" IN
          Abstract!Latest(r.entity, Explicit) => r.actor = "owner" \/ r.op = "expire"
    BY <2>5 DEF Abstract!Latest, Requests
  <2> QED
    BY <2>1, <2>3, <2>4, <2>6 DEF Abstract!Legal, Requests
<1> QED
  BY <1>10 DEF r, e

\* Each committed event is one accepted request of the abstract ledger, compared and
\* swapped against everything before it.
THEOREM AppendsAreCompareAndSwap == Spec => ImplementsAbstract
<1> DEFINE Inv == Sound /\ TombsLast /\ Counted /\ \A p \in Proc : DraftNamed(p)
<1>1. Init => Inv
  BY SoundInit, TidyInit DEF Init, Tidy, Counted, DraftNamed
<1>2. Sound /\ Tidy /\ Inv /\ [Next]_vars => Inv'
  <2> SUFFICES ASSUME Sound, Tidy, Inv, [Next]_vars PROVE Inv'
    OBVIOUS
  <2>1. Sound' /\ TombsLast'
    BY SoundStep, TidyStep DEF Tidy
  <2>2. Counted'
    <3>1. CASE log' = log
      BY <3>1 DEF Counted, EventsOf
    <3>2. ASSUME NEW e \in EventType, Fits(log, e), log' = Append(log, e) PROVE Counted'
      BY <3>2, CountedStep DEF Sound, Typed
    <3> QED
      BY <3>1, <3>2, LogGrows
  <2>3. \A q \in Proc : DraftNamed(q)'
    BY NamedStep
  <2> QED
    BY <2>1, <2>2, <2>3
<1>3. Init => Abstract!LedgerInit
  BY DEF Init, Abstract!LedgerInit
<1>4. Inv /\ [Next]_vars => [Abstract!LedgerNext]_Requests
  <2> SUFFICES ASSUME Inv, [Next]_vars PROVE [Abstract!LedgerNext]_Requests
    OBVIOUS
  <2>1. CASE log' = log
    BY <2>1 DEF Requests
  <2>2. ASSUME NEW p \in Proc, pc[p] = "commit", log' = Append(log, draft[p]), draft[p] \in EventType
        PROVE  Abstract!LedgerNext
    <3>1. PICK r \in Request : r = draft[p].input
      BY <2>2, EventFields
    <3>2. Abstract!Legal(r)
      BY <2>2, <3>1, DraftsAreLegal
    <3>3. Requests' = Append(Requests, r)
      BY <2>2, <3>1, RequestsAppended DEF Sound, Typed
    <3>4. Abstract!Accept(r)
      BY <3>2, <3>3 DEF Abstract!Accept, Requests
    <3> QED
      BY <3>4 DEF Abstract!LedgerNext
  <2> QED
    BY <2>1, <2>2, LogGrows
<1>5. Spec => []Inv
  BY <1>1, <1>2, TidyAlways, PTL DEF Spec
<1> HIDE DEF Inv
<1> QED
  BY <1>3, <1>4, <1>5, PTL DEF Spec, ImplementsAbstract, Abstract!LedgerSpec, Requests
=============================================================================
