--------------------------- MODULE FileLock_proofs ---------------------------
(***************************************************************************)
(* Proofs about FileLock, for every set of processes and inode numbers.    *)
(* With deaths and failing calls, the lock file is exclusive for as long   *)
(* as no two processes recover an abandoned file at the same time: Sole is *)
(* the inductive strengthening.  With two recoverers it is not (see the    *)
(* run lock_steal).                                                        *)
(***************************************************************************)
EXTENDS FileLock, Sequences, TLAPS

\* Between the inspection that finds a file abandoned and the unlink.
Recovering(p) == pc[p] \in {"recheck", "unlinkStale"}
OneRecoverer == \A p, q \in Proc : Recovering(p) /\ Recovering(q) => p = q

\* What leaves nothing to recover: nobody dies and stat does not fail.
Undying == Mortal = {} /\ SlowOwners = FALSE /\ \A p \in Proc : <<p, "stat">> \notin Faults

\* In every reachable state the lock file's variables have their types.
THEOREM TypeCorrect == Spec => []TypeOK
<1> USE LockAssumption DEF TypeOK, PC, Idle, Token, Empty, NoFile, Go
<1>1. Init => TypeOK
  BY DEF Init
<1>2. TypeOK /\ [Next]_vars => TypeOK'
  <2> SUFFICES ASSUME TypeOK, [Next]_vars PROVE TypeOK'
    OBVIOUS
  <2>1. ASSUME NEW p \in Proc, Enter(p) PROVE TypeOK'
    BY <2>1 DEF Enter
  <2>2. ASSUME NEW p \in Proc, Create(p) PROVE TypeOK'
    BY <2>2 DEF Create
  <2>3. ASSUME NEW p \in Proc, CreateRefused(p) PROVE TypeOK'
    BY <2>3 DEF CreateRefused
  <2>4. ASSUME NEW p \in Proc, WriteRecord(p) PROVE TypeOK'
    BY <2>4 DEF WriteRecord
  <2>5. ASSUME NEW p \in Proc, Finish(p) \/ StatFails(p) \/ WriteFails(p) PROVE TypeOK'
    <3>1. CASE Finish(p)
      BY <3>1 DEF Finish
    <3>2. CASE StatFails(p)
      BY <3>2 DEF StatFails
    <3>3. CASE WriteFails(p)
      BY <3>3 DEF WriteFails
    <3> QED
      BY <2>5, <3>1, <3>2, <3>3
  <2>6. ASSUME NEW p \in Proc, ReleaseInspect(p) \/ UnlinkOwn(p) PROVE TypeOK'
    BY <2>6 DEF ReleaseInspect, UnlinkOwn
  <2>7. ASSUME NEW p \in Proc, Inspect(p) PROVE TypeOK'
    BY <2>7 DEF Inspect, Look
  <2>8. ASSUME NEW p \in Proc, Recheck(p) \/ UnlinkStale(p) PROVE TypeOK'
    BY <2>8 DEF Recheck, UnlinkStale
  <2>9. ASSUME NEW p \in Proc, Poll(p) \/ Busy(p) \/ Die(p) PROVE TypeOK'
    BY <2>9 DEF Poll, Busy, Die
  <2>10. ASSUME NEW i \in Ino, Age(i) PROVE TypeOK'
    BY <2>10 DEF Age
  <2>11. CASE UNCHANGED vars
    BY <2>11 DEF vars
  <2> QED
    BY <2>1, <2>2, <2>3, <2>4, <2>5, <2>6, <2>7, <2>8, <2>9, <2>10, <2>11 DEF Next, Step
<1> QED
  BY <1>1, <1>2, PTL DEF Spec

-----------------------------------------------------------------------------
Owner(p) == pc[p] \in {"created", "work", "release", "unlinkOwn"}

\* The inductive invariant behind exclusion: the file belongs to the one live
\* owner there may be, it is not old, and its contents are the owner's token or
\* nothing yet; and whoever recovers has found the very file that is still
\* there, which nobody will come back to.
Sole ==
  /\ \A p \in Proc : token[p][1] = p
  /\ \A p \in Proc : Owner(p) =>
       /\ path \in Ino /\ path = mine[p] /\ path \notin stale
       /\ \A q \in Proc : Owner(q) => q = p
       /\ record[path] \in {Empty, token[p]}
       /\ pc[p] = "work" => record[path] = token[p]
  /\ \A p \in Proc : Recovering(p) => path # NoIno /\ Abandoned
  /\ \A p \in Proc : pc[p] = "recheck" => seen[p] = Look

\* A written record can be told from an empty file.
LEMMA TokensAreRecords == \A t \in Token : t # Empty
<1>1. \A p \in Proc, n \in Nat : Len(<<p, n>>) = 2
  OBVIOUS
<1>2. Len(<<>>) = 0
  OBVIOUS
<1>3. \A t \in Token : \E p \in Proc, n \in Nat : t = <<p, n>>
  BY DEF Token
<1> QED
  BY <1>1, <1>2, <1>3 DEF Empty

LEMMA SoleInit == Init => Sole
BY DEF Init, Sole, Owner, Recovering, Idle

\* A file with a live owner is not abandoned, so nobody is recovering it.
LEMMA OwnersAreSpared ==
  ASSUME TypeOK, Sole, NEW p \in Proc, Owner(p) PROVE ~Abandoned /\ \A q \in Proc : ~Recovering(q)
<1>1. record[path] \in {Empty, token[p]} /\ path \notin stale /\ token[p][1] = p /\ Alive(p)
  BY DEF Sole, Owner, Alive
<1> QED
  BY <1>1 DEF Sole, Abandoned

\* What is recovered stays abandoned while time passes and processes die.
LEMMA StaysAbandoned ==
  ASSUME TypeOK, Abandoned, path # NoIno, UNCHANGED <<path, record>>, stale \subseteq stale',
         \A p \in Proc : ~Alive(p) => ~Alive(p)'
  PROVE  Abandoned'
<1>1. record[path] \in Token \cup {Empty}
  BY DEF TypeOK
<1>2. record[path] # Empty => record[path][1] \in Proc
  BY <1>1 DEF Token
<1> QED
  BY <1>2 DEF Abandoned, Alive

\* Every step keeps Sole while at most one process recovers.
LEMMA SoleStep ==
  ASSUME SlowOwners = FALSE, TypeOK, Sole, OneRecoverer, [Next]_vars
  PROVE  Sole'
<1> USE LockAssumption DEF TypeOK, PC, Idle, Token, Empty, NoFile, Go
<1>0. ASSUME NEW p \in Proc, UNCHANGED <<path, record, stale, token, mine, seen>>, NEW where,
             pc' = [pc EXCEPT ![p] = where], pc[p] # "dead", where \notin {"recheck", "unlinkStale", "created", "work"},
             Owner(p) \/ where \notin {"release", "unlinkOwn"}
      PROVE  Sole'
  <2>1. \A q \in Proc : (Owner(q)' => Owner(q)) /\ (Recovering(q)' => Recovering(q) /\ pc'[q] = pc[q])
            /\ (pc'[q] = "work" => pc[q] = "work")
    BY <1>0 DEF Owner, Recovering
  <2>2. path # NoIno /\ Abandoned => Abandoned'
    BY <1>0, StaysAbandoned DEF Alive
  <2> QED
    BY <1>0, <2>1, <2>2 DEF Sole, Recovering, Look
<1>1. ASSUME NEW p \in Proc, Enter(p) PROVE Sole'
  BY <1>0, <1>1 DEF Enter
<1>2. ASSUME NEW p \in Proc, Create(p) PROVE Sole'
  <2>1. \A q \in Proc : ~Owner(q) /\ ~Recovering(q)
    BY <1>2 DEF Create, Sole
  <2> QED
    BY <1>2, <2>1 DEF Create, Sole, Owner, Recovering
<1>3. ASSUME NEW p \in Proc, CreateRefused(p) \/ Poll(p) \/ Busy(p) \/ Die(p) PROVE Sole'
  BY <1>0, <1>3 DEF CreateRefused, Poll, Busy, Die, Alive
<1>4. ASSUME NEW p \in Proc, WriteRecord(p) PROVE Sole'
  <2>1. Owner(p) /\ path = mine[p] /\ path \in Ino /\ path \notin stale
    BY <1>4 DEF WriteRecord, Owner, Sole
  <2>2. \A q \in Proc : ~Recovering(q) /\ (Owner(q) => q = p)
    BY <2>1, OwnersAreSpared DEF Sole
  <2> QED
    BY <1>4, <2>1, <2>2 DEF WriteRecord, Sole, Owner, Recovering
<1>5. ASSUME NEW p \in Proc, Finish(p) \/ WriteFails(p) PROVE Sole'
  BY <1>0, <1>5 DEF Finish, WriteFails, Owner
<1>6. ASSUME NEW p \in Proc, StatFails(p) PROVE Sole'
  <2>1. \A q \in Proc : ~Recovering(q) /\ (Owner(q) => q = p)
    BY <1>6, OwnersAreSpared DEF StatFails, Owner, Sole
  <2> QED
    BY <1>6, <2>1 DEF StatFails, Sole, Owner, Recovering
<1>7. ASSUME NEW p \in Proc, ReleaseInspect(p) PROVE Sole'
  <2>1. path # NoIno /\ LooksOwn(p)
    BY <1>7 DEF ReleaseInspect, LooksOwn, Sole, Owner
  <2> QED
    BY <1>0, <1>7, <2>1 DEF ReleaseInspect, Owner
<1>8. ASSUME NEW p \in Proc, UnlinkOwn(p) PROVE Sole'
  <2>1. \A q \in Proc : ~Recovering(q) /\ (Owner(q) => q = p)
    BY <1>8, OwnersAreSpared DEF UnlinkOwn, Owner, Sole
  <2> QED
    BY <1>8, <2>1 DEF UnlinkOwn, Sole, Owner, Recovering
<1>9. ASSUME NEW p \in Proc, Inspect(p) PROVE Sole'
  <2>1. \A q \in Proc : (Owner(q)' => Owner(q) /\ pc'[q] = pc[q]) /\ (q # p => pc'[q] = pc[q] /\ seen'[q] = seen[q])
    BY <1>9 DEF Inspect, Owner
  <2>2. path # NoIno /\ Abandoned => Abandoned'
    BY <1>9, StaysAbandoned DEF Inspect, Alive
  <2>3. Recovering(p)' => path # NoIno /\ Abandoned /\ seen'[p] = Look
    BY <1>9 DEF Inspect, Recovering
  <2> QED
    BY <1>9, <2>1, <2>2, <2>3 DEF Inspect, Sole, Recovering, Look
<1>10. ASSUME NEW p \in Proc, Recheck(p) PROVE Sole'
  <2>1. Recovering(p) /\ path # NoIno /\ Abandoned
    BY <1>10 DEF Recheck, Recovering, Sole
  <2>2. Abandoned'
    BY <1>10, <2>1, StaysAbandoned DEF Recheck, Alive
  <2> QED
    BY <1>10, <2>1, <2>2 DEF Recheck, Sole, Owner, Recovering, Look
<1>11. ASSUME NEW p \in Proc, UnlinkStale(p) PROVE Sole'
  <2>1. Recovering(p) /\ \A q \in Proc : Recovering(q) => q = p
    BY <1>11 DEF UnlinkStale, Recovering, OneRecoverer
  <2>2. \A q \in Proc : ~Owner(q)
    BY <2>1, OwnersAreSpared
  <2> QED
    BY <1>11, <2>1, <2>2 DEF UnlinkStale, Sole, Owner, Recovering
<1>12. ASSUME NEW i \in Ino, Age(i) PROVE Sole'
  <2>1. \A p \in Proc : ~Owner(p)
    BY <1>12, TokensAreRecords DEF Age, Sole, Owner
  <2>2. path # NoIno /\ Abandoned => Abandoned'
    BY <1>12, StaysAbandoned DEF Age, Alive
  <2> QED
    BY <1>12, <2>1, <2>2 DEF Age, Sole, Owner, Recovering, Look
<1>13. CASE UNCHANGED vars
  BY <1>13 DEF vars, Sole, Owner, Recovering, Look, Abandoned, Alive
<1> QED
  BY <1>1, <1>2, <1>3, <1>4, <1>5, <1>6, <1>7, <1>8, <1>9, <1>10, <1>11, <1>12, <1>13
     DEF Next, Step

\* Whatever processes die and whatever calls fail, two callers never run `work`
\* at once, as long as no two have recovered one file at the same time.
THEOREM OneRecovererExcludes ==
  ASSUME SlowOwners = FALSE
  PROVE  Spec /\ []OneRecoverer => []MutualExclusion
<1>1. Sole => MutualExclusion
  BY DEF Sole, Owner, MutualExclusion
<1> QED
  BY <1>1, SoleInit, SoleStep, TypeCorrect, PTL DEF Spec

\* Where nobody dies and stat does not fail, a file at the path has its owner,
\* and nothing is ever recovered.
Attended ==
  /\ \A p \in Proc : pc[p] # "dead" /\ ~Recovering(p)
  /\ path # NoIno => \E p \in Proc : Owner(p)

LEMMA AttendedStep ==
  ASSUME Undying, TypeOK, Sole, Attended, [Next]_vars PROVE Attended'
<1> USE LockAssumption DEF Undying, TypeOK, Attended, Recovering, PC, Idle, Go
<1>1. ASSUME NEW p \in Proc, Enter(p) \/ CreateRefused(p) \/ Poll(p) \/ Busy(p) PROVE Attended'
  BY <1>1 DEF Enter, CreateRefused, Poll, Busy, Owner
<1>2. ASSUME NEW p \in Proc, Create(p) \/ WriteRecord(p) \/ Finish(p) \/ WriteFails(p) PROVE Attended'
  BY <1>2 DEF Create, WriteRecord, Finish, WriteFails, Owner
<1>3. ASSUME NEW p \in Proc, ReleaseInspect(p) PROVE Attended'
  <2>1. path # NoIno /\ LooksOwn(p)
    BY <1>3 DEF ReleaseInspect, LooksOwn, Sole, Owner
  <2> QED
    BY <1>3, <2>1 DEF ReleaseInspect, Owner
<1>4. ASSUME NEW p \in Proc, UnlinkOwn(p) PROVE Attended'
  BY <1>4 DEF UnlinkOwn
<1>5. ASSUME NEW p \in Proc, Inspect(p) PROVE Attended'
  <2>1. path # NoIno => ~Abandoned
    BY OwnersAreSpared
  <2> QED
    BY <1>5, <2>1 DEF Inspect, Owner
<1>6. ASSUME NEW i \in Ino, Age(i) PROVE Attended'
  BY <1>6 DEF Age, Owner
<1>7. CASE UNCHANGED vars
  BY <1>7 DEF vars, Owner
<1>8. \A p \in Proc : ~StatFails(p) /\ ~Die(p) /\ ~Recheck(p) /\ ~UnlinkStale(p)
  BY DEF StatFails, Die, Recheck, UnlinkStale
<1> QED
  BY <1>1, <1>2, <1>3, <1>4, <1>5, <1>6, <1>7, <1>8 DEF Next, Step

LEMMA UndyingRecoverNothing == ASSUME Undying PROVE Spec => []OneRecoverer
<1>1. Init => Attended
  BY DEF Init, Attended, Recovering, Idle
<1>2. Attended => OneRecoverer
  BY DEF Attended, OneRecoverer
<1>3. TypeOK /\ Sole /\ Attended /\ [Next]_vars => Sole' /\ Attended'
  BY <1>2, SoleStep, AttendedStep DEF Undying
<1> QED
  BY <1>1, <1>2, <1>3, SoleInit, TypeCorrect, PTL DEF Spec

\* Two callers never run `work` at once where nobody dies.
THEOREM UndyingExclusion ==
  ASSUME Undying
  PROVE  Spec => []MutualExclusion
BY OneRecovererExcludes, UndyingRecoverNothing, PTL DEF Undying

-----------------------------------------------------------------------------
(* The refinement of the abstract mutex. *)

LEMMA HolderIs ==
  /\ Working = {} => Holder = NoProc
  /\ \A p \in Proc : Working = {p} => Holder = p
BY DEF Holder

\* Exclusion says which of the two cases of Holder applies.
LEMMA OneWorker ==
  ASSUME Sole PROVE \A p \in Proc : pc[p] = "work" => Working = {p}
BY DEF Sole, Owner, Working

\* Each step of the lock file is a step of the abstract mutex or leaves it alone.
LEMMA SoleStepRefines ==
  ASSUME TypeOK, Sole, [Next]_vars
  PROVE  [Abstract!MutexNext]_<<Holder, Waiting>>
<1> USE LockAssumption DEF TypeOK, PC, Idle, Go, Trying
<1> DEFINE Same == UNCHANGED <<Holder, Waiting>>
<1>1. ASSUME NEW p \in Proc, Enter(p) PROVE Abstract!Ask(p)
  <2>1. Working' = Working /\ p \notin Working
    BY <1>1 DEF Enter, Working
  <2>2. Waiting' = Waiting \cup {p} /\ p \notin Waiting
    BY <1>1 DEF Enter, Waiting
  <2>3. p # Holder
    BY <2>1 DEF Holder, NoProc
  <2> QED
    BY <2>1, <2>2, <2>3 DEF Abstract!Ask, Holder
<1>2. ASSUME NEW p \in Proc, WriteRecord(p) PROVE Abstract!Take(p)
  <2>1. Working = {} /\ Working' = {p}
    BY <1>2 DEF WriteRecord, Working, Sole, Owner
  <2>2. p \in Waiting /\ Waiting' = Waiting \ {p}
    BY <1>2 DEF WriteRecord, Waiting
  <2> QED
    BY <2>1, <2>2 DEF Abstract!Take, Holder
<1>3. ASSUME NEW p \in Proc, Finish(p) \/ (Die(p) /\ pc[p] = "work") PROVE Abstract!Leave(p)
  <2>1. Working = {p} /\ Working' = {}
    BY <1>3, OneWorker DEF Finish, Die, Working
  <2>2. Waiting' = Waiting
    BY <1>3 DEF Finish, Die, Waiting
  <2> QED
    BY <2>1, <2>2 DEF Abstract!Leave, Holder
<1>4. ASSUME NEW p \in Proc, Busy(p) \/ StatFails(p) \/ WriteFails(p) \/ (Die(p) /\ p \in Waiting)
      PROVE  Abstract!GiveUp(p)
  <2>1. Working' = Working
    BY <1>4 DEF Busy, StatFails, WriteFails, Die, Working, Waiting
  <2>2. p \in Waiting /\ Waiting' = Waiting \ {p}
    BY <1>4 DEF Busy, StatFails, WriteFails, Die, Waiting
  <2> QED
    BY <2>1, <2>2 DEF Abstract!GiveUp, Holder
<1>5. ASSUME NEW p \in Proc, Create(p) \/ CreateRefused(p) \/ Inspect(p) \/ Recheck(p)
                               \/ UnlinkStale(p) \/ Poll(p)
      PROVE  Same
  <2>1. Working' = Working /\ Waiting' = Waiting
    BY <1>5 DEF Create, CreateRefused, Inspect, Recheck, UnlinkStale, Poll, Working, Waiting
  <2> QED
    BY <2>1 DEF Holder
<1>6. ASSUME NEW p \in Proc, \/ ReleaseInspect(p) \/ UnlinkOwn(p)
                             \/ Die(p) /\ pc[p] # "work" /\ p \notin Waiting
      PROVE  Same
  <2>1. Working' = Working /\ Waiting' = Waiting
    BY <1>6 DEF ReleaseInspect, UnlinkOwn, Die, Working, Waiting
  <2> QED
    BY <2>1 DEF Holder
<1>7. ASSUME NEW i \in Ino, Age(i) PROVE Same
  <2>1. Working' = Working /\ Waiting' = Waiting
    BY <1>7 DEF Age, Working, Waiting
  <2> QED
    BY <2>1 DEF Holder
<1>8. CASE UNCHANGED vars
  <2>1. Working' = Working /\ Waiting' = Waiting
    BY <1>8 DEF vars, Working, Waiting
  <2> QED
    BY <2>1 DEF Holder
<1> QED
  BY <1>1, <1>2, <1>3, <1>4, <1>5, <1>6, <1>7, <1>8
     DEF Next, Step, Abstract!MutexNext

\* The lock file implements the mutex ContextLedger and the derived surfaces
\* are built on, whatever dies or fails, as long as no two processes have
\* recovered one file at the same time.
THEOREM OneRecovererImplements ==
  ASSUME SlowOwners = FALSE
  PROVE  Spec /\ []OneRecoverer => ImplementsMutex
<1>1. Init => Abstract!MutexInit
  BY DEF Init, Abstract!MutexInit, Holder, Working, Waiting, Trying, Idle
<1> QED
  BY <1>1, SoleInit, SoleStep, SoleStepRefines, TypeCorrect, PTL
     DEF Spec, ImplementsMutex, Abstract!MutexSpec, Abstract!mutexVars

\* And always where nobody dies.
THEOREM UndyingImplements ==
  ASSUME Undying
  PROVE  Spec => ImplementsMutex
BY OneRecovererImplements, UndyingRecoverNothing, PTL DEF Undying
=============================================================================
