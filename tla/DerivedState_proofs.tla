------------------------- MODULE DerivedState_proofs -------------------------
(***************************************************************************)
(* Theorems about DerivedState, for any programs, entities, calls, faults  *)
(* and length of the ledger, where no sqlite3 child outlives its parent.   *)
(*                                                                         *)
(* Both rest on the locks (LocksHeld): whoever replays the ledger in order *)
(* to write, or removes what is written, holds the lock of what it writes, *)
(* and a database is written by a child whose parent waits for it with the *)
(* index lock in its hand (ChildrenWaited).  So one call at a time writes  *)
(* each kind of derived state.                                             *)
(*                                                                         *)
(* That cleared text stays away (Clean) then needs that a replay which     *)
(* starts later reads the tombstone, and that a replay which had read the  *)
(* ledger before cannot be under way once the clearing has had the lock.   *)
(* That views are current (Views) needs what a replay has read             *)
(* (Faithful: the ledger at one point, not older than the call), what the  *)
(* disk still holds (BodiesThere, by PlansFit: bodies are erased after the *)
(* tombstone only), and what has been written from it (DocsCurrent, file   *)
(* by file; IndexCurrent, by the child).                                   *)
(***************************************************************************)
EXTENDS DerivedState, FiniteSetTheorems, TLAPS

-----------------------------------------------------------------------------
(* Types                                                                   *)

EventType == [of : Entities, tombstone : BOOLEAN]
RecordType == [of : Entities, rev : Nat, body : {"present", "erased", "deleted"}]
FileType == Nat \X {"json", "md"}
LockName == {"docs", "index"}
Waiting == [docs |-> "wait", index |-> "wait"]
Progress == {"wait", "held", "busy", "done"}
Calls == {"none", "open", "change", "delete", "prune", "search", "replay"}
Stage == {"start", "read", "bodies", "fetch", "drafted", "spawn", "wait", "built", "answered"}

CPR == <<"clear", "project", "reindex">>
ECPR == <<"erase", "clear", "project", "reindex">>
AECPR == <<"append", "erase", "clear", "project", "reindex">>
PlanType ==
  {<<>>, <<"reconcile", "clear", "project">>, <<"clear", "project">>, <<"project">>,
   <<"append", "project">>, AECPR, ECPR, CPR, <<"project", "reindex">>, <<"reindex">>,
   <<"clear">>, <<"survey", "clear", "project", "reindex">>}

CallType ==
  [op : Calls, plan : PlanType, at : Stage, since : Nat, targets : SUBSET [of : Entities, rev : Nat],
   failed : BOOLEAN, view : Nat, recs : SUBSET RecordType, todo : SUBSET Entities, files : SUBSET FileType,
   clr : [LockName -> Progress], hits : SUBSET RecordType]
ChildType ==
  [id : Actors \X Nat, parent : Actors, rows : SUBSET RecordType,
   step : {"spawned", "created", "done", "failed"}]

LogTyped == log \in Seq(EventType)
LockTyped == lock \in [LockName -> Actors \cup {Nobody}]
CallTyped == call \in [Actors -> CallType]
FilesTyped == DOMAIN docs \subseteq FileType /\ \A f \in DOMAIN docs : docs[f] \subseteq RecordType
IndexTyped ==
  /\ index \in [by : {<<>>} \cup (Actors \X Nat), rows : SUBSET RecordType]
  /\ children \subseteq ChildType
Typed == LogTyped /\ LockTyped /\ CallTyped /\ FilesTyped /\ IndexTyped /\ shown \in Nat /\ faults \in Nat

-----------------------------------------------------------------------------
(* Plans                                                                   *)

LEMMA TailsOfPlans ==
  /\ Tail(<<"reconcile", "clear", "project">>) = <<"clear", "project">>
  /\ Tail(<<"clear", "project">>) = <<"project">>
  /\ Tail(<<"project">>) = <<>>
  /\ Tail(<<"append", "project">>) = <<"project">>
  /\ Tail(AECPR) = ECPR
  /\ Tail(ECPR) = CPR
  /\ Tail(CPR) = <<"project", "reindex">>
  /\ Tail(<<"project", "reindex">>) = <<"reindex">>
  /\ Tail(<<"reindex">>) = <<>>
  /\ Tail(<<"clear">>) = <<>>
  /\ Tail(<<"survey", "clear", "project", "reindex">>) = CPR
<1>3. Tail(AECPR) = ECPR
  BY DEF AECPR, ECPR
<1>4. Tail(ECPR) = CPR
  BY DEF CPR, ECPR
<1>5. Tail(CPR) = <<"project", "reindex">>
  BY DEF CPR
<1>6. Tail(<<"survey", "clear", "project", "reindex">>) = CPR
  BY DEF CPR
<1>7. /\ Tail(<<"reconcile", "clear", "project">>) = <<"clear", "project">>
      /\ Tail(<<"clear", "project">>) = <<"project">>
      /\ Tail(<<"append", "project">>) = <<"project">>
      /\ Tail(<<"project", "reindex">>) = <<"reindex">>
  OBVIOUS
<1>8. /\ Tail(<<"project">>) = <<>>
      /\ Tail(<<"reindex">>) = <<>>
      /\ Tail(<<"clear">>) = <<>>
  OBVIOUS
<1> QED
  BY <1>3, <1>4, <1>5, <1>6, <1>7, <1>8

LEMMA HeadsOfPlans ==
  /\ Head(<<"reconcile", "clear", "project">>) = "reconcile"
  /\ Head(<<"clear", "project">>) = "clear"
  /\ Head(<<"project">>) = "project"
  /\ Head(<<"append", "project">>) = "append"
  /\ Head(AECPR) = "append"
  /\ Head(ECPR) = "erase"
  /\ Head(CPR) = "clear"
  /\ Head(<<"project", "reindex">>) = "project"
  /\ Head(<<"reindex">>) = "reindex"
  /\ Head(<<"clear">>) = "clear"
  /\ Head(<<"survey", "clear", "project", "reindex">>) = "survey"
BY DEF AECPR, ECPR, CPR

First(c) == IF c.plan = <<>> THEN "none" ELSE Head(c.plan)

LEMMA PlanTails ==
  ASSUME NEW c \in CallType
  PROVE  /\ First(c) # "none" => Tail(c.plan) \in PlanType
         /\ First(c) = "reconcile" => c.plan = <<"reconcile", "clear", "project">>
         /\ First(c) = "survey" => c.plan = <<"survey", "clear", "project", "reindex">>
         /\ First(c) = "append" => c.plan \in {<<"append", "project">>, AECPR}
         /\ First(c) = "erase" => c.plan = ECPR
         /\ First(c) # "none" => c.plan # <<>>
<1> c.plan \in PlanType
  BY DEF CallType
<1> QED
  BY TailsOfPlans, HeadsOfPlans DEF First, PlanType

LEMMA IdleTyped == Idle \in CallType
<1>1. Idle.clr \in [LockName -> Progress]
  BY DEF Idle, LockName, Progress
<1> QED
  BY <1>1 DEF Idle, CallType, Stage, PlanType, Calls

LEMMA RestTyped ==
  ASSUME NEW c \in CallType, NEW plan \in PlanType
  PROVE  Rest(c, plan) \in CallType
BY IdleTyped DEF Rest, CallType, Idle

-----------------------------------------------------------------------------
(* The ledger, over an explicit log                                        *)

RevIn(l, e, n) == Cardinality({i \in 1..n : l[i].of = e})
GoneIn(l, e, n) == \E i \in 1..n : l[i].of = e /\ l[i].tombstone
KnownIn(l, n) == {l[i].of : i \in 1..n}

LEMMA LedgerRead ==
  ASSUME NEW e, NEW n
  PROVE  Rev(e, n) = RevIn(log, e, n) /\ Gone(e, n) = GoneIn(log, e, n) /\ Known(n) = KnownIn(log, n)
BY DEF Rev, Gone, Known, RevIn, GoneIn, KnownIn

LEMMA RevisionBounds ==
  ASSUME NEW l \in Seq(EventType), NEW e, NEW n \in Nat
  PROVE  /\ RevIn(l, e, n) \in Nat
         /\ \A m \in 0..n : RevIn(l, e, m) <= RevIn(l, e, n)
         /\ e \in KnownIn(l, n) => RevIn(l, e, n) >= 1
<1> DEFINE I(m) == {i \in 1..m : l[i].of = e}
<1>1. \A m \in Nat : IsFiniteSet(I(m)) /\ Cardinality(I(m)) \in Nat
  <2> TAKE m \in Nat
  <2>1. IsFiniteSet(1..m)
    BY FS_Interval
  <2>2. I(m) \subseteq 1..m
    OBVIOUS
  <2> QED
    BY <2>1, <2>2, FS_Subset, FS_CardinalityType
<1>2. \A m \in 0..n : I(m) \subseteq I(n)
  OBVIOUS
<1>3. \A m \in 0..n : Cardinality(I(m)) <= Cardinality(I(n))
  BY <1>1, <1>2, FS_Subset
<1>4. ASSUME e \in KnownIn(l, n) PROVE Cardinality(I(n)) >= 1
  <2>1. PICK i \in 1..n : l[i].of = e
    BY <1>4 DEF KnownIn
  <2>2. I(n) # {}
    BY <2>1
  <2>3. Cardinality(I(n)) # 0
    BY <1>1, <2>2, FS_EmptySet
  <2>4. Cardinality(I(n)) \in Nat
    BY <1>1
  <2> HIDE DEF I
  <2> QED
    BY <2>3, <2>4
<1> QED
  BY <1>1, <1>3, <1>4 DEF RevIn

LEMMA LogExtends ==
  ASSUME NEW l \in Seq(EventType), NEW x \in EventType, NEW n \in 0..Len(l), NEW e
  PROVE  /\ RevIn(Append(l, x), e, n) = RevIn(l, e, n)
         /\ GoneIn(Append(l, x), e, n) = GoneIn(l, e, n)
         /\ KnownIn(Append(l, x), n) = KnownIn(l, n)
<1>1. \A i \in 1..n : Append(l, x)[i] = l[i]
  OBVIOUS
<1>2. {i \in 1..n : Append(l, x)[i].of = e} = {i \in 1..n : l[i].of = e}
  BY <1>1
<1> QED
  BY <1>1, <1>2 DEF RevIn, GoneIn, KnownIn

LEMMA LogEnds ==
  ASSUME NEW l \in Seq(EventType), NEW x \in EventType, NEW e
  PROVE  /\ Append(l, x) \in Seq(EventType) /\ Len(Append(l, x)) = Len(l) + 1
         /\ RevIn(Append(l, x), e, Len(l) + 1) = RevIn(l, e, Len(l)) + (IF x.of = e THEN 1 ELSE 0)
         /\ GoneIn(Append(l, x), e, Len(l) + 1) <=> GoneIn(l, e, Len(l)) \/ (x.of = e /\ x.tombstone)
<1> DEFINE m == Append(l, x)
           n == Len(l)
<1>1. n \in Nat /\ m \in Seq(EventType) /\ Len(m) = n + 1 /\ m[n + 1] = x /\ \A i \in 1..n : m[i] = l[i]
  OBVIOUS
<1>2. IsFiniteSet(1..n)
  BY <1>1, FS_Interval
<1>3. {i \in 1..n : l[i].of = e} \subseteq 1..n
  OBVIOUS
<1>4. IsFiniteSet({i \in 1..n : l[i].of = e}) /\ (n + 1) \notin {i \in 1..n : l[i].of = e}
  BY <1>1, <1>2, <1>3, FS_Subset
<1>5. {i \in 1..n + 1 : m[i].of = e} =
        IF x.of = e THEN {i \in 1..n : l[i].of = e} \cup {n + 1} ELSE {i \in 1..n : l[i].of = e}
  BY <1>1
<1>6. RevIn(m, e, n + 1) = RevIn(l, e, n) + (IF x.of = e THEN 1 ELSE 0)
  <2>1. Cardinality({i \in 1..n : l[i].of = e}) \in Nat
    BY <1>4, FS_CardinalityType
  <2>2. Cardinality({i \in 1..n : l[i].of = e} \cup {n + 1}) = Cardinality({i \in 1..n : l[i].of = e}) + 1
    BY <1>4, FS_AddElement
  <2>3. CASE x.of = e
    <3>1. {i \in 1..n + 1 : m[i].of = e} = {i \in 1..n : l[i].of = e} \cup {n + 1}
      BY <1>5, <2>3
    <3> QED
      BY <2>1, <2>2, <2>3, <3>1 DEF RevIn
  <2>4. CASE x.of # e
    <3>1. {i \in 1..n + 1 : m[i].of = e} = {i \in 1..n : l[i].of = e}
      BY <1>5, <2>4
    <3>2. RevIn(m, e, n + 1) = RevIn(l, e, n)
      BY <3>1 DEF RevIn
    <3>3. RevIn(l, e, n) \in Nat
      BY <2>1 DEF RevIn
    <3> QED
      BY <2>4, <3>2, <3>3
  <2> QED
    BY <2>3, <2>4
<1>7. GoneIn(m, e, n + 1) <=> GoneIn(l, e, n) \/ (x.of = e /\ x.tombstone)
  BY <1>1 DEF GoneIn
<1> QED
  BY <1>1, <1>6, <1>7

LEMMA GoneStays ==
  ASSUME NEW l, NEW n \in Nat, NEW m \in 0..n, NEW e
  PROVE  (GoneIn(l, e, m) => GoneIn(l, e, n)) /\ KnownIn(l, m) \subseteq KnownIn(l, n)
         /\ (GoneIn(l, e, m) => e \in KnownIn(l, m))
BY DEF GoneIn, KnownIn

-----------------------------------------------------------------------------
(* Calls                                                                   *)

Reading == {"bodies", "fetch", "drafted", "spawn", "wait", "built", "answered"}
Building == {"spawn", "wait", "built", "answered"}

\* A call at the start of a phase has read nothing and holds nothing.
Fresh(c) == c.at = "start" /\ c.clr = Waiting /\ c.recs = {} /\ c.todo = {} /\ c.files = {}

Sane(c) ==
  /\ c.op = "none" => c.plan = <<>>
  /\ c.at # "start" => First(c) \in {"survey", "project", "reindex"}
  /\ c.at = "read" => First(c) \in {"project", "reindex"}
  /\ c.at = "drafted" => First(c) = "project"
  /\ c.at \in Building => First(c) = "reindex"
  /\ c.clr # Waiting => First(c) = "clear"
  /\ c.at \in {"start", "read"} => c.recs = {} /\ c.todo = {}
  /\ c.at \in {"drafted"} \cup Building => c.todo = {}
CallsSane == \A p \in Actors : Sane(call[p])

LEMMA FreshIsSane ==
  ASSUME NEW c \in CallType, Fresh(c), c.op = "none" => c.plan = <<>>
  PROVE  Sane(c)
BY DEF Sane, Fresh, Building

LEMMA RestIsFresh ==
  ASSUME NEW c \in CallType, NEW plan \in PlanType, c.op # "none", NEW d,
         d = Rest(c, plan)
  PROVE  /\ d \in CallType /\ Fresh(d) /\ Sane(d)
         /\ d = Idle \/ (d.plan = plan /\ d.op = c.op /\ d.since = c.since /\ d.targets = c.targets)
<1>1. d \in CallType
  BY RestTyped
<1>2. Fresh(d) /\ (d = Idle \/ (d.plan = plan /\ d.op = c.op /\ d.since = c.since /\ d.targets = c.targets))
  BY DEF Fresh, Rest, Idle, Waiting
<1>3. d.op = "none" => d.plan = <<>>
  BY DEF Rest, Idle
<1> QED
  BY <1>1, <1>2, <1>3, FreshIsSane

LEMMA IdleIsFresh == Idle \in CallType /\ Fresh(Idle) /\ Sane(Idle) /\ First(Idle) = "none"
<1>1. Fresh(Idle) /\ Idle.plan = <<>>
  BY DEF Fresh, Idle, Waiting
<1> QED
  BY <1>1, IdleTyped, FreshIsSane DEF First

\* The calls of other actors are left alone.
Turn(p, d) == call' = [call EXCEPT ![p] = d]

LEMMA TurnKeepsSane ==
  ASSUME CallTyped, CallsSane, NEW p \in Actors, NEW d \in CallType, Sane(d), Turn(p, d)
  PROVE  CallTyped' /\ CallsSane'
BY DEF CallTyped, CallsSane, Turn

LEMMA FreshSince ==
  ASSUME NEW c \in CallType, Fresh(c), Sane(c), NEW n \in Nat
  PROVE  LET d == [c EXCEPT !.since = n] IN
         /\ d \in CallType /\ Fresh(d) /\ Sane(d) /\ d.since = n
         /\ d.plan = c.plan /\ d.op = c.op /\ d.targets = c.targets
<1> DEFINE d == [c EXCEPT !.since = n]
<1>1. d \in CallType
  BY DEF CallType
<1>2. Fresh(d) /\ d.since = n /\ d.plan = c.plan /\ d.op = c.op /\ d.targets = c.targets
  BY DEF CallType, Fresh
<1>3. c.op = "none" => c.plan = <<>>
  BY DEF Sane
<1> HIDE DEF d
<1>4. Sane(d)
  BY <1>1, <1>2, <1>3, FreshIsSane
<1> QED
  BY <1>1, <1>2, <1>4 DEF d

LEMMA FreshTargets ==
  ASSUME NEW c \in CallType, Fresh(c), Sane(c), NEW t \in SUBSET [of : Entities, rev : Nat]
  PROVE  LET d == [c EXCEPT !.targets = t] IN
         /\ d \in CallType /\ Fresh(d) /\ Sane(d) /\ d.targets = t
         /\ d.plan = c.plan /\ d.op = c.op /\ d.since = c.since
<1> DEFINE d == [c EXCEPT !.targets = t]
<1>1. d \in CallType
  BY DEF CallType
<1>2. Fresh(d) /\ d.targets = t /\ d.plan = c.plan /\ d.op = c.op /\ d.since = c.since
  BY DEF CallType, Fresh
<1>3. c.op = "none" => c.plan = <<>>
  BY DEF Sane
<1> HIDE DEF d
<1>4. Sane(d)
  BY <1>1, <1>2, <1>3, FreshIsSane
<1> QED
  BY <1>1, <1>2, <1>4 DEF d

LEMMA FreshFailed ==
  ASSUME NEW c \in CallType, Fresh(c), Sane(c), NEW b \in BOOLEAN
  PROVE  LET d == [c EXCEPT !.failed = b] IN
         /\ d \in CallType /\ Fresh(d) /\ Sane(d) /\ d.failed = b
         /\ d.plan = c.plan /\ d.op = c.op /\ d.since = c.since /\ d.targets = c.targets
<1> DEFINE d == [c EXCEPT !.failed = b]
<1>1. d \in CallType
  BY DEF CallType
<1>2. Fresh(d) /\ d.failed = b /\ d.plan = c.plan /\ d.op = c.op /\ d.since = c.since /\ d.targets = c.targets
  BY DEF CallType, Fresh
<1>3. c.op = "none" => c.plan = <<>>
  BY DEF Sane
<1> HIDE DEF d
<1>4. Sane(d)
  BY <1>1, <1>2, <1>3, FreshIsSane
<1> QED
  BY <1>1, <1>2, <1>4 DEF d

Acts(p) == First(call[p]) # "none"

LEMMA ActsFacts ==
  ASSUME CallTyped, CallsSane, NEW p \in Actors
  PROVE  /\ Phase(p) = First(call[p]) /\ call[p] \in CallType /\ Sane(call[p])
         /\ Acts(p) => call[p].op # "none" /\ Tail(call[p].plan) \in PlanType
<1>1. call[p] \in CallType /\ Sane(call[p])
  BY DEF CallTyped, CallsSane
<1>2. Phase(p) = First(call[p])
  BY DEF Phase, First
<1>3. Acts(p) => call[p].op # "none"
  BY <1>1 DEF Sane, Acts, First
<1>4. Acts(p) => Tail(call[p].plan) \in PlanType
  BY <1>1, PlanTails DEF Acts
<1> QED
  BY <1>1, <1>2, <1>3, <1>4

LEMMA AfterIsFresh ==
  ASSUME CallTyped, CallsSane, NEW p \in Actors, Acts(p)
  PROVE  LET d == After(call[p]) IN
         /\ d \in CallType /\ Fresh(d) /\ Sane(d)
         /\ d = Idle \/ (d.plan = Tail(call[p].plan) /\ d.op = call[p].op /\ d.since = call[p].since
                           /\ d.targets = call[p].targets)
BY ActsFacts, RestIsFresh DEF After

LEMMA PlanAgain ==
  /\ PlanOf("delete") = AECPR /\ PlanOf("delete") \in PlanType /\ <<"clear">> \in PlanType
  /\ \A op \in Calls \ {"none"} : PlanOf(op) \in PlanType
BY DEF PlanOf, PlanType, AECPR, CPR, Calls

SinceBounded == \A p \in Actors : call[p].since <= Len(log)
Base == Typed /\ CallsSane /\ SinceBounded

\* Actor p goes to the start of a phase, or is idle.
Restarts(p) == \E d \in CallType : Turn(p, d) /\ Fresh(d) /\ Sane(d) /\ d.since <= Len(log')

LEMMA LogStep ==
  ASSUME Base, NEW p \in Actors, Write(p)
  PROVE  /\ Acts(p) /\ First(call[p]) = "append"
         /\ \E t \in NextTarget(p) :
              LET x == [of |-> t.of, tombstone |-> call[p].op # "change"] IN
              /\ t \in call[p].targets /\ x \in EventType /\ t.of \in Entities /\ Current(p, t)
              /\ log' = Append(log, x) /\ log' \in Seq(EventType) /\ Len(log') = Len(log) + 1
              /\ objects' = IF call[p].op = "change" THEN objects \cup {<<t.of, t.rev + 1>>} ELSE objects
<1>1. PICK t \in NextTarget(p) :
        /\ Phase(p) = "append" /\ Current(p, t)
        /\ log' = Append(log, [of |-> t.of, tombstone |-> call[p].op # "change"])
        /\ objects' = IF call[p].op = "change" THEN objects \cup {<<t.of, t.rev + 1>>} ELSE objects
  BY DEF Write
<1>2. call[p] \in CallType /\ Phase(p) = First(call[p])
  BY ActsFacts DEF Base, Typed
<1>3. t \in call[p].targets /\ t.of \in Entities
  BY <1>2 DEF NextTarget, CallType
<1>4. [of |-> t.of, tombstone |-> call[p].op # "change"] \in EventType
  BY <1>3 DEF EventType
<1>5. log \in Seq(EventType)
  BY DEF Base, Typed, LogTyped
<1>6. log' \in Seq(EventType) /\ Len(log') = Len(log) + 1
  BY <1>1, <1>4, <1>5
<1> QED
  BY <1>1, <1>2, <1>3, <1>4, <1>6 DEF Acts

LEMMA LengthIsNat == ASSUME LogTyped PROVE Now \in Nat /\ Len(log) = Now
BY DEF LogTyped, Now

LEMMA Restart ==
  ASSUME Base, NEW p \in Actors,
         \/ \E op \in Ops[p], e \in Entities \cup {0} : Begin(p, op, e)
         \/ Reconcile(p) \/ Commit(p) \/ CommitThrows(p) \/ CommitRefused(p) \/ Erase(p)
         \/ ClearEnd(p) \/ LockBusy(p) \/ BodyVanished(p) \/ Survey(p) \/ DraftFails(p)
         \/ ProjectEnd(p) \/ (Reap(p) /\ call'[p].at # "built") \/ ReindexEnd(p) \/ Die(p)
  PROVE  Restarts(p)
<1>1. CallTyped /\ CallsSane /\ call[p] \in CallType /\ Sane(call[p]) /\ Phase(p) = First(call[p])
  BY ActsFacts DEF Base, Typed
<1>2. Now \in Nat /\ log \in Seq(EventType) /\ Len(log) = Now /\ call[p].since <= Now /\ call[p].since \in Nat
  BY <1>1, LengthIsNat DEF Base, SinceBounded, Typed, LogTyped, CallType
<1>3. ASSUME Turn(p, Idle), log' = log \/ Len(log') = Len(log) + 1 PROVE Restarts(p)
  <2>1. Idle.since = 0
    BY DEF Idle
  <2>2. Idle.since <= Len(log')
    BY <1>2, <1>3, <2>1
  <2> QED
    BY <1>3, <2>2, IdleIsFresh DEF Restarts
<1>4. ASSUME Acts(p), Turn(p, After(call[p])), UNCHANGED log PROVE Restarts(p)
  <2>1. After(call[p]).since <= Len(log')
    BY <1>1, <1>2, <1>4, AfterIsFresh DEF Idle
  <2> QED
    BY <1>1, <1>4, <2>1, AfterIsFresh DEF Restarts
<1>5. ASSUME NEW op \in Ops[p], NEW e \in Entities \cup {0}, Begin(p, op, e) PROVE Restarts(p)
  <2>1. op \in Calls \ {"none"}
    BY DerivedAssumption DEF Calls
  <2> DEFINE t == IF e = 0 THEN {} ELSE {[of |-> e, rev |-> Rev(e, Now)]}
             d == [Idle EXCEPT !.op = op, !.plan = PlanOf(op), !.since = Now, !.targets = t]
  <2>2. t \in SUBSET [of : Entities, rev : Nat]
    BY <1>2, LedgerRead, RevisionBounds
  <2>3. Turn(p, d)
    BY <1>5 DEF Begin, Turn
  <2> HIDE DEF t
  <2>4. d \in CallType /\ Fresh(d) /\ d.since = Now /\ d.op # "none"
    BY <1>2, <2>1, <2>2, IdleIsFresh, PlanAgain DEF CallType, Fresh
  <2>5. log' = log
    BY <1>5 DEF Begin, ledger
  <2> HIDE DEF d
  <2>6. Sane(d) /\ d.since <= Len(log')
    BY <1>2, <2>4, <2>5, FreshIsSane
  <2> QED
    BY <2>3, <2>4, <2>6 DEF Restarts
<1>6. CASE Reconcile(p)
  <2>1. Acts(p) /\ call[p].plan = <<"reconcile", "clear", "project">>
    BY <1>1, <1>6, PlanTails DEF Reconcile, Acts
  <2> DEFINE plan == IF \E e \in Known(Now) : Gone(e, Now) THEN Tail(call[p].plan) ELSE Tail(Tail(call[p].plan))
             d == Rest(call[p], plan)
  <2>2. plan \in PlanType
    BY <2>1, TailsOfPlans DEF PlanType
  <2>3. Turn(p, [d EXCEPT !.since = Now]) /\ log' = log
    BY <1>6 DEF Reconcile, Turn
  <2> HIDE DEF plan
  <2>4. d \in CallType /\ Fresh(d) /\ Sane(d)
    BY <1>1, <2>1, <2>2, ActsFacts, RestIsFresh
  <2> HIDE DEF d
  <2> DEFINE f == [d EXCEPT !.since = Now]
  <2>5. f \in CallType /\ Fresh(f) /\ Sane(f) /\ f.since = Now
    BY <1>2, <2>4, FreshSince
  <2> HIDE DEF f
  <2>6. f.since <= Len(log')
    BY <1>2, <2>3, <2>5
  <2> QED
    BY <2>3, <2>5, <2>6 DEF Restarts, f
<1>7. CASE Commit(p)
  <2>1. Acts(p) /\ Len(log') = Now + 1
    BY <1>2, <1>7, LogStep DEF Commit
  <2> DEFINE d == After(call[p])
  <2>2. Turn(p, [d EXCEPT !.since = Now + 1])
    BY <1>7 DEF Commit, Turn
  <2>3. d \in CallType /\ Fresh(d) /\ Sane(d)
    BY <1>1, <2>1, AfterIsFresh
  <2> HIDE DEF d
  <2> DEFINE f == [d EXCEPT !.since = Now + 1]
  <2>4. Now + 1 \in Nat
    BY <1>2
  <2>5. f \in CallType /\ Fresh(f) /\ Sane(f) /\ f.since = Now + 1
    BY <2>3, <2>4, FreshSince
  <2> HIDE DEF f
  <2>6. f.since <= Len(log')
    BY <2>1, <2>4, <2>5
  <2> QED
    BY <2>2, <2>5, <2>6 DEF Restarts, f
<1>8. ASSUME Acts(p) PROVE
        LET d == Unwind(call[p]) IN d \in CallType /\ Fresh(d) /\ Sane(d) /\ d.since \in {0, call[p].since}
  <2> DEFINE d == Rest(call[p], <<"clear">>)
  <2>1. d \in CallType /\ Fresh(d) /\ Sane(d) /\ d.since \in {0, call[p].since}
    BY <1>1, <1>8, ActsFacts, PlanAgain, RestIsFresh DEF Idle
  <2>2. Unwind(call[p]) = [d EXCEPT !.failed = TRUE]
    BY DEF Unwind
  <2> HIDE DEF d
  <2> DEFINE f == [d EXCEPT !.failed = TRUE]
  <2>3. f \in CallType /\ Fresh(f) /\ Sane(f) /\ f.since = d.since
    BY <2>1, FreshFailed
  <2> HIDE DEF f
  <2> QED
    BY <2>1, <2>2, <2>3 DEF f
<1>9. CASE CommitThrows(p)
  <2>1. Acts(p) /\ Len(log') = Now + 1
    BY <1>2, <1>9, LogStep DEF CommitThrows
  <2>2. CASE call[p].op = "change"
    <3>1. Turn(p, Idle)
      BY <1>9, <2>2 DEF CommitThrows, Turn
    <3> QED
      BY <1>2, <1>3, <2>1, <3>1
  <2>3. CASE call[p].op # "change"
    <3> DEFINE d == Unwind(call[p])
    <3>1. Turn(p, [d EXCEPT !.since = Now + 1])
      BY <1>9, <2>3 DEF CommitThrows, Turn
    <3>2. d \in CallType /\ Fresh(d) /\ Sane(d)
      BY <1>8, <2>1
    <3> HIDE DEF d
    <3> DEFINE f == [d EXCEPT !.since = Now + 1]
    <3>3. Now + 1 \in Nat
      BY <1>2
    <3>4. f \in CallType /\ Fresh(f) /\ Sane(f) /\ f.since = Now + 1
      BY <3>2, <3>3, FreshSince
    <3> HIDE DEF f
    <3>5. f.since <= Len(log')
      BY <2>1, <3>3, <3>4
    <3> QED
      BY <3>1, <3>4, <3>5 DEF Restarts, f
  <2> QED
    BY <2>2, <2>3
<1>10. CASE CommitRefused(p)
  <2>1. Acts(p) /\ log' = log
    BY <1>1, <1>10 DEF CommitRefused, Acts, ledger
  <2>2. CASE call[p].op = "change"
    <3>1. Turn(p, Idle)
      BY <1>10, <2>2 DEF CommitRefused, Turn
    <3> QED
      BY <1>2, <1>3, <2>1, <3>1
  <2>3. CASE call[p].op # "change"
    <3>1. Turn(p, Unwind(call[p]))
      BY <1>10, <2>3 DEF CommitRefused, Turn
    <3>2. Unwind(call[p]).since <= Len(log')
      BY <1>2, <1>8, <2>1
    <3> QED
      BY <1>8, <2>1, <3>1, <3>2 DEF Restarts
  <2> QED
    BY <2>2, <2>3
<1>11. CASE Erase(p)
  <2>1. Acts(p) /\ log' = log
    BY <1>1, <1>11 DEF Erase, Acts
  <2>2. PICK t \in NextTarget(p) : call' = [call EXCEPT ![p] =
          IF call[p].targets \ {t} = {} THEN After(@)
          ELSE [Rest(@, PlanOf("delete")) EXCEPT !.targets = call[p].targets \ {t}]]
    BY <1>11 DEF Erase
  <2>3. CASE call[p].targets \ {t} = {}
    <3>1. Turn(p, After(call[p]))
      BY <2>2, <2>3 DEF Turn
    <3> QED
      BY <1>4, <2>1, <3>1
  <2>4. CASE call[p].targets \ {t} # {}
    <3> DEFINE d == Rest(call[p], PlanOf("delete"))
               u == call[p].targets \ {t}
    <3>1. Turn(p, [d EXCEPT !.targets = u])
      BY <2>2, <2>4 DEF Turn
    <3>2. d \in CallType /\ Fresh(d) /\ Sane(d) /\ d.since \in {0, call[p].since}
      BY <1>1, <2>1, ActsFacts, PlanAgain, RestIsFresh DEF Idle
    <3>3. u \in SUBSET [of : Entities, rev : Nat]
      BY <1>1 DEF CallType
    <3> HIDE DEF d, u
    <3> DEFINE f == [d EXCEPT !.targets = u]
    <3>4. f \in CallType /\ Fresh(f) /\ Sane(f) /\ f.since = d.since
      BY <3>2, <3>3, FreshTargets
    <3> HIDE DEF f
    <3>5. f.since <= Len(log')
      BY <1>2, <2>1, <3>2, <3>4
    <3> QED
      BY <3>1, <3>4, <3>5 DEF Restarts, f
  <2> QED
    BY <2>3, <2>4
<1>12. CASE ClearEnd(p)
  <2>1. Acts(p) /\ log' = log /\ (Turn(p, Idle) \/ Turn(p, After(call[p])))
    BY <1>1, <1>12 DEF ClearEnd, Acts, Turn, ledger
  <2> QED
    BY <1>3, <1>4, <2>1
<1>13. CASE LockBusy(p)
  BY <1>3, <1>13 DEF LockBusy, Turn, ledger
<1>14. CASE BodyVanished(p)
  BY <1>3, <1>14 DEF BodyVanished, Throw, Turn, ledger
<1>15. CASE DraftFails(p)
  BY <1>3, <1>15 DEF DraftFails, Throw, Turn, ledger
<1>16. CASE Die(p)
  BY <1>3, <1>16 DEF Die, Throw, Turn, ledger
<1>17. CASE ProjectEnd(p)
  <2>1. Acts(p) /\ log' = log /\ Turn(p, After(call[p]))
    BY <1>1, <1>17 DEF ProjectEnd, Acts, Turn, ledger
  <2> QED
    BY <1>4, <2>1
<1>18. CASE ReindexEnd(p)
  <2>1. call[p].at \in {"answered", "built"}
    BY <1>18 DEF ReindexEnd
  <2>2. Acts(p) /\ log' = log /\ Turn(p, After(call[p]))
    BY <1>1, <1>18, <2>1 DEF ReindexEnd, Acts, Turn, Sane, ledger, Building
  <2> QED
    BY <1>4, <2>2
<1>19. CASE Reap(p) /\ call'[p].at # "built"
  <2>1. call' = [call EXCEPT ![p].at = "built"] => call'[p].at = "built"
    BY <1>1 DEF CallTyped, CallType
  <2>2. Turn(p, Idle) /\ log' = log
    BY <1>19, <2>1 DEF Reap, Throw, Turn, ledger
  <2> QED
    BY <1>3, <2>2
<1>20. CASE Survey(p)
  <2> DEFINE expired == {r.of : r \in {x \in call[p].recs : x.body # "deleted"}} \cap Expiring
             t == {[of |-> e, rev |-> Rev(e, call[p].view)] : e \in expired}
             d == Rest(call[p], PlanOf("delete"))
  <2>1. Acts(p) /\ log' = log
    BY <1>1, <1>20 DEF Survey, Acts, ledger
  <2>2. Turn(p, Idle) \/ Turn(p, [d EXCEPT !.targets = t])
    BY <1>20 DEF Survey, Turn
  <2>3. t \in SUBSET [of : Entities, rev : Nat]
    <3>1. expired \subseteq Entities
      BY DerivedAssumption
    <3>2. \A e \in expired : Rev(e, call[p].view) \in Nat
      BY <1>1, <1>2, LedgerRead, RevisionBounds DEF CallType
    <3> QED
      BY <3>1, <3>2
  <2>4. d \in CallType /\ Fresh(d) /\ Sane(d) /\ d.since \in {0, call[p].since}
    BY <1>1, <2>1, ActsFacts, PlanAgain, RestIsFresh DEF Idle
  <2> HIDE DEF d, t
  <2> DEFINE f == [d EXCEPT !.targets = t]
  <2>5. f \in CallType /\ Fresh(f) /\ Sane(f) /\ f.since = d.since
    BY <2>3, <2>4, FreshTargets
  <2> HIDE DEF f
  <2>6. f.since <= Len(log')
    BY <1>2, <2>1, <2>4, <2>5
  <2>7. Turn(p, f) => Restarts(p)
    BY <2>5, <2>6 DEF Restarts
  <2> QED
    BY <1>3, <2>1, <2>2, <2>7 DEF f
<1> QED
  BY <1>5, <1>6, <1>7, <1>9, <1>10, <1>11, <1>12, <1>13, <1>14, <1>15, <1>16, <1>17, <1>18, <1>19, <1>20

\* Actor p goes on within a phase.
SamePhase(c, d) ==
  d.op = c.op /\ d.plan = c.plan /\ d.since = c.since /\ d.targets = c.targets /\ First(d) = First(c)
Advances(p) == \E d \in CallType : Turn(p, d) /\ Sane(d) /\ SamePhase(call[p], d)

\* What a record being read, or a phase of clearing, may become.
LEMMA RecordTyped ==
  ASSUME LogTyped, NEW e \in Entities, NEW n \in Nat, NEW body \in {"present", "erased", "deleted"}
  PROVE  Record(e, n, body) \in RecordType /\ Record(e, n, body) = [of |-> e, rev |-> RevIn(log, e, n), body |-> body]
<1>1. RevIn(log, e, n) \in Nat
  BY RevisionBounds DEF LogTyped
<1> QED
  BY <1>1, LedgerRead DEF Record, RecordType

LEMMA KnownEntities ==
  ASSUME NEW l \in Seq(EventType), NEW n \in 0..Len(l)
  PROVE  KnownIn(l, n) \subseteq Entities
<1>1. \A i \in 1..n : l[i] \in EventType
  OBVIOUS
<1> QED
  BY <1>1 DEF KnownIn, EventType

LEMMA ClearTurn ==
  ASSUME Base, NEW p \in Actors, NEW l \in LockName, NEW x \in Progress, First(call[p]) = "clear",
         Turn(p, [call[p] EXCEPT !.clr[l] = x])
  PROVE  /\ Advances(p)
         /\ call'[p] = [call[p] EXCEPT !.clr[l] = x] /\ call'[p].clr[l] = x
         /\ \A m \in LockName \ {l} : call'[p].clr[m] = call[p].clr[m]
<1>1. call[p] \in CallType /\ Sane(call[p]) /\ CallTyped
  BY ActsFacts DEF Base, Typed
<1> DEFINE d == [call[p] EXCEPT !.clr[l] = x]
<1>2. d \in CallType /\ d.clr[l] = x /\ \A m \in LockName \ {l} : d.clr[m] = call[p].clr[m]
  BY <1>1 DEF CallType
<1>3. SamePhase(call[p], d) /\ d.at = call[p].at /\ d.recs = call[p].recs /\ d.todo = call[p].todo
  BY <1>1 DEF CallType, SamePhase, First
<1>4. call'[p] = d
  BY <1>1 DEF Turn, CallTyped
<1> HIDE DEF d
<1>5. Sane(d)
  BY <1>1, <1>3 DEF Sane, SamePhase
<1> QED
  BY <1>2, <1>3, <1>4, <1>5 DEF Advances, d

LEMMA ClearActions ==
  ASSUME Base, NEW p \in Actors
  PROVE  /\ \A l \in LockName :
              /\ TakeClear(p, l) => First(call[p]) = "clear" /\ Turn(p, [call[p] EXCEPT !.clr[l] = "held"])
              /\ ClearBusy(p, l) => First(call[p]) = "clear" /\ Turn(p, [call[p] EXCEPT !.clr[l] = "busy"])
         /\ DropIndex(p) => First(call[p]) = "clear" /\ Turn(p, [call[p] EXCEPT !.clr["index"] = "done"])
         /\ DropEnd(p) => First(call[p]) = "clear" /\ Turn(p, [call[p] EXCEPT !.clr["docs"] = "done"])
<1>1. call[p] \in CallType /\ Phase(p) = First(call[p]) /\ CallTyped
  BY ActsFacts DEF Base, Typed
<1>2. ASSUME NEW l \in LockName, NEW x \in Progress, call' = [call EXCEPT ![p].clr[l] = x]
      PROVE Turn(p, [call[p] EXCEPT !.clr[l] = x])
  BY <1>1, <1>2 DEF Turn, CallTyped
<1>3. ASSUME DropIndex(p) PROVE Turn(p, [call[p] EXCEPT !.clr["index"] = "done"])
  BY <1>1, <1>3 DEF Turn, CallTyped, DropIndex
<1>4. ASSUME DropEnd(p) PROVE Turn(p, [call[p] EXCEPT !.clr["docs"] = "done"])
  BY <1>1, <1>4 DEF Turn, CallTyped, DropEnd
<1> QED
  BY <1>1, <1>2, <1>3, <1>4 DEF TakeClear, ClearBusy, DropIndex, DropEnd, Progress

LEMMA ReadActions ==
  ASSUME Base, NEW p \in Actors,
         \/ TakeLock(p) \/ ReadEvents(p) \/ CheckBody(p) \/ FetchBody(p) \/ Draft(p) \/ Rename(p)
         \/ RemoveOld(p) \/ Spawn(p) \/ (Reap(p) /\ call'[p].at = "built") \/ Query(p)
  PROVE  Advances(p) /\ call'[p].at # "start" /\ log' = log
<1>1. call[p] \in CallType /\ Sane(call[p]) /\ Phase(p) = First(call[p]) /\ CallTyped
  BY ActsFacts DEF Base, Typed
<1>2. Now \in Nat /\ log \in Seq(EventType) /\ Len(log) = Now /\ LogTyped
  BY <1>1, LengthIsNat DEF Base, Typed, LogTyped
<1>3. call[p].at # "start" => Acts(p)
  BY <1>1 DEF Sane, Acts
<1>4. ASSUME NEW d \in CallType, Turn(p, d), d.op = call[p].op, d.plan = call[p].plan, d.since = call[p].since,
             d.targets = call[p].targets, d.clr = call[p].clr,
             d.at # "start",
             First(call[p]) \in {"survey", "project", "reindex"},
             d.at = "read" => First(call[p]) \in {"project", "reindex"} /\ d.recs = {} /\ d.todo = {},
             d.at = "drafted" => First(call[p]) = "project" /\ d.todo = {},
             d.at \in Building => First(call[p]) = "reindex" /\ d.todo = {}
      PROVE  Advances(p) /\ call'[p] = d /\ call'[p].at # "start"
  <2>1. First(d) = First(call[p]) /\ SamePhase(call[p], d)
    BY <1>4 DEF First, SamePhase
  <2>2. Sane(d)
    BY <1>1, <1>4, <2>1 DEF Sane
  <2>3. call'[p] = d
    BY <1>1, <1>4 DEF Turn, CallTyped
  <2> QED
    BY <1>4, <2>1, <2>2, <2>3 DEF Advances
<1>5. CASE TakeLock(p)
  <2> DEFINE d == [call[p] EXCEPT !.at = "read"]
  <2>1. d \in CallType /\ Turn(p, d) /\ log' = log
    BY <1>1, <1>5 DEF CallType, Turn, TakeLock, Stage, CallTyped, ledger
  <2>2. /\ d.op = call[p].op /\ d.plan = call[p].plan /\ d.since = call[p].since /\ d.clr = call[p].clr
        /\ d.targets = call[p].targets /\ d.at = "read" /\ d.recs = {} /\ d.todo = {}
    BY <1>1, <1>5 DEF CallType, TakeLock, Sane
  <2>3. First(call[p]) \in {"project", "reindex"}
    BY <1>1, <1>5 DEF TakeLock
  <2> HIDE DEF d
  <2> QED
    BY <1>4, <2>1, <2>2, <2>3 DEF Building
<1>6. CASE ReadEvents(p)
  <2> DEFINE r == {Record(e, Now, "deleted") : e \in {x \in Known(Now) : Gone(x, Now)}}
             t == {x \in Known(Now) : ~Gone(x, Now)}
             f == FilesOf(Now)
             d == [call[p] EXCEPT !.at = "bodies", !.view = Now, !.recs = r, !.todo = t, !.files = f]
  <2>1. r \in SUBSET RecordType /\ t \in SUBSET Entities /\ f \in SUBSET FileType
    <3>1. Known(Now) \subseteq Entities
      BY <1>2, LedgerRead, KnownEntities
    <3>2. Entities \subseteq Nat
      BY DerivedAssumption
    <3>3. \A e \in Entities : Record(e, Now, "deleted") \in RecordType
      BY <1>2, RecordTyped
    <3>4. f \in SUBSET FileType
      BY <3>1, <3>2 DEF FilesOf, FileType
    <3> QED
      BY <3>1, <3>3, <3>4
  <2>2. Turn(p, d) /\ log' = log
    BY <1>6 DEF ReadEvents, Turn, ledger
  <2> HIDE DEF r, t, f
  <2>3. d \in CallType
    BY <1>1, <1>2, <2>1 DEF CallType, Stage
  <2>4. /\ d.op = call[p].op /\ d.plan = call[p].plan /\ d.since = call[p].since /\ d.clr = call[p].clr
        /\ d.targets = call[p].targets /\ d.at = "bodies"
    BY <1>1 DEF CallType
  <2>5. First(call[p]) \in {"survey", "project", "reindex"}
    BY <1>1, <1>6 DEF ReadEvents
  <2> HIDE DEF d
  <2> QED
    BY <1>4, <2>2, <2>3, <2>4, <2>5 DEF Building
<1>7. CASE CheckBody(p)
  <2>1. PICK e \in NextRead(p) : call[p].at = "bodies" /\
          call' = [call EXCEPT ![p] =
            IF BodyOf(p, e) \in objects THEN [@ EXCEPT !.at = "fetch"]
            ELSE [@ EXCEPT !.recs = call[p].recs \cup {Record(e, call[p].view, "erased")},
                           !.todo = call[p].todo \ {e}]]
    BY <1>7 DEF CheckBody
  <2>2. First(call[p]) \in {"survey", "project", "reindex"} /\ log' = log /\ e \in Entities
    BY <1>1, <1>7, <2>1 DEF Sane, CheckBody, ledger, NextRead, CallType
  <2> DEFINE d == IF BodyOf(p, e) \in objects THEN [call[p] EXCEPT !.at = "fetch"]
                  ELSE [call[p] EXCEPT !.recs = call[p].recs \cup {Record(e, call[p].view, "erased")},
                                       !.todo = call[p].todo \ {e}]
  <2>3. Record(e, call[p].view, "erased") \in RecordType
    BY <1>1, <1>2, <2>2, RecordTyped DEF CallType
  <2>4. Turn(p, d)
    <3>1. CASE BodyOf(p, e) \in objects
      BY <2>1, <3>1 DEF Turn
    <3>2. CASE BodyOf(p, e) \notin objects
      BY <2>1, <3>2 DEF Turn
    <3> QED
      BY <3>1, <3>2
  <2>5. d \in CallType
    BY <1>1, <2>3 DEF CallType, Stage
  <2>6. /\ d.op = call[p].op /\ d.plan = call[p].plan /\ d.since = call[p].since /\ d.clr = call[p].clr
        /\ d.targets = call[p].targets /\ d.at \in {"bodies", "fetch"}
    BY <1>1, <2>1 DEF CallType
  <2> HIDE DEF d
  <2> QED
    BY <1>4, <2>2, <2>4, <2>5, <2>6 DEF Building
<1>8. CASE FetchBody(p)
  <2>1. PICK e \in NextRead(p) : call[p].at = "fetch" /\
          call' = [call EXCEPT ![p].at = "bodies", ![p].todo = @ \ {e},
                     ![p].recs = @ \cup {Record(e, call[p].view, "present")}]
    BY <1>8 DEF FetchBody
  <2>2. First(call[p]) \in {"survey", "project", "reindex"} /\ log' = log /\ e \in Entities
    BY <1>1, <1>8, <2>1 DEF Sane, FetchBody, ledger, NextRead, CallType
  <2> DEFINE d == [call[p] EXCEPT !.at = "bodies", !.todo = @ \ {e}, !.recs = @ \cup {Record(e, call[p].view, "present")}]
  <2>3. Record(e, call[p].view, "present") \in RecordType
    BY <1>1, <1>2, <2>2, RecordTyped DEF CallType
  <2>4. Turn(p, d)
    BY <2>1 DEF Turn
  <2>5. d \in CallType
    BY <1>1, <2>3 DEF CallType, Stage
  <2>6. /\ d.op = call[p].op /\ d.plan = call[p].plan /\ d.since = call[p].since /\ d.clr = call[p].clr
        /\ d.targets = call[p].targets /\ d.at = "bodies"
    BY <1>1, <2>1 DEF CallType
  <2> HIDE DEF d
  <2> QED
    BY <1>4, <2>2, <2>4, <2>5, <2>6 DEF Building
<1>9. CASE Draft(p)
  <2> DEFINE d == [call[p] EXCEPT !.at = "drafted"]
  <2>1. d \in CallType /\ Turn(p, d) /\ log' = log
    BY <1>1, <1>9 DEF CallType, Turn, Draft, Stage, CallTyped, ledger
  <2>2. /\ d.op = call[p].op /\ d.plan = call[p].plan /\ d.since = call[p].since /\ d.clr = call[p].clr
        /\ d.targets = call[p].targets /\ d.at = "drafted" /\ d.todo = {}
    BY <1>1, <1>9 DEF CallType, Draft, Replayed
  <2>3. First(call[p]) = "project"
    BY <1>1, <1>9 DEF Draft
  <2> HIDE DEF d
  <2> QED
    BY <1>4, <2>1, <2>2, <2>3 DEF Building
<1>10. CASE Rename(p)
  <2>1. PICK f \in NextFile(p) : call[p].at = "drafted" /\
          call' = [call EXCEPT ![p].at = "bodies", ![p].files = @ \ {f}]
    BY <1>10 DEF Rename
  <2> DEFINE d == [call[p] EXCEPT !.at = "bodies", !.files = @ \ {f}]
  <2>2. d \in CallType /\ Turn(p, d) /\ log' = log
    BY <1>1, <1>10, <2>1 DEF CallType, Turn, Rename, Stage, CallTyped, ledger
  <2>3. /\ d.op = call[p].op /\ d.plan = call[p].plan /\ d.since = call[p].since /\ d.clr = call[p].clr
        /\ d.targets = call[p].targets /\ d.at = "bodies"
    BY <1>1 DEF CallType
  <2>4. First(call[p]) = "project"
    BY <1>1, <2>1 DEF Sane
  <2> HIDE DEF d
  <2> QED
    BY <1>4, <2>2, <2>3, <2>4 DEF Building
<1>11. ASSUME NEW x \in Building, call' = [call EXCEPT ![p].at = x], First(call[p]) = "reindex", call[p].todo = {}
       PROVE  Advances(p) /\ call'[p].at # "start"
  <2> DEFINE d == [call[p] EXCEPT !.at = x]
  <2>1. d \in CallType /\ Turn(p, d)
    BY <1>1, <1>11 DEF CallType, Turn, Stage, CallTyped, Building
  <2>2. /\ d.op = call[p].op /\ d.plan = call[p].plan /\ d.since = call[p].since /\ d.clr = call[p].clr
        /\ d.targets = call[p].targets /\ d.at \in Building /\ d.todo = {}
    BY <1>1, <1>11 DEF CallType
  <2> HIDE DEF d
  <2>3. d.at \notin {"start", "read", "drafted"}
    BY <2>2 DEF Building
  <2> QED
    BY <1>4, <1>11, <2>1, <2>2, <2>3
<1>12. CASE RemoveOld(p)
  BY <1>1, <1>11, <1>12 DEF RemoveOld, Replayed, Building, ledger
<1>13. CASE Spawn(p)
  BY <1>1, <1>11, <1>13 DEF Spawn, Sane, Building, ledger
<1>14. CASE Reap(p) /\ call'[p].at = "built"
  <2>1. call' # [call EXCEPT ![p] = Idle]
    BY <1>1, <1>14 DEF CallTyped, Idle
  <2>2. call' = [call EXCEPT ![p].at = "built"] /\ log' = log
    BY <1>14, <2>1 DEF Reap, Throw, ledger
  <2>3. call[p].at = "wait"
    BY <1>14 DEF Reap
  <2>4. First(call[p]) = "reindex" /\ call[p].todo = {}
    BY <1>1, <2>3 DEF Sane, Building
  <2> QED
    BY <1>11, <2>2, <2>4 DEF Building
<1>15. CASE Query(p)
  <2> DEFINE d == [call[p] EXCEPT !.at = "answered", !.hits = index.rows]
  <2>1. index.rows \in SUBSET RecordType
    BY DEF Base, Typed, IndexTyped
  <2>2. Turn(p, d) /\ log' = log
    BY <1>15 DEF Turn, Query, ledger
  <2>3. d \in CallType
    BY <1>1, <2>1 DEF CallType, Stage
  <2>4. call[p].todo = {} /\ First(call[p]) = "reindex"
    BY <1>1, <1>15 DEF Sane, Query, Building
  <2>5. /\ d.op = call[p].op /\ d.plan = call[p].plan /\ d.since = call[p].since /\ d.clr = call[p].clr
        /\ d.targets = call[p].targets /\ d.at = "answered" /\ d.todo = {}
    BY <1>1, <2>4 DEF CallType
  <2> HIDE DEF d
  <2> QED
    BY <1>4, <2>2, <2>3, <2>4, <2>5 DEF Building
<1> QED
  BY <1>5, <1>6, <1>7, <1>8, <1>9, <1>10, <1>12, <1>13, <1>14, <1>15

-----------------------------------------------------------------------------
(* Who changes what                                                        *)

BeginOf(p) == \E op \in Ops[p], e \in Entities \cup {0} : Begin(p, op, e)

\* The steps of an actor, by what they do to its call.
Restarting(p) ==
  \/ BeginOf(p)
  \/ Reconcile(p) \/ Commit(p) \/ CommitThrows(p) \/ CommitRefused(p) \/ Erase(p)
  \/ ClearEnd(p) \/ LockBusy(p) \/ BodyVanished(p) \/ Survey(p) \/ DraftFails(p)
  \/ ProjectEnd(p) \/ (Reap(p) /\ call'[p].at # "built") \/ ReindexEnd(p) \/ Die(p)
Clearing(p) ==
  \/ \E l \in LockName : TakeClear(p, l) \/ ClearBusy(p, l)
  \/ DropIndex(p) \/ DropEnd(p)
Advancing(p) ==
  \/ TakeLock(p) \/ ReadEvents(p) \/ CheckBody(p) \/ FetchBody(p) \/ Draft(p) \/ Rename(p)
  \/ RemoveOld(p) \/ Spawn(p) \/ (Reap(p) /\ call'[p].at = "built") \/ Query(p)

LEMMA Kinds ==
  ASSUME LockTyped, Next
  PROVE  \/ \E p \in Actors : Restarting(p) \/ Clearing(p) \/ Advancing(p) \/ DropFile(p)
         \/ \E c \in children : Child(c)
<1>1. DOMAIN lock = LockName
  BY DEF LockTyped
<1>2. ASSUME NEW p \in Actors, Proceed(p) PROVE Restarting(p) \/ Clearing(p) \/ Advancing(p) \/ DropFile(p)
  BY <1>1, <1>2 DEF Proceed, Restarting, Clearing, Advancing
<1>3. ASSUME NEW p \in Actors, NEW op \in Ops[p], NEW e \in Entities \cup {0}, Begin(p, op, e) PROVE Restarting(p)
  BY <1>3 DEF Restarting, BeginOf
<1>4. ASSUME NEW p \in Actors, CommitThrows(p) \/ DraftFails(p) \/ LockBusy(p) \/ Die(p) PROVE Restarting(p)
  BY <1>4 DEF Restarting
<1>5. ASSUME NEW p \in Actors, NEW l \in DOMAIN lock, ClearBusy(p, l) PROVE Clearing(p)
  BY <1>1, <1>5 DEF Clearing
<1> QED
  BY <1>2, <1>3, <1>4, <1>5 DEF Next

LEMMA CallOutcome ==
  ASSUME Base, LockTyped, Next
  PROVE  \/ \E p \in Actors : Restarts(p) \/ (Advances(p) /\ log' = log)
         \/ UNCHANGED <<call, log>>
<1>1. ASSUME NEW p \in Actors, Restarting(p) PROVE Restarts(p)
  BY <1>1, Restart DEF Restarting, BeginOf
<1>2. ASSUME NEW p \in Actors, Clearing(p) PROVE Advances(p) /\ log' = log
  <2>1. log' = log
    BY <1>2 DEF Clearing, TakeClear, ClearBusy, DropIndex, DropEnd, ledger
  <2>2. \E l \in LockName, x \in Progress : First(call[p]) = "clear" /\ Turn(p, [call[p] EXCEPT !.clr[l] = x])
    BY <1>2, ClearActions DEF Clearing, LockName, Progress
  <2> QED
    BY <2>1, <2>2, ClearTurn
<1>3. ASSUME NEW p \in Actors, Advancing(p) PROVE Advances(p) /\ log' = log
  BY <1>3, ReadActions DEF Advancing
<1>4. ASSUME NEW p \in Actors, DropFile(p) PROVE UNCHANGED <<call, log>>
  BY <1>4 DEF DropFile, ledger
<1>5. ASSUME NEW c \in children, Child(c) PROVE UNCHANGED <<call, log>>
  BY <1>5 DEF Child, CreateTables, ChildFails, CommitRows, ledger
<1> QED
  BY <1>1, <1>2, <1>3, <1>4, <1>5, Kinds

LEMMA LogFrame ==
  ASSUME LockTyped, Next
  PROVE  UNCHANGED log \/ \E p \in Actors : Write(p)
<1>1. ASSUME NEW p \in Actors, Restarting(p) PROVE UNCHANGED log \/ Write(p)
  BY <1>1 DEF Restarting, BeginOf, Begin, Reconcile, Commit, CommitThrows, CommitRefused, Erase, ClearEnd, LockBusy,
     BodyVanished, Survey, DraftFails, ProjectEnd, Reap, ReindexEnd, Die, ledger
<1>2. ASSUME NEW p \in Actors, Clearing(p) \/ Advancing(p) \/ DropFile(p) PROVE UNCHANGED log
  BY <1>2 DEF Clearing, Advancing, TakeClear, ClearBusy, DropIndex, DropEnd, TakeLock, ReadEvents, CheckBody, FetchBody,
     Draft, Rename, RemoveOld, Spawn, Reap, Query, DropFile, ledger
<1>3. ASSUME NEW c \in children, Child(c) PROVE UNCHANGED log
  BY <1>3 DEF Child, CreateTables, ChildFails, CommitRows, ledger
<1> QED
  BY <1>1, <1>2, <1>3, Kinds

LEMMA DocsFrame ==
  ASSUME LockTyped, Next
  PROVE  UNCHANGED <<docs, litter>> \/ \E p \in Actors : DropFile(p) \/ Rename(p) \/ DraftFails(p) \/ Die(p)
<1>1. ASSUME NEW p \in Actors, Restarting(p) PROVE UNCHANGED <<docs, litter>> \/ DraftFails(p) \/ Die(p)
  BY <1>1 DEF Restarting, BeginOf, Begin, Reconcile, Commit, CommitThrows, CommitRefused, Erase, ClearEnd, LockBusy,
     BodyVanished, Survey, ProjectEnd, Reap, ReindexEnd, derived
<1>2. ASSUME NEW p \in Actors, Clearing(p) \/ Advancing(p) PROVE UNCHANGED <<docs, litter>> \/ Rename(p)
  BY <1>2 DEF Clearing, Advancing, TakeClear, ClearBusy, DropIndex, DropEnd, TakeLock, ReadEvents, CheckBody, FetchBody,
     Draft, RemoveOld, Spawn, Reap, Query, derived
<1>3. ASSUME NEW c \in children, Child(c) PROVE UNCHANGED <<docs, litter>>
  BY <1>3 DEF Child, CreateTables, ChildFails, CommitRows
<1> QED
  BY <1>1, <1>2, <1>3, Kinds

LEMMA IndexFrame ==
  ASSUME LockTyped, Next
  PROVE  \/ UNCHANGED <<index, children>>
         \/ \E p \in Actors : DropIndex(p) \/ RemoveOld(p) \/ Spawn(p) \/ Reap(p) \/ Die(p)
         \/ \E c \in children : Child(c)
<1>1. ASSUME NEW p \in Actors, Restarting(p) PROVE UNCHANGED <<index, children>> \/ Reap(p) \/ Die(p)
  BY <1>1 DEF Restarting, BeginOf, Begin, Reconcile, Commit, CommitThrows, CommitRefused, Erase, ClearEnd, LockBusy,
     BodyVanished, Survey, ProjectEnd, DraftFails, ReindexEnd, derived
<1>2. ASSUME NEW p \in Actors, Clearing(p) \/ Advancing(p) \/ DropFile(p)
      PROVE  UNCHANGED <<index, children>> \/ DropIndex(p) \/ RemoveOld(p) \/ Spawn(p) \/ Reap(p)
  BY <1>2 DEF Clearing, Advancing, TakeClear, ClearBusy, DropEnd, TakeLock, ReadEvents, CheckBody, FetchBody,
     Draft, Rename, Query, DropFile, derived
<1> QED
  BY <1>1, <1>2, Kinds

LEMMA HistoryFrame ==
  ASSUME LockTyped, Next
  PROVE  (UNCHANGED shown \/ \E p \in Actors : ProjectEnd(p)) /\ (UNCHANGED cleared \/ \E p \in Actors : ClearEnd(p))
<1>1. ASSUME NEW p \in Actors, Restarting(p) PROVE (UNCHANGED shown \/ ProjectEnd(p)) /\ (UNCHANGED cleared \/ ClearEnd(p))
  BY <1>1 DEF Restarting, BeginOf, Begin, Reconcile, Commit, CommitThrows, CommitRefused, Erase, ClearEnd, LockBusy,
     BodyVanished, Survey, DraftFails, ProjectEnd, Reap, ReindexEnd, Die, derived
<1>2. ASSUME NEW p \in Actors, Clearing(p) \/ Advancing(p) \/ DropFile(p) PROVE UNCHANGED <<shown, cleared>>
  BY <1>2 DEF Clearing, Advancing, TakeClear, ClearBusy, DropIndex, DropEnd, TakeLock, ReadEvents, CheckBody, FetchBody,
     Draft, Rename, RemoveOld, Spawn, Reap, Query, DropFile, derived
<1>3. ASSUME NEW c \in children, Child(c) PROVE UNCHANGED <<shown, cleared>>
  BY <1>3 DEF Child, CreateTables, ChildFails, CommitRows
<1> QED
  BY <1>1, <1>2, <1>3, Kinds

LEMMA LockFrame ==
  ASSUME Base, Next
  PROVE  \/ UNCHANGED lock
         \/ \E p \in Actors :
              \/ Restarting(p) /\ lock' = Freed(p)
              \/ TakeLock(p) \/ DropIndex(p) \/ DropEnd(p)
              \/ \E l \in LockName : TakeClear(p, l)
<1>1. ASSUME NEW p \in Actors, Restarting(p) PROVE UNCHANGED lock \/ lock' = Freed(p)
  BY <1>1 DEF Restarting, BeginOf, Begin, Reconcile, Commit, CommitThrows, CommitRefused, Erase, ClearEnd, LockBusy,
     BodyVanished, Survey, DraftFails, ProjectEnd, Reap, ReindexEnd, Die, Throw
<1>2. ASSUME NEW p \in Actors, Clearing(p) \/ Advancing(p) \/ DropFile(p)
      PROVE  UNCHANGED lock \/ TakeLock(p) \/ DropIndex(p) \/ DropEnd(p) \/ \E l \in LockName : TakeClear(p, l)
  <2>1. ASSUME Reap(p), call'[p].at = "built" PROVE UNCHANGED lock
    <3>1. call' # [call EXCEPT ![p] = Idle]
      BY <2>1 DEF Base, Typed, CallTyped, Idle
    <3> QED
      BY <2>1, <3>1 DEF Reap, Throw
  <2> QED
    BY <1>2, <2>1 DEF Clearing, Advancing, ClearBusy, ReadEvents, CheckBody, FetchBody,
     Draft, Rename, RemoveOld, Spawn, Query, DropFile
<1>3. ASSUME NEW c \in children, Child(c) PROVE UNCHANGED lock
  BY <1>3 DEF Child, CreateTables, ChildFails, CommitRows
<1> QED
  BY <1>1, <1>2, <1>3, Kinds DEF Base, Typed

-----------------------------------------------------------------------------
(* The basic facts hold in every reachable state                           *)

LEMMA BaseInit == Init => Base
<1> SUFFICES ASSUME Init PROVE Base
  OBVIOUS
<1>1. LogTyped /\ CallTyped /\ FilesTyped /\ shown \in Nat /\ faults \in Nat
  BY IdleTyped DEF Init, LogTyped, CallTyped, FilesTyped
<1>2. LockTyped
  BY DEF Init, LockTyped, LockName
<1>3. IndexTyped
  BY DEF Init, IndexTyped, NoIndex
<1>4. CallsSane /\ SinceBounded
  BY IdleIsFresh DEF Init, CallsSane, SinceBounded, Idle
<1> QED
  BY <1>1, <1>2, <1>3, <1>4 DEF Base, Typed

LEMMA LogTypedNext ==
  ASSUME Base, Next
  PROVE  LogTyped' /\ Len(log) <= Len(log')
         /\ (log' = log \/ \E x \in EventType : log' = Append(log, x))
<1>1. LockTyped /\ log \in Seq(EventType)
  BY DEF Base, Typed, LogTyped
<1>2. CASE UNCHANGED log
  BY <1>1, <1>2 DEF LogTyped
<1>3. ASSUME NEW p \in Actors, Write(p) PROVE LogTyped' /\ Len(log) <= Len(log') /\ \E x \in EventType : log' = Append(log, x)
  <2>1. PICK t \in NextTarget(p) :
          /\ [of |-> t.of, tombstone |-> call[p].op # "change"] \in EventType
          /\ log' = Append(log, [of |-> t.of, tombstone |-> call[p].op # "change"])
          /\ log' \in Seq(EventType) /\ Len(log') = Len(log) + 1
    BY <1>3, LogStep
  <2> QED
    BY <1>1, <2>1 DEF LogTyped
<1> QED
  BY <1>1, <1>2, <1>3, LogFrame

LEMMA CallTypedNext ==
  ASSUME Base, Next
  PROVE  CallTyped' /\ CallsSane' /\ SinceBounded'
<1>1. CallTyped /\ CallsSane /\ SinceBounded /\ LockTyped /\ Len(log) \in Nat /\ Len(log') \in Nat /\ Len(log) <= Len(log')
  BY LogTypedNext DEF Base, Typed, LogTyped
<1>2. ASSUME NEW p \in Actors, NEW d \in CallType, Turn(p, d), Sane(d), d.since <= Len(log')
      PROVE  CallTyped' /\ CallsSane' /\ SinceBounded'
  <2>1. CallTyped' /\ CallsSane'
    BY <1>1, <1>2, TurnKeepsSane
  <2>2. \A q \in Actors : call'[q].since <= Len(log')
    <3> TAKE q \in Actors
    <3>1. call[q].since \in Nat /\ call[q].since <= Len(log)
      BY <1>1 DEF CallTyped, CallType, SinceBounded
    <3>2. call'[q] = IF q = p THEN d ELSE call[q]
      BY <1>1, <1>2 DEF Turn, CallTyped
    <3> QED
      BY <1>1, <1>2, <3>1, <3>2
  <2> QED
    BY <2>1, <2>2 DEF SinceBounded
<1>3. CASE UNCHANGED <<call, log>>
  BY <1>1, <1>3 DEF CallTyped, CallsSane, SinceBounded
<1>4. ASSUME NEW p \in Actors, Restarts(p) PROVE CallTyped' /\ CallsSane' /\ SinceBounded'
  BY <1>2, <1>4 DEF Restarts
<1>5. ASSUME NEW p \in Actors, Advances(p), log' = log PROVE CallTyped' /\ CallsSane' /\ SinceBounded'
  <2>1. PICK d \in CallType : Turn(p, d) /\ Sane(d) /\ SamePhase(call[p], d)
    BY <1>5 DEF Advances
  <2>2. d.since <= Len(log')
    BY <1>1, <1>5, <2>1 DEF SamePhase, SinceBounded
  <2> QED
    BY <1>2, <2>1, <2>2
<1> QED
  BY <1>1, <1>3, <1>4, <1>5, CallOutcome

LEMMA LockTypedNext ==
  ASSUME Base, Next
  PROVE  LockTyped'
<1>1. LockTyped
  BY DEF Base, Typed
<1>2. CASE UNCHANGED lock
  BY <1>1, <1>2 DEF LockTyped
<1>3. ASSUME NEW p \in Actors, lock' = Freed(p) PROVE LockTyped'
  BY <1>1, <1>3 DEF LockTyped, Freed
<1>4. ASSUME NEW p \in Actors, TakeLock(p) PROVE LockTyped'
  BY <1>1, <1>4 DEF LockTyped, TakeLock, LockOf, LockName
<1>5. ASSUME NEW p \in Actors, DropIndex(p) \/ DropEnd(p) PROVE LockTyped'
  BY <1>1, <1>5 DEF LockTyped, DropIndex, DropEnd
<1>6. ASSUME NEW p \in Actors, NEW l \in LockName, TakeClear(p, l) PROVE LockTyped'
  BY <1>1, <1>6 DEF LockTyped, TakeClear
<1> QED
  BY <1>2, <1>3, <1>4, <1>5, <1>6, LockFrame

LEMMA FilesTypedNext ==
  ASSUME Base, Next
  PROVE  FilesTyped'
<1>1. FilesTyped /\ LockTyped
  BY DEF Base, Typed
<1>2. CASE UNCHANGED docs
  BY <1>1, <1>2 DEF FilesTyped
<1>3. ASSUME NEW p \in Actors, DropFile(p) PROVE FilesTyped'
  <2>1. PICK f : docs' = docs \/ docs' = [g \in DOMAIN docs \ {f} |-> docs[g]]
    BY <1>3 DEF DropFile
  <2> QED
    BY <1>1, <2>1 DEF FilesTyped
<1>4. ASSUME NEW p \in Actors, Rename(p) PROVE FilesTyped'
  <2>1. call[p] \in CallType
    BY DEF Base, Typed, CallTyped
  <2>2. PICK f \in NextFile(p) :
          docs' = [g \in DOMAIN docs \cup {f} |-> IF g = f THEN Drafted(p, f) ELSE docs[g]]
    BY <1>4 DEF Rename
  <2>3. Drafted(p, f) \subseteq RecordType /\ f \in FileType
    BY <2>1 DEF Drafted, Content, NextFile, CallType
  <2> QED
    BY <1>1, <2>2, <2>3 DEF FilesTyped
<1>5. ASSUME NEW p \in Actors, DraftFails(p) \/ Die(p) PROVE FilesTyped'
  BY <1>1, <1>5 DEF FilesTyped, DraftFails, Die
<1> QED
  BY <1>1, <1>2, <1>3, <1>4, <1>5, DocsFrame

LEMMA IndexTypedNext ==
  ASSUME Base, Next, ~Orphans
  PROVE  IndexTyped'
<1>1. IndexTyped /\ LockTyped /\ faults \in Nat /\ \A p \in Actors : call[p] \in CallType
  BY DEF Base, Typed, CallTyped
<1>2. CASE UNCHANGED <<index, children>>
  BY <1>1, <1>2 DEF IndexTyped
<1>3. ASSUME NEW p \in Actors, DropIndex(p) PROVE IndexTyped'
  BY <1>1, <1>3 DEF IndexTyped, DropIndex, NoIndex
<1>4. ASSUME NEW p \in Actors, RemoveOld(p) PROVE IndexTyped'
  BY <1>1, <1>4 DEF IndexTyped, RemoveOld, NoIndex
<1>5. ASSUME NEW p \in Actors, Spawn(p) PROVE IndexTyped'
  <2>1. [id |-> <<p, faults>>, parent |-> p, rows |-> call[p].recs, step |-> "spawned"] \in ChildType
    BY <1>1 DEF ChildType, CallType
  <2> QED
    BY <1>1, <1>5, <2>1 DEF IndexTyped, Spawn
<1>6. ASSUME NEW p \in Actors, Reap(p) PROVE IndexTyped'
  BY <1>1, <1>6 DEF IndexTyped, Reap
<1>7. ASSUME NEW p \in Actors, Die(p) PROVE IndexTyped'
  BY <1>1, <1>7 DEF IndexTyped, Die
<1>8. ASSUME NEW c \in children, NEW s \in {"created", "done", "failed"}, Became(c, s) PROVE children' \subseteq ChildType
  <2>1. c \in ChildType /\ [c EXCEPT !.step = s] \in ChildType
    BY <1>1 DEF IndexTyped, ChildType
  <2> QED
    BY <1>1, <1>8, <2>1 DEF IndexTyped, Became
<1>9. ASSUME NEW c \in children, Child(c) PROVE IndexTyped'
  <2>1. c \in ChildType
    BY <1>1 DEF IndexTyped
  <2>2. CASE CreateTables(c)
    <3>1. index' = [by |-> c.id, rows |-> {}] /\ children' \subseteq ChildType
      BY <1>8, <2>2 DEF CreateTables
    <3> QED
      BY <2>1, <3>1 DEF IndexTyped, ChildType
  <2>3. CASE ChildFails(c)
    BY <1>1, <1>8, <2>3 DEF IndexTyped, ChildFails
  <2>4. CASE CommitRows(c)
    <3>1. children' \subseteq ChildType
      BY <1>8, <2>4 DEF CommitRows
    <3>2. index' = index \/ index' = [index EXCEPT !.rows = c.rows]
      BY <2>4 DEF CommitRows
    <3> QED
      BY <1>1, <2>1, <3>1, <3>2 DEF IndexTyped, ChildType
  <2> QED
    BY <1>9, <2>2, <2>3, <2>4 DEF Child
<1> QED
  BY <1>1, <1>2, <1>3, <1>4, <1>5, <1>6, <1>7, <1>9, IndexFrame

LEMMA CountersNext ==
  ASSUME Base, Next
  PROVE  shown' \in Nat /\ faults' \in Nat
<1>1. shown \in Nat /\ faults \in Nat /\ LockTyped /\ \A p \in Actors : call[p].since \in Nat
  BY DEF Base, Typed, CallTyped, CallType
<1>2. shown' \in Nat
  BY <1>1, HistoryFrame DEF ProjectEnd
<1>3. ASSUME NEW p \in Actors, Restarting(p) PROVE faults' \in {faults, faults + 1}
  BY <1>3 DEF Restarting, BeginOf, Begin, Reconcile, Commit, CommitThrows, CommitRefused, Erase, ClearEnd, LockBusy,
     BodyVanished, Survey, DraftFails, ProjectEnd, Reap, ReindexEnd, Die, Fault
<1>4. ASSUME NEW p \in Actors, Clearing(p) \/ Advancing(p) \/ DropFile(p) PROVE faults' \in {faults, faults + 1}
  BY <1>4 DEF Clearing, Advancing, TakeClear, ClearBusy, DropIndex, DropEnd, TakeLock, ReadEvents, CheckBody, FetchBody,
     Draft, Rename, RemoveOld, Spawn, Reap, Query, DropFile, Fault
<1>5. ASSUME NEW c \in children, Child(c) PROVE faults' \in {faults, faults + 1}
  BY <1>5 DEF Child, CreateTables, ChildFails, CommitRows, Fault
<1>6. faults' \in {faults, faults + 1}
  BY <1>1, <1>3, <1>4, <1>5, Kinds
<1> QED
  BY <1>1, <1>2, <1>6

LEMMA BaseNext ==
  ASSUME Base, [Next]_vars, ~Orphans
  PROVE  Base'
<1>1. CASE Next
  BY <1>1, LogTypedNext, CallTypedNext, LockTypedNext, FilesTypedNext, IndexTypedNext, CountersNext DEF Base, Typed
<1>2. CASE UNCHANGED vars
  BY <1>2 DEF vars, Base, Typed, LogTyped, LockTyped, CallTyped, FilesTyped, IndexTyped, CallsSane, SinceBounded
<1> QED
  BY <1>1, <1>2

-----------------------------------------------------------------------------
(* The locks are held, and a sqlite3 child is waited for by its parent      *)

Uses(c, l) == (First(c) = (IF l = "docs" THEN "project" ELSE "reindex") /\ c.at # "start") \/ c.clr[l] = "held"
LocksHeld == \A p \in Actors, l \in LockName : Uses(call[p], l) => lock[l] = p
ChildrenWaited ==
  \A c \in children : call[c.parent].at = "wait" /\ \A d \in children : d.parent = c.parent => d = c

LEMMA TurnFacts ==
  ASSUME Base, NEW p \in Actors, NEW d, Turn(p, d)
  PROVE  call'[p] = d /\ \A q \in Actors \ {p} : call'[q] = call[q]
BY DEF Base, Typed, CallTyped, Turn

LEMMA KindFacts ==
  ASSUME Base, NEW p \in Actors
  PROVE  /\ Restarting(p) \/ Clearing(p) \/ Advancing(p) => \A q \in Actors \ {p} : call'[q] = call[q]
         /\ Restarting(p) => Fresh(call'[p])
         /\ Clearing(p) => First(call[p]) = "clear" /\ SamePhase(call[p], call'[p]) /\ call'[p].at = call[p].at
              /\ call'[p].recs = call[p].recs /\ call'[p].todo = call[p].todo
         /\ Advancing(p) => SamePhase(call[p], call'[p]) /\ call'[p].at # "start"
              /\ First(call[p]) # "clear" /\ log' = log
              /\ call[p].clr = Waiting /\ call'[p].clr = Waiting
         /\ DropFile(p) => First(call[p]) = "clear"
<1>1. ASSUME Restarting(p) PROVE (\A q \in Actors \ {p} : call'[q] = call[q]) /\ Fresh(call'[p])
  <2>1. PICK d \in CallType : Turn(p, d) /\ Fresh(d)
    BY <1>1, Restart DEF Restarting, BeginOf, Restarts
  <2> QED
    BY <2>1, TurnFacts
<1>2. ASSUME Clearing(p)
      PROVE  /\ \A q \in Actors \ {p} : call'[q] = call[q]
             /\ First(call[p]) = "clear" /\ SamePhase(call[p], call'[p]) /\ call'[p].at = call[p].at
             /\ call'[p].recs = call[p].recs /\ call'[p].todo = call[p].todo
  <2>1. PICK l \in LockName, x \in Progress : First(call[p]) = "clear" /\ Turn(p, [call[p] EXCEPT !.clr[l] = x])
    BY <1>2, ClearActions DEF Clearing, LockName, Progress
  <2> DEFINE d == [call[p] EXCEPT !.clr[l] = x]
  <2>2. call'[p] = d /\ \A q \in Actors \ {p} : call'[q] = call[q]
    BY <2>1, TurnFacts
  <2>3. d.at = call[p].at /\ d.recs = call[p].recs /\ d.todo = call[p].todo /\ SamePhase(call[p], d)
    BY DEF Base, Typed, CallTyped, CallType, SamePhase, First
  <2> QED
    BY <2>1, <2>2, <2>3
<1>3. ASSUME Advancing(p)
      PROVE  /\ \A q \in Actors \ {p} : call'[q] = call[q]
             /\ SamePhase(call[p], call'[p]) /\ call'[p].at # "start" /\ First(call[p]) # "clear" /\ log' = log
             /\ call[p].clr = Waiting /\ call'[p].clr = Waiting
  <2>1. Advances(p) /\ call'[p].at # "start" /\ log' = log
    BY <1>3, ReadActions DEF Advancing
  <2>2. PICK d \in CallType : Turn(p, d) /\ Sane(d) /\ SamePhase(call[p], d)
    BY <2>1 DEF Advances
  <2>3. call'[p] = d /\ \A q \in Actors \ {p} : call'[q] = call[q]
    BY <2>2, TurnFacts
  <2>4. First(d) # "clear" /\ d.clr = Waiting
    BY <2>1, <2>2, <2>3 DEF Sane
  <2>5. First(call[p]) # "clear" /\ Sane(call[p])
    BY <2>2, <2>4 DEF SamePhase, Base, CallsSane
  <2>6. call[p].clr = Waiting
    BY <2>5 DEF Sane
  <2> QED
    BY <2>1, <2>2, <2>3, <2>4, <2>5, <2>6
<1>4. ASSUME DropFile(p) PROVE First(call[p]) = "clear"
  BY <1>4, ActsFacts DEF DropFile, Base, Typed
<1> QED
  BY <1>1, <1>2, <1>3, <1>4

LEMMA LocksHeldNext ==
  ASSUME Base, LocksHeld, Next
  PROVE  LocksHeld'
<1>1. LockTyped /\ Nobody \notin Actors /\ \A p \in Actors : call[p] \in CallType /\ Sane(call[p]) /\ Phase(p) = First(call[p])
  BY DerivedAssumption, ActsFacts DEF Base, Typed, CallTyped
<1> SUFFICES ASSUME NEW q \in Actors, NEW m \in LockName, Uses(call'[q], m) PROVE lock'[m] = q
  BY DEF LocksHeld
<1>2. ASSUME NEW p \in Actors, Restarting(p) PROVE lock'[m] = q
  <2>1. lock' = lock \/ lock' = Freed(p)
    BY <1>2 DEF Restarting, BeginOf, Begin, Reconcile, Commit, CommitThrows, CommitRefused, Erase, ClearEnd, LockBusy,
       BodyVanished, Survey, DraftFails, ProjectEnd, Reap, ReindexEnd, Die, Throw
  <2>2. Fresh(call'[p]) /\ \A r \in Actors \ {p} : call'[r] = call[r]
    BY <1>2, KindFacts
  <2>3. q # p
    BY <2>2 DEF Uses, Fresh, Waiting, LockName
  <2>4. lock[m] = q
    BY <2>2, <2>3 DEF LocksHeld
  <2> QED
    BY <1>1, <2>1, <2>3, <2>4 DEF Freed, LockTyped
<1>3. ASSUME NEW p \in Actors, Clearing(p) PROVE lock'[m] = q
  <2>1. /\ \A r \in Actors \ {p} : call'[r] = call[r]
        /\ First(call[p]) = "clear" /\ SamePhase(call[p], call'[p])
    BY <1>3, KindFacts
  <2>2. First(call'[p]) = "clear"
    BY <2>1 DEF SamePhase
  <2>3. ASSUME NEW l \in LockName, TakeClear(p, l) PROVE lock'[m] = q
    <3>1. lock[l] = Nobody /\ lock' = [lock EXCEPT ![l] = p] /\ \A k \in LockName \ {l} : call'[p].clr[k] = call[p].clr[k]
      BY <2>3, ClearActions, ClearTurn DEF TakeClear, Progress
    <3>2. CASE m = l
      <4>1. q # p => lock[m] = q
        BY <2>1 DEF LocksHeld
      <4> QED
        BY <1>1, <3>1, <3>2, <4>1 DEF LockTyped
    <3>3. CASE m # l
      <4>1. Uses(call[q], m)
        BY <2>1, <2>2, <3>1, <3>3 DEF Uses
      <4> QED
        BY <1>1, <3>1, <3>3, <4>1 DEF LocksHeld, LockTyped
    <3> QED
      BY <3>2, <3>3
  <2>4. ASSUME NEW l \in LockName, NEW x \in Progress \ {"held"}, Turn(p, [call[p] EXCEPT !.clr[l] = x])
        PROVE Uses(call[q], m) /\ (q = p => m # l)
    <3>1. call'[p].clr[l] = x /\ \A k \in LockName \ {l} : call'[p].clr[k] = call[p].clr[k]
      BY <2>1, <2>4, ClearTurn
    <3>2. q = p => m # l
      BY <2>2, <3>1 DEF Uses
    <3>3. Uses(call[q], m)
      BY <2>1, <2>2, <3>1, <3>2 DEF Uses
    <3> QED
      BY <3>2, <3>3
  <2>5. ASSUME NEW l \in LockName, ClearBusy(p, l) PROVE lock'[m] = q
    <3>1. Uses(call[q], m)
      <4>1. Turn(p, [call[p] EXCEPT !.clr[l] = "busy"])
        BY <2>5, ClearActions
      <4>2. "busy" \in Progress \ {"held"}
        BY DEF Progress
      <4> QED
        BY <2>4, <4>1, <4>2
    <3> QED
      BY <2>5, <3>1 DEF ClearBusy, LocksHeld
  <2>6. CASE DropIndex(p)
    <3>1. Uses(call[q], m) /\ (q = p => m # "index")
      <4>1. Turn(p, [call[p] EXCEPT !.clr["index"] = "done"])
        BY <2>6, ClearActions
      <4>2. "index" \in LockName /\ "done" \in Progress \ {"held"}
        BY DEF LockName, Progress
      <4> QED
        BY <2>4, <4>1, <4>2
    <3>2. lock' = [lock EXCEPT !["index"] = Nobody] /\ Uses(call[p], "index")
      BY <2>6 DEF DropIndex, Uses
    <3> QED
      BY <1>1, <3>1, <3>2 DEF LocksHeld, LockTyped, LockName
  <2>7. CASE DropEnd(p)
    <3>1. Uses(call[q], m) /\ (q = p => m # "docs")
      <4>1. Turn(p, [call[p] EXCEPT !.clr["docs"] = "done"])
        BY <2>7, ClearActions
      <4>2. "docs" \in LockName /\ "done" \in Progress \ {"held"}
        BY DEF LockName, Progress
      <4> QED
        BY <2>4, <4>1, <4>2
    <3>2. lock' = [lock EXCEPT !["docs"] = Nobody] /\ Uses(call[p], "docs")
      BY <2>7 DEF DropEnd, Uses
    <3> QED
      BY <1>1, <3>1, <3>2 DEF LocksHeld, LockTyped, LockName
  <2> QED
    BY <1>3, <2>3, <2>5, <2>6, <2>7 DEF Clearing
<1>4. ASSUME NEW p \in Actors, Advancing(p) PROVE lock'[m] = q
  <2>1. /\ \A r \in Actors \ {p} : call'[r] = call[r]
        /\ SamePhase(call[p], call'[p]) /\ call[p].clr = Waiting /\ call'[p].clr = Waiting
    BY <1>4, KindFacts
  <2>2. CASE TakeLock(p)
    <3> DEFINE l == LockOf(Phase(p))
    <3>1. /\ First(call[p]) \in {"project", "reindex"} /\ l \in LockName
          /\ l = IF First(call[p]) = "project" THEN "docs" ELSE "index"
          /\ lock[l] = Nobody /\ lock' = [lock EXCEPT ![l] = p]
      BY <1>1, <2>2 DEF TakeLock, LockOf, LockName
    <3> HIDE DEF l
    <3>2. q = p => m = l
      BY <2>1, <3>1 DEF Uses, SamePhase, Waiting, LockName
    <3>3. q # p => lock[m] = q
      BY <2>1 DEF LocksHeld
    <3> QED
      BY <1>1, <3>1, <3>2, <3>3 DEF LockTyped
  <2>3. CASE ~TakeLock(p)
    <3>1. lock' = lock
      <4>1. ASSUME Reap(p), call'[p].at = "built" PROVE UNCHANGED lock
        <5>1. call' # [call EXCEPT ![p] = Idle]
          BY <4>1 DEF Base, Typed, CallTyped, Idle
        <5> QED
          BY <4>1, <5>1 DEF Reap, Throw
      <4> QED
        BY <1>4, <2>3, <4>1 DEF Advancing, ReadEvents, CheckBody, FetchBody, Draft, Rename, RemoveOld, Spawn, Query
    <3>2. First(call[p]) \in {"project", "reindex"} => call[p].at # "start"
      BY <1>1, <1>4, <2>3 DEF Advancing, ReadEvents, CheckBody, FetchBody, Draft, Rename, RemoveOld, Spawn, Query, Reap, Replayed
    <3>3. Uses(call[q], m)
      BY <2>1, <3>2 DEF Uses, SamePhase, Waiting, LockName
    <3> QED
      BY <3>1, <3>3 DEF LocksHeld
  <2> QED
    BY <2>2, <2>3
<1>5. ASSUME UNCHANGED <<call, lock>> PROVE lock'[m] = q
  BY <1>5 DEF LocksHeld
<1>6. ASSUME NEW p \in Actors, DropFile(p) PROVE lock'[m] = q
  BY <1>5, <1>6 DEF DropFile
<1>7. ASSUME NEW c \in children, Child(c) PROVE lock'[m] = q
  BY <1>5, <1>7 DEF Child, CreateTables, ChildFails, CommitRows
<1> QED
  BY <1>1, <1>2, <1>3, <1>4, <1>6, <1>7, Kinds

LEMMA WaitStays ==
  ASSUME Base, Next, NEW q \in Actors, call[q].at = "wait"
  PROVE  call'[q] = call[q] \/ Reap(q) \/ Die(q)
<1>1. \A p \in Actors : call[p] \in CallType /\ Sane(call[p]) /\ Phase(p) = First(call[p])
  BY ActsFacts DEF Base, Typed, CallTyped
<1>2. First(call[q]) = "reindex" /\ call[q].op # "none"
  <2>1. Sane(call[q])
    BY <1>1
  <2>2. First(call[q]) = "reindex"
    BY <2>1 DEF Sane, Building
  <2> QED
    BY <2>1, <2>2 DEF Sane, First
<1>3. ASSUME NEW p \in Actors, Restarting(p) PROVE call'[q] = call[q] \/ Reap(q) \/ Die(q)
  <2>1. q # p => call'[q] = call[q]
    BY <1>3, KindFacts
  <2>2. ASSUME q = p PROVE Reap(q) \/ Die(q)
    <3>1. ~BeginOf(q)
      BY <1>2 DEF BeginOf, Begin
    <3>2. ~(Reconcile(q) \/ Commit(q) \/ CommitThrows(q) \/ CommitRefused(q) \/ Erase(q) \/ ClearEnd(q) \/ Survey(q) \/ ProjectEnd(q))
      BY <1>1, <1>2 DEF Reconcile, Commit, CommitThrows, CommitRefused, Write, Erase, ClearEnd, Survey, ProjectEnd
    <3>3. ~(LockBusy(q) \/ BodyVanished(q) \/ DraftFails(q) \/ ReindexEnd(q))
      BY DEF LockBusy, BodyVanished, DraftFails, ReindexEnd
    <3> QED
      BY <1>3, <2>2, <3>1, <3>2, <3>3 DEF Restarting
  <2> QED
    BY <2>1, <2>2
<1>4. ASSUME NEW p \in Actors, Clearing(p) PROVE call'[q] = call[q]
  BY <1>2, <1>4, KindFacts
<1>5. ASSUME NEW p \in Actors, Advancing(p) PROVE call'[q] = call[q] \/ Reap(q)
  <2>1. q # p => call'[q] = call[q]
    BY <1>5, KindFacts
  <2>2. ASSUME q = p PROVE Reap(q)
    BY <1>5, <2>2 DEF Advancing, TakeLock, ReadEvents, CheckBody, FetchBody, Draft, Rename, RemoveOld, Spawn, Query, Replayed
  <2> QED
    BY <2>1, <2>2
<1>6. ASSUME NEW p \in Actors, DropFile(p) PROVE call'[q] = call[q]
  BY <1>6 DEF DropFile
<1>7. ASSUME NEW c \in children, Child(c) PROVE call'[q] = call[q]
  BY <1>7 DEF Child, CreateTables, ChildFails, CommitRows
<1> QED
  BY <1>3, <1>4, <1>5, <1>6, <1>7, Kinds DEF Base, Typed

LEMMA ChildrenWaitedNext ==
  ASSUME Base, ChildrenWaited, Next, ~Orphans
  PROVE  ChildrenWaited'
<1>1. /\ \A c \in children : c \in ChildType /\ c.parent \in Actors /\ call[c.parent].at = "wait"
      /\ \A c, d \in children : d.parent = c.parent => d = c
      /\ LockTyped /\ \A p \in Actors : call[p] \in CallType
  BY DEF Base, Typed, IndexTyped, CallTyped, ChildType, ChildrenWaited
<1>2. CASE UNCHANGED children /\ \A p \in Actors : ~Reap(p) /\ ~Die(p)
  <2>1. \A c \in children : call'[c.parent] = call[c.parent]
    BY <1>1, <1>2, WaitStays
  <2> QED
    BY <1>1, <1>2, <2>1 DEF ChildrenWaited
<1>3. ASSUME NEW p \in Actors, Spawn(p) PROVE ChildrenWaited'
  <2> DEFINE n == [id |-> <<p, faults>>, parent |-> p, rows |-> call[p].recs, step |-> "spawned"]
  <2>1. children' = children \cup {n} /\ call[p].at = "spawn" /\ n.parent = p /\ call' = [call EXCEPT ![p].at = "wait"]
    BY <1>3 DEF Spawn
  <2>2. call'[p].at = "wait" /\ \A q \in Actors \ {p} : call'[q] = call[q]
    BY <1>1, <2>1 DEF Base, Typed, CallTyped, CallType
  <2> HIDE DEF n
  <2>3. \A c \in children : c.parent # p
    BY <1>1, <2>1
  <2> QED
    BY <1>1, <2>1, <2>2, <2>3 DEF ChildrenWaited
<1>4. ASSUME NEW p \in Actors, Reap(p) PROVE ChildrenWaited'
  <2>1. PICK c \in children : c.parent = p /\ children' = children \ {c}
    BY <1>4 DEF Reap
  <2>2. \A q \in Actors \ {p} : call'[q] = call[q]
    BY <1>4, KindFacts DEF Restarting, Advancing
  <2> QED
    BY <1>1, <2>1, <2>2 DEF ChildrenWaited
<1>5. ASSUME NEW p \in Actors, Die(p) PROVE ChildrenWaited'
  <2>1. children' = {c \in children : c.parent # p}
    BY <1>5 DEF Die
  <2>2. \A q \in Actors \ {p} : call'[q] = call[q]
    BY <1>5, KindFacts DEF Restarting
  <2> QED
    BY <1>1, <2>1, <2>2 DEF ChildrenWaited
<1>6. ASSUME NEW c \in children, Child(c) PROVE ChildrenWaited'
  <2>1. call' = call
    BY <1>6 DEF Child, CreateTables, ChildFails, CommitRows
  <2>2. PICK s : Became(c, s)
    BY <1>6 DEF Child, CreateTables, ChildFails, CommitRows
  <2>3. children' \subseteq (children \ {c}) \cup {[c EXCEPT !.step = s]} /\ [c EXCEPT !.step = s].parent = c.parent
    BY <1>1, <2>2 DEF Became, ChildType
  <2> QED
    BY <1>1, <2>1, <2>3 DEF ChildrenWaited
<1>7. ASSUME NEW p \in Actors, DropIndex(p) \/ RemoveOld(p), \A q \in Actors : ~Reap(q) /\ ~Die(q) PROVE ChildrenWaited'
  BY <1>2, <1>7 DEF DropIndex, RemoveOld
<1> QED
  BY <1>1, <1>2, <1>3, <1>4, <1>5, <1>6, <1>7, IndexFrame

-----------------------------------------------------------------------------
(* Whose text may show up, now or by what somebody has read                 *)

Carries(c, e) == e \in Text(c.recs) \/ e \in c.todo
InDocs(e) == (\E f \in DOMAIN docs : e \in Text(docs[f])) \/ \E x \in litter : e \in Text(x)
InIndex(e) == e \in Text(index.rows) \/ \E c \in children : e \in Text(c.rows)
PhaseOf(l) == IF l = "docs" THEN "project" ELSE "reindex"
Coming(l, e) == \E p \in Actors : First(call[p]) = PhaseOf(l) /\ Carries(call[p], e)
MayShow(l, e) == (l = "docs" /\ InDocs(e)) \/ (l = "index" /\ InIndex(e)) \/ Coming(l, e)

Clean ==
  /\ \A e \in cleared : GoneIn(log, e, Len(log)) /\ \A l \in LockName : ~MayShow(l, e)
  /\ \A p \in Actors, l \in LockName : call[p].clr[l] = "done" =>
       \A e \in Entities : GoneIn(log, e, call[p].since) => ~MayShow(l, e)

LEMMA TextOf ==
  ASSUME NEW R, NEW e
  PROVE  e \in Text(R) <=> \E r \in R : r.body = "present" /\ r.of = e
BY DEF Text

LEMMA TextGrows ==
  ASSUME NEW R, NEW S, R \subseteq S, NEW e \in Text(R)
  PROVE  e \in Text(S)
BY TextOf

LEMMA FreshCarriesNothing ==
  ASSUME NEW c, Fresh(c), NEW e
  PROVE  ~Carries(c, e)
BY TextOf DEF Fresh, Carries

LEMMA ReadersCarry ==
  ASSUME Base, NEW p \in Actors, Advancing(p), NEW e, Carries(call'[p], e)
  PROVE  Carries(call[p], e) \/ ~GoneIn(log, e, Len(log))
<1>1. CallTyped /\ call[p] \in CallType /\ Sane(call[p])
  BY ActsFacts DEF Base, Typed
<1>2. ASSUME call'[p].recs = call[p].recs, call'[p].todo = call[p].todo PROVE Carries(call[p], e)
  BY <1>2 DEF Carries
<1>3. ASSUME NEW x, call' = [call EXCEPT ![p].at = x] PROVE Carries(call[p], e)
  <2>1. call'[p].recs = call[p].recs /\ call'[p].todo = call[p].todo
    BY <1>1, <1>3 DEF CallTyped, CallType
  <2> QED
    BY <1>2, <2>1
<1>4. CASE TakeLock(p) \/ Draft(p) \/ RemoveOld(p) \/ Spawn(p)
  BY <1>3, <1>4 DEF TakeLock, Draft, RemoveOld, Spawn
<1>5. CASE Reap(p) /\ call'[p].at = "built"
  <2>1. call' # [call EXCEPT ![p] = Idle]
    BY <1>1, <1>5 DEF CallTyped, Idle
  <2> QED
    BY <1>3, <1>5, <2>1 DEF Reap, Throw
<1>6. CASE Rename(p)
  <2>1. PICK f : call' = [call EXCEPT ![p].at = "bodies", ![p].files = @ \ {f}]
    BY <1>6 DEF Rename
  <2>2. call'[p].recs = call[p].recs /\ call'[p].todo = call[p].todo
    BY <1>1, <2>1 DEF CallTyped, CallType
  <2> QED
    BY <1>2, <2>2
<1>7. CASE Query(p)
  <2>1. call'[p].recs = call[p].recs /\ call'[p].todo = call[p].todo
    BY <1>1, <1>7 DEF CallTyped, CallType, Query
  <2> QED
    BY <1>2, <2>1
<1>8. CASE ReadEvents(p)
  <2> DEFINE r == {Record(x, Now, "deleted") : x \in {x \in Known(Now) : Gone(x, Now)}}
             t == {x \in Known(Now) : ~Gone(x, Now)}
  <2>1. call'[p].recs = r /\ call'[p].todo = t
    BY <1>1, <1>8 DEF ReadEvents, CallTyped, CallType
  <2>2. e \notin Text(r)
    BY TextOf DEF Record
  <2>3. e \in t
    BY <2>1, <2>2 DEF Carries
  <2> QED
    BY <2>3, LedgerRead DEF Now
<1>9. CASE CheckBody(p)
  <2>1. PICK x \in NextRead(p) : call' = [call EXCEPT ![p] =
          IF BodyOf(p, x) \in objects THEN [@ EXCEPT !.at = "fetch"]
          ELSE [@ EXCEPT !.recs = call[p].recs \cup {Record(x, call[p].view, "erased")},
                         !.todo = call[p].todo \ {x}]]
    BY <1>9 DEF CheckBody
  <2>2. CASE BodyOf(p, x) \in objects
    <3>1. call'[p].recs = call[p].recs /\ call'[p].todo = call[p].todo
      BY <1>1, <2>1, <2>2 DEF CallTyped, CallType
    <3> QED
      BY <1>2, <3>1
  <2>3. CASE BodyOf(p, x) \notin objects
    <3>1. call'[p].recs = call[p].recs \cup {Record(x, call[p].view, "erased")} /\ call'[p].todo = call[p].todo \ {x}
      BY <1>1, <2>1, <2>3 DEF CallTyped, CallType
    <3>2. Record(x, call[p].view, "erased").body # "present"
      BY DEF Record
    <3> QED
      BY <3>1, <3>2, TextOf DEF Carries
  <2> QED
    BY <2>2, <2>3
<1>10. CASE FetchBody(p)
  <2>1. PICK x \in NextRead(p) : call' = [call EXCEPT ![p].at = "bodies", ![p].todo = @ \ {x},
                     ![p].recs = @ \cup {Record(x, call[p].view, "present")}]
    BY <1>10 DEF FetchBody
  <2>2. call'[p].recs = call[p].recs \cup {Record(x, call[p].view, "present")} /\ call'[p].todo = call[p].todo \ {x}
    BY <1>1, <2>1 DEF CallTyped, CallType
  <2>3. Record(x, call[p].view, "present").of = x /\ x \in call[p].todo
    BY DEF Record, NextRead
  <2> QED
    BY <2>2, <2>3, TextOf DEF Carries
<1> QED
  BY <1>4, <1>5, <1>6, <1>7, <1>8, <1>9, <1>10 DEF Advancing

LEMMA ComingGrows ==
  ASSUME Base, Next, NEW l \in LockName, NEW e, Coming(l, e)'
  PROVE  Coming(l, e) \/ ~GoneIn(log, e, Len(log))
<1>1. PICK q \in Actors : First(call'[q]) = PhaseOf(l) /\ Carries(call'[q], e)
  BY DEF Coming
<1>2. ASSUME call'[q] = call[q] PROVE Coming(l, e)
  BY <1>1, <1>2 DEF Coming
<1>3. ASSUME NEW p \in Actors, Restarting(p) PROVE Coming(l, e)
  <2>1. Fresh(call'[p]) /\ \A r \in Actors \ {p} : call'[r] = call[r]
    BY <1>3, KindFacts
  <2> QED
    BY <1>1, <1>2, <2>1, FreshCarriesNothing
<1>4. ASSUME NEW p \in Actors, Clearing(p) PROVE Coming(l, e)
  <2>1. (\A r \in Actors \ {p} : call'[r] = call[r]) /\ First(call'[p]) = "clear"
    BY <1>4, KindFacts DEF SamePhase
  <2> QED
    BY <1>1, <1>2, <2>1 DEF PhaseOf
<1>5. ASSUME NEW p \in Actors, Advancing(p) PROVE Coming(l, e) \/ ~GoneIn(log, e, Len(log))
  <2>1. (\A r \in Actors \ {p} : call'[r] = call[r]) /\ First(call'[p]) = First(call[p])
    BY <1>5, KindFacts DEF SamePhase
  <2>2. q = p => Carries(call[q], e) \/ ~GoneIn(log, e, Len(log))
    BY <1>1, <1>5, ReadersCarry
  <2> QED
    BY <1>1, <1>2, <2>1, <2>2 DEF Coming
<1>6. ASSUME call' = call PROVE Coming(l, e)
  BY <1>2, <1>6
<1>7. ASSUME NEW p \in Actors, DropFile(p) PROVE call' = call
  BY <1>7 DEF DropFile
<1>8. ASSUME NEW c \in children, Child(c) PROVE call' = call
  BY <1>8 DEF Child, CreateTables, ChildFails, CommitRows
<1> QED
  BY <1>3, <1>4, <1>5, <1>6, <1>7, <1>8, Kinds DEF Base, Typed

LEMMA DocsGrow ==
  ASSUME Base, Next, NEW e, InDocs(e)'
  PROVE  MayShow("docs", e)
<1>1. LockTyped /\ \A p \in Actors : Phase(p) = First(call[p]) /\ Sane(call[p])
  BY ActsFacts DEF Base, Typed
<1>2. CASE UNCHANGED <<docs, litter>>
  BY <1>2 DEF InDocs, MayShow
<1>3. ASSUME NEW p \in Actors, DropFile(p) PROVE MayShow("docs", e)
  <2>1. PICK f, y : \/ docs' = [g \in DOMAIN docs \ {f} |-> docs[g]] /\ litter' = litter
                    \/ docs' = docs /\ litter' = litter \ {y}
    BY <1>3 DEF DropFile
  <2> QED
    BY <2>1 DEF InDocs, MayShow
<1>4. ASSUME NEW p \in Actors, call[p].at = "drafted", NEW f, e \in Text(Drafted(p, f)) PROVE MayShow("docs", e)
  <2>1. First(call[p]) = "project"
    BY <1>1, <1>4 DEF Sane
  <2>2. Drafted(p, f) \subseteq call[p].recs
    BY DEF Drafted, Content
  <2> QED
    BY <1>4, <2>1, <2>2, TextGrows DEF MayShow, Coming, Carries, PhaseOf
<1>5. ASSUME NEW p \in Actors, Rename(p) PROVE MayShow("docs", e)
  <2>1. PICK f \in NextFile(p) : /\ call[p].at = "drafted" /\ litter' = litter
          /\ docs' = [g \in DOMAIN docs \cup {f} |-> IF g = f THEN Drafted(p, f) ELSE docs[g]]
    BY <1>5 DEF Rename
  <2>2. CASE \E x \in litter : e \in Text(x)
    BY <2>2 DEF MayShow, InDocs
  <2>3. ASSUME NEW g \in DOMAIN docs \cup {f}, e \in Text(docs'[g]) PROVE MayShow("docs", e)
    <3>1. CASE g = f
      BY <1>4, <2>1, <2>3, <3>1
    <3>2. CASE g # f
      BY <2>1, <2>3, <3>2 DEF MayShow, InDocs
    <3> QED
      BY <3>1, <3>2
  <2>4. DOMAIN docs' = DOMAIN docs \cup {f}
    BY <2>1
  <2> QED
    BY <2>1, <2>2, <2>3, <2>4 DEF InDocs
<1>6. ASSUME NEW p \in Actors, DraftFails(p) \/ Die(p) PROVE MayShow("docs", e)
  <2>1. docs' = docs /\ \A x \in litter' : x \in litter \/ (call[p].at = "drafted" /\ \E f : x = Drafted(p, f))
    BY <1>6 DEF DraftFails, Die
  <2> QED
    BY <1>4, <2>1 DEF InDocs, MayShow
<1> QED
  BY <1>1, <1>2, <1>3, <1>5, <1>6, DocsFrame

LEMMA IndexGrows ==
  ASSUME Base, Next, NEW e, InIndex(e)', ~Orphans
  PROVE  MayShow("index", e)
<1>1. /\ LockTyped /\ \A p \in Actors : Phase(p) = First(call[p]) /\ Sane(call[p])
      /\ index \in [by : {<<>>} \cup (Actors \X Nat), rows : SUBSET RecordType]
      /\ \A c \in children : c \in ChildType
  BY ActsFacts DEF Base, Typed, IndexTyped
<1>2. ~(e \in Text(NoIndex.rows))
  BY TextOf DEF NoIndex
<1>3. CASE UNCHANGED <<index, children>>
  BY <1>3 DEF InIndex, MayShow
<1>4. ASSUME NEW p \in Actors, DropIndex(p) \/ RemoveOld(p) PROVE MayShow("index", e)
  <2>1. index' = NoIndex /\ children' = children
    BY <1>4 DEF DropIndex, RemoveOld
  <2> QED
    BY <1>2, <2>1 DEF InIndex, MayShow
<1>5. ASSUME NEW p \in Actors, Spawn(p) PROVE MayShow("index", e)
  <2>1. call[p].at = "spawn" /\ index' = index
        /\ \A c \in children' : c \in children \/ c.rows = call[p].recs
    BY <1>5 DEF Spawn
  <2>2. First(call[p]) = "reindex"
    BY <1>1, <2>1 DEF Sane, Building
  <2> QED
    BY <2>1, <2>2 DEF InIndex, MayShow, Coming, Carries, PhaseOf
<1>6. ASSUME NEW p \in Actors, Reap(p) \/ Die(p) PROVE MayShow("index", e)
  <2>1. index' = index /\ children' \subseteq children
    BY <1>6 DEF Reap, Die
  <2> QED
    BY <2>1 DEF InIndex, MayShow
<1>7. ASSUME NEW c \in children, Child(c) PROVE MayShow("index", e)
  <2>1. PICK s : Became(c, s)
    BY <1>7 DEF Child, CreateTables, ChildFails, CommitRows
  <2>2. \A d \in children' : d \in children \/ d.rows = c.rows
    BY <1>1, <2>1 DEF Became, ChildType
  <2>3. index'.rows \in {{}, index.rows, c.rows}
    BY <1>1, <1>7 DEF Child, CreateTables, ChildFails, CommitRows
  <2>4. e \notin Text({})
    BY TextOf
  <2> QED
    BY <2>2, <2>3, <2>4 DEF InIndex, MayShow
<1> QED
  BY <1>1, <1>3, <1>4, <1>5, <1>6, <1>7, IndexFrame

LEMMA MayShowGrows ==
  ASSUME Base, Next, ~Orphans, NEW l \in LockName, NEW e, MayShow(l, e)'
  PROVE  MayShow(l, e) \/ ~GoneIn(log, e, Len(log))
<1>1. CASE Coming(l, e)'
  BY <1>1, ComingGrows DEF MayShow
<1>2. CASE l = "docs" /\ InDocs(e)'
  BY <1>2, DocsGrow
<1>3. CASE l = "index" /\ InIndex(e)'
  BY <1>3, IndexGrows
<1> QED
  BY <1>1, <1>2, <1>3 DEF MayShow

LEMMA LogKept ==
  ASSUME Base, Next, NEW n \in 0..Len(log), NEW e
  PROVE  /\ GoneIn(log', e, n) = GoneIn(log, e, n) /\ RevIn(log', e, n) = RevIn(log, e, n)
         /\ KnownIn(log', n) = KnownIn(log, n)
         /\ GoneIn(log, e, n) => GoneIn(log, e, Len(log)) /\ GoneIn(log', e, Len(log'))
<1>1. log \in Seq(EventType) /\ Len(log) \in Nat /\ Len(log') \in Nat /\ Len(log) <= Len(log')
  BY LogTypedNext DEF Base, Typed, LogTyped
<1>2. log' = log \/ \E x \in EventType : log' = Append(log, x)
  BY LogTypedNext
<1>3. /\ GoneIn(log', e, n) = GoneIn(log, e, n) /\ RevIn(log', e, n) = RevIn(log, e, n)
      /\ KnownIn(log', n) = KnownIn(log, n)
  BY <1>1, <1>2, LogExtends
<1>4. n \in 0..Len(log')
  BY <1>1
<1> QED
  BY <1>1, <1>3, <1>4, GoneStays

\* The two removals leave nothing behind, and nobody has read meanwhile.
LEMMA DropEndEmpties ==
  ASSUME Base, LocksHeld, NEW p \in Actors, DropEnd(p), NEW e
  PROVE  ~MayShow("docs", e)'
<1>1. /\ CallTyped /\ Sane(call[p]) /\ First(call[p]) = "clear" /\ lock["docs"] = p
      /\ DOMAIN docs = {} /\ litter = {} /\ docs' = docs /\ litter' = litter
  BY ActsFacts DEF DropEnd, Base, Typed, LocksHeld, Uses, LockName, derived
<1>2. ~InDocs(e)'
  BY <1>1 DEF InDocs
<1>3. ASSUME NEW q \in Actors, First(call'[q]) = "project", Carries(call'[q], e) PROVE FALSE
  <2>1. Clearing(p)
    BY DEF Clearing
  <2>2. SamePhase(call[p], call'[p]) /\ \A r \in Actors \ {p} : call'[r] = call[r]
    BY <2>1, KindFacts
  <2>3. q # p /\ call'[q] = call[q]
    BY <1>1, <1>3, <2>2 DEF SamePhase
  <2>4. Sane(call[q]) /\ Carries(call[q], e) /\ First(call[q]) = "project"
    BY <1>3, <2>3 DEF Base, CallsSane
  <2>5. call[q].at # "start"
    BY <2>4, TextOf DEF Sane, Carries
  <2>6. lock["docs"] = q
    BY <2>4, <2>5 DEF LocksHeld, Uses, LockName
  <2> QED
    BY <1>1, <2>3, <2>6
<1> QED
  BY <1>2, <1>3 DEF MayShow, Coming, PhaseOf

LEMMA DropIndexEmpties ==
  ASSUME Base, LocksHeld, ChildrenWaited, NEW p \in Actors, DropIndex(p), NEW e
  PROVE  ~MayShow("index", e)'
<1>1. /\ CallTyped /\ Sane(call[p]) /\ First(call[p]) = "clear" /\ lock["index"] = p
      /\ index' = NoIndex /\ children' = children
  BY ActsFacts DEF DropIndex, Base, Typed, LocksHeld, Uses, LockName
<1>2. ASSUME NEW q \in Actors, First(call[q]) = "reindex", call[q].at # "start" PROVE FALSE
  <2>1. lock["index"] = q
    BY <1>2 DEF LocksHeld, Uses, LockName
  <2> QED
    BY <1>1, <1>2, <2>1
<1>3. children = {}
  <2>1. ASSUME NEW c \in children PROVE FALSE
    <3>1. c.parent \in Actors /\ call[c.parent].at = "wait"
      BY DEF Base, Typed, IndexTyped, ChildType, ChildrenWaited
    <3>2. Sane(call[c.parent])
      BY <3>1 DEF Base, CallsSane
    <3>3. First(call[c.parent]) = "reindex"
      BY <3>1, <3>2 DEF Sane, Building
    <3> QED
      BY <1>2, <3>1, <3>3
  <2> QED
    BY <2>1
<1>4. ~InIndex(e)'
  BY <1>1, <1>3, TextOf DEF InIndex, NoIndex
<1>5. ASSUME NEW q \in Actors, First(call'[q]) = "reindex", Carries(call'[q], e) PROVE FALSE
  <2>1. Clearing(p)
    BY DEF Clearing
  <2>2. SamePhase(call[p], call'[p]) /\ \A r \in Actors \ {p} : call'[r] = call[r]
    BY <2>1, KindFacts
  <2>3. q # p /\ call'[q] = call[q]
    BY <1>1, <1>5, <2>2 DEF SamePhase
  <2>4. Sane(call[q]) /\ Carries(call[q], e) /\ First(call[q]) = "reindex"
    BY <1>5, <2>3 DEF Base, CallsSane
  <2>5. call[q].at # "start"
    BY <2>4, TextOf DEF Sane, Carries
  <2> QED
    BY <1>2, <2>4, <2>5
<1> QED
  BY <1>4, <1>5 DEF MayShow, Coming, PhaseOf

LEMMA CleanNext ==
  ASSUME Base, LocksHeld, ChildrenWaited, Clean, Next, ~Orphans
  PROVE  Clean'
<1>1. /\ LockTyped /\ Len(log) \in Nat
      /\ \A p \in Actors : call[p] \in CallType /\ Sane(call[p]) /\ call[p].since \in 0..Len(log)
  BY ActsFacts DEF Base, Typed, LogTyped, SinceBounded, CallsSane, CallTyped, CallType
<1>2. ASSUME NEW l \in LockName, NEW e, NEW n \in 0..Len(log), GoneIn(log, e, n), ~MayShow(l, e) PROVE ~MayShow(l, e)'
  BY <1>1, <1>2, MayShowGrows, LogKept
<1>3. ASSUME NEW e \in cleared' PROVE GoneIn(log', e, Len(log')) /\ \A l \in LockName : ~MayShow(l, e)'
  <2>1. ASSUME NEW n \in 0..Len(log), GoneIn(log, e, n), \A l \in LockName : ~MayShow(l, e)
        PROVE  GoneIn(log', e, Len(log')) /\ \A l \in LockName : ~MayShow(l, e)'
    BY <1>2, <2>1, LogKept
  <2>2. CASE e \in cleared
    <3>1. GoneIn(log, e, Len(log)) /\ Len(log) \in 0..Len(log)
      BY <1>1, <2>2 DEF Clean
    <3> QED
      BY <2>1, <2>2, <3>1 DEF Clean
  <2>3. CASE e \notin cleared
    <3>1. PICK p \in Actors : ClearEnd(p)
      BY <1>1, <1>3, <2>3, HistoryFrame
    <3>2. /\ e \in Entities /\ Gone(e, call[p].since)
          /\ call[p].clr["docs"] = "done" /\ call[p].clr["index"] = "done"
      BY <1>3, <2>3, <3>1 DEF ClearEnd
    <3>3. GoneIn(log, e, call[p].since)
      BY <3>2, LedgerRead
    <3>4. \A l \in LockName : ~MayShow(l, e)
      BY <3>2, <3>3 DEF Clean, LockName
    <3> QED
      BY <1>1, <2>1, <3>3, <3>4
  <2> QED
    BY <2>2, <2>3
<1>4. ASSUME NEW q \in Actors, NEW l \in LockName, call'[q].clr[l] = "done", NEW e \in Entities, GoneIn(log', e, call'[q].since)
      PROVE  ~MayShow(l, e)'
  <2>1. ASSUME call[q].clr[l] = "done", call'[q].since = call[q].since PROVE ~MayShow(l, e)'
    <3>1. GoneIn(log, e, call[q].since)
      BY <1>1, <1>4, <2>1, LogKept
    <3>2. ~MayShow(l, e)
      BY <2>1, <3>1 DEF Clean
    <3> QED
      BY <1>1, <1>2, <3>1, <3>2
  <2>2. ASSUME call' = call PROVE ~MayShow(l, e)'
    BY <1>4, <2>1, <2>2
  <2>3. ASSUME NEW p \in Actors, Restarting(p) PROVE ~MayShow(l, e)'
    <3>1. Fresh(call'[p]) /\ \A r \in Actors \ {p} : call'[r] = call[r]
      BY <2>3, KindFacts
    <3>2. q # p
      BY <1>4, <3>1 DEF Fresh, Waiting, LockName
    <3> QED
      BY <1>4, <2>1, <3>1, <3>2
  <2>4. ASSUME NEW p \in Actors, Advancing(p) PROVE ~MayShow(l, e)'
    <3>1. call'[p].clr = Waiting /\ \A r \in Actors \ {p} : call'[r] = call[r]
      BY <2>4, KindFacts
    <3>2. q # p
      BY <1>4, <3>1 DEF Waiting, LockName
    <3> QED
      BY <1>4, <2>1, <3>1, <3>2
  <2>5. ASSUME NEW p \in Actors, Clearing(p) PROVE ~MayShow(l, e)'
    <3>1. SamePhase(call[p], call'[p]) /\ First(call[p]) = "clear" /\ \A r \in Actors \ {p} : call'[r] = call[r]
      BY <2>5, KindFacts
    <3>2. call'[q].since = call[q].since
      BY <3>1 DEF SamePhase
    <3>3. ASSUME NEW k \in LockName, NEW x \in Progress, x # "done", Turn(p, [call[p] EXCEPT !.clr[k] = x])
          PROVE ~MayShow(l, e)'
      <4>1. call'[p].clr[k] = x /\ \A m \in LockName \ {k} : call'[p].clr[m] = call[p].clr[m]
        BY <3>1, <3>3, ClearTurn
      <4>2. call[q].clr[l] = "done"
        BY <1>4, <3>1, <3>3, <4>1
      <4> QED
        BY <2>1, <3>2, <4>2
    <3>4. ASSUME NEW k \in LockName, TakeClear(p, k) \/ ClearBusy(p, k) PROVE ~MayShow(l, e)'
      <4>1. Turn(p, [call[p] EXCEPT !.clr[k] = "held"]) \/ Turn(p, [call[p] EXCEPT !.clr[k] = "busy"])
        BY <3>4, ClearActions
      <4> QED
        BY <3>3, <4>1 DEF Progress
    <3>5. ASSUME NEW k \in LockName, Turn(p, [call[p] EXCEPT !.clr[k] = "done"]), ~MayShow(k, e)' PROVE ~MayShow(l, e)'
      <4>1. \A m \in LockName \ {k} : call'[p].clr[m] = call[p].clr[m]
        BY <3>1, <3>5, ClearTurn DEF Progress
      <4> QED
        BY <1>4, <2>1, <3>1, <3>2, <3>5, <4>1
    <3>6. CASE DropIndex(p)
      <4>1. Turn(p, [call[p] EXCEPT !.clr["index"] = "done"]) /\ ~MayShow("index", e)' /\ "index" \in LockName
        BY <3>6, ClearActions, DropIndexEmpties DEF LockName
      <4> QED
        BY <3>5, <4>1
    <3>7. CASE DropEnd(p)
      <4>1. Turn(p, [call[p] EXCEPT !.clr["docs"] = "done"]) /\ ~MayShow("docs", e)' /\ "docs" \in LockName
        BY <3>7, ClearActions, DropEndEmpties DEF LockName
      <4> QED
        BY <3>5, <4>1
    <3> QED
      BY <2>5, <3>4, <3>6, <3>7 DEF Clearing
  <2>6. ASSUME NEW p \in Actors, DropFile(p) PROVE call' = call
    BY <2>6 DEF DropFile
  <2>7. ASSUME NEW c \in children, Child(c) PROVE call' = call
    BY <2>7 DEF Child, CreateTables, ChildFails, CommitRows
  <2> QED
    BY <1>1, <2>2, <2>3, <2>4, <2>5, <2>6, <2>7, Kinds
<1> QED
  BY <1>3, <1>4 DEF Clean

CleanInv == Base /\ LocksHeld /\ ChildrenWaited /\ Clean

LEMMA CleanInit == Init => CleanInv
<1> SUFFICES ASSUME Init PROVE LocksHeld /\ ChildrenWaited /\ Clean
  BY BaseInit DEF CleanInv
<1>1. \A p \in Actors : call[p] = Idle
  BY DEF Init
<1>2. \A l \in LockName : ~Uses(Idle, l) /\ Idle.clr[l] # "done"
  BY IdleIsFresh DEF Uses, Fresh, Waiting, LockName
<1> QED
  BY <1>1, <1>2 DEF Init, LocksHeld, ChildrenWaited, Clean

LEMMA CleanStep ==
  ASSUME CleanInv, [Next]_vars, ~Orphans
  PROVE  CleanInv'
<1>1. CASE Next
  BY <1>1, BaseNext, LocksHeldNext, ChildrenWaitedNext, CleanNext DEF CleanInv
<1>2. CASE UNCHANGED vars
  BY <1>2, BaseNext DEF CleanInv, vars, LocksHeld, ChildrenWaited, Clean, MayShow, InDocs, InIndex, Coming
<1> QED
  BY <1>1, <1>2

(* Once the derived files and the index have been cleared after a tombstone, the
   deleted entity's text never comes back, for any number of programs, entities,
   faults and calls, as long as no sqlite3 child outlives its parent
   (README.md:12, kernel.ts:117). *)
THEOREM ClearedAlwaysStaysClear ==
  ASSUME ~Orphans
  PROVE  Spec => []ClearedStaysClear
<1>1. Init => CleanInv
  BY CleanInit
<1>2. CleanInv /\ [Next]_vars => CleanInv'
  BY CleanStep
<1>3. CleanInv => ClearedStaysClear
  <2> SUFFICES ASSUME CleanInv, NEW e \in cleared, e \in Exposed PROVE FALSE
    BY DEF ClearedStaysClear
  <2>1. InDocs(e) \/ InIndex(e)
    <3>1. \/ e \in UNION {Text(docs[f]) : f \in DOMAIN docs} \/ e \in UNION {Text(x) : x \in litter}
          \/ e \in Text(index.rows)
      BY DEF Exposed
    <3>2. CASE e \in UNION {Text(docs[f]) : f \in DOMAIN docs}
      BY <3>2 DEF InDocs
    <3>3. CASE e \in UNION {Text(x) : x \in litter}
      BY <3>3 DEF InDocs
    <3> QED
      BY <3>1, <3>2, <3>3 DEF InIndex
  <2> QED
    BY <2>1 DEF CleanInv, Clean, MayShow, LockName
<1> QED
  BY <1>1, <1>2, <1>3, PTL DEF Spec

-----------------------------------------------------------------------------
(* What a replay has read is the ledger at one point                        *)

ShowsAt(R, l, e, n) ==
  \E r \in R : r.of = e /\ r.rev = RevIn(l, e, n) /\ (GoneIn(l, e, n) => r.body = "deleted")
Faithful(l, c) ==
  c.at \in Reading =>
    /\ c.since <= c.view /\ c.view <= Len(l)
    /\ \A e \in c.todo : e \in KnownIn(l, c.view) /\ ~GoneIn(l, e, c.view)
    /\ \A e \in KnownIn(l, c.view) : e \in c.todo \/ ShowsAt(c.recs, l, e, c.view)
AllFaithful == \A p \in Actors : Faithful(log, call[p])

LEMMA FaithfulStays ==
  ASSUME Base, Next, NEW c \in CallType, Faithful(log, c)
  PROVE  Faithful(log', c)
<1>1. Len(log) \in Nat /\ Len(log') \in Nat /\ Len(log) <= Len(log')
  BY LogTypedNext DEF Base, Typed, LogTyped
<1> SUFFICES ASSUME c.at \in Reading
             PROVE  /\ c.since <= c.view /\ c.view <= Len(log')
                    /\ \A e \in c.todo : e \in KnownIn(log', c.view) /\ ~GoneIn(log', e, c.view)
                    /\ \A e \in KnownIn(log', c.view) : e \in c.todo \/ ShowsAt(c.recs, log', e, c.view)
  BY DEF Faithful
<1>2. c.view \in 0..Len(log)
  BY <1>1 DEF Faithful, CallType
<1>3. \A e : /\ GoneIn(log', e, c.view) = GoneIn(log, e, c.view) /\ RevIn(log', e, c.view) = RevIn(log, e, c.view)
  BY <1>2, LogKept
<1>4. KnownIn(log', c.view) = KnownIn(log, c.view)
  BY <1>2, LogKept
<1> QED
  BY <1>1, <1>2, <1>3, <1>4 DEF Faithful, ShowsAt, CallType

LEMMA ShowsMore ==
  ASSUME NEW R, NEW S, R \subseteq S, NEW l, NEW e, NEW n, ShowsAt(R, l, e, n)
  PROVE  ShowsAt(S, l, e, n)
BY DEF ShowsAt

LEMMA FaithfulRead ==
  ASSUME Base, NEW p \in Actors, Advancing(p), Faithful(log, call[p])
  PROVE  Faithful(log, call'[p])
<1>1. CallTyped /\ call[p] \in CallType /\ Sane(call[p]) /\ Now \in Nat /\ Len(log) = Now /\ LogTyped
  BY ActsFacts, LengthIsNat DEF Base, Typed
<1>2. ASSUME NEW x, call' = [call EXCEPT ![p].at = x], call[p].at \in Reading \/ x \notin Reading
      PROVE  Faithful(log, call'[p])
  <2>1. /\ call'[p].recs = call[p].recs /\ call'[p].todo = call[p].todo /\ call'[p].since = call[p].since
        /\ call'[p].view = call[p].view /\ call'[p].at = x
    BY <1>1, <1>2 DEF CallTyped, CallType
  <2> QED
    BY <1>2, <2>1 DEF Faithful
<1>3. CASE TakeLock(p)
  BY <1>2, <1>3 DEF TakeLock, Reading
<1>4. CASE Draft(p) \/ RemoveOld(p) \/ Spawn(p)
  BY <1>2, <1>4 DEF Draft, RemoveOld, Spawn, Reading, Replayed
<1>5. CASE Reap(p) /\ call'[p].at = "built"
  <2>1. call' # [call EXCEPT ![p] = Idle]
    BY <1>1, <1>5 DEF CallTyped, Idle
  <2> QED
    BY <1>2, <1>5, <2>1 DEF Reap, Throw, Reading
<1>6. CASE Rename(p)
  <2>1. PICK f : call[p].at = "drafted" /\ call' = [call EXCEPT ![p].at = "bodies", ![p].files = @ \ {f}]
    BY <1>6 DEF Rename
  <2>2. /\ call'[p].recs = call[p].recs /\ call'[p].todo = call[p].todo /\ call'[p].since = call[p].since
        /\ call'[p].view = call[p].view
    BY <1>1, <2>1 DEF CallTyped, CallType
  <2> QED
    BY <2>1, <2>2 DEF Faithful, Reading
<1>7. CASE Query(p)
  <2>1. /\ call'[p].recs = call[p].recs /\ call'[p].todo = call[p].todo /\ call'[p].since = call[p].since
        /\ call'[p].view = call[p].view /\ call[p].at = "built"
    BY <1>1, <1>7 DEF CallTyped, CallType, Query
  <2> QED
    BY <2>1 DEF Faithful, Reading
<1>8. CASE ReadEvents(p)
  <2> DEFINE r == {Record(x, Now, "deleted") : x \in {x \in Known(Now) : Gone(x, Now)}}
             t == {x \in Known(Now) : ~Gone(x, Now)}
  <2>1. call'[p].recs = r /\ call'[p].todo = t /\ call'[p].view = Now /\ call'[p].since = call[p].since
    BY <1>1, <1>8 DEF ReadEvents, CallTyped, CallType
  <2>2. \A e \in KnownIn(log, Now) : GoneIn(log, e, Now) => ShowsAt(r, log, e, Now)
    <3> TAKE e \in KnownIn(log, Now)
    <3> HAVE GoneIn(log, e, Now)
    <3>1. Record(e, Now, "deleted") \in r
      BY LedgerRead
    <3>2. Record(e, Now, "deleted").of = e /\ Record(e, Now, "deleted").rev = RevIn(log, e, Now)
          /\ Record(e, Now, "deleted").body = "deleted"
      BY LedgerRead DEF Record
    <3> QED
      BY <3>1, <3>2 DEF ShowsAt
  <2>3. \A e : e \in t <=> e \in KnownIn(log, Now) /\ ~GoneIn(log, e, Now)
    BY LedgerRead
  <2> HIDE DEF r, t
  <2> QED
    BY <1>1, <2>1, <2>2, <2>3 DEF Faithful, Base, SinceBounded
<1>9. ASSUME NEW e \in NextRead(p), NEW body, call[p].at \in Reading, ~GoneIn(log, e, call[p].view),
             call'[p].recs = call[p].recs \cup {Record(e, call[p].view, body)}, call'[p].todo = call[p].todo \ {e},
             call'[p].since = call[p].since, call'[p].view = call[p].view
      PROVE  Faithful(log, call'[p])
  <2>1. ShowsAt(call'[p].recs, log, e, call[p].view)
    <3> DEFINE x == Record(e, call[p].view, body)
    <3>1. x \in call'[p].recs
      BY <1>9
    <3>2. x.of = e /\ x.rev = RevIn(log, e, call[p].view)
      BY LedgerRead DEF Record
    <3> QED
      BY <1>9, <3>1, <3>2 DEF ShowsAt
  <2>2. \A x \in KnownIn(log, call[p].view) : ShowsAt(call[p].recs, log, x, call[p].view) => ShowsAt(call'[p].recs, log, x, call[p].view)
    BY <1>9, ShowsMore
  <2> QED
    BY <1>9, <2>1, <2>2 DEF Faithful
<1>10. ASSUME NEW e \in NextRead(p), call[p].at \in Reading PROVE ~GoneIn(log, e, call[p].view)
  BY <1>10 DEF NextRead, Faithful
<1>11. CASE CheckBody(p)
  <2>1. PICK e \in NextRead(p) : call[p].at = "bodies" /\ call' = [call EXCEPT ![p] =
          IF BodyOf(p, e) \in objects THEN [@ EXCEPT !.at = "fetch"]
          ELSE [@ EXCEPT !.recs = call[p].recs \cup {Record(e, call[p].view, "erased")},
                         !.todo = call[p].todo \ {e}]]
    BY <1>11 DEF CheckBody
  <2>2. CASE BodyOf(p, e) \in objects
    BY <1>2, <2>1, <2>2 DEF Reading
  <2>3. CASE BodyOf(p, e) \notin objects
    <3>1. /\ call'[p].recs = call[p].recs \cup {Record(e, call[p].view, "erased")} /\ call'[p].todo = call[p].todo \ {e}
          /\ call'[p].since = call[p].since /\ call'[p].view = call[p].view
      BY <1>1, <2>1, <2>3 DEF CallTyped, CallType
    <3> QED
      BY <1>9, <1>10, <2>1, <3>1 DEF Reading
  <2> QED
    BY <2>2, <2>3
<1>12. CASE FetchBody(p)
  <2>1. PICK e \in NextRead(p) : call[p].at = "fetch" /\ call' = [call EXCEPT ![p].at = "bodies", ![p].todo = @ \ {e},
                     ![p].recs = @ \cup {Record(e, call[p].view, "present")}]
    BY <1>12 DEF FetchBody
  <2>2. /\ call'[p].recs = call[p].recs \cup {Record(e, call[p].view, "present")} /\ call'[p].todo = call[p].todo \ {e}
        /\ call'[p].since = call[p].since /\ call'[p].view = call[p].view
    BY <1>1, <2>1 DEF CallTyped, CallType
  <2>3. call[p].at \in Reading
    BY <2>1 DEF Reading
  <2>4. ~GoneIn(log, e, call[p].view)
    BY <1>10, <2>3
  <2> QED
    BY <1>9, <2>2, <2>3, <2>4
<1> QED
  BY <1>3, <1>4, <1>5, <1>6, <1>7, <1>8, <1>11, <1>12 DEF Advancing

LEMMA AllFaithfulNext ==
  ASSUME Base, AllFaithful, Next
  PROVE  AllFaithful'
<1>1. LockTyped /\ \A q \in Actors : call[q] \in CallType /\ Sane(call[q])
  BY ActsFacts DEF Base, Typed, CallsSane, CallTyped
<1> SUFFICES ASSUME NEW q \in Actors PROVE Faithful(log', call'[q])
  BY DEF AllFaithful
<1>2. ASSUME call'[q] = call[q] PROVE Faithful(log', call'[q])
  BY <1>1, <1>2, FaithfulStays DEF AllFaithful
<1>3. ASSUME NEW p \in Actors, Restarting(p) PROVE Faithful(log', call'[q])
  <2>1. Fresh(call'[p]) /\ \A r \in Actors \ {p} : call'[r] = call[r]
    BY <1>3, KindFacts
  <2> QED
    BY <1>2, <2>1 DEF Fresh, Faithful, Reading
<1>4. ASSUME NEW p \in Actors, Clearing(p) PROVE Faithful(log', call'[q])
  <2>1. First(call[p]) = "clear" /\ call'[p].at = call[p].at /\ \A r \in Actors \ {p} : call'[r] = call[r]
    BY <1>4, KindFacts
  <2>2. call[p].at = "start"
    BY <1>1, <2>1 DEF Sane
  <2> QED
    BY <1>2, <2>1, <2>2 DEF Faithful, Reading
<1>5. ASSUME NEW p \in Actors, Advancing(p) PROVE Faithful(log', call'[q])
  <2>1. log' = log /\ \A r \in Actors \ {p} : call'[r] = call[r]
    BY <1>5, KindFacts
  <2>2. Faithful(log, call'[p])
    BY <1>5, FaithfulRead DEF AllFaithful
  <2> QED
    BY <1>2, <2>1, <2>2
<1>6. ASSUME NEW p \in Actors, DropFile(p) PROVE call' = call
  BY <1>6 DEF DropFile
<1>7. ASSUME NEW c \in children, Child(c) PROVE call' = call
  BY <1>7 DEF Child, CreateTables, ChildFails, CommitRows
<1> QED
  BY <1>1, <1>2, <1>3, <1>4, <1>5, <1>6, <1>7, Kinds

-----------------------------------------------------------------------------
(* Bodies are erased after the tombstone only                               *)

PlanFits(c) == c.op = "change" => c.plan \in {<<"append", "project">>, <<"project">>, <<>>}
NextOf(c) == {t \in c.targets : \A u \in c.targets : t.of <= u.of}
ErasesGone(l, c) == First(c) = "erase" => \A t \in NextOf(c) : GoneIn(l, t.of, Len(l))
PlansFit == \A p \in Actors : PlanFits(call[p]) /\ ErasesGone(log, call[p])
BodiesThere ==
  \A e \in Entities : ~GoneIn(log, e, Len(log)) => \A k \in 1..RevIn(log, e, Len(log)) : <<e, k>> \in objects

LEMMA PlanNext ==
  ASSUME NEW c \in CallType, NEW d \in CallType, First(c) # "none", d.plan = Tail(c.plan)
  PROVE  /\ First(d) = "erase" => First(c) = "append" /\ c.plan = AECPR
         /\ c.plan \in {<<"append", "project">>, <<"project">>} => d.plan \in {<<"project">>, <<>>}
<1>1. c.plan \in PlanType \ {<<>>}
  BY DEF CallType, First
<1> QED
  BY <1>1, TailsOfPlans, HeadsOfPlans DEF PlanType, First

LEMMA FirstOfPlans ==
  /\ \A c : c.plan = <<"clear">> \/ c.plan = CPR => First(c) = "clear"
  /\ \A c : c.plan = AECPR => First(c) = "append"
  /\ \A c : c.plan = <<>> => First(c) = "none"
  /\ \A c : c.plan \in {<<"clear", "project">>, <<"project">>} => First(c) \in {"clear", "project"}
  /\ \A c : \A op \in Calls \ {"none"} : c.plan = PlanOf(op) => First(c) # "erase"
  /\ AECPR # <<>> /\ ECPR # <<>> /\ CPR # <<>>
  /\ AECPR \notin {<<"append", "project">>, <<"project">>} /\ ECPR \notin {<<"append", "project">>, <<"project">>}
<1>1. AECPR # <<>> /\ ECPR # <<>> /\ CPR # <<>>
  BY DEF AECPR, ECPR, CPR
<1>2. AECPR \notin {<<"append", "project">>, <<"project">>} /\ ECPR \notin {<<"append", "project">>, <<"project">>}
  BY DEF AECPR, ECPR
<1>3. \A c : \A op \in Calls \ {"none"} : c.plan = PlanOf(op) => First(c) # "erase"
  <2> TAKE c
  <2> TAKE op \in Calls \ {"none"}
  <2> HAVE c.plan = PlanOf(op)
  <2>1. Head(c.plan) \in {"reconcile", "append", "survey", "reindex", "project"}
    BY DEF PlanOf, Calls
  <2> QED
    BY <2>1 DEF First
<1> QED
  BY <1>1, <1>2, <1>3, HeadsOfPlans DEF First

LEMMA RestartPlans ==
  ASSUME Base, NEW p \in Actors, Restarting(p), PlanFits(call[p])
  PROVE  /\ PlanFits(call'[p])
         /\ First(call'[p]) = "erase" =>
              Commit(p) /\ call[p].op # "change" /\ call'[p].targets = call[p].targets
<1>1. CallTyped /\ CallsSane /\ call[p] \in CallType /\ Sane(call[p]) /\ Phase(p) = First(call[p])
  BY ActsFacts DEF Base, Typed
<1> DEFINE Good(d) == PlanFits(d) /\ (First(d) = "erase" =>
             Commit(p) /\ call[p].op # "change" /\ d.targets = call[p].targets)
<1>2. \A d : Turn(p, d) => call'[p] = d
  BY <1>1 DEF Turn, CallTyped
<1>3. Good(Idle)
  BY IdleIsFresh DEF PlanFits, Idle
<1>4. ASSUME Acts(p), First(call[p]) # "append" PROVE Good(After(call[p]))
  <2> DEFINE d == After(call[p])
  <2>1. d \in CallType /\ (d = Idle \/ (d.plan = Tail(call[p].plan) /\ d.op = call[p].op))
    BY <1>1, <1>4, AfterIsFresh
  <2> HIDE DEF d
  <2>2. ASSUME d.plan = Tail(call[p].plan), d.op = call[p].op PROVE Good(d)
    <3>1. First(d) # "erase"
      BY <1>1, <1>4, <2>1, <2>2, PlanNext DEF Acts
    <3>2. call[p].plan # <<>>
      BY <1>1, <1>4, PlanTails DEF Acts
    <3>3. d.op = "change" => d.plan \in {<<"project">>, <<>>}
      BY <1>1, <1>4, <2>1, <2>2, <3>2, PlanNext DEF PlanFits, Acts
    <3> QED
      BY <3>1, <3>3 DEF PlanFits
  <2> QED
    BY <1>3, <2>1, <2>2 DEF d
<1>5. ASSUME NEW plan \in PlanType, NEW c, Acts(p), c = Rest(call[p], plan),
             call[p].op = "change" => plan \in {<<"project">>, <<>>}
      PROVE  c \in CallType /\ Fresh(c) /\ Sane(c) /\ PlanFits(c) /\ (c = Idle \/ c.plan = plan)
  <2>1. call[p].op # "none"
    BY <1>1, <1>5, ActsFacts
  <2>2. /\ c \in CallType /\ Fresh(c) /\ Sane(c)
        /\ c = Idle \/ (c.plan = plan /\ c.op = call[p].op)
    BY <1>1, <1>5, <2>1, RestIsFresh
  <2> QED
    BY <1>3, <1>5, <2>2 DEF PlanFits
<1>6. ASSUME NEW c \in CallType, Fresh(c), Sane(c), PlanFits(c), NEW n \in Nat
      PROVE  LET d == [c EXCEPT !.since = n] IN PlanFits(d) /\ First(d) = First(c) /\ d.targets = c.targets
  <2> DEFINE d == [c EXCEPT !.since = n]
  <2>1. d.plan = c.plan /\ d.op = c.op /\ d.targets = c.targets
    BY <1>6, FreshSince
  <2> QED
    BY <1>6, <2>1 DEF PlanFits, First
<1>7. Now \in Nat
  BY LengthIsNat DEF Base, Typed
<1>8. CASE BeginOf(p)
  <2>1. PICK op \in Ops[p], e \in Entities \cup {0} : Begin(p, op, e)
    BY <1>8 DEF BeginOf
  <2>2. op \in Calls \ {"none"}
    BY DerivedAssumption DEF Calls
  <2> DEFINE t == IF e = 0 THEN {} ELSE {[of |-> e, rev |-> Rev(e, Now)]}
             d == [Idle EXCEPT !.op = op, !.plan = PlanOf(op), !.since = Now, !.targets = t]
  <2>3. call'[p] = d
    BY <1>2, <2>1 DEF Begin, Turn
  <2> HIDE DEF t
  <2>4. d.plan = PlanOf(op) /\ d.op = op
    BY DEF Idle
  <2>5. First(d) # "erase"
    BY <2>2, <2>4, FirstOfPlans
  <2>6. op = "change" => PlanOf(op) = <<"append", "project">>
    BY DEF PlanOf
  <2> HIDE DEF d
  <2> QED
    BY <2>3, <2>4, <2>5, <2>6 DEF PlanFits
<1>9. CASE Reconcile(p)
  <2>1. Acts(p) /\ call[p].plan = <<"reconcile", "clear", "project">>
    BY <1>1, <1>9, PlanTails DEF Reconcile, Acts
  <2> DEFINE plan == IF \E e \in Known(Now) : Gone(e, Now) THEN Tail(call[p].plan) ELSE Tail(Tail(call[p].plan))
             c == Rest(call[p], plan)
             d == [c EXCEPT !.since = Now]
  <2>2. plan \in {<<"clear", "project">>, <<"project">>}
    BY <2>1, TailsOfPlans
  <2>3. call'[p] = d
    BY <1>2, <1>9 DEF Reconcile, Turn
  <2>4. call[p].op # "change"
    BY <2>1 DEF PlanFits
  <2> HIDE DEF plan
  <2>5. plan \in PlanType
    BY <2>2 DEF PlanType
  <2>6. c \in CallType /\ Fresh(c) /\ Sane(c) /\ PlanFits(c) /\ (c = Idle \/ c.plan = plan)
    BY <1>5, <2>1, <2>4, <2>5
  <2> HIDE DEF c
  <2>7. PlanFits(d) /\ First(d) = First(c)
    BY <1>6, <1>7, <2>6
  <2>8. First(c) # "erase"
    BY <2>2, <2>6, FirstOfPlans, IdleIsFresh
  <2> HIDE DEF d
  <2> QED
    BY <2>3, <2>7, <2>8
<1>10. CASE Commit(p)
  <2>1. Acts(p) /\ First(call[p]) = "append"
    BY <1>10, LogStep DEF Commit
  <2> DEFINE c == After(call[p])
             d == [c EXCEPT !.since = Now + 1]
  <2>2. call'[p] = d
    BY <1>2, <1>10 DEF Commit, Turn
  <2>3. c \in CallType /\ Fresh(c) /\ Sane(c)
        /\ (c = Idle \/ (c.plan = Tail(call[p].plan) /\ c.op = call[p].op /\ c.targets = call[p].targets))
    BY <1>1, <2>1, AfterIsFresh
  <2>4. call[p].plan # <<>>
    BY <1>1, <2>1, PlanTails
  <2> HIDE DEF c
  <2>5. ASSUME c.plan = Tail(call[p].plan), c.op = call[p].op, c.targets = call[p].targets
        PROVE  PlanFits(c) /\ (First(c) = "erase" => call[p].op # "change")
    <3>1. call[p].op = "change" => c.plan \in {<<"project">>, <<>>}
      BY <1>1, <2>1, <2>3, <2>4, <2>5, PlanNext DEF PlanFits
    <3>2. First(c) = "erase" => call[p].plan = AECPR
      BY <1>1, <2>1, <2>3, <2>5, PlanNext
    <3>3. call[p].plan = AECPR => call[p].op # "change"
      BY FirstOfPlans DEF PlanFits
    <3> QED
      BY <2>5, <3>1, <3>2, <3>3 DEF PlanFits
  <2>6. PlanFits(c) /\ (First(c) = "erase" => call[p].op # "change" /\ c.targets = call[p].targets)
    BY <1>3, <2>3, <2>5, IdleIsFresh
  <2>7. PlanFits(d) /\ First(d) = First(c) /\ d.targets = c.targets
    BY <1>6, <1>7, <2>3, <2>6
  <2> HIDE DEF d
  <2> QED
    BY <1>10, <2>2, <2>6, <2>7
<1>11. ASSUME Acts(p), call[p].op # "change" PROVE
         /\ Good(Unwind(call[p]))
         /\ \A n \in Nat : Good([Unwind(call[p]) EXCEPT !.since = n])
  <2> DEFINE c == Rest(call[p], <<"clear">>)
             f == [c EXCEPT !.failed = TRUE]
  <2>1. c \in CallType /\ Fresh(c) /\ Sane(c) /\ PlanFits(c) /\ (c = Idle \/ c.plan = <<"clear">>)
    BY <1>5, <1>11, PlanAgain
  <2>2. Unwind(call[p]) = f
    BY DEF Unwind
  <2> HIDE DEF c
  <2>3. f \in CallType /\ Fresh(f) /\ Sane(f) /\ f.plan = c.plan /\ f.op = c.op
    BY <2>1, FreshFailed
  <2> HIDE DEF f
  <2>4. PlanFits(f) /\ First(f) # "erase"
    BY <2>1, <2>3, FirstOfPlans DEF PlanFits, Idle
  <2>5. ASSUME NEW n \in Nat PROVE Good([f EXCEPT !.since = n])
    <3> DEFINE d == [f EXCEPT !.since = n]
    <3>1. PlanFits(d) /\ First(d) = First(f)
      BY <1>6, <2>3, <2>4
    <3> HIDE DEF d
    <3>2. Good(d)
      BY <2>4, <3>1
    <3> QED
      BY <3>2 DEF d
  <2> QED
    BY <2>2, <2>4, <2>5
<1>12. CASE CommitThrows(p) \/ CommitRefused(p)
  <2>1. Acts(p)
    BY <1>1, <1>12, LogStep DEF CommitThrows, CommitRefused, Acts
  <2>2. CASE call[p].op = "change"
    <3>1. Turn(p, Idle)
      BY <1>12, <2>2 DEF CommitThrows, CommitRefused, Turn
    <3> QED
      BY <1>2, <1>3, <3>1
  <2>3. CASE call[p].op # "change"
    <3>1. Turn(p, Unwind(call[p])) \/ Turn(p, [Unwind(call[p]) EXCEPT !.since = Now + 1])
      BY <1>12, <2>3 DEF CommitThrows, CommitRefused, Turn
    <3>2. Now + 1 \in Nat
      BY <1>7
    <3> QED
      BY <1>2, <1>11, <2>1, <2>3, <3>1, <3>2
  <2> QED
    BY <2>2, <2>3
<1>13. ASSUME Acts(p), call[p].op # "change", NEW t \in SUBSET [of : Entities, rev : Nat]
       PROVE  Good([Rest(call[p], PlanOf("delete")) EXCEPT !.targets = t])
  <2> DEFINE c == Rest(call[p], PlanOf("delete"))
             f == [c EXCEPT !.targets = t]
  <2>1. c \in CallType /\ Fresh(c) /\ Sane(c) /\ PlanFits(c) /\ (c = Idle \/ c.plan = AECPR)
    BY <1>5, <1>13, PlanAgain
  <2> HIDE DEF c
  <2>2. f.plan = c.plan /\ f.op = c.op
    BY <2>1, FreshTargets
  <2> HIDE DEF f
  <2>3. PlanFits(f) /\ First(f) # "erase"
    BY <2>1, <2>2, FirstOfPlans DEF PlanFits, Idle
  <2>4. Good(f)
    BY <2>3
  <2> QED
    BY <2>4 DEF f, c
<1>14. CASE Erase(p)
  <2>1. Acts(p) /\ First(call[p]) = "erase" /\ call[p].plan = ECPR
    BY <1>1, <1>14, PlanTails DEF Erase, Acts
  <2>2. call[p].op # "change"
    BY <2>1, FirstOfPlans DEF PlanFits
  <2>3. PICK t \in NextTarget(p) : call' = [call EXCEPT ![p] =
          IF call[p].targets \ {t} = {} THEN After(@)
          ELSE [Rest(@, PlanOf("delete")) EXCEPT !.targets = call[p].targets \ {t}]]
    BY <1>14 DEF Erase
  <2>4. Turn(p, After(call[p])) \/ Turn(p, [Rest(call[p], PlanOf("delete")) EXCEPT !.targets = call[p].targets \ {t}])
    BY <2>3 DEF Turn
  <2>5. call[p].targets \ {t} \in SUBSET [of : Entities, rev : Nat]
    BY <1>1 DEF CallType
  <2>6. Good(After(call[p])) /\ Good([Rest(call[p], PlanOf("delete")) EXCEPT !.targets = call[p].targets \ {t}])
    BY <1>4, <1>13, <2>1, <2>2, <2>5
  <2> QED
    BY <1>2, <2>4, <2>6
<1>15. CASE Survey(p)
  <2> DEFINE expired == {r.of : r \in {x \in call[p].recs : x.body # "deleted"}} \cap Expiring
             t == {[of |-> e, rev |-> Rev(e, call[p].view)] : e \in expired}
  <2>1. Acts(p) /\ call[p].plan = <<"survey", "clear", "project", "reindex">>
    BY <1>1, <1>15, PlanTails DEF Survey, Acts
  <2>2. call[p].op # "change"
    BY <2>1 DEF PlanFits
  <2>3. Turn(p, Idle) \/ Turn(p, [Rest(call[p], PlanOf("delete")) EXCEPT !.targets = t])
    BY <1>15 DEF Survey, Turn
  <2>4. t \in SUBSET [of : Entities, rev : Nat]
    <3>1. expired \subseteq Entities
      BY DerivedAssumption
    <3>2. \A e \in expired : Rev(e, call[p].view) \in Nat
      BY <1>1, LedgerRead, RevisionBounds DEF CallType, Base, Typed, LogTyped
    <3> QED
      BY <3>1, <3>2
  <2> HIDE DEF t
  <2>5. Good([Rest(call[p], PlanOf("delete")) EXCEPT !.targets = t])
    BY <1>13, <2>1, <2>2, <2>4
  <2> QED
    BY <1>2, <1>3, <2>3, <2>5
<1>16. CASE LockBusy(p) \/ BodyVanished(p) \/ DraftFails(p) \/ Die(p)
  <2>1. Turn(p, Idle)
    BY <1>16 DEF LockBusy, BodyVanished, DraftFails, Die, Throw, Turn
  <2> QED
    BY <1>2, <1>3, <2>1
<1>17. CASE Reap(p) /\ call'[p].at # "built"
  <2>1. call' = [call EXCEPT ![p].at = "built"] => call'[p].at = "built"
    BY <1>1 DEF CallTyped, CallType
  <2>2. Turn(p, Idle)
    BY <1>17, <2>1 DEF Reap, Throw, Turn
  <2> QED
    BY <1>2, <1>3, <2>2
<1>18. CASE ClearEnd(p) \/ ProjectEnd(p) \/ ReindexEnd(p)
  <2>1. First(call[p]) \in {"clear", "project", "reindex"}
    <3>1. ReindexEnd(p) => call[p].at \in {"answered", "built"}
      BY DEF ReindexEnd
    <3> QED
      BY <1>1, <1>18, <3>1 DEF ClearEnd, ProjectEnd, Sane, Building
  <2>2. Turn(p, Idle) \/ Turn(p, After(call[p]))
    BY <1>18 DEF ClearEnd, ProjectEnd, ReindexEnd, Turn
  <2> QED
    BY <1>2, <1>3, <1>4, <2>1, <2>2 DEF Acts
<1> QED
  BY <1>8, <1>9, <1>10, <1>12, <1>14, <1>15, <1>16, <1>17, <1>18 DEF Restarting

LEMMA ErasesGoneStays ==
  ASSUME Base, Next, NEW c, ErasesGone(log, c)
  PROVE  ErasesGone(log', c)
<1>1. Len(log) \in 0..Len(log)
  BY DEF Base, Typed, LogTyped
<1>2. \A e : GoneIn(log, e, Len(log)) => GoneIn(log', e, Len(log'))
  BY <1>1, LogKept
<1> QED
  BY <1>2 DEF ErasesGone

LEMMA PlansFitNext ==
  ASSUME Base, PlansFit, Next
  PROVE  PlansFit'
<1>1. LockTyped /\ \A q \in Actors : call[q] \in CallType /\ Sane(call[q])
  BY ActsFacts DEF Base, Typed, CallsSane, CallTyped
<1> SUFFICES ASSUME NEW q \in Actors PROVE PlanFits(call'[q]) /\ ErasesGone(log', call'[q])
  BY DEF PlansFit
<1>2. ASSUME call'[q] = call[q] PROVE PlanFits(call'[q]) /\ ErasesGone(log', call'[q])
  BY <1>2, ErasesGoneStays DEF PlansFit
<1>3. ASSUME NEW p \in Actors, Restarting(p) PROVE PlanFits(call'[q]) /\ ErasesGone(log', call'[q])
  <2>1. \A r \in Actors \ {p} : call'[r] = call[r]
    BY <1>3, KindFacts
  <2>2. /\ PlanFits(call'[p])
        /\ First(call'[p]) = "erase" => Commit(p) /\ call[p].op # "change" /\ call'[p].targets = call[p].targets
    BY <1>3, RestartPlans DEF PlansFit
  <2>3. ASSUME First(call'[p]) = "erase", NEW u \in NextOf(call'[p]) PROVE GoneIn(log', u.of, Len(log'))
    <3>1. Write(p)
      BY <2>2, <2>3 DEF Commit
    <3>2. PICK t \in NextTarget(p) :
            LET x == [of |-> t.of, tombstone |-> call[p].op # "change"] IN
            t \in call[p].targets /\ x \in EventType /\ t.of \in Entities /\ log' = Append(log, x)
      BY <3>1, LogStep
    <3>3. u \in call[p].targets /\ u.of <= t.of
      BY <2>2, <2>3, <3>2 DEF NextOf
    <3>4. t.of <= u.of
      BY <3>2, <3>3 DEF NextTarget
    <3>5. u.of \in Nat /\ t.of \in Nat
      BY <1>1, <3>2, <3>3, DerivedAssumption DEF CallType
    <3>6. u.of = t.of
      BY <3>3, <3>4, <3>5
    <3> DEFINE x == [of |-> t.of, tombstone |-> call[p].op # "change"]
    <3>7. x.of = u.of /\ x.tombstone
      BY <2>2, <2>3, <3>6
    <3>8. x \in EventType /\ log' = Append(log, x) /\ log \in Seq(EventType)
      BY <3>2 DEF Base, Typed, LogTyped
    <3> HIDE DEF x
    <3>9. Len(Append(log, x)) = Len(log) + 1
      BY <3>8, LogEnds
    <3>10. GoneIn(Append(log, x), u.of, Len(log) + 1)
      BY <3>7, <3>8, LogEnds
    <3> QED
      BY <3>8, <3>9, <3>10
  <2>4. ErasesGone(log', call'[p])
    BY <2>3 DEF ErasesGone
  <2> QED
    BY <1>2, <2>1, <2>2, <2>4
<1>4. ASSUME NEW p \in Actors, Clearing(p) \/ Advancing(p) PROVE PlanFits(call'[q]) /\ ErasesGone(log', call'[q])
  <2>1. SamePhase(call[p], call'[p]) /\ \A r \in Actors \ {p} : call'[r] = call[r]
    BY <1>4, KindFacts
  <2>2. ErasesGone(log', call[p]) /\ PlanFits(call[p])
    BY ErasesGoneStays DEF PlansFit
  <2>3. PlanFits(call'[p]) /\ ErasesGone(log', call'[p])
    BY <2>1, <2>2 DEF PlanFits, ErasesGone, SamePhase, NextOf
  <2> QED
    BY <1>2, <2>1, <2>3
<1>6. ASSUME NEW p \in Actors, DropFile(p) PROVE call' = call
  BY <1>6 DEF DropFile
<1>7. ASSUME NEW c \in children, Child(c) PROVE call' = call
  BY <1>7 DEF Child, CreateTables, ChildFails, CommitRows
<1> QED
  BY <1>1, <1>2, <1>3, <1>4, <1>6, <1>7, Kinds

LEMMA ObjectsFrame ==
  ASSUME LockTyped, Next
  PROVE  UNCHANGED objects \/ \E p \in Actors : Reconcile(p) \/ Write(p) \/ Erase(p)
<1>1. ASSUME NEW p \in Actors, Restarting(p) PROVE UNCHANGED objects \/ Reconcile(p) \/ Write(p) \/ Erase(p)
  BY <1>1 DEF Restarting, BeginOf, Begin, Commit, CommitThrows, CommitRefused, ClearEnd, LockBusy,
     BodyVanished, Survey, DraftFails, ProjectEnd, Reap, ReindexEnd, Die, ledger
<1>2. ASSUME NEW p \in Actors, Clearing(p) \/ Advancing(p) \/ DropFile(p) PROVE UNCHANGED objects
  BY <1>2 DEF Clearing, Advancing, TakeClear, ClearBusy, DropIndex, DropEnd, TakeLock, ReadEvents, CheckBody, FetchBody,
     Draft, Rename, RemoveOld, Spawn, Reap, Query, DropFile, ledger
<1>3. ASSUME NEW c \in children, Child(c) PROVE UNCHANGED objects
  BY <1>3 DEF Child, CreateTables, ChildFails, CommitRows, ledger
<1> QED
  BY <1>1, <1>2, <1>3, Kinds

LEMMA BodiesThereNext ==
  ASSUME Base, PlansFit, BodiesThere, Next
  PROVE  BodiesThere'
<1>1. /\ LockTyped /\ log \in Seq(EventType) /\ Len(log) \in Nat
      /\ \A q \in Actors : call[q] \in CallType /\ Phase(q) = First(call[q])
  BY ActsFacts DEF Base, Typed, CallTyped, LogTyped
<1> SUFFICES ASSUME NEW e \in Entities, ~GoneIn(log', e, Len(log')), NEW k \in 1..RevIn(log', e, Len(log'))
             PROVE  <<e, k>> \in objects'
  BY DEF BodiesThere
<1>2. ~GoneIn(log, e, Len(log))
  BY <1>1, LogKept
<1>3. ASSUME NEW p \in Actors, Write(p) PROVE <<e, k>> \in objects'
  <2>1. PICK t \in NextTarget(p) :
          LET x == [of |-> t.of, tombstone |-> call[p].op # "change"] IN
          /\ t \in call[p].targets /\ x \in EventType /\ t.of \in Entities /\ Current(p, t)
          /\ log' = Append(log, x) /\ Len(log') = Len(log) + 1
          /\ objects' = IF call[p].op = "change" THEN objects \cup {<<t.of, t.rev + 1>>} ELSE objects
    BY <1>3, LogStep
  <2> DEFINE x == [of |-> t.of, tombstone |-> call[p].op # "change"]
  <2>2. x \in EventType /\ x.of = t.of /\ log' = Append(log, x) /\ Len(log') = Len(log) + 1
    BY <2>1
  <2>3. x.tombstone <=> call[p].op # "change"
    OBVIOUS
  <2> HIDE DEF x
  <2>4. /\ RevIn(log', e, Len(log')) = RevIn(log, e, Len(log)) + (IF t.of = e THEN 1 ELSE 0)
        /\ GoneIn(log', e, Len(log')) <=> GoneIn(log, e, Len(log)) \/ (t.of = e /\ call[p].op # "change")
    BY <1>1, <2>2, <2>3, LogEnds
  <2>5. RevIn(log, e, Len(log)) \in Nat
    BY <1>1, RevisionBounds
  <2>6. objects \subseteq objects'
    BY <2>1
  <2>7. CASE k \in 1..RevIn(log, e, Len(log))
    BY <1>2, <2>6, <2>7 DEF BodiesThere
  <2>8. CASE k \notin 1..RevIn(log, e, Len(log))
    <3>1. t.of = e /\ k = RevIn(log, e, Len(log)) + 1
      BY <2>4, <2>5, <2>8
    <3>2. call[p].op = "change"
      BY <2>4, <3>1
    <3>3. t.rev = RevIn(log, e, Len(log))
      BY <2>1, <3>1, LedgerRead DEF Current, Now
    <3> QED
      BY <2>1, <3>1, <3>2, <3>3
  <2> QED
    BY <2>7, <2>8
<1>4. ASSUME \A p \in Actors : ~Write(p), <<e, k>> \in objects => <<e, k>> \in objects' PROVE <<e, k>> \in objects'
  <2>1. log' = log
    BY <1>1, <1>4, LogFrame
  <2> QED
    BY <1>2, <1>4, <2>1 DEF BodiesThere
<1>5. ASSUME NEW p \in Actors, Reconcile(p), <<e, k>> \in objects PROVE <<e, k>> \in objects'
  <2>1. objects' = {b \in objects : ~Gone(b[1], Now)}
    BY <1>5 DEF Reconcile
  <2>2. ~Gone(e, Now)
    BY <1>2, LedgerRead DEF Now
  <2> QED
    BY <1>5, <2>1, <2>2
<1>6. ASSUME NEW p \in Actors, Erase(p), <<e, k>> \in objects PROVE <<e, k>> \in objects'
  <2>1. PICK t \in NextTarget(p) : Phase(p) = "erase" /\ objects' = {b \in objects : b[1] # t.of}
    BY <1>6 DEF Erase
  <2>2. GoneIn(log, t.of, Len(log))
    <3>1. t \in NextOf(call[p])
      BY <2>1 DEF NextOf, NextTarget
    <3> QED
      BY <1>1, <2>1, <3>1 DEF PlansFit, ErasesGone
  <2> QED
    BY <1>2, <1>6, <2>1, <2>2
<1> QED
  BY <1>1, <1>3, <1>4, <1>5, <1>6, ObjectsFrame

-----------------------------------------------------------------------------
(* What is shown as erased is gone                                          *)

LEMMA ReadFields ==
  ASSUME Base, NEW p \in Actors
  PROVE  LET c == call[p]
             d == call'[p]
             same == d.view = c.view /\ d.recs = c.recs /\ d.todo = c.todo
         IN /\ TakeLock(p) => same /\ c.at = "start" /\ d.at = "read"
            /\ ReadEvents(p) => d.at = "bodies" /\ d.view = Now /\ d.files = FilesOf(Now)
                 /\ d.recs = {Record(e, Now, "deleted") : e \in {x \in Known(Now) : Gone(x, Now)}}
            /\ CheckBody(p) => \E e \in NextRead(p) : c.at = "bodies" /\ d.view = c.view /\ d.files = c.files
                 /\ \/ same /\ d.at = "fetch"
                    \/ BodyOf(p, e) \notin objects /\ d.recs = c.recs \cup {Record(e, c.view, "erased")}
                         /\ d.todo = c.todo \ {e} /\ d.at = "bodies"
            /\ FetchBody(p) => \E e \in NextRead(p) : c.at = "fetch" /\ d.view = c.view /\ d.files = c.files
                 /\ d.recs = c.recs \cup {Record(e, c.view, "present")} /\ d.todo = c.todo \ {e} /\ d.at = "bodies"
            /\ Draft(p) => same /\ d.files = c.files /\ c.at = "bodies" /\ d.at = "drafted"
            /\ Rename(p) => same /\ c.at = "drafted" /\ d.at = "bodies"
                 /\ \E f \in NextFile(p) : d.files = c.files \ {f}
                      /\ docs' = [g \in DOMAIN docs \cup {f} |-> IF g = f THEN Drafted(p, f) ELSE docs[g]]
            /\ RemoveOld(p) => same /\ c.at = "bodies" /\ d.at = "spawn"
            /\ Spawn(p) => same /\ c.at = "spawn" /\ d.at = "wait"
            /\ Reap(p) /\ d.at = "built" => same /\ c.at = "wait"
            /\ Query(p) => same /\ c.at = "built" /\ d.at = "answered" /\ d.hits = index.rows
<1>1. CallTyped /\ call[p] \in CallType
  BY ActsFacts DEF Base, Typed
<1>2. ASSUME NEW x, call' = [call EXCEPT ![p].at = x]
      PROVE  /\ call'[p].view = call[p].view /\ call'[p].recs = call[p].recs /\ call'[p].todo = call[p].todo
             /\ call'[p].at = x /\ call'[p].files = call[p].files
  BY <1>1, <1>2 DEF CallTyped, CallType
<1>3. ASSUME ReadEvents(p)
      PROVE  /\ call'[p].at = "bodies" /\ call'[p].view = Now /\ call'[p].files = FilesOf(Now)
             /\ call'[p].recs = {Record(e, Now, "deleted") : e \in {x \in Known(Now) : Gone(x, Now)}}
  BY <1>1, <1>3 DEF ReadEvents, CallTyped, CallType
<1>4. ASSUME CheckBody(p)
      PROVE  \E e \in NextRead(p) : call[p].at = "bodies" /\ call'[p].view = call[p].view /\ call'[p].files = call[p].files
               /\ \/ call'[p].recs = call[p].recs /\ call'[p].todo = call[p].todo /\ call'[p].at = "fetch"
                  \/ BodyOf(p, e) \notin objects /\ call'[p].recs = call[p].recs \cup {Record(e, call[p].view, "erased")}
                       /\ call'[p].todo = call[p].todo \ {e} /\ call'[p].at = "bodies"
  <2>1. PICK e \in NextRead(p) : call[p].at = "bodies" /\ call' = [call EXCEPT ![p] =
          IF BodyOf(p, e) \in objects THEN [@ EXCEPT !.at = "fetch"]
          ELSE [@ EXCEPT !.recs = call[p].recs \cup {Record(e, call[p].view, "erased")},
                         !.todo = call[p].todo \ {e}]]
    BY <1>4 DEF CheckBody
  <2>2. CASE BodyOf(p, e) \in objects
    BY <1>2, <2>1, <2>2
  <2>3. CASE BodyOf(p, e) \notin objects
    <3>1. /\ call'[p].recs = call[p].recs \cup {Record(e, call[p].view, "erased")} /\ call'[p].todo = call[p].todo \ {e}
          /\ call'[p].view = call[p].view /\ call'[p].files = call[p].files /\ call'[p].at = "bodies"
      BY <1>1, <2>1, <2>3 DEF CallTyped, CallType
    <3> QED
      BY <2>1, <2>3, <3>1
  <2> QED
    BY <2>2, <2>3
<1>5. ASSUME FetchBody(p)
      PROVE  \E e \in NextRead(p) : call[p].at = "fetch" /\ call'[p].view = call[p].view /\ call'[p].files = call[p].files
               /\ call'[p].recs = call[p].recs \cup {Record(e, call[p].view, "present")}
               /\ call'[p].todo = call[p].todo \ {e} /\ call'[p].at = "bodies"
  <2>1. PICK e \in NextRead(p) : call[p].at = "fetch" /\ call' = [call EXCEPT ![p].at = "bodies", ![p].todo = @ \ {e},
                     ![p].recs = @ \cup {Record(e, call[p].view, "present")}]
    BY <1>5 DEF FetchBody
  <2>2. /\ call'[p].view = call[p].view /\ call'[p].files = call[p].files
        /\ call'[p].recs = call[p].recs \cup {Record(e, call[p].view, "present")}
        /\ call'[p].todo = call[p].todo \ {e} /\ call'[p].at = "bodies"
    BY <1>1, <2>1 DEF CallTyped, CallType
  <2> QED
    BY <2>1, <2>2
<1>6. ASSUME Rename(p)
      PROVE  /\ call'[p].view = call[p].view /\ call'[p].recs = call[p].recs /\ call'[p].todo = call[p].todo
             /\ call[p].at = "drafted" /\ call'[p].at = "bodies"
             /\ \E f \in NextFile(p) : call'[p].files = call[p].files \ {f}
                  /\ docs' = [g \in DOMAIN docs \cup {f} |-> IF g = f THEN Drafted(p, f) ELSE docs[g]]
  <2>1. PICK f \in NextFile(p) : /\ call[p].at = "drafted" /\ call' = [call EXCEPT ![p].at = "bodies", ![p].files = @ \ {f}]
          /\ docs' = [g \in DOMAIN docs \cup {f} |-> IF g = f THEN Drafted(p, f) ELSE docs[g]]
    BY <1>6 DEF Rename
  <2>2. /\ call'[p].view = call[p].view /\ call'[p].recs = call[p].recs /\ call'[p].todo = call[p].todo
        /\ call'[p].at = "bodies" /\ call'[p].files = call[p].files \ {f}
    BY <1>1, <2>1 DEF CallTyped, CallType
  <2> QED
    BY <2>1, <2>2
<1>7. ASSUME Reap(p), call'[p].at = "built"
      PROVE  call'[p].view = call[p].view /\ call'[p].recs = call[p].recs /\ call'[p].todo = call[p].todo /\ call[p].at = "wait"
  <2>1. call' # [call EXCEPT ![p] = Idle]
    BY <1>1, <1>7 DEF CallTyped, Idle
  <2> QED
    BY <1>2, <1>7, <2>1 DEF Reap, Throw
<1>8. ASSUME Query(p)
      PROVE  /\ call'[p].view = call[p].view /\ call'[p].recs = call[p].recs /\ call'[p].todo = call[p].todo
             /\ call[p].at = "built" /\ call'[p].at = "answered" /\ call'[p].hits = index.rows
  BY <1>1, <1>8 DEF CallTyped, CallType, Query
<1>9. TakeLock(p) \/ Draft(p) \/ RemoveOld(p) \/ Spawn(p) =>
        call'[p].view = call[p].view /\ call'[p].recs = call[p].recs /\ call'[p].todo = call[p].todo
  BY <1>2 DEF TakeLock, Draft, RemoveOld, Spawn
<1>10. TakeLock(p) => call[p].at = "start" /\ call'[p].at = "read"
  BY <1>2 DEF TakeLock
<1>11. Draft(p) => call'[p].files = call[p].files /\ call[p].at = "bodies" /\ call'[p].at = "drafted"
  BY <1>2 DEF Draft, Replayed
<1>12. RemoveOld(p) => call[p].at = "bodies" /\ call'[p].at = "spawn"
  BY <1>2 DEF RemoveOld, Replayed
<1>13. Spawn(p) => call[p].at = "spawn" /\ call'[p].at = "wait"
  BY <1>2 DEF Spawn
<1> QED
  BY <1>3, <1>4, <1>5, <1>6, <1>7, <1>8, <1>9, <1>10, <1>11, <1>12, <1>13

ErasedGone(l, R) == \A r \in R : r.body = "erased" => GoneIn(l, r.of, Len(l))
ErasedAreGone ==
  /\ \A p \in Actors : ErasedGone(log, call[p].recs)
  /\ \A f \in DOMAIN docs : ErasedGone(log, docs[f])
  /\ ErasedGone(log, index.rows)
  /\ \A c \in children : ErasedGone(log, c.rows)

LEMMA MissingIsGone ==
  ASSUME Base, AllFaithful, BodiesThere, NEW p \in Actors, NEW e \in NextRead(p), call[p].at \in Reading,
         BodyOf(p, e) \notin objects
  PROVE  GoneIn(log, e, Len(log))
<1>1. /\ log \in Seq(EventType) /\ Len(log) \in Nat /\ call[p] \in CallType
      /\ e \in call[p].todo /\ e \in Entities /\ call[p].view \in Nat
  BY DEF Base, Typed, CallTyped, LogTyped, NextRead, CallType
<1>2. call[p].view \in 0..Len(log) /\ e \in KnownIn(log, call[p].view)
  BY <1>1 DEF AllFaithful, Faithful
<1>3. RevIn(log, e, call[p].view) >= 1 /\ RevIn(log, e, call[p].view) \in Nat
  BY <1>1, <1>2, RevisionBounds
<1>4. RevIn(log, e, call[p].view) <= RevIn(log, e, Len(log)) /\ RevIn(log, e, Len(log)) \in Nat
  BY <1>1, <1>2, RevisionBounds
<1>5. RevIn(log, e, call[p].view) \in 1..RevIn(log, e, Len(log))
  BY <1>3, <1>4
<1>6. BodyOf(p, e) = <<e, RevIn(log, e, call[p].view)>>
  BY LedgerRead DEF BodyOf
<1> QED
  BY <1>1, <1>5, <1>6 DEF BodiesThere

LEMMA ErasedRead ==
  ASSUME Base, AllFaithful, BodiesThere, NEW p \in Actors, Advancing(p), ErasedGone(log, call[p].recs)
  PROVE  ErasedGone(log, call'[p].recs)
<1>1. CASE call'[p].recs = call[p].recs
  BY <1>1
<1>2. CASE ReadEvents(p)
  <2>1. call'[p].recs = {Record(e, Now, "deleted") : e \in {x \in Known(Now) : Gone(x, Now)}}
    BY <1>2, ReadFields
  <2>2. \A r \in call'[p].recs : r.body = "deleted"
    BY <2>1 DEF Record
  <2> QED
    BY <2>2 DEF ErasedGone
<1>3. CASE FetchBody(p)
  <2>1. PICK e : call'[p].recs = call[p].recs \cup {Record(e, call[p].view, "present")}
    BY <1>3, ReadFields
  <2>2. Record(e, call[p].view, "present").body = "present"
    BY DEF Record
  <2> QED
    BY <2>1, <2>2 DEF ErasedGone
<1>4. CASE CheckBody(p)
  <2>1. PICK e \in NextRead(p) : call[p].at = "bodies" /\
                 \/ call'[p].recs = call[p].recs
                 \/ BodyOf(p, e) \notin objects /\ call'[p].recs = call[p].recs \cup {Record(e, call[p].view, "erased")}
    BY <1>4, ReadFields
  <2>2. ASSUME BodyOf(p, e) \notin objects PROVE GoneIn(log, e, Len(log))
    BY <2>1, <2>2, MissingIsGone DEF Reading
  <2>3. Record(e, call[p].view, "erased").of = e
    BY DEF Record
  <2> QED
    BY <2>1, <2>2, <2>3 DEF ErasedGone
<1> QED
  BY <1>1, <1>2, <1>3, <1>4, ReadFields DEF Advancing

LEMMA ErasedAreGoneNext ==
  ASSUME Base, AllFaithful, BodiesThere, ErasedAreGone, Next, ~Orphans
  PROVE  ErasedAreGone'
<1>1. /\ LockTyped /\ Len(log) \in 0..Len(log) /\ \A q \in Actors : call[q] \in CallType /\ Sane(call[q])
      /\ index \in [by : {<<>>} \cup (Actors \X Nat), rows : SUBSET RecordType]
      /\ \A c \in children : c \in ChildType /\ c.parent \in Actors
  BY ActsFacts DEF Base, Typed, CallsSane, CallTyped, LogTyped, IndexTyped, ChildType
<1>2. ASSUME NEW R, ErasedGone(log, R) PROVE ErasedGone(log', R)
  <2>1. \A e : GoneIn(log, e, Len(log)) => GoneIn(log', e, Len(log'))
    BY <1>1, LogKept
  <2> QED
    BY <1>2, <2>1 DEF ErasedGone
<1>3. ErasedGone(log', {})
  BY DEF ErasedGone
<1>4. ASSUME NEW q \in Actors PROVE ErasedGone(log', call'[q].recs)
  <2>1. ASSUME call'[q] = call[q] PROVE ErasedGone(log', call'[q].recs)
    BY <1>2, <2>1 DEF ErasedAreGone
  <2>2. ASSUME NEW p \in Actors, Restarting(p) PROVE ErasedGone(log', call'[q].recs)
    <3>1. Fresh(call'[p]) /\ \A r \in Actors \ {p} : call'[r] = call[r]
      BY <2>2, KindFacts
    <3> QED
      BY <1>3, <2>1, <3>1 DEF Fresh
  <2>3. ASSUME NEW p \in Actors, Clearing(p) PROVE ErasedGone(log', call'[q].recs)
    <3>1. call'[p].recs = call[p].recs /\ \A r \in Actors \ {p} : call'[r] = call[r]
      BY <2>3, KindFacts
    <3> QED
      BY <1>2, <3>1 DEF ErasedAreGone
  <2>4. ASSUME NEW p \in Actors, Advancing(p) PROVE ErasedGone(log', call'[q].recs)
    <3>1. \A r \in Actors \ {p} : call'[r] = call[r]
      BY <2>4, KindFacts
    <3>2. ErasedGone(log, call'[p].recs)
      BY <2>4, ErasedRead DEF ErasedAreGone
    <3> QED
      BY <1>2, <2>1, <3>1, <3>2
  <2>5. ASSUME NEW p \in Actors, DropFile(p) PROVE call' = call
    BY <2>5 DEF DropFile
  <2>6. ASSUME NEW c \in children, Child(c) PROVE call' = call
    BY <2>6 DEF Child, CreateTables, ChildFails, CommitRows
  <2> QED
    BY <1>1, <2>1, <2>2, <2>3, <2>4, <2>5, <2>6, Kinds
<1>5. \A f \in DOMAIN docs' : ErasedGone(log', docs'[f])
  <2>1. CASE UNCHANGED docs
    BY <1>2, <2>1 DEF ErasedAreGone
  <2>2. ASSUME NEW p \in Actors, DropFile(p) PROVE \A f \in DOMAIN docs' : ErasedGone(log', docs'[f])
    <3>1. PICK f : docs' = docs \/ docs' = [g \in DOMAIN docs \ {f} |-> docs[g]]
      BY <2>2 DEF DropFile
    <3> QED
      BY <1>2, <3>1 DEF ErasedAreGone
  <2>3. ASSUME NEW p \in Actors, Rename(p) PROVE \A f \in DOMAIN docs' : ErasedGone(log', docs'[f])
    <3>1. PICK f \in NextFile(p) : docs' = [g \in DOMAIN docs \cup {f} |-> IF g = f THEN Drafted(p, f) ELSE docs[g]]
      BY <2>3 DEF Rename
    <3>2. ErasedGone(log', Drafted(p, f))
      <4>1. ErasedGone(log', call[p].recs) /\ Drafted(p, f) \subseteq call[p].recs
        BY <1>2 DEF ErasedAreGone, Drafted, Content
      <4> QED
        BY <4>1 DEF ErasedGone
    <3> QED
      BY <1>2, <3>1, <3>2 DEF ErasedAreGone
  <2>4. ASSUME NEW p \in Actors, DraftFails(p) \/ Die(p) PROVE docs' = docs
    BY <2>4 DEF DraftFails, Die
  <2> QED
    BY <1>1, <2>1, <2>2, <2>3, <2>4, DocsFrame
<1>6. ErasedGone(log', index'.rows) /\ \A c \in children' : ErasedGone(log', c.rows)
  <2>1. ErasedGone(log', index.rows) /\ \A c \in children : ErasedGone(log', c.rows)
    BY <1>2 DEF ErasedAreGone
  <2>2. CASE UNCHANGED <<index, children>>
    BY <2>1, <2>2
  <2>3. ASSUME NEW p \in Actors, DropIndex(p) \/ RemoveOld(p) PROVE index'.rows = {} /\ children' = children
    BY <2>3 DEF DropIndex, RemoveOld, NoIndex
  <2>4. ASSUME NEW p \in Actors, Spawn(p) PROVE index' = index /\ \A c \in children' : c \in children \/ c.rows = call[p].recs
    BY <2>4 DEF Spawn
  <2>5. ASSUME NEW p \in Actors PROVE ErasedGone(log', call[p].recs)
    BY <1>2 DEF ErasedAreGone
  <2>6. ASSUME NEW p \in Actors, Reap(p) \/ Die(p) PROVE index' = index /\ children' \subseteq children
    BY <2>6 DEF Reap, Die
  <2>7. ASSUME NEW c \in children, Child(c)
        PROVE  index'.rows \in {{}, index.rows, c.rows} /\ \A d \in children' : d \in children \/ d.rows = c.rows
    <3>1. PICK s : Became(c, s)
      BY <2>7 DEF Child, CreateTables, ChildFails, CommitRows
    <3>2. \A d \in children' : d \in children \/ d.rows = c.rows
      BY <1>1, <3>1 DEF Became, ChildType
    <3> QED
      BY <1>1, <2>7, <3>2 DEF Child, CreateTables, ChildFails, CommitRows
  <2>8. CASE \E p \in Actors : DropIndex(p) \/ RemoveOld(p) \/ Spawn(p) \/ Reap(p) \/ Die(p)
    BY <1>3, <2>1, <2>3, <2>4, <2>5, <2>6, <2>8
  <2>9. CASE \E c \in children : Child(c)
    BY <1>3, <2>1, <2>7, <2>9
  <2> QED
    BY <1>1, <2>2, <2>8, <2>9, IndexFrame
<1> QED
  BY <1>4, <1>5, <1>6 DEF ErasedAreGone

-----------------------------------------------------------------------------
(* The projections: only the holder of their lock writes them               *)

DocsShow(l, d, n) ==
  \A f \in DOMAIN d : \A e \in KnownIn(l, n) :
    f[1] \in {0, e} => \E r \in d[f] : r.of = e /\ r.rev >= RevIn(l, e, n)
Projecting(c) == First(c) = "project" /\ c.at \in Reading
\* The files a projection has still to write, and what those it has written show.
Written(l, c, d) ==
  \A f \in DOMAIN d : f[1] \in {0} \cup KnownIn(l, c.view) =>
    f \in c.files \/ (c.todo = {} /\ d[f] = Content(f, c.recs))
DocsCurrent ==
  /\ shown <= Len(log) /\ DocsShow(log, docs, shown)
  /\ \A p \in Actors : Projecting(call[p]) => shown <= call[p].view /\ Written(log, call[p], docs)

LEMMA OneProjector ==
  ASSUME LocksHeld, NEW p \in Actors, Uses(call[p], "docs"), NEW q \in Actors, Projecting(call[q])
  PROVE  q = p
<1>1. Uses(call[q], "docs")
  BY DEF Projecting, Uses, Reading
<1> QED
  BY <1>1 DEF LocksHeld, LockName

LEMMA WrittenStays ==
  ASSUME Base, Next, AllFaithful, NEW p \in Actors, Projecting(call[p]), NEW d, Written(log, call[p], d)
  PROVE  Written(log', call[p], d)
<1>1. call[p].view \in 0..Len(log)
  BY DEF AllFaithful, Faithful, Projecting, Base, Typed, CallTyped, CallType, LogTyped
<1>2. KnownIn(log', call[p].view) = KnownIn(log, call[p].view)
  BY <1>1, LogKept
<1> QED
  BY <1>2 DEF Written

LEMMA DocsShowStays ==
  ASSUME Base, Next, NEW n \in 0..Len(log), NEW d, DocsShow(log, d, n)
  PROVE  DocsShow(log', d, n)
<1>1. KnownIn(log', n) = KnownIn(log, n) /\ \A e : RevIn(log', e, n) = RevIn(log, e, n)
  BY LogKept
<1> QED
  BY <1>1 DEF DocsShow

\* A finished replay shows every event of its view and of every earlier one.
LEMMA ContentShows ==
  ASSUME Base, AllFaithful, NEW p \in Actors, call[p].at \in Reading, call[p].todo = {},
         NEW n \in Nat, n <= call[p].view, NEW f, NEW e \in KnownIn(log, n), f[1] \in {0, e}
  PROVE  \E r \in Content(f, call[p].recs) : r.of = e /\ r.rev >= RevIn(log, e, n)
<1>1. /\ log \in Seq(EventType) /\ call[p] \in CallType /\ call[p].view \in Nat
      /\ n \in 0..call[p].view
  BY DEF Base, Typed, LogTyped, CallTyped, CallType
<1>2. e \in KnownIn(log, call[p].view)
  BY <1>1, GoneStays
<1>3. PICK r \in call[p].recs : r.of = e /\ r.rev = RevIn(log, e, call[p].view)
  BY <1>2 DEF AllFaithful, Faithful, ShowsAt
<1>4. RevIn(log, e, n) <= RevIn(log, e, call[p].view) /\ RevIn(log, e, n) \in Nat /\ RevIn(log, e, call[p].view) \in Nat
  BY <1>1, RevisionBounds
<1>5. r \in Content(f, call[p].recs)
  BY <1>3 DEF Content
<1> QED
  BY <1>3, <1>4, <1>5

\* A replay goes on writing what it was writing.
LEMMA WrittenRead ==
  ASSUME Base, LocksHeld, AllFaithful, DocsCurrent, NEW p \in Actors, Advancing(p), Projecting(call'[p]),
         UNCHANGED <<log, shown>>, Rename(p) \/ UNCHANGED docs
  PROVE  shown <= call'[p].view /\ Written(log, call'[p], docs')
<1>1. /\ call[p] \in CallType /\ Sane(call[p]) /\ First(call[p]) = "project" /\ FilesTyped /\ Len(log) = Now
      /\ Phase(p) = First(call[p])
  BY KindFacts, ActsFacts DEF SamePhase, Projecting, Base, Typed, Now
<1>2. CASE ReadEvents(p)
  <2>1. call'[p].view = Now /\ call'[p].files = FilesOf(Now) /\ docs' = docs
    BY <1>2, ReadFields DEF ReadEvents, derived
  <2>2. ASSUME NEW f \in DOMAIN docs, f[1] \in {0} \cup KnownIn(log, Now) PROVE f \in FilesOf(Now)
    <3>1. f \in FileType
      BY <1>1 DEF FilesTyped
    <3> QED
      BY <2>2, <3>1, LedgerRead DEF FilesOf, FileType
  <2> QED
    BY <1>1, <2>1, <2>2 DEF Written, DocsCurrent
<1>3. ASSUME call[p].at \in Reading, ~ReadEvents(p) PROVE shown <= call'[p].view /\ Written(log, call'[p], docs')
  <2>1. shown <= call[p].view /\ Written(log, call[p], docs)
    BY <1>1, <1>3 DEF DocsCurrent, Projecting
  <2>2. CASE Rename(p)
    <3>1. PICK f \in NextFile(p) :
            /\ call'[p].files = call[p].files \ {f} /\ call[p].at = "drafted"
            /\ call'[p].view = call[p].view /\ call'[p].recs = call[p].recs /\ call'[p].todo = call[p].todo
            /\ docs' = [g \in DOMAIN docs \cup {f} |-> IF g = f THEN Drafted(p, f) ELSE docs[g]]
      BY <2>2, ReadFields
    <3>2. call[p].todo = {}
      BY <1>1, <3>1 DEF Sane
    <3>3. docs'[f] = Content(f, call[p].recs)
      BY <3>1 DEF Drafted
    <3>4. \A g \in DOMAIN docs' \ {f} : g \in DOMAIN docs /\ docs'[g] = docs[g]
      BY <3>1
    <3> QED
      BY <2>1, <3>1, <3>2, <3>3, <3>4 DEF Written
  <2>3. CASE (CheckBody(p) \/ FetchBody(p)) /\ docs' = docs
    <3>1. PICK e \in NextRead(p) : call'[p].view = call[p].view /\ call'[p].files = call[p].files
      BY <2>3, ReadFields
    <3>2. call[p].todo # {}
      BY <3>1 DEF NextRead
    <3> QED
      BY <2>1, <2>3, <3>1, <3>2 DEF Written
  <2>4. CASE Draft(p) /\ docs' = docs
    BY <2>1, <2>4, ReadFields DEF Written
  <2>5. ~(TakeLock(p) \/ RemoveOld(p) \/ Spawn(p) \/ (Reap(p) /\ call'[p].at = "built") \/ Query(p))
    <3>1. ~TakeLock(p)
      BY <1>3 DEF TakeLock, Reading
    <3>2. ~RemoveOld(p)
      BY <1>1 DEF RemoveOld
    <3>3. call[p].at \notin Building
      BY <1>1 DEF Sane
    <3> QED
      BY <3>1, <3>2, <3>3 DEF Building, Spawn, Reap, Query
  <2> QED
    BY <1>3, <2>2, <2>3, <2>4, <2>5 DEF Advancing
<1>4. ASSUME call[p].at \notin Reading PROVE ReadEvents(p)
  <2>1. call'[p].at \in Reading
    BY DEF Projecting
  <2>2. ~TakeLock(p)
    BY <2>1, ReadFields DEF Reading
  <2>3. ~(CheckBody(p) \/ FetchBody(p) \/ Draft(p) \/ Rename(p) \/ RemoveOld(p) \/ Spawn(p) \/ Reap(p) \/ Query(p))
    BY <1>4 DEF CheckBody, FetchBody, Draft, Replayed, Rename, RemoveOld, Spawn, Reap, Query, Reading
  <2> QED
    BY <2>2, <2>3 DEF Advancing
<1> QED
  BY <1>2, <1>3, <1>4

LEMMA DocsCurrentNext ==
  ASSUME Base, LocksHeld, AllFaithful, DocsCurrent, Next
  PROVE  DocsCurrent'
<1>1. /\ LockTyped /\ log \in Seq(EventType) /\ Len(log) \in Nat /\ Len(log') \in Nat /\ Len(log) <= Len(log')
      /\ shown \in Nat /\ shown \in 0..Len(log)
      /\ \A q \in Actors : call[q] \in CallType /\ Sane(call[q]) /\ Phase(q) = First(call[q])
  BY ActsFacts, LogTypedNext DEF Base, Typed, CallTyped, LogTyped, DocsCurrent
<1> DEFINE Fits(q) == Projecting(call'[q]) => shown' <= call'[q].view /\ Written(log', call'[q], docs')
<1>2. ASSUME NEW q \in Actors, call'[q] = call[q], UNCHANGED <<docs, shown>> PROVE Fits(q)
  BY <1>2, WrittenStays DEF DocsCurrent
<1>3. ASSUME UNCHANGED <<docs, shown>> PROVE shown' <= Len(log') /\ DocsShow(log', docs', shown')
  BY <1>1, <1>3, DocsShowStays DEF DocsCurrent
<1>4. ASSUME NEW p \in Actors, ProjectEnd(p) PROVE DocsCurrent'
  <2>1. /\ First(call[p]) = "project" /\ call[p].at = "bodies" /\ call[p].todo = {} /\ call[p].files = {}
        /\ shown' = (IF call[p].since > shown THEN call[p].since ELSE shown) /\ docs' = docs /\ log' = log
    BY <1>1, <1>4 DEF ProjectEnd, Replayed, ledger
  <2>2. Fresh(call'[p]) /\ \A q \in Actors \ {p} : call'[q] = call[q]
    BY <1>4, KindFacts DEF Restarting
  <2>3. Projecting(call[p]) /\ Uses(call[p], "docs")
    BY <2>1 DEF Projecting, Reading, Uses
  <2>4. ASSUME NEW q \in Actors, Projecting(call'[q]) PROVE FALSE
    <3>1. q # p
      BY <2>2, <2>4 DEF Projecting, Fresh, Reading
    <3>2. Projecting(call[q])
      BY <2>2, <2>4, <3>1
    <3> QED
      BY <2>3, <3>1, <3>2, OneProjector
  <2>5. CASE call[p].since > shown
    <3>1. call[p].since \in 0..Len(log) /\ call[p].since \in Nat /\ call[p].since <= call[p].view
      BY <1>1, <2>3 DEF Base, SinceBounded, CallType, AllFaithful, Faithful, Projecting
    <3>2. ASSUME NEW f \in DOMAIN docs, NEW e \in KnownIn(log, call[p].since), f[1] \in {0, e}
          PROVE  \E r \in docs[f] : r.of = e /\ r.rev >= RevIn(log, e, call[p].since)
      <4>1. call[p].view \in Nat /\ call[p].since \in 0..call[p].view
        BY <1>1, <3>1 DEF CallType
      <4>2. e \in KnownIn(log, call[p].view)
        BY <4>1, GoneStays
      <4>3. docs[f] = Content(f, call[p].recs)
        BY <2>1, <2>3, <3>2, <4>2 DEF DocsCurrent, Written
      <4> QED
        BY <2>1, <2>3, <3>1, <3>2, <4>3, ContentShows DEF Projecting
    <3>3. DocsShow(log, docs, call[p].since)
      BY <3>2 DEF DocsShow
    <3> QED
      BY <1>1, <2>1, <2>4, <2>5, <3>1, <3>3 DEF DocsCurrent
  <2>6. CASE ~(call[p].since > shown)
    BY <1>3, <2>1, <2>4, <2>6 DEF DocsCurrent
  <2> QED
    BY <2>5, <2>6
<1>5. ASSUME NEW p \in Actors, Restarting(p), ~ProjectEnd(p) PROVE DocsCurrent'
  <2>1. UNCHANGED <<docs, shown>>
    BY <1>5 DEF Restarting, BeginOf, Begin, Reconcile, Commit, CommitThrows, CommitRefused, Erase, ClearEnd, LockBusy,
     BodyVanished, Survey, DraftFails, Reap, ReindexEnd, Die, derived
  <2>2. Fresh(call'[p]) /\ \A q \in Actors \ {p} : call'[q] = call[q]
    BY <1>5, KindFacts
  <2>3. \A q \in Actors : Fits(q)
    BY <1>2, <2>1, <2>2 DEF Fresh, Projecting, Reading
  <2> QED
    BY <1>3, <2>1, <2>3 DEF DocsCurrent
<1>6. ASSUME NEW p \in Actors, Clearing(p) PROVE DocsCurrent'
  <2>1. UNCHANGED <<docs, shown>>
    BY <1>6 DEF Clearing, TakeClear, ClearBusy, DropIndex, DropEnd, derived
  <2>2. First(call'[p]) = "clear" /\ \A q \in Actors \ {p} : call'[q] = call[q]
    BY <1>6, KindFacts DEF SamePhase
  <2>3. \A q \in Actors : Fits(q)
    BY <1>2, <2>1, <2>2 DEF Projecting
  <2> QED
    BY <1>3, <2>1, <2>3 DEF DocsCurrent
<1>7. ASSUME NEW p \in Actors, Advancing(p) PROVE DocsCurrent'
  <2>1. UNCHANGED shown /\ (Rename(p) \/ UNCHANGED docs)
    BY <1>7 DEF Advancing, TakeLock, ReadEvents, CheckBody, FetchBody, Draft, Rename, RemoveOld, Spawn, Reap, Query, derived
  <2>2. log' = log /\ \A q \in Actors \ {p} : call'[q] = call[q]
    BY <1>7, KindFacts
  <2>3. Fits(p)
    BY <1>7, <2>1, <2>2, WrittenRead
  <2>4. CASE UNCHANGED docs
    <3>1. \A q \in Actors : Fits(q)
      BY <1>2, <2>1, <2>2, <2>3, <2>4
    <3> QED
      BY <1>3, <2>1, <2>4, <3>1 DEF DocsCurrent
  <2>5. CASE Rename(p)
    <3>1. PICK f \in NextFile(p) : /\ call[p].at = "drafted"
            /\ docs' = [g \in DOMAIN docs \cup {f} |-> IF g = f THEN Drafted(p, f) ELSE docs[g]]
      BY <2>5 DEF Rename
    <3>2. First(call[p]) = "project" /\ call[p].todo = {} /\ Projecting(call[p]) /\ Uses(call[p], "docs")
      BY <1>1, <3>1 DEF Sane, Projecting, Reading, Uses
    <3>3. ASSUME NEW q \in Actors PROVE Fits(q)
      <4>1. CASE q = p
        BY <2>3, <4>1
      <4>2. CASE q # p
        <5>1. ~Projecting(call[q])
          BY <3>2, <4>2, OneProjector
        <5> QED
          BY <2>2, <4>2, <5>1
      <4> QED
        BY <4>1, <4>2
    <3>4. ASSUME NEW g \in DOMAIN docs', NEW e \in KnownIn(log, shown), g[1] \in {0, e}
          PROVE  \E r \in docs'[g] : r.of = e /\ r.rev >= RevIn(log, e, shown)
      <4>1. CASE g = f
        <5>1. docs'[g] = Content(g, call[p].recs) /\ shown <= call[p].view
          BY <3>1, <3>2, <4>1 DEF Drafted, DocsCurrent
        <5> QED
          BY <1>1, <3>2, <3>4, <5>1, ContentShows DEF Projecting
      <4>2. CASE g # f
        <5>1. g \in DOMAIN docs /\ docs'[g] = docs[g]
          BY <3>1, <4>2
        <5> QED
          BY <3>4, <5>1 DEF DocsCurrent, DocsShow
      <4> QED
        BY <4>1, <4>2
    <3>5. DocsShow(log', docs', shown') /\ shown' <= Len(log')
      BY <1>1, <2>1, <2>2, <3>4 DEF DocsShow
    <3> QED
      BY <3>3, <3>5 DEF DocsCurrent
  <2> QED
    BY <2>1, <2>4, <2>5
<1>8. ASSUME NEW p \in Actors, DropFile(p) PROVE DocsCurrent'
  <2>1. PICK f : docs' = docs \/ docs' = [g \in DOMAIN docs \ {f} |-> docs[g]]
    BY <1>8 DEF DropFile
  <2>2. UNCHANGED <<log, shown, call>> /\ First(call[p]) = "clear" /\ Uses(call[p], "docs")
    BY <1>1, <1>8 DEF DropFile, Uses, ledger
  <2>3. \A q \in Actors : ~Projecting(call'[q])
    BY <2>2, OneProjector DEF Projecting
  <2>4. DocsShow(log, docs', shown)
    BY <2>1 DEF DocsCurrent, DocsShow
  <2> QED
    BY <1>1, <2>2, <2>3, <2>4 DEF DocsCurrent
<1>9. ASSUME NEW c \in children, Child(c) PROVE DocsCurrent'
  <2>1. UNCHANGED <<docs, shown, call>>
    BY <1>9 DEF Child, CreateTables, ChildFails, CommitRows
  <2>2. \A q \in Actors : Fits(q)
    BY <1>2, <2>1
  <2> QED
    BY <1>3, <2>1, <2>2 DEF DocsCurrent
<1> QED
  BY <1>1, <1>4, <1>5, <1>6, <1>7, <1>8, <1>9, Kinds

-----------------------------------------------------------------------------
(* The index: only the holder of its lock and that holder's child write it  *)

ChildCurrent(c, ix) ==
  /\ c.rows = call[c.parent].recs
  /\ c.step = "created" => ix.by = c.id
  /\ c.step = "done" => ix.rows = c.rows
IndexCurrent ==
  /\ \A c \in children : ChildCurrent(c, index)
  /\ \A p \in Actors : call[p].at \in {"built", "answered"} => index.rows = call[p].recs
  /\ \A p \in Actors : call[p].at = "answered" => call[p].hits = call[p].recs

LEMMA OneIndexer ==
  ASSUME Base, LocksHeld, ChildrenWaited, NEW p \in Actors, Uses(call[p], "index")
  PROVE  /\ \A q \in Actors : First(call[q]) = "reindex" /\ call[q].at # "start" => q = p
         /\ \A q \in Actors : call[q].at \in Building => q = p
         /\ \A c \in children : c.parent = p
<1>1. ASSUME NEW q \in Actors, First(call[q]) = "reindex", call[q].at # "start" PROVE q = p
  BY <1>1 DEF Uses, LocksHeld, LockName
<1>2. ASSUME NEW q \in Actors, call[q].at \in Building PROVE q = p
  <2>1. Sane(call[q])
    BY DEF Base, CallsSane
  <2>2. First(call[q]) = "reindex" /\ call[q].at # "start"
    BY <1>2, <2>1 DEF Sane, Building
  <2> QED
    BY <1>1, <2>2
<1>3. ASSUME NEW c \in children PROVE c.parent = p
  <2>1. c.parent \in Actors /\ call[c.parent].at = "wait"
    BY DEF Base, Typed, IndexTyped, ChildType, ChildrenWaited
  <2> QED
    BY <1>2, <2>1 DEF Building
<1> QED
  BY <1>1, <1>2, <1>3

LEMMA IndexCurrentNext ==
  ASSUME Base, LocksHeld, ChildrenWaited, IndexCurrent, Next, ~Orphans
  PROVE  IndexCurrent'
<1>1. /\ LockTyped /\ \A q \in Actors : call[q] \in CallType /\ Sane(call[q]) /\ Phase(q) = First(call[q])
      /\ index \in [by : {<<>>} \cup (Actors \X Nat), rows : SUBSET RecordType]
      /\ \A c \in children : c \in ChildType /\ c.parent \in Actors /\ call[c.parent].at = "wait"
      /\ \A c, d \in children : d.parent = c.parent => d = c
  BY ActsFacts DEF Base, Typed, CallTyped, IndexTyped, ChildType, ChildrenWaited
<1> DEFINE Own(q) == /\ call'[q].at \in {"built", "answered"} => index'.rows = call'[q].recs
                     /\ call'[q].at = "answered" => call'[q].hits = call'[q].recs
<1>2. ASSUME NEW q \in Actors, call'[q] = call[q], UNCHANGED index PROVE Own(q)
  BY <1>2 DEF IndexCurrent
<1>3. ASSUME NEW c \in children, call'[c.parent].recs = call[c.parent].recs, UNCHANGED index
      PROVE  c.rows = call'[c.parent].recs /\ (c.step = "created" => index'.by = c.id) /\ (c.step = "done" => index'.rows = c.rows)
  BY <1>3 DEF IndexCurrent, ChildCurrent
<1>4. ASSUME \A c \in children' : c.rows = call'[c.parent].recs /\ (c.step = "created" => index'.by = c.id)
                                    /\ (c.step = "done" => index'.rows = c.rows),
             \A q \in Actors : Own(q)
      PROVE  IndexCurrent'
  BY <1>4 DEF IndexCurrent, ChildCurrent
<1>5. ASSUME NEW p \in Actors, Restarting(p) PROVE IndexCurrent'
  <2>1. index' = index /\ (children' = children \/ (Die(p) /\ children' = {c \in children : c.parent # p})
                             \/ (Reap(p) /\ \E c \in children : c.parent = p /\ children' = children \ {c}))
    BY <1>5 DEF Restarting, BeginOf, Begin, Reconcile, Commit, CommitThrows, CommitRefused, Erase, ClearEnd, LockBusy,
     BodyVanished, Survey, DraftFails, ProjectEnd, Reap, ReindexEnd, Die, derived
  <2>2. Fresh(call'[p]) /\ \A q \in Actors \ {p} : call'[q] = call[q]
    BY <1>5, KindFacts
  <2>3. ASSUME NEW q \in Actors PROVE Own(q)
    BY <1>2, <2>1, <2>2 DEF Fresh
  <2>4. ASSUME NEW c \in children' PROVE c \in children /\ c.parent # p
    <3>1. c \in children
      BY <2>1
    <3>2. ASSUME c.parent = p PROVE FALSE
      <4>1. call[p].at = "wait" /\ call'[p] # call[p]
        BY <1>1, <2>2, <3>1, <3>2 DEF Fresh
      <4>2. Reap(p) \/ Die(p)
        BY <4>1, WaitStays
      <4>3. CASE Die(p)
        BY <2>4, <3>2, <4>3 DEF Die
      <4>4. CASE Reap(p)
        <5>1. PICK d \in children : d.parent = p /\ children' = children \ {d}
          BY <4>4 DEF Reap
        <5> QED
          BY <1>1, <2>4, <3>1, <3>2, <5>1
      <4> QED
        BY <4>2, <4>3, <4>4
    <3> QED
      BY <3>1, <3>2
  <2>5. ASSUME NEW c \in children'
        PROVE  c.rows = call'[c.parent].recs /\ (c.step = "created" => index'.by = c.id) /\ (c.step = "done" => index'.rows = c.rows)
    <3>1. c \in children /\ c.parent \in Actors \ {p}
      BY <1>1, <2>4
    <3> QED
      BY <1>3, <2>1, <2>2, <3>1
  <2> QED
    BY <1>4, <2>3, <2>5
<1>6. ASSUME NEW p \in Actors, Clearing(p) PROVE IndexCurrent'
  <2>1. /\ call'[p].recs = call[p].recs /\ call'[p].at = call[p].at /\ First(call[p]) = "clear"
        /\ \A q \in Actors \ {p} : call'[q] = call[q]
    BY <1>6, KindFacts
  <2>2. call[p].at \notin Building
    BY <1>1, <2>1 DEF Sane
  <2>3. CASE UNCHANGED <<index, children>>
    <3>1. \A q \in Actors : Own(q)
      BY <1>2, <2>1, <2>2, <2>3 DEF Building
    <3>2. \A c \in children : call'[c.parent].recs = call[c.parent].recs
      BY <1>1, <2>1
    <3> QED
      BY <1>3, <1>4, <2>3, <3>1, <3>2
  <2>4. CASE DropIndex(p)
    <3>1. Uses(call[p], "index") /\ children' = children
      BY <2>4 DEF DropIndex, Uses
    <3>2. \A q \in Actors : call[q].at \notin Building
      BY <2>2, <3>1, OneIndexer
    <3>3. children = {}
      BY <1>1, <3>2 DEF Building
    <3>4. \A q \in Actors : call'[q].at \notin Building
      BY <2>1, <3>2
    <3> QED
      BY <1>4, <3>1, <3>3, <3>4 DEF Building
  <2> QED
    BY <1>6, <2>3, <2>4 DEF Clearing, TakeClear, ClearBusy, DropEnd, derived
<1>7. ASSUME NEW p \in Actors, Advancing(p) PROVE IndexCurrent'
  <2>1. \A q \in Actors \ {p} : call'[q] = call[q]
    BY <1>7, KindFacts
  <2>2. CASE TakeLock(p) \/ ReadEvents(p) \/ CheckBody(p) \/ FetchBody(p) \/ Draft(p) \/ Rename(p)
    <3>1. UNCHANGED <<index, children>>
      BY <2>2 DEF TakeLock, ReadEvents, CheckBody, FetchBody, Draft, Rename, derived
    <3>2. call[p].at \notin Building
      BY <1>1, <2>2, ReadFields DEF ReadEvents, Building
    <3>3. call'[p].at \notin {"built", "answered"}
      <4>1. CASE TakeLock(p) \/ ReadEvents(p) \/ Draft(p) \/ Rename(p)
        BY <4>1, ReadFields
      <4>2. ASSUME CheckBody(p) PROVE call'[p].at \in {"bodies", "fetch"}
        <5>1. PICK e \in NextRead(p) :
                \/ call'[p].at = "fetch"
                \/ call'[p].at = call[p].at
          BY <4>2, ReadFields
        <5> QED
          BY <4>2, <5>1, ReadFields
      <4>3. ASSUME FetchBody(p) PROVE call'[p].at = "bodies"
        BY <4>3, ReadFields
      <4> QED
        BY <2>2, <4>1, <4>2, <4>3
    <3>4. \A q \in Actors : Own(q)
      BY <1>2, <2>1, <3>1, <3>3
    <3>5. \A c \in children : c.parent \in Actors \ {p}
      BY <1>1, <3>2 DEF Building
    <3>6. \A c \in children : call'[c.parent].recs = call[c.parent].recs
      BY <2>1, <3>5
    <3> QED
      BY <1>3, <1>4, <3>1, <3>4, <3>6
  <2>3. CASE RemoveOld(p)
    <3>1. children' = children /\ First(call[p]) = "reindex" /\ call[p].at = "bodies" /\ call'[p].at = "spawn"
      BY <1>1, <2>3, ReadFields DEF RemoveOld
    <3>2. Uses(call[p], "index")
      BY <3>1 DEF Uses
    <3>3. \A q \in Actors \ {p} : call[q].at \notin Building
      BY <3>2, OneIndexer
    <3>4. children = {}
      BY <1>1, <3>1, <3>3 DEF Building
    <3> QED
      BY <1>4, <2>1, <3>1, <3>3, <3>4 DEF Building
  <2>4. CASE Spawn(p)
    <3>1. /\ call[p].at = "spawn" /\ call'[p].at = "wait" /\ call'[p].recs = call[p].recs
      BY <2>4, ReadFields
    <3> DEFINE n == [id |-> <<p, faults>>, parent |-> p, rows |-> call[p].recs, step |-> "spawned"]
    <3>2. index' = index /\ children' = children \cup {n}
      BY <2>4 DEF Spawn
    <3>3. n.parent = p /\ n.rows = call[p].recs /\ n.step = "spawned"
      OBVIOUS
    <3> HIDE DEF n
    <3>4. \A q \in Actors : Own(q)
      BY <1>2, <2>1, <3>1, <3>2
    <3>5. \A c \in children : call'[c.parent].recs = call[c.parent].recs
      BY <1>1, <2>1, <3>1
    <3> QED
      BY <1>3, <1>4, <3>1, <3>2, <3>3, <3>4, <3>5
  <2>5. CASE Reap(p) /\ call'[p].at = "built"
    <3>1. call[p].at = "wait" /\ call'[p].recs = call[p].recs /\ index' = index
      BY <2>5, ReadFields DEF Reap
    <3>2. PICK c \in children : /\ c.parent = p /\ c.step \in {"done", "failed"} /\ children' = children \ {c}
            /\ IF c.step = "failed" THEN Throw(p) ELSE call' = [call EXCEPT ![p].at = "built"]
      BY <2>5 DEF Reap
    <3>3. c.step = "done"
      <4>1. call' # [call EXCEPT ![p] = Idle]
        BY <2>5 DEF Base, Typed, CallTyped, Idle
      <4> QED
        BY <3>2, <4>1 DEF Throw
    <3>4. index.rows = call[p].recs
      BY <3>2, <3>3 DEF IndexCurrent, ChildCurrent
    <3>5. \A q \in Actors : Own(q)
      BY <1>2, <2>1, <2>5, <3>1, <3>4
    <3>6. \A d \in children' : d \in children /\ call'[d.parent].recs = call[d.parent].recs
      BY <1>1, <2>1, <3>1, <3>2
    <3> QED
      BY <1>3, <1>4, <3>1, <3>5, <3>6
  <2>6. CASE Query(p)
    <3>1. /\ call[p].at = "built" /\ call'[p].recs = call[p].recs /\ call'[p].hits = index.rows
      BY <2>6, ReadFields
    <3>2. UNCHANGED <<index, children>>
      BY <2>6 DEF Query, derived
    <3>3. index.rows = call[p].recs
      BY <3>1 DEF IndexCurrent
    <3>4. \A q \in Actors : Own(q)
      BY <1>2, <2>1, <3>1, <3>2, <3>3
    <3>5. \A c \in children : call'[c.parent].recs = call[c.parent].recs
      BY <1>1, <2>1, <3>1
    <3> QED
      BY <1>3, <1>4, <3>2, <3>4, <3>5
  <2> QED
    BY <1>7, <2>2, <2>3, <2>4, <2>5, <2>6 DEF Advancing
<1>8. ASSUME NEW p \in Actors, DropFile(p) PROVE IndexCurrent'
  <2>1. UNCHANGED <<index, children, call>>
    BY <1>8 DEF DropFile
  <2> QED
    BY <2>1 DEF IndexCurrent, ChildCurrent
<1>9. ASSUME NEW c \in children, Child(c) PROVE IndexCurrent'
  <2> DEFINE p == c.parent
  <2>1. call' = call /\ p \in Actors /\ call[p].at = "wait" /\ c \in ChildType
    BY <1>1, <1>9 DEF Child, CreateTables, ChildFails, CommitRows
  <2>2. Uses(call[p], "index")
    BY <1>1, <2>1 DEF Uses, Sane, Building
  <2>3. \A q \in Actors : call[q].at \notin {"built", "answered"}
    BY <2>1, <2>2, OneIndexer DEF Building
  <2>4. \A d \in children : d = c
    <3>1. \A d \in children : d.parent = p
      BY <2>1, <2>2, OneIndexer
    <3> QED
      BY <1>1, <3>1
  <2>5. ASSUME NEW s, Became(c, s), NEW d \in children'
        PROVE  d.parent = p /\ d.rows = c.rows /\ d.id = c.id /\ d.step = s
    BY <2>1, <2>4, <2>5 DEF Became, ChildType
  <2>6. c.rows = call'[p].recs
    BY <2>1 DEF IndexCurrent, ChildCurrent
  <2>7. CASE CreateTables(c)
    <3>1. index'.by = c.id /\ Became(c, "created")
      BY <2>7 DEF CreateTables
    <3> QED
      BY <1>4, <2>1, <2>3, <2>5, <2>6, <3>1
  <2>8. CASE ChildFails(c)
    <3>1. Became(c, "failed")
      BY <2>8 DEF ChildFails
    <3> QED
      BY <1>4, <2>1, <2>3, <2>5, <2>6, <3>1
  <2>9. CASE CommitRows(c)
    <3>1. index.by = c.id
      BY <2>9 DEF CommitRows, IndexCurrent, ChildCurrent
    <3>2. index'.rows = c.rows /\ Became(c, "done")
      BY <1>1, <2>9, <3>1 DEF CommitRows
    <3> QED
      BY <1>4, <2>1, <2>3, <2>5, <2>6, <3>2
  <2> QED
    BY <1>9, <2>7, <2>8, <2>9 DEF Child
<1> QED
  BY <1>1, <1>5, <1>6, <1>7, <1>8, <1>9, Kinds

-----------------------------------------------------------------------------
(* The views together                                                       *)

Views ==
  /\ AllFaithful /\ PlansFit /\ BodiesThere
  /\ ErasedAreGone /\ DocsCurrent /\ IndexCurrent
ViewInv == Base /\ LocksHeld /\ ChildrenWaited /\ Views

LEMMA ViewInit == Init => ViewInv
<1> SUFFICES ASSUME Init PROVE Views
  BY CleanInit DEF ViewInv, CleanInv
<1>1. \A p \in Actors : call[p] = Idle
  BY DEF Init
<1>2. log = <<>> /\ Len(log) = 0 /\ docs = <<>> /\ DOMAIN docs = {} /\ children = {} /\ shown = 0
  BY DEF Init
<1>3. Idle.at = "start" /\ Idle.recs = {} /\ Idle.op = "none" /\ First(Idle) = "none" /\ index.rows = {}
  BY IdleIsFresh DEF Init, Idle, NoIndex, Fresh
<1>4. AllFaithful
  BY <1>1, <1>3 DEF AllFaithful, Faithful, Reading
<1>5. PlansFit
  BY <1>1, <1>3 DEF PlansFit, PlanFits, ErasesGone
<1>6. BodiesThere
  <2>1. ASSUME NEW e PROVE RevIn(log, e, Len(log)) = 0
    <3>1. {i \in 1..0 : log[i].of = e} = {}
      OBVIOUS
    <3> QED
      BY <1>2, <3>1, FS_EmptySet DEF RevIn
  <2> QED
    BY <2>1 DEF BodiesThere
<1>7. ErasedAreGone
  BY <1>1, <1>2, <1>3 DEF ErasedAreGone, ErasedGone
<1>8. DocsCurrent
  BY <1>1, <1>2, <1>3 DEF DocsCurrent, DocsShow, Projecting, Reading
<1>9. IndexCurrent
  BY <1>1, <1>2, <1>3 DEF IndexCurrent
<1> QED
  BY <1>4, <1>5, <1>6, <1>7, <1>8, <1>9 DEF Views

LEMMA ViewStep ==
  ASSUME ViewInv, [Next]_vars, ~Orphans
  PROVE  ViewInv'
<1>1. CASE Next
  <2>1. Base' /\ LocksHeld' /\ ChildrenWaited'
    BY <1>1, BaseNext, LocksHeldNext, ChildrenWaitedNext DEF ViewInv
  <2>2. AllFaithful' /\ PlansFit' /\ BodiesThere'
    BY <1>1, AllFaithfulNext, PlansFitNext, BodiesThereNext DEF ViewInv, Views
  <2>3. ErasedAreGone' /\ DocsCurrent' /\ IndexCurrent'
    BY <1>1, ErasedAreGoneNext, DocsCurrentNext, IndexCurrentNext DEF ViewInv, Views
  <2> QED
    BY <2>1, <2>2, <2>3 DEF ViewInv, Views
<1>2. CASE UNCHANGED vars
  <2>1. Base' /\ LocksHeld' /\ ChildrenWaited'
    BY <1>2, BaseNext DEF ViewInv, vars, LocksHeld, ChildrenWaited
  <2>2. AllFaithful' /\ PlansFit' /\ BodiesThere'
    BY <1>2 DEF ViewInv, Views, vars, AllFaithful, PlansFit, BodiesThere
  <2>3. ErasedAreGone' /\ DocsCurrent'
    BY <1>2 DEF ViewInv, Views, vars, ErasedAreGone, DocsCurrent
  <2>4. IndexCurrent'
    BY <1>2 DEF ViewInv, Views, vars, IndexCurrent, ChildCurrent
  <2> QED
    BY <2>1, <2>2, <2>3, <2>4 DEF ViewInv, Views
<1> QED
  BY <1>1, <1>2

\* The files show what finished projections had to show.
LEMMA FilesShow == ASSUME ViewInv PROVE ShownStaysShown
<1>1. \A e : Rev(e, shown) = RevIn(log, e, shown)
  BY LedgerRead
<1>2. Known(shown) = KnownIn(log, shown)
  BY LedgerRead
<1>3. DocsShow(log, docs, shown)
  BY DEF ViewInv, Views, DocsCurrent
<1> QED
  BY <1>1, <1>2, <1>3 DEF ShownStaysShown, DocsShow

\* An answer is a replay that has been finished after the search was called.
LEMMA AnswersAreCurrent == ASSUME ViewInv PROVE SearchIsCurrent
<1> SUFFICES ASSUME NEW p \in Actors, call[p].at = "answered", NEW e \in Known(call[p].since)
             PROVE  \E r \in call[p].hits : /\ r.of = e /\ r.rev >= Rev(e, call[p].since)
                                            /\ Gone(e, call[p].since) => r.body = "deleted"
  BY DEF SearchIsCurrent
<1>1. /\ log \in Seq(EventType) /\ call[p].since \in Nat /\ call[p].view \in Nat
      /\ Faithful(log, call[p]) /\ call[p].todo = {} /\ call[p].hits = call[p].recs
  BY DEF ViewInv, Base, Typed, LogTyped, CallTyped, CallType, CallsSane, Sane, Building, Views, AllFaithful, IndexCurrent
<1>2. call[p].since \in 0..call[p].view /\ e \in KnownIn(log, call[p].since)
  BY <1>1, LedgerRead DEF Faithful, Reading
<1>3. e \in KnownIn(log, call[p].view) /\ (GoneIn(log, e, call[p].since) => GoneIn(log, e, call[p].view))
  BY <1>1, <1>2, GoneStays
<1>4. PICK r \in call[p].recs : /\ r.of = e /\ r.rev = RevIn(log, e, call[p].view)
                                /\ GoneIn(log, e, call[p].view) => r.body = "deleted"
  BY <1>1, <1>3 DEF Faithful, Reading, ShowsAt
<1>5. RevIn(log, e, call[p].since) <= RevIn(log, e, call[p].view)
  BY <1>1, <1>2, RevisionBounds
<1>6. RevIn(log, e, call[p].since) \in Nat /\ RevIn(log, e, call[p].view) \in Nat
  BY <1>1, RevisionBounds
<1>7. Rev(e, call[p].since) = RevIn(log, e, call[p].since) /\ Gone(e, call[p].since) = GoneIn(log, e, call[p].since)
  BY LedgerRead
<1> QED
  BY <1>1, <1>3, <1>4, <1>5, <1>6, <1>7

\* A body that is not there has been erased by a deletion.
LEMMA MissingAreDeleted == ASSUME ViewInv PROVE MissingMeansDeleted
<1>1. \A e : Gone(e, Now) = GoneIn(log, e, Len(log))
  BY LedgerRead DEF Now
<1>2. ErasedAreGone
  BY DEF ViewInv, Views
<1>3. ASSUME NEW p \in Actors, call[p].at = "fetch", NEW e \in NextRead(p), BodyOf(p, e) \notin objects
      PROVE  Gone(e, Now)
  BY <1>1, <1>3, MissingIsGone DEF ViewInv, Views, Reading
<1> QED
  BY <1>1, <1>2, <1>3 DEF MissingMeansDeleted, ErasedAreGone, ErasedGone

(* For any number of programs, entities, faults and calls, as long as no sqlite3
   child outlives its parent: a projection file never falls behind what a finished
   projection had to show (kernel.ts:66), a search answers with every event
   committed before it was called (README.md:15), and a body is found missing only
   when its entity is tombstoned (projector.ts:49). *)
THEOREM ViewsAlwaysCurrent ==
  ASSUME ~Orphans
  PROVE  Spec => []ViewsAreCurrent
<1>1. Init => ViewInv
  BY ViewInit
<1>2. ViewInv /\ [Next]_vars => ViewInv'
  BY ViewStep
<1>3. ViewInv => ViewsAreCurrent
  BY FilesShow, AnswersAreCurrent, MissingAreDeleted DEF ViewsAreCurrent
<1> QED
  BY <1>1, <1>2, <1>3, PTL DEF Spec
=============================================================================
