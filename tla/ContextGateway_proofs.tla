----------------------- MODULE ContextGateway_proofs -----------------------
(***************************************************************************)
(* Proofs about ContextGateway, for any agents, roles, runs and entities,  *)
(* any plans that meet PlanAssumption, and any batch and page sizes.       *)
(*                                                                         *)
(* RolesHold is not inductive: a commit is separate from the checks that   *)
(* justify it.  IInv says of every call in progress what its checks have   *)
(* established and nothing can undo (CallHolds), of every answer and page  *)
(* what was true when it was given (ReplyHolds, BoxHolds), and of the      *)
(* ledger how the rows of a run and of a record may follow each other      *)
(* (LedgerHolds).  LedgerGrow shows that one more proper event keeps the   *)
(* ledger; RunWishHolds, EntityWishHolds and OwnersEventHolds show that    *)
(* what is committed is proper; CallGrow, ReplyGrow and BoxGrow show that  *)
(* it disturbs nobody else.                                                *)
(***************************************************************************)
EXTENDS ContextGateway, TLAPS, FiniteSetTheorems, WellFoundedInduction

-----------------------------------------------------------------------------
(* The least and the greatest of a set of positions *)

\* Min of a set of naturals is its least member.
LEMMA LeastOf ==
  ASSUME NEW S, S \subseteq Nat, S # {}
  PROVE  Min(S) \in S /\ \A i \in S : Min(S) <= i
<1>1. \E m \in S : \A i \in S : ~(<<i, m>> \in OpToRel(<, Nat))
  BY WFMin, NatLessThanWellFounded, Zenon
<1>2. \E m \in S : \A i \in S : ~(i \in Nat /\ m \in Nat /\ i < m)
  BY <1>1, Zenon DEF OpToRel
<1>3. PICK m \in S : \A i \in S : m <= i
  BY <1>2
<1> QED
  BY <1>3, Zenon DEF Min

\* Max of a bounded set of positive naturals is its greatest member.
LEMMA GreatestOf ==
  ASSUME NEW n \in Nat, NEW S, S \subseteq 1..n, S # {}
  PROVE  Max(S) \in S /\ \A i \in S : i <= Max(S)
<1> DEFINE T == {n - i : i \in S}
<1>a. \A i \in S : i \in Int /\ n - i \in Nat
  OBVIOUS
<1>1. T \subseteq Nat /\ T # {}
  BY <1>a
<1>2. Min(T) \in T /\ \A t \in T : Min(T) <= t
  BY <1>1, LeastOf
<1>3. PICK m \in S : Min(T) = n - m
  BY <1>2
<1>4. \A i \in S : m >= i
  <2> TAKE i \in S
  <2>1. n - i \in T
    OBVIOUS
  <2>2. n - m <= n - i
    BY <2>1, <1>2, <1>3
  <2> QED
    BY <2>2, <1>a
<1>5. Max(S) \in S /\ \A i \in S : Max(S) >= i
  BY <1>4, Zenon DEF Max
<1> QED
  BY <1>5

-----------------------------------------------------------------------------
(* Sequences whose members nobody typed *)

\* A sequence has a length, and its positions are 1 to that length.
LEMMA SequenceIs ==
  ASSUME NEW s, IsSeq(s)
  PROVE  Len(s) \in Nat /\ DOMAIN s = 1..Len(s)
BY DEF IsSeq

\* A sequence over any set is a sequence.
LEMMA AnySequence ==
  ASSUME NEW S, NEW s \in Seq(S)
  PROVE  IsSeq(s)
BY DEF IsSeq

\* Append adds one position and keeps the others.
LEMMA AppendIs ==
  ASSUME NEW s, IsSeq(s), NEW e
  PROVE  LET t == Append(s, e) IN
           /\ IsSeq(t) /\ Len(t) = Len(s) + 1 /\ DOMAIN t = 1..(Len(s) + 1)
           /\ t[Len(s) + 1] = e /\ \A i \in 1..Len(s) : t[i] = s[i]
<1> DEFINE S == {s[n] : n \in DOMAIN s} \cup {e}
           t == Append(s, e)
<1>1. s \in Seq(S) /\ e \in S /\ Len(s) \in Nat /\ DOMAIN s = 1..Len(s)
  BY DEF IsSeq
<1> HIDE DEF S
<1>2. t \in Seq(S) /\ Len(t) = Len(s) + 1 /\ DOMAIN t = 1..(Len(s) + 1)
        /\ t[Len(s) + 1] = e /\ \A i \in 1..Len(s) : t[i] = s[i]
  BY <1>1
<1> HIDE DEF t
<1>3. IsSeq(t)
  BY <1>2, AnySequence
<1> QED
  BY <1>2, <1>3 DEF t

\* Tail drops the first position and shifts the others.
LEMMA TailIs ==
  ASSUME NEW s, IsSeq(s), s # <<>>
  PROVE  /\ IsSeq(Tail(s)) /\ Head(s) = s[1] /\ 1 \in DOMAIN s
         /\ \A n \in DOMAIN Tail(s) : n + 1 \in DOMAIN s /\ Tail(s)[n] = s[n + 1]
<1> DEFINE S == {s[n] : n \in DOMAIN s}
           t == Tail(s)
<1>1. s \in Seq(S)
  BY DEF IsSeq
<1> HIDE DEF S
<1>2. t \in Seq(S) /\ Len(t) = Len(s) - 1 /\ DOMAIN t = 1..(Len(s) - 1) /\ Len(s) \in Nat /\ Len(s) > 0
        /\ Head(s) = s[1] /\ DOMAIN s = 1..Len(s) /\ \A i \in 1..(Len(s) - 1) : t[i] = s[i + 1]
  BY <1>1
<1> HIDE DEF t
<1>3. IsSeq(t)
  BY <1>2, AnySequence
<1> QED
  BY <1>2, <1>3 DEF t

-----------------------------------------------------------------------------
(* A ledger and the same ledger with one more event *)

Grown(l, m, e) ==
  /\ Len(l) \in Nat /\ DOMAIN l = 1..Len(l)
  /\ Len(m) = Len(l) + 1 /\ DOMAIN m = 1..(Len(l) + 1)
  /\ m[Len(l) + 1] = e /\ \A i \in 1..Len(l) : m[i] = l[i]

\* One more event is one more row of its own entity and of no other.
LEMMA RowsGrow ==
  ASSUME NEW l, NEW m, NEW e, Grown(l, m, e), NEW x
  PROVE  /\ Rows(l, x) \subseteq 1..Len(l)
         /\ x # e.ent => Rows(m, x) = Rows(l, x)
         /\ x = e.ent => Rows(m, x) = Rows(l, x) \cup {Len(l) + 1}
BY DEF Grown, Rows

\* Appending an event is growing by it.
LEMMA GrownByAppend ==
  ASSUME NEW l, IsSeq(l), NEW e
  PROVE  Grown(l, Append(l, e), e)
BY AppendIs, SequenceIs DEF Grown

\* The first event of an entity, and its current one.
LEMMA Ends ==
  ASSUME NEW l, Len(l) \in Nat, DOMAIN l = 1..Len(l), NEW x
  PROVE  /\ Rows(l, x) \subseteq 1..Len(l)
         /\ Current(l, x) = 0 <=> Rows(l, x) = {}
         /\ Rows(l, x) # {} =>
              /\ Min(Rows(l, x)) \in Rows(l, x) /\ \A i \in Rows(l, x) : Min(Rows(l, x)) <= i
              /\ Current(l, x) \in Rows(l, x) /\ \A i \in Rows(l, x) : i <= Current(l, x)
<1>1. Rows(l, x) \subseteq 1..Len(l)
  BY DEF Rows
<1>2. Rows(l, x) # {} => /\ Min(Rows(l, x)) \in Rows(l, x)
                         /\ \A i \in Rows(l, x) : Min(Rows(l, x)) <= i
  BY <1>1, LeastOf
<1>3. Rows(l, x) # {} => /\ Max(Rows(l, x)) \in Rows(l, x)
                         /\ \A i \in Rows(l, x) : i <= Max(Rows(l, x))
  BY <1>1, GreatestOf
<1>4. \A i \in Rows(l, x) : i # 0
  BY <1>1
<1> QED
  BY <1>1, <1>2, <1>3, <1>4 DEF Current

\* An entity keeps the first event it has; a new one begins with the new event.
LEMMA HomeGrow ==
  ASSUME NEW l, NEW m, NEW e, Grown(l, m, e), NEW x
  PROVE  /\ Rows(l, x) # {} => /\ Min(Rows(m, x)) = Min(Rows(l, x)) /\ Home(m, x) = Home(l, x)
                               /\ Rows(m, x) # {}
         /\ Rows(l, x) = {} /\ x = e.ent => Min(Rows(m, x)) = Len(l) + 1 /\ Home(m, x) = e
<1>0. /\ Len(l) \in Nat /\ DOMAIN l = 1..Len(l) /\ Len(m) = Len(l) + 1
      /\ Len(m) \in Nat /\ DOMAIN m = 1..Len(m)
      /\ m[Len(l) + 1] = e /\ \A i \in 1..Len(l) : m[i] = l[i]
  BY DEF Grown
<1>1. Rows(l, x) \subseteq 1..Len(l) /\ Rows(l, x) \subseteq Rows(m, x)
      /\ \A i \in Rows(m, x) : i \in Rows(l, x) \/ i = Len(l) + 1
  BY <1>0 DEF Rows
<1>2. Rows(m, x) \subseteq 1..Len(m) /\ (Rows(m, x) # {} =>
        Min(Rows(m, x)) \in Rows(m, x) /\ \A i \in Rows(m, x) : Min(Rows(m, x)) <= i)
  BY <1>0, Ends
<1>3. ASSUME Rows(l, x) # {}
      PROVE  Min(Rows(m, x)) = Min(Rows(l, x)) /\ Home(m, x) = Home(l, x) /\ Rows(m, x) # {}
  <2>1. Min(Rows(l, x)) \in Rows(l, x) /\ \A i \in Rows(l, x) : Min(Rows(l, x)) <= i
    BY <1>0, <1>3, Ends
  <2>2. Rows(m, x) # {}
    BY <1>1, <1>3
  <2>3. Min(Rows(m, x)) <= Min(Rows(l, x)) /\ Min(Rows(m, x)) \in 1..Len(m) /\ Min(Rows(l, x)) \in 1..Len(l)
    BY <1>1, <1>2, <2>1, <2>2
  <2>4. Min(Rows(m, x)) \in Rows(l, x)
    BY <1>0, <1>1, <1>2, <2>2, <2>3
  <2>5. Min(Rows(m, x)) = Min(Rows(l, x))
    BY <2>1, <2>3, <2>4
  <2> QED
    BY <2>2, <2>3, <2>5, <1>0 DEF Home
<1>4. ASSUME Rows(l, x) = {}, x = e.ent
      PROVE  Min(Rows(m, x)) = Len(l) + 1 /\ Home(m, x) = e
  <2>1. Rows(m, x) = {Len(l) + 1}
    BY <1>4, RowsGrow
  <2>2. Min(Rows(m, x)) = Len(l) + 1
    BY <2>1, <1>2
  <2> QED
    BY <2>2, <1>0 DEF Home
<1> QED
  BY <1>3, <1>4

\* What runRole once answered is not changed by later events.
LEMMA RoleAtGrow ==
  ASSUME NEW l, NEW m, NEW e, Grown(l, m, e), NEW r, NEW k \in Nat, k <= Len(l)
  PROVE  RoleAt(m, r, k) = RoleAt(l, r, k)
<1>1. {i \in Rows(m, r) : i <= k} = {i \in Rows(l, r) : i <= k}
  BY DEF Grown, Rows
<1>2. \A S : S \subseteq Rows(l, r) /\ S # {} => m[Max(S)] = l[Max(S)]
  <2> SUFFICES ASSUME NEW S, S \subseteq Rows(l, r), S # {} PROVE m[Max(S)] = l[Max(S)]
    OBVIOUS
  <2>1. S \subseteq 1..Len(l) /\ Len(l) \in Nat
    BY RowsGrow DEF Grown
  <2>2. Max(S) \in S
    BY <2>1, GreatestOf
  <2> QED
    BY <2>1, <2>2 DEF Grown
<1> QED
  BY <1>1, <1>2 DEF RoleAt

\* What runRole answers now is what it answers of the whole ledger.
LEMMA RoleAtEnd ==
  ASSUME NEW l, Len(l) \in Nat, DOMAIN l = 1..Len(l), NEW r
  PROVE  RoleAt(l, r, Len(l)) = RunRole(l, r)
<1>1. {i \in Rows(l, r) : i <= Len(l)} = Rows(l, r)
  BY Ends
<1>2. Rows(l, r) # {} <=> Current(l, r) # 0
  BY Ends
<1> QED
  BY <1>1, <1>2 DEF RoleAt, RunRole, Current

\* A record's home stays known, and so does what may be used of it.
LEMMA HomeRoleGrow ==
  ASSUME NEW l, NEW m, NEW e, Grown(l, m, e), NEW j \in DOMAIN l,
         l[j].ent \in Entities, RecordHolds(l, j)
  PROVE  /\ Home(m, l[j].ent) = Home(l, l[j].ent)
         /\ Home(l, l[j].ent).maker \notin {Owner, System} => HomeRole(m, l[j].ent) = HomeRole(l, l[j].ent)
<1>1. Rows(l, l[j].ent) # {}
  BY DEF Rows
<1>2. Home(m, l[j].ent) = Home(l, l[j].ent)
  BY <1>1, HomeGrow
<1>3. ASSUME Home(l, l[j].ent).maker \notin {Owner, System}
      PROVE  HomeRole(m, l[j].ent) = HomeRole(l, l[j].ent)
  <2>1. Rows(l, Home(l, l[j].ent).run) # {}
    BY <1>3 DEF RecordHolds
  <2>2. Home(m, Home(l, l[j].ent).run) = Home(l, Home(l, l[j].ent).run)
    BY <2>1, HomeGrow
  <2> QED
    BY <1>2, <2>2 DEF HomeRole, OpenedAs
<1> QED
  BY <1>2, <1>3

\* What a role may use it may use ever after.
LEMMA MayUseGrow ==
  ASSUME NEW l, NEW m, NEW e, Grown(l, m, e), NEW j \in DOMAIN l,
         l[j].ent \in Entities, RecordHolds(l, j), NEW role,
         NEW u \in Nat, NEW v \in Nat, u <= v, u <= Len(l), MayUse(l, j, role, u)
  PROVE  MayUse(m, j, role, v)
<1>0. m[j] = l[j] /\ Len(l) \in Nat /\ j \in 1..Len(l)
  BY DEF Grown
<1>1. Home(m, m[j].ent) = Home(l, l[j].ent)
  BY <1>0, HomeRoleGrow
<1>2. CASE Home(l, l[j].ent).maker \in {Owner, System}
  BY <1>1, <1>2 DEF MayUse
<1>3. CASE Home(l, l[j].ent).maker \notin {Owner, System} /\ HomeRole(l, l[j].ent) = role
  <2>1. HomeRole(m, m[j].ent) = role
    BY <1>0, <1>3, HomeRoleGrow
  <2> QED
    BY <2>1 DEF MayUse
<1>4. CASE /\ l[j].basis = "explicit" /\ l[j].by = Owner
           /\ \E k \in j..u : RoleAt(l, Home(l, l[j].ent).run, k) = NoRole
  <2>1. PICK k \in j..u : RoleAt(l, Home(l, l[j].ent).run, k) = NoRole
    BY <1>4
  <2>2. k \in Nat /\ k <= Len(l) /\ k \in j..v
    BY <2>1, <1>0
  <2>3. RoleAt(m, Home(l, l[j].ent).run, k) = NoRole
    BY <2>1, <2>2, RoleAtGrow
  <2> QED
    BY <1>0, <1>1, <1>4, <2>2, <2>3 DEF MayUse
<1> QED
  BY <1>2, <1>3, <1>4 DEF MayUse

\* A reference that once met a usable revision meets it ever after.
LEMMA CitedGrow ==
  ASSUME NEW l, NEW m, NEW e, Grown(l, m, e), \A i \in DOMAIN l : RecordHolds(l, i),
         NEW ref, NEW role, NEW u \in Nat, NEW v \in Nat, u <= v, u <= Len(l),
         Cited(l, ref, role, u)
  PROVE  Cited(m, ref, role, v)
<1>1. PICK j \in 1..u : /\ l[j].ent = ref.ent /\ ref.ent \in Entities /\ ~l[j].tomb
                        /\ ref.rev \in {NoPin, l[j].rev} /\ ref.hash \in {NoPin, j}
                        /\ MayUse(l, j, role, u)
  BY DEF Cited
<1>2. j \in DOMAIN l /\ j \in 1..v /\ m[j] = l[j]
  BY DEF Grown
<1>3. MayUse(m, j, role, v)
  BY <1>1, <1>2, MayUseGrow
<1> QED
  BY <1>1, <1>2, <1>3 DEF Cited

-----------------------------------------------------------------------------
(* What a new event must be for the ledger to stay as it was *)

NewRow(l, e) ==
  /\ Acceptable(l, e)
  /\ e.tomb \in BOOLEAN /\ e.ent \in Runs \cup Entities
  /\ e.tomb => e.phase # "complete" /\ Rows(l, e.ent) # {}
  /\ e.basis = "explicit" => e.by = Owner
  /\ Rows(l, e.ent) # {} =>
       /\ e.ent \in Entities /\ l[Current(l, e.ent)].basis = "explicit" => e.basis = "explicit"
       /\ e.ent \in Runs => e.role \in {OpenedAs(l, e.ent), NoRole}

\* ... the first of a record, and a later one of it.
FirstOfRecord(l, e) ==
  /\ e.maker = Owner => e.basis = "explicit"
  /\ e.maker \notin {Owner, System} => e.run \in Runs /\ Rows(l, e.run) # {} /\ e.origin = e.run

LaterOfRecord(l, e) ==
  LET home == Home(l, e.ent) IN
    /\ ~e.tomb => e.maker = home.maker
    /\ home.maker = Owner => e.basis = "explicit"
    /\ home.maker \notin {Owner, System} =>
         /\ e.origin \in {NoRun, home.run}
         /\ e.basis # "explicit" => e.origin = home.run

\* ... and what an agent writes.
OfAgent(l, e) ==
  /\ e.run \in Runs /\ Rows(l, e.run) # {}
  /\ IF Rows(l, e.ent) = {} THEN e.maker = e.by
     ELSE Home(l, e.ent).maker = System \/ HomeRole(l, e.ent) = OpenedAs(l, e.run)
  /\ \A n \in DOMAIN e.deps : Cited(l, e.deps[n], OpenedAs(l, e.run), Len(l))

NewRecord(l, e) ==
  e.ent \in Entities =>
    /\ IF Rows(l, e.ent) = {} THEN FirstOfRecord(l, e) ELSE LaterOfRecord(l, e)
    /\ e.by \in Agents => OfAgent(l, e)

\* The order of an entity's rows survives one more proper row.
LEMMA RowsHoldGrow ==
  ASSUME NEW l, NEW m, NEW e, Grown(l, m, e), \A i \in DOMAIN l : RowHolds(l, i), NewRow(l, e)
  PROVE  \A i \in DOMAIN m : RowHolds(m, i)
<1> SUFFICES ASSUME NEW i \in DOMAIN m PROVE RowHolds(m, i)
  OBVIOUS
<1>0. /\ Len(l) \in Nat /\ DOMAIN l = 1..Len(l) /\ DOMAIN m = 1..(Len(l) + 1)
      /\ m[Len(l) + 1] = e /\ \A n \in 1..Len(l) : m[n] = l[n]
  BY DEF Grown
<1>1. CASE i \in DOMAIN l
  <2> DEFINE x == l[i]
  <2>0. m[i] = x /\ i \in 1..Len(l) /\ i \in Rows(l, x.ent)
    BY <1>0, <1>1 DEF Rows
  <2>1. RowHolds(l, i)
    BY <1>1
  <2>2. Min(Rows(m, x.ent)) = Min(Rows(l, x.ent)) /\ Home(m, x.ent) = Home(l, x.ent)
    BY <2>0, HomeGrow
  <2>3. ASSUME NEW j \in Rows(m, x.ent), i < j
        PROVE  /\ ~x.tomb /\ (x.phase = "complete" => m[j].tomb)
               /\ x.ent \in Entities /\ x.basis = "explicit" => m[j].basis = "explicit"
    <3>1. CASE j \in Rows(l, x.ent)
      BY <2>1, <2>3, <3>1, <1>0 DEF RowHolds, Rows
    <3>2. CASE j \notin Rows(l, x.ent)
      <4>1. j = Len(l) + 1 /\ e.ent = x.ent
        BY <3>2, RowsGrow
      <4> DEFINE cur == Current(l, x.ent)
      <4>2. cur # 0 /\ cur \in Rows(l, x.ent) /\ i <= cur /\ cur \in 1..Len(l) /\ l[cur].ent = x.ent
        BY <2>0, <1>0, Ends DEF Rows
      <4>3. ~l[cur].tomb /\ (l[cur].phase # "complete" \/ e.tomb)
        BY <4>1, <4>2 DEF NewRow, Acceptable
      <4>4. x.ent \in Entities /\ l[cur].basis = "explicit" => e.basis = "explicit"
        BY <4>1, <2>0 DEF NewRow
      <4>5. i = cur \/ i < cur
        BY <4>2
      <4>6. i < cur => /\ ~x.tomb /\ (x.phase = "complete" => l[cur].tomb)
                       /\ x.ent \in Entities /\ x.basis = "explicit" => l[cur].basis = "explicit"
        BY <2>1, <4>2 DEF RowHolds
      <4> QED
        BY <4>1, <4>3, <4>4, <4>5, <4>6, <1>0
    <3> QED
      BY <3>1, <3>2
  <2> QED
    BY <2>0, <2>1, <2>2, <2>3 DEF RowHolds, OpenedAs
<1>2. CASE i = Len(l) + 1
  <2>0. m[i] = e /\ ~\E j \in Rows(m, e.ent) : i < j
    BY <1>0, <1>2 DEF Rows
  <2> DEFINE cur == Current(l, e.ent)
  <2>1. e.rev \in Nat \ {0}
    <3>1. CASE cur = 0
      BY <3>1 DEF NewRow, Acceptable
    <3>2. CASE cur # 0
      <4>1. cur \in DOMAIN l
        BY <3>2, <1>0, Ends
      <4> QED
        BY <3>2, <4>1 DEF NewRow, Acceptable, RowHolds
    <3> QED
      BY <3>1, <3>2
  <2>2. e.tomb => i # Min(Rows(m, e.ent))
    <3>1. SUFFICES ASSUME e.tomb PROVE i # Min(Rows(m, e.ent))
      OBVIOUS
    <3>2. Rows(l, e.ent) # {}
      BY <3>1 DEF NewRow
    <3>3. Min(Rows(m, e.ent)) = Min(Rows(l, e.ent)) /\ Min(Rows(l, e.ent)) \in 1..Len(l)
      BY <3>2, HomeGrow, Ends, <1>0
    <3> QED
      BY <3>3, <1>0, <1>2
  <2>3. e.ent \in Runs => e.role \in {OpenedAs(m, e.ent), NoRole}
    <3>1. CASE Rows(l, e.ent) = {}
      BY <3>1, HomeGrow DEF OpenedAs
    <3>2. CASE Rows(l, e.ent) # {}
      BY <3>2, HomeGrow DEF OpenedAs, NewRow
    <3> QED
      BY <3>1, <3>2
  <2> QED
    BY <2>0, <2>1, <2>2, <2>3 DEF RowHolds, NewRow
<1> QED
  BY <1>0, <1>1, <1>2

\* Makers and origins stay known through one more proper record.
LEMMA RecordsHoldGrow ==
  ASSUME NEW l, NEW m, NEW e, Grown(l, m, e), \A i \in DOMAIN l : RecordHolds(l, i),
         NewRow(l, e), NewRecord(l, e)
  PROVE  \A i \in DOMAIN m : RecordHolds(m, i)
<1> SUFFICES ASSUME NEW i \in DOMAIN m, m[i].ent \in Entities PROVE RecordHolds(m, i)
  BY DEF RecordHolds
<1>0. /\ Len(l) \in Nat /\ DOMAIN l = 1..Len(l) /\ DOMAIN m = 1..(Len(l) + 1)
      /\ m[Len(l) + 1] = e /\ \A n \in 1..Len(l) : m[n] = l[n]
  BY DEF Grown
<1>k. \A r : Rows(l, r) # {} => Rows(m, r) # {}
  BY HomeGrow
<1>1. CASE i \in DOMAIN l
  <2>0. m[i] = l[i] /\ Rows(l, l[i].ent) # {}
    BY <1>0, <1>1 DEF Rows
  <2>1. RecordHolds(l, i)
    BY <1>1
  <2>2. Home(m, l[i].ent) = Home(l, l[i].ent)
    BY <2>0, HomeGrow
  <2> QED
    BY <2>0, <2>1, <2>2, <1>k DEF RecordHolds
<1>2. CASE i = Len(l) + 1
  <2>0. m[i] = e /\ e.ent \in Entities
    BY <1>0, <1>2
  <2>1. e.by \in Agents => e.run \in Runs /\ Rows(m, e.run) # {}
    BY <2>0, <1>k DEF NewRecord, OfAgent
  <2>2. CASE Rows(l, e.ent) = {}
    <3>1. Home(m, e.ent) = e
      BY <2>2, HomeGrow
    <3>2. FirstOfRecord(l, e)
      BY <2>0, <2>2 DEF NewRecord
    <3> QED
      BY <2>0, <2>1, <3>1, <3>2, <1>k DEF FirstOfRecord, RecordHolds
  <2>3. CASE Rows(l, e.ent) # {}
    <3> DEFINE home == Home(l, e.ent)
    <3>1. Home(m, e.ent) = home
      BY <2>3, HomeGrow
    <3>2. LaterOfRecord(l, e)
      BY <2>0, <2>3 DEF NewRecord
    <3>3. PICK j \in DOMAIN l : l[j].ent = e.ent /\ RecordHolds(l, j)
      BY <2>3 DEF Rows
    <3>4. home.maker \notin {Owner, System} =>
            home.run \in Runs /\ Rows(l, home.run) # {} /\ home.origin = home.run
      BY <3>3, <2>0 DEF RecordHolds
    <3> QED
      BY <2>0, <2>1, <3>1, <3>2, <3>4, <1>k DEF LaterOfRecord, RecordHolds
  <2> QED
    BY <2>2, <2>3
<1> QED
  BY <1>0, <1>1, <1>2

\* The roles stay separate through one more proper record.
LEMMA SeparateGrow ==
  ASSUME NEW l, NEW m, NEW e, Grown(l, m, e), Separate(l),
         \A i \in DOMAIN l : RowHolds(l, i) /\ RecordHolds(l, i), NewRow(l, e), NewRecord(l, e)
  PROVE  Separate(m)
<1> SUFFICES ASSUME NEW i \in DOMAIN m, m[i].ent \in Entities, m[i].by \in Agents
             PROVE  /\ Home(m, m[i].ent).maker = System \/ HomeRole(m, m[i].ent) = OpenedAs(m, m[i].run)
                    /\ \A n \in DOMAIN m[i].deps : Cited(m, m[i].deps[n], OpenedAs(m, m[i].run), i - 1)
  BY DEF Separate
<1>0. /\ Len(l) \in Nat /\ DOMAIN l = 1..Len(l) /\ DOMAIN m = 1..(Len(l) + 1)
      /\ m[Len(l) + 1] = e /\ \A n \in 1..Len(l) : m[n] = l[n]
  BY DEF Grown
<1>1. CASE i \in DOMAIN l
  <2>0. m[i] = l[i] /\ i \in 1..Len(l) /\ i - 1 \in Nat /\ i - 1 <= Len(l) /\ Rows(l, l[i].ent) # {}
    BY <1>0, <1>1 DEF Rows
  <2>1. /\ Home(l, l[i].ent).maker = System \/ HomeRole(l, l[i].ent) = OpenedAs(l, l[i].run)
        /\ \A n \in DOMAIN l[i].deps : Cited(l, l[i].deps[n], OpenedAs(l, l[i].run), i - 1)
    BY <2>0, <1>1 DEF Separate
  <2>2. RowHolds(l, i) /\ RecordHolds(l, i)
    BY <1>1
  <2>3. Rows(l, l[i].run) # {} /\ OpenedAs(m, l[i].run) = OpenedAs(l, l[i].run)
    BY <2>0, <2>2, HomeGrow DEF RecordHolds, OpenedAs
  <2>4. Home(m, l[i].ent) = Home(l, l[i].ent)
    BY <2>0, HomeGrow
  <2>5. Home(l, l[i].ent).maker = System \/ HomeRole(m, l[i].ent) = HomeRole(l, l[i].ent)
    <3>1. CASE Home(l, l[i].ent).maker \notin {Owner, System}
      BY <3>1, <2>0, <2>2, <1>1, HomeRoleGrow
    <3>2. CASE Home(l, l[i].ent).maker = Owner
      \* The owner's records are explicit, and no agent writes one.
      BY <3>2, <2>0, <2>2, GatewayAssumption DEF RecordHolds, RowHolds
    <3> QED
      BY <3>1, <3>2
  <2>6. \A n \in DOMAIN l[i].deps : Cited(m, l[i].deps[n], OpenedAs(l, l[i].run), i - 1)
    BY <2>0, <2>1, CitedGrow
  <2> QED
    BY <2>0, <2>1, <2>3, <2>4, <2>5, <2>6
<1>2. CASE i = Len(l) + 1
  <2>0. m[i] = e /\ e.ent \in Entities /\ e.by \in Agents /\ i - 1 = Len(l)
    BY <1>0, <1>2
  <2>1. OfAgent(l, e)
    BY <2>0 DEF NewRecord
  <2>2. Rows(l, e.run) # {} /\ OpenedAs(m, e.run) = OpenedAs(l, e.run)
    BY <2>1, HomeGrow DEF OfAgent, OpenedAs
  <2>3. \A n \in DOMAIN e.deps : Cited(m, e.deps[n], OpenedAs(l, e.run), Len(l))
    BY <2>1, <1>0, CitedGrow DEF OfAgent
  <2>4. Home(m, e.ent).maker = System \/ HomeRole(m, e.ent) = OpenedAs(m, e.run)
    <3>1. CASE Rows(l, e.ent) = {}
      <4>1. Home(m, e.ent) = e /\ e.maker \notin {Owner, System}
        BY <3>1, <2>0, <2>1, HomeGrow, GatewayAssumption DEF OfAgent
      <4>2. e.run # NoRun
        BY <2>1, GatewayAssumption DEF OfAgent, NoRun
      <4> QED
        BY <4>1, <4>2 DEF HomeRole
    <3>2. CASE Rows(l, e.ent) # {}
      <4>1. PICK j \in DOMAIN l : l[j].ent = e.ent
        BY <3>2 DEF Rows
      <4>2. Home(m, e.ent) = Home(l, e.ent)
        BY <3>2, HomeGrow
      <4>3. CASE Home(l, e.ent).maker = System
        BY <4>2, <4>3
      <4>4. CASE Home(l, e.ent).maker = Owner
        <5>1. e.basis = "explicit"
          BY <4>4, <3>2, <2>0 DEF NewRecord, LaterOfRecord
        <5> QED
          BY <5>1, <2>0, GatewayAssumption DEF NewRow
      <4>5. CASE Home(l, e.ent).maker \notin {Owner, System}
        <5>1. HomeRole(m, e.ent) = HomeRole(l, e.ent)
          BY <4>1, <4>5, <2>0, HomeRoleGrow
        <5> QED
          BY <5>1, <4>5, <3>2, <2>1, <2>2 DEF OfAgent
      <4> QED
        BY <4>3, <4>4, <4>5
    <3> QED
      BY <3>1, <3>2
  <2> QED
    BY <2>0, <2>2, <2>3, <2>4
<1> QED
  BY <1>0, <1>1, <1>2

\* The ledger after one more event.
LEMMA LedgerGrow ==
  ASSUME NEW l, LedgerHolds(l), NEW e, NewRow(l, e), NewRecord(l, e)
  PROVE  LedgerHolds(Append(l, e)) /\ Grown(l, Append(l, e), e)
<1> DEFINE m == Append(l, e)
<1>1. IsSeq(m) /\ Grown(l, m, e)
  BY AppendIs, GrownByAppend DEF LedgerHolds
<1>2. Separate(l) /\ \A i \in DOMAIN l : RowHolds(l, i) /\ RecordHolds(l, i)
  BY DEF LedgerHolds
<1> HIDE DEF m
<1>3. \A i \in DOMAIN m : RowHolds(m, i)
  BY <1>1, <1>2, RowsHoldGrow
<1>4. \A i \in DOMAIN m : RecordHolds(m, i)
  BY <1>1, <1>2, RecordsHoldGrow
<1>5. Separate(m)
  BY <1>1, <1>2, SeparateGrow
<1> QED
  BY <1>1, <1>3, <1>4, <1>5 DEF LedgerHolds, m

-----------------------------------------------------------------------------
(* What the gateway's checks establish at their moment *)

\* A run that has a role has the one it was opened with.
LEMMA RunRoleIs ==
  ASSUME NEW l, LedgerHolds(l), NEW r, RunRole(l, r) # NoRole
  PROVE  /\ r \in Runs /\ Rows(l, r) # {} /\ RunRole(l, r) = OpenedAs(l, r)
         /\ Current(l, r) \in Rows(l, r) /\ l[Current(l, r)].role = RunRole(l, r)
<1>1. r \in Runs /\ Current(l, r) # 0 /\ RunRole(l, r) = l[Current(l, r)].role
  BY DEF RunRole
<1>2. Len(l) \in Nat /\ DOMAIN l = 1..Len(l)
  BY SequenceIs DEF LedgerHolds
<1>3. Rows(l, r) # {} /\ Current(l, r) \in Rows(l, r)
  BY <1>1, <1>2, Ends
<1>4. Current(l, r) \in DOMAIN l /\ l[Current(l, r)].ent = r
  BY <1>3 DEF Rows
<1>5. RowHolds(l, Current(l, r))
  BY <1>4 DEF LedgerHolds
<1> QED
  BY <1>1, <1>3, <1>4, <1>5 DEF RowHolds

\* No row of a live entity is a tombstone.
LEMMA AliveRows ==
  ASSUME NEW l, LedgerHolds(l), NEW x, Alive(l, x)
  PROVE  \A i \in Rows(l, x) : ~l[i].tomb
<1> SUFFICES ASSUME NEW i \in Rows(l, x) PROVE ~l[i].tomb
  OBVIOUS
<1>1. Len(l) \in Nat /\ DOMAIN l = 1..Len(l)
  BY SequenceIs DEF LedgerHolds
<1>2. Current(l, x) \in Rows(l, x) /\ i <= Current(l, x) /\ i \in 1..Len(l) /\ l[i].ent = x
      /\ Current(l, x) \in 1..Len(l)
  BY <1>1, Ends DEF Rows
<1>3. i = Current(l, x) \/ i < Current(l, x)
  BY <1>2
<1>4. RowHolds(l, i)
  BY <1>1, <1>2 DEF LedgerHolds
<1> QED
  BY <1>2, <1>3, <1>4 DEF RowHolds, Alive

\* What a role can see it may use.
LEMMA VisibleMayUse ==
  ASSUME NEW l, LedgerHolds(l), NEW i \in DOMAIN l, NEW role, role # NoRole, Visible(l, i, role)
  PROVE  l[i].ent \in Entities /\ MayUse(l, i, role, Len(l))
<1> DEFINE x == l[i]
           home == Home(l, x.ent)
<1>0. Len(l) \in Nat /\ DOMAIN l = 1..Len(l)
  BY SequenceIs DEF LedgerHolds
<1>1. x.ent \in Entities /\ i \in Rows(l, x.ent) /\ Rows(l, x.ent) # {}
  BY DEF Visible, Rows
<1>2. RowHolds(l, i) /\ RecordHolds(l, i)
  BY DEF LedgerHolds
<1>3. \A j \in Rows(l, x.ent) : j \in DOMAIN l /\ l[j].ent = x.ent /\ RecordHolds(l, j)
  BY DEF LedgerHolds, Rows
<1>4. Min(Rows(l, x.ent)) \in Rows(l, x.ent)
  BY <1>0, <1>1, Ends
<1>5. CASE TrustedCrossRole(l, i)
  <2>1. ~x.tomb
    BY <1>1, <1>5, AliveRows DEF TrustedCrossRole, HasBody
  <2> QED
    BY <2>1, <1>1, <1>2, <1>5 DEF TrustedCrossRole, RecordHolds, MayUse
<1>6. CASE home.maker \in {Owner, System}
  BY <1>1, <1>6 DEF MayUse
<1>7. CASE home.maker \notin {Owner, System} /\ OriginRole(l, i) # NoRole /\ OriginRole(l, i) = role
  <2>1. PICK j \in Rows(l, x.ent) : RunRole(l, l[j].origin) = role
    <3>1. CASE RunRole(l, x.origin) # NoRole
      BY <3>1, <1>1, <1>7 DEF OriginRole
    <3>2. CASE RunRole(l, x.origin) = NoRole
      <4> DEFINE rows == {j \in Rows(l, x.ent) : RunRole(l, l[j].origin) # NoRole}
      <4>1. rows # {} /\ role = RunRole(l, l[Min(rows)].origin)
        BY <3>2, <1>7 DEF OriginRole, OriginRoleForEntity
      <4>2. rows \subseteq Nat
        BY <1>0, Ends
      <4>3. Min(rows) \in rows
        BY <4>1, <4>2, LeastOf
      <4> QED
        BY <4>1, <4>3
    <3> QED
      BY <3>1, <3>2
  <2>2. RunRole(l, l[j].origin) # NoRole
    BY <2>1
  <2>3. l[j].origin \in Runs /\ role = OpenedAs(l, l[j].origin)
    BY <2>1, <2>2, RunRoleIs
  <2>4. l[j].origin \in {NoRun, home.run}
    BY <1>1, <1>3, <1>7 DEF RecordHolds
  <2>5. l[j].origin = home.run /\ home.run # NoRun
    BY <2>3, <2>4, GatewayAssumption DEF NoRun
  <2>6. HomeRole(l, x.ent) = role
    BY <2>3, <2>5 DEF HomeRole
  <2> QED
    BY <2>6, <1>1 DEF MayUse
<1>8. CASE /\ home.maker \notin {Owner, System}
           /\ OriginRole(l, i) = NoRole /\ x.basis = "explicit" /\ x.by = Owner
  <2>1. home.origin = home.run
    BY <1>1, <1>2, <1>8 DEF RecordHolds
  <2>2. RunRole(l, home.run) = NoRole
    <3> DEFINE rows == {j \in Rows(l, x.ent) : RunRole(l, l[j].origin) # NoRole}
    <3>1. SUFFICES ASSUME RunRole(l, home.run) # NoRole PROVE FALSE
      OBVIOUS
    <3>2. Min(Rows(l, x.ent)) \in rows
      BY <1>4, <2>1, <3>1 DEF Home
    <3>3. OriginRoleForEntity(l, x.ent) = RunRole(l, l[Min(rows)].origin)
      BY <3>2 DEF OriginRoleForEntity
    <3>4. rows \subseteq Nat
      BY <1>0, Ends
    <3>5. Min(rows) \in rows
      BY <3>2, <3>4, LeastOf
    <3> QED
      BY <3>3, <3>5, <1>8 DEF OriginRole
  <2>3. RoleAt(l, home.run, Len(l)) = NoRole
    BY <2>2, <1>0, RoleAtEnd
  <2>4. Len(l) \in i..Len(l)
    BY <1>0
  <2> QED
    BY <2>3, <2>4, <1>1, <1>8 DEF MayUse
<1> QED
  BY <1>5, <1>6, <1>7, <1>8 DEF Visible

\* The event a reference names is a row of its entity, at its revision, not deleted.
LEMMA NamedIs ==
  ASSUME NEW l, LedgerHolds(l), NEW ref, Named(l, ref) # 0
  PROVE  LET i == Named(l, ref) IN
           /\ i \in DOMAIN l /\ l[i].ent = ref.ent /\ ref.rev \in {NoPin, l[i].rev} /\ ~l[i].tomb
<1> DEFINE rows == {i \in Rows(l, ref.ent) : ref.rev \in {NoPin, l[i].rev}}
<1>0. Len(l) \in Nat /\ DOMAIN l = 1..Len(l)
  BY SequenceIs DEF LedgerHolds
<1>1. rows # {} /\ Alive(l, ref.ent) /\ Named(l, ref) = Max(rows)
  BY DEF Named
<1>2. rows \subseteq 1..Len(l)
  BY <1>0, Ends
<1>3. Max(rows) \in rows
  BY <1>0, <1>1, <1>2, GreatestOf
<1> QED
  BY <1>1, <1>3, AliveRows DEF Rows

\* A reference that passes requireEntityRefs meets a revision the role may use.
LEMMA HoldsCited ==
  ASSUME NEW l, LedgerHolds(l), NEW ref, NEW role, role # NoRole, Holds(l, ref, role)
  PROVE  Cited(l, ref, role, Len(l))
<1> DEFINE i == Named(l, ref)
<1>0. Len(l) \in Nat /\ DOMAIN l = 1..Len(l)
  BY SequenceIs DEF LedgerHolds
<1>1. i # 0 /\ Visible(l, i, role) /\ ref.hash \in {NoPin, i}
  BY DEF Holds
<1>2. i \in DOMAIN l /\ l[i].ent = ref.ent /\ ref.rev \in {NoPin, l[i].rev} /\ ~l[i].tomb
  BY <1>1, NamedIs
<1>3. l[i].ent \in Entities /\ MayUse(l, i, role, Len(l))
  BY <1>1, <1>2, VisibleMayUse
<1> QED
  BY <1>0, <1>1, <1>2, <1>3 DEF Cited

-----------------------------------------------------------------------------
(* The inductive invariant *)

CallFields(op) ==
  {"op", "run", "refs"} \cup FieldsOf(op)
    \cup (IF op = "open" THEN {"pc", "runAt"}
          ELSE {"pc", "next", "role", "runAt", "seeds", "origin", "types", "hits", "found", "draft"})

StepsOf(op) ==
  CASE op \in {"append", "evidence"} -> {"refs", "target", "build", "commit"}
    [] op \in {"checkpoint", "open"} -> {"commit"}
    [] op = "complete" -> {"refs", "commit", "again", "terminal"}
    [] op \in {"assemble", "refresh"} -> {"refs", "pack", "gather", "look", "own", "tell"}
    [] op = "cue" -> {"list", "create", "relist"}
    [] op \in {"changes", "get"} -> {"read"}
    [] op = "search" -> {"find", "sift"}

CallShape(c) == c.op \in Ops /\ DOMAIN c = CallFields(c.op) /\ c.pc \in StepsOf(c.op)

\* The run a call is made in: the role it was opened with is the call's.
CallRun(l, a, c) ==
  /\ c.run \in Runs
  /\ c.op # "open" =>
       /\ Rows(l, c.run) # {} /\ c.role \in RolesOf[a] /\ c.role = OpenedAs(l, c.run)
       /\ c.runAt \in Rows(l, c.run) /\ l[c.runAt].role = c.role

\* A revision's target has been the owner's to revise, or is of the call's role.
Vouched(l, c) ==
  /\ Rows(l, c.ent) # {}
  /\ \/ \E i \in Rows(l, c.ent) : l[i].basis = "explicit"
     \/ Home(l, c.ent).maker = System
     \/ c.origin = Home(l, c.ent).run /\ OpenedAs(l, c.origin) = c.role

\* A record on its way into the ledger: what was checked of it stays true.
CallRecord(l, c) ==
  c.op \in {"append", "evidence"} =>
    /\ Len(c.refs) \in Nat /\ DOMAIN c.refs = 1..Len(c.refs) /\ c.next \in Nat \ {0}
    /\ c.ent \in Entities /\ c.expected \in Nat /\ (c.op = "evidence" => c.expected = 0)
    /\ \A n \in DOMAIN c.refs : n < c.next \/ c.pc # "refs" => Cited(l, c.refs[n], c.role, Len(l))
    /\ c.expected = 0 => c.origin = c.run
    /\ c.pc = "target" => c.expected > 0
    /\ c.expected > 0 /\ c.pc \in {"build", "commit"} => Vouched(l, c)

\* An event the agent was given to read.
Given(l, a, i) ==
  i \in DOMAIN l /\ l[i].ent \in Entities /\ \E role \in RolesOf[a] : MayUse(l, i, role, Len(l))

\* A hit of which a search has found, by its record, that the agent may have it.
Offered(l, a, i) ==
  i \in DOMAIN l /\ l[i].ent \in Entities /\ \E role \in RolesOf[a] : MayFind(l, i, role)

CallOther(l, a, c) ==
  /\ c.op = "checkpoint" => c.expected \in Nat
  /\ c.op = "complete" /\ c.pc = "terminal" => l[c.runAt].phase = "complete"
  /\ c.op = "changes" => c.limit \in Nat /\ c.count \in Nat /\ c.count < c.limit
  /\ c.op = "search" => c.hits \subseteq DOMAIN l /\ \A i \in c.found : Offered(l, a, i)

CallHolds(l, a, c) ==
  c # NoCall => CallShape(c) /\ CallRun(l, a, c) /\ CallRecord(l, c) /\ CallOther(l, a, c)

Completed(l, r, i) ==
  /\ i \in DOMAIN l /\ l[i].ent = r.run /\ l[i].phase = "complete"
  /\ \A j \in Rows(l, r.run) : l[j].phase = "complete" => j = i
  /\ l[i].mat = r.mat /\ l[i].deps = r.refs

ReplyHolds(l, a, rep) ==
  /\ rep.code = "read" /\ rep.event # 0 => Given(l, a, rep.event)
  /\ rep.code = "found" => \A i \in rep.found : Offered(l, a, i)
  /\ rep.code \in {"created", "duplicate"} /\ rep.req.op = "complete" => Completed(l, rep.req, rep.event)

\* What was sent to one role is within the cursor, in order, and all of it.
BoxHolds(l, a, role, box) ==
  /\ box.cursor \in 0..Len(l) /\ IsSeq(box.got)
  /\ \A n \in DOMAIN box.got : \A i \in box.got[n] :
       /\ i \in 1..box.cursor /\ role \in RolesOf[a]
       /\ l[i].ent \in Entities /\ MayUse(l, i, role, Len(l))
  /\ \A m, n \in DOMAIN box.got : m < n => \A i \in box.got[m], j \in box.got[n] : i < j
  /\ \A i \in 1..box.cursor :
       /\ l[i].ent \in Entities
       /\ \A k \in i..Len(l) : RoleAt(l, l[i].origin, k) = role
       => \E n \in DOMAIN box.got : i \in box.got[n]

TodoHolds(s) == IsSeq(s) /\ \A n \in DOMAIN s : WellFormed(s[n])
ActsHold(s) == IsSeq(s) /\ \A n \in DOMAIN s : Proper(s[n])

IInv ==
  /\ LedgerHolds(log) /\ ActsHold(acts)
  /\ DOMAIN todo = Agents /\ DOMAIN call = Agents /\ DOMAIN reply = Agents /\ DOMAIN inbox = Agents
  /\ \A a \in Agents :
       /\ TodoHolds(todo[a]) /\ CallHolds(log, a, call[a]) /\ ReplyHolds(log, a, reply[a])
       /\ DOMAIN inbox[a] = Roles
       /\ \A role \in Roles : BoxHolds(log, a, role, inbox[a][role])

-----------------------------------------------------------------------------
(* One more event disturbs no call, no reply and no page *)

\* The parts of LedgerHolds that most steps use.
LEMMA LedgerIs ==
  ASSUME NEW l, LedgerHolds(l)
  PROVE  /\ Len(l) \in Nat /\ DOMAIN l = 1..Len(l)
         /\ \A i \in DOMAIN l : RowHolds(l, i) /\ RecordHolds(l, i)
BY SequenceIs DEF LedgerHolds

\* A hit that was found for the agent stays one it may have.
LEMMA OfferedGrow ==
  ASSUME NEW l, NEW m, NEW e, LedgerHolds(l), Grown(l, m, e), NEW a, NEW i, Offered(l, a, i)
  PROVE  Offered(m, a, i)
<1>1. /\ Len(l) \in Nat /\ DOMAIN l = 1..Len(l) /\ Len(m) = Len(l) + 1 /\ DOMAIN m = 1..(Len(l) + 1)
      /\ \A n \in DOMAIN l : m[n] = l[n] /\ RecordHolds(l, n)
  BY LedgerIs DEF Grown
<1>2. PICK role \in RolesOf[a], j \in Rows(l, l[i].ent) : i <= j /\ MayUse(l, j, role, Len(l))
  BY DEF Offered, MayFind
<1>3. i \in DOMAIN l /\ i \in DOMAIN m /\ l[i].ent \in Entities /\ m[i] = l[i]
  BY <1>1 DEF Offered
<1>4. j \in DOMAIN l /\ l[j].ent = l[i].ent /\ m[j] = l[j] /\ j \in Rows(m, m[i].ent)
  BY <1>1, <1>2, <1>3 DEF Rows
<1>5. MayUse(m, j, role, Len(m))
  BY <1>1, <1>2, <1>3, <1>4, MayUseGrow
<1> QED
  BY <1>2, <1>3, <1>4, <1>5 DEF Offered, MayFind

\* Nothing a call in progress has checked is undone by an event of someone else.
LEMMA CallGrow ==
  ASSUME NEW l, NEW m, NEW e, LedgerHolds(l), Grown(l, m, e), NEW a, NEW c, CallHolds(l, a, c)
  PROVE  CallHolds(m, a, c)
<1> SUFFICES ASSUME c # NoCall
             PROVE  CallShape(c) /\ CallRun(m, a, c) /\ CallRecord(m, c) /\ CallOther(m, a, c)
  BY DEF CallHolds
<1>0. CallShape(c) /\ CallRun(l, a, c) /\ CallRecord(l, c) /\ CallOther(l, a, c)
  BY DEF CallHolds
<1>1. /\ Len(l) \in Nat /\ DOMAIN l = 1..Len(l) /\ Len(m) = Len(l) + 1
      /\ \A i \in DOMAIN l : m[i] = l[i] /\ RowHolds(l, i) /\ RecordHolds(l, i)
  BY LedgerIs DEF Grown
<1>2. \A x : \A i \in Rows(l, x) : i \in Rows(m, x) /\ i \in DOMAIN l /\ m[i] = l[i] /\ l[i].ent = x
  BY <1>1, RowsGrow DEF Rows
<1>3. \A x : Rows(l, x) # {} => Rows(m, x) # {} /\ Home(m, x) = Home(l, x)
  BY HomeGrow
<1>4. CallRun(m, a, c)
  BY <1>0, <1>2, <1>3 DEF CallRun, OpenedAs
<1>5. ASSUME c.op \in {"append", "evidence"}
      PROVE  CallRecord(m, c)
  <2>1. \A n \in DOMAIN c.refs : n < c.next \/ c.pc # "refs" => Cited(m, c.refs[n], c.role, Len(m))
    <3> SUFFICES ASSUME NEW n \in DOMAIN c.refs, n < c.next \/ c.pc # "refs"
                 PROVE  Cited(m, c.refs[n], c.role, Len(m))
      OBVIOUS
    <3>1. Cited(l, c.refs[n], c.role, Len(l))
      BY <1>0, <1>5 DEF CallRecord
    <3> QED
      BY <3>1, <1>1, CitedGrow
  <2>2. ASSUME Vouched(l, c)
        PROVE  Vouched(m, c)
    <3> DEFINE home == Home(l, c.ent)
    <3>1. Rows(l, c.ent) # {} /\ Rows(m, c.ent) # {} /\ Home(m, c.ent) = home
      BY <2>2, <1>3 DEF Vouched
    <3>2. CASE \E i \in Rows(l, c.ent) : l[i].basis = "explicit"
      BY <3>1, <3>2, <1>2 DEF Vouched
    <3>3. CASE home.maker = System
      BY <3>1, <3>3 DEF Vouched
    <3>4. CASE /\ ~\E i \in Rows(l, c.ent) : l[i].basis = "explicit"
               /\ home.maker # System /\ c.origin = home.run /\ OpenedAs(l, c.origin) = c.role
      <4>1. PICK i \in Rows(l, c.ent) : RecordHolds(l, i) /\ l[i].ent = c.ent /\ l[i].basis # "explicit"
        BY <3>1, <3>4, <1>1, <1>2
      <4>2. c.ent \in Entities
        BY <1>0, <1>5 DEF CallRecord
      <4>3. Rows(l, home.run) # {}
        BY <4>1, <4>2, <3>4 DEF RecordHolds
      <4>4. OpenedAs(m, c.origin) = c.role
        BY <4>3, <3>4, <1>3 DEF OpenedAs
      <4> QED
        BY <4>4, <3>1, <3>4 DEF Vouched
    <3> QED
      BY <2>2, <3>2, <3>3, <3>4 DEF Vouched
  <2> QED
    BY <1>0, <1>5, <2>1, <2>2 DEF CallRecord
<1>6. CallOther(m, a, c)
  <2>1. c.op = "complete" /\ c.pc = "terminal" => m[c.runAt].phase = "complete"
    BY <1>0, <1>2 DEF CallOther, CallRun
  <2>2. c.op = "search" => c.hits \subseteq DOMAIN m /\ \A i \in c.found : Offered(m, a, i)
    <3>1. DOMAIN l \subseteq DOMAIN m
      BY <1>1 DEF Grown
    <3>2. \A i : Offered(l, a, i) => Offered(m, a, i)
      BY OfferedGrow
    <3> QED
      BY <1>0, <3>1, <3>2 DEF CallOther
  <2> QED
    BY <1>0, <2>1, <2>2 DEF CallOther
<1> QED
  BY <1>0, <1>4, <1>5, <1>6 DEF CallRecord

\* What an agent was given to read stays something it may read.
LEMMA GivenGrow ==
  ASSUME NEW l, NEW m, NEW e, LedgerHolds(l), Grown(l, m, e), NEW a, NEW i, Given(l, a, i)
  PROVE  Given(m, a, i)
<1>1. /\ Len(l) \in Nat /\ DOMAIN l = 1..Len(l) /\ Len(m) = Len(l) + 1 /\ DOMAIN m = 1..(Len(l) + 1)
      /\ \A n \in DOMAIN l : m[n] = l[n] /\ RecordHolds(l, n)
  BY LedgerIs DEF Grown
<1>2. PICK role \in RolesOf[a] : MayUse(l, i, role, Len(l))
  BY DEF Given
<1>3. i \in DOMAIN l /\ i \in DOMAIN m /\ l[i].ent \in Entities /\ m[i] = l[i]
  BY <1>1 DEF Given
<1>4. MayUse(m, i, role, Len(m))
  BY <1>1, <1>2, <1>3, MayUseGrow
<1> QED
  BY <1>3, <1>4 DEF Given

\* A run that is complete takes nothing but its deletion.
LEMMA CompletedGrow ==
  ASSUME NEW l, NEW m, NEW e, LedgerHolds(l), Grown(l, m, e), NewRow(l, e),
         NEW r, NEW i, Completed(l, r, i)
  PROVE  Completed(m, r, i)
<1>1. /\ Len(l) \in Nat /\ DOMAIN l = 1..Len(l) /\ DOMAIN m = 1..(Len(l) + 1) /\ m[Len(l) + 1] = e
      /\ \A n \in DOMAIN l : m[n] = l[n] /\ RowHolds(l, n)
  BY LedgerIs DEF Grown
<1>2. i \in Rows(l, r.run) /\ l[i].ent = r.run /\ l[i].phase = "complete" /\ i \in DOMAIN l
  BY DEF Completed, Rows
<1>3. ASSUME e.ent = r.run, e.phase = "complete"
      PROVE  FALSE
  <2> DEFINE cur == Current(l, r.run)
  <2>1. cur \in Rows(l, r.run) /\ i <= cur /\ cur # 0 /\ i \in Nat /\ cur \in Nat
    BY <1>1, <1>2, Ends
  <2>2. ~l[cur].tomb /\ (l[cur].phase # "complete" \/ e.tomb)
    BY <1>3, <2>1 DEF NewRow, Acceptable
  <2>3. i < cur => l[cur].tomb
    BY <1>1, <1>2, <2>1 DEF RowHolds
  <2>4. i = cur
    BY <2>1, <2>2, <2>3
  <2> QED
    BY <2>2, <2>4, <1>2, <1>3 DEF NewRow
<1>4. \A j \in Rows(m, r.run) : m[j].phase = "complete" => j = i
  <2> SUFFICES ASSUME NEW j \in Rows(m, r.run), m[j].phase = "complete" PROVE j = i
    OBVIOUS
  <2>1. j \in DOMAIN m /\ m[j].ent = r.run
    BY DEF Rows
  <2>2. j \in DOMAIN l
    BY <2>1, <1>1, <1>3
  <2> QED
    BY <2>1, <2>2, <1>1 DEF Completed, Rows
<1> QED
  BY <1>1, <1>2, <1>4 DEF Completed

\* An answer stays true.
LEMMA ReplyGrow ==
  ASSUME NEW l, NEW m, NEW e, LedgerHolds(l), Grown(l, m, e), NewRow(l, e),
         NEW a, NEW rep, ReplyHolds(l, a, rep)
  PROVE  ReplyHolds(m, a, rep)
<1>1. \A i : (Given(l, a, i) => Given(m, a, i)) /\ (Offered(l, a, i) => Offered(m, a, i))
  BY GivenGrow, OfferedGrow
<1>2. Completed(l, rep.req, rep.event) => Completed(m, rep.req, rep.event)
  BY CompletedGrow
<1> QED
  BY <1>1, <1>2 DEF ReplyHolds

\* The pages that were sent stay complete up to their cursor.
LEMMA BoxGrow ==
  ASSUME NEW l, NEW m, NEW e, LedgerHolds(l), Grown(l, m, e),
         NEW a, NEW role, NEW box, BoxHolds(l, a, role, box)
  PROVE  BoxHolds(m, a, role, box)
<1>1. /\ Len(l) \in Nat /\ DOMAIN l = 1..Len(l) /\ Len(m) = Len(l) + 1 /\ DOMAIN m = 1..(Len(l) + 1)
      /\ \A n \in DOMAIN l : m[n] = l[n] /\ RecordHolds(l, n)
  BY LedgerIs DEF Grown
<1>2. box.cursor \in 0..Len(l) /\ box.cursor \in 0..Len(m) /\ 1..box.cursor \subseteq DOMAIN l
  BY <1>1 DEF BoxHolds
<1>3. ASSUME NEW i \in 1..box.cursor, l[i].ent \in Entities, MayUse(l, i, role, Len(l))
      PROVE  m[i].ent \in Entities /\ MayUse(m, i, role, Len(m))
  <2>1. i \in DOMAIN l /\ m[i] = l[i] /\ RecordHolds(l, i)
    BY <1>1, <1>2
  <2> QED
    BY <2>1, <1>1, <1>3, MayUseGrow
<1>4. ASSUME NEW i \in 1..box.cursor, m[i].ent \in Entities,
             \A k \in i..Len(m) : RoleAt(m, m[i].origin, k) = role
      PROVE  \E n \in DOMAIN box.got : i \in box.got[n]
  <2>1. m[i] = l[i]
    BY <1>1, <1>2
  <2>2. \A k \in i..Len(l) : RoleAt(l, l[i].origin, k) = role
    <3> TAKE k \in i..Len(l)
    <3>1. k \in Nat /\ k <= Len(l) /\ k \in i..Len(m)
      BY <1>1
    <3> QED
      BY <3>1, <2>1, <1>4, RoleAtGrow
  <2> QED
    BY <2>1, <2>2, <1>4 DEF BoxHolds
<1> QED
  BY <1>2, <1>3, <1>4 DEF BoxHolds

-----------------------------------------------------------------------------
(* The steps *)

\* The roles of config.roles are roles, and none of them is no role.
LEMMA RolesAreRoles ==
  ASSUME NEW a \in Agents, NEW role \in RolesOf[a]
  PROVE  role \in Roles /\ role # NoRole
BY GatewayAssumption

\* What a step must show: that it keeps the ledger, and that what it changes holds.
LEMMA Kept ==
  ASSUME IInv, LedgerHolds(log'), ActsHold(acts'),
         log' = log \/ \E e : NewRow(log, e) /\ Grown(log, log', e),
         DOMAIN todo' = Agents, DOMAIN call' = Agents, DOMAIN reply' = Agents, DOMAIN inbox' = Agents,
         \A a \in Agents : todo'[a] = todo[a] \/ TodoHolds(todo'[a]),
         \A a \in Agents : call'[a] = call[a] \/ CallHolds(log', a, call'[a]),
         \A a \in Agents : reply'[a] = reply[a] \/ ReplyHolds(log', a, reply'[a]),
         \A a \in Agents : inbox'[a] = inbox[a] \/
            /\ DOMAIN inbox'[a] = Roles
            /\ \A role \in Roles : inbox'[a][role] = inbox[a][role]
                                     \/ BoxHolds(log', a, role, inbox'[a][role])
  PROVE  IInv'
<1>1. ASSUME NEW a \in Agents
      PROVE  /\ CallHolds(log', a, call[a]) /\ ReplyHolds(log', a, reply[a])
             /\ \A role \in Roles : BoxHolds(log', a, role, inbox[a][role])
  <2>1. /\ LedgerHolds(log) /\ CallHolds(log, a, call[a]) /\ ReplyHolds(log, a, reply[a])
        /\ \A role \in Roles : BoxHolds(log, a, role, inbox[a][role])
    BY DEF IInv
  <2>2. CASE log' = log
    BY <2>1, <2>2
  <2>3. CASE \E e : NewRow(log, e) /\ Grown(log, log', e)
    <3>1. PICK e : NewRow(log, e) /\ Grown(log, log', e)
      BY <2>3
    <3> QED
      BY <2>1, <3>1, CallGrow, ReplyGrow, BoxGrow
  <2> QED
    BY <2>2, <2>3
<1> DEFINE AgentHolds(a) ==
       /\ TodoHolds(todo'[a]) /\ CallHolds(log', a, call'[a]) /\ ReplyHolds(log', a, reply'[a])
       /\ DOMAIN inbox'[a] = Roles
       /\ \A role \in Roles : BoxHolds(log', a, role, inbox'[a][role])
<1>2. ASSUME NEW a \in Agents
      PROVE  AgentHolds(a)
  <2>1. TodoHolds(todo[a]) /\ DOMAIN inbox[a] = Roles
    BY DEF IInv
  <2> QED
    BY <1>1, <2>1
<1> QED
  BY <1>2 DEF IInv

\* The same for a step of one agent that leaves the ledger and the pages alone.
LEMMA KeptByCall ==
  ASSUME IInv, NEW a \in Agents, log' = log, acts' = acts, inbox' = inbox,
         todo' = todo \/ (todo' = Next1(a) /\ todo[a] # <<>>),
         NEW c, call' = [call EXCEPT ![a] = c], CallHolds(log, a, c),
         reply' = reply \/ \E rep : reply' = [reply EXCEPT ![a] = rep] /\ ReplyHolds(log, a, rep)
  PROVE  IInv'
<1>1. /\ LedgerHolds(log) /\ ActsHold(acts) /\ DOMAIN todo = Agents /\ DOMAIN call = Agents
      /\ DOMAIN reply = Agents /\ DOMAIN inbox = Agents /\ TodoHolds(todo[a])
  BY DEF IInv
<1>2. DOMAIN todo' = Agents /\ \A b \in Agents : todo'[b] = todo[b] \/ TodoHolds(todo'[b])
  <2>1. CASE todo' = todo
    BY <2>1, <1>1
  <2>2. CASE todo' = Next1(a) /\ todo[a] # <<>>
    <3>1. TodoHolds(Tail(todo[a]))
      BY <1>1, <2>2, TailIs DEF TodoHolds
    <3> QED
      BY <1>1, <2>2, <3>1 DEF Next1
  <2> QED
    BY <2>1, <2>2
<1>3. DOMAIN call' = Agents /\ \A b \in Agents : call'[b] = call[b] \/ CallHolds(log', b, call'[b])
  BY <1>1
<1>4. DOMAIN reply' = Agents /\ \A b \in Agents : reply'[b] = reply[b] \/ ReplyHolds(log', b, reply'[b])
  BY <1>1
<1>5. LedgerHolds(log') /\ ActsHold(acts') /\ DOMAIN inbox' = Agents
  BY <1>1
<1>6. \A b \in Agents : inbox'[b] = inbox[b]
  OBVIOUS
<1> QED
  BY <1>2, <1>3, <1>4, <1>5, <1>6, Kept

\* An agent without a call has nothing to show.
LEMMA NoCallHolds == \A l, a : CallHolds(l, a, NoCall)
BY DEF CallHolds

\* Keeping is the request with the call's own fields beside it.
LEMMA KeepingIs ==
  ASSUME NEW r, NEW own
  PROVE  /\ DOMAIN Keeping(r, own) = DOMAIN r \cup DOMAIN own
         /\ \A x \in DOMAIN r : Keeping(r, own)[x] = r[x]
         /\ \A x \in DOMAIN own \ DOMAIN r : Keeping(r, own)[x] = own[x]
BY DEF Keeping

\* The fields of a call that has just begun.
LEMMA StartedIs ==
  ASSUME NEW r, NEW w, r.op \in Ops \ {"open"}, DOMAIN r = {"op", "run", "refs"} \cup FieldsOf(r.op)
  PROVE  LET s == Started(r, w) IN
           /\ DOMAIN s = CallFields(r.op) /\ s.op = r.op /\ s.run = r.run /\ s.refs = r.refs
           /\ s.pc = w /\ s.next = 1 /\ s.runAt = Current(log, r.run) /\ s.origin = r.run
           /\ s.hits = {} /\ s.found = {}
           /\ s.role = IF r.op = "assemble" THEN r.role ELSE RunRole(log, r.run)
           /\ r.op \in {"append", "evidence"} => s.ent = r.ent /\ s.expected = r.expected
           /\ r.op = "checkpoint" => s.expected = r.expected
           /\ r.op = "changes" => s.limit = r.limit /\ s.count = r.count
<1> DEFINE t == [pc |-> w, next |-> 1, role |-> RunRole(log, r.run),
                 runAt |-> Current(log, r.run), seeds |-> {}, origin |-> r.run,
                 types |-> Entities, hits |-> {}, found |-> {}, draft |-> NoDraft]
           s == Started(r, w)
<1>1. s = Keeping(r, t)
  BY DEF Started
<1>2. DOMAIN t = {"pc", "next", "role", "runAt", "seeds", "origin", "types", "hits", "found", "draft"}
  OBVIOUS
<1>3. /\ t.pc = w /\ t.next = 1 /\ t.role = RunRole(log, r.run) /\ t.runAt = Current(log, r.run)
      /\ t.origin = r.run /\ t.hits = {} /\ t.found = {}
  OBVIOUS
<1> HIDE DEF s, t
<1>4. /\ DOMAIN s = DOMAIN r \cup DOMAIN t
      /\ \A x \in DOMAIN r : s[x] = r[x]
      /\ \A x \in DOMAIN t \ DOMAIN r : s[x] = t[x]
  <2>1. /\ DOMAIN Keeping(r, t) = DOMAIN r \cup DOMAIN t
        /\ \A x \in DOMAIN r : Keeping(r, t)[x] = r[x]
        /\ \A x \in DOMAIN t \ DOMAIN r : Keeping(r, t)[x] = t[x]
    BY KeepingIs
  <2> QED
    BY <2>1, <1>1
<1>5. FieldsOf(r.op) \cap {"pc", "next", "runAt", "seeds", "origin", "types", "hits", "found", "draft", "op", "run", "refs"} = {}
      /\ ("role" \in FieldsOf(r.op) <=> r.op = "assemble")
  BY DEF FieldsOf, Ops
<1>6. DOMAIN s = CallFields(r.op)
  BY <1>2, <1>4, <1>5 DEF CallFields
<1>7. s.op = r.op /\ s.run = r.run /\ s.refs = r.refs
  BY <1>4
<1>8. {"pc", "next", "runAt", "seeds", "origin", "hits", "found"} \subseteq DOMAIN t \ DOMAIN r
  BY <1>2, <1>5
<1>9. s.pc = w /\ s.next = 1 /\ s.runAt = Current(log, r.run) /\ s.origin = r.run
      /\ s.hits = {} /\ s.found = {}
  BY <1>3, <1>4, <1>8
<1>10. s.role = IF r.op = "assemble" THEN r.role ELSE RunRole(log, r.run)
  BY <1>2, <1>3, <1>4, <1>5
<1>11. /\ r.op \in {"append", "evidence"} => s.ent = r.ent /\ s.expected = r.expected
       /\ r.op = "checkpoint" => s.expected = r.expected
       /\ r.op = "changes" => s.limit = r.limit /\ s.count = r.count
  BY <1>4 DEF FieldsOf
<1> QED
  BY <1>6, <1>7, <1>9, <1>10, <1>11 DEF s

\* Pinning references keeps their number.
LEMMA PinnedIs ==
  ASSUME NEW refs, IsSeq(refs)
  PROVE  Len(Pinned(refs)) \in Nat /\ DOMAIN Pinned(refs) = 1..Len(Pinned(refs))
<1> DEFINE S == {Pinned(refs)[n] : n \in DOMAIN refs}
<1>1. Len(refs) \in Nat /\ DOMAIN refs = 1..Len(refs)
  BY SequenceIs
<1>2. Pinned(refs) \in [1..Len(refs) -> S]
  BY <1>1 DEF Pinned
<1>3. Pinned(refs) \in Seq(S)
  BY <1>1, <1>2
<1> HIDE DEF S
<1> QED
  BY <1>3

\* A call that begins in a run it may use.
LEMMA StartedHolds ==
  ASSUME IInv, NEW a \in Agents, NEW r, WellFormed(r), r.op # "open", RunUsable(a, r),
         r.op = "assemble" => r.role = RunRole(log, r.run),
         NEW refs, r.op \in {"append", "evidence"} => Len(refs) \in Nat /\ DOMAIN refs = 1..Len(refs),
         NEW w, w \in StepsOf(r.op), r.op \in {"append", "evidence"} => w = "refs",
         r.op = "complete" /\ w = "terminal" => log[Current(log, r.run)].phase = "complete"
  PROVE  CallHolds(log, a, Started([r EXCEPT !.refs = refs], w))
<1> DEFINE q == [r EXCEPT !.refs = refs]
           c == Started(q, w)
<1>1. /\ r.op \in Ops \ {"open"} /\ DOMAIN r = {"op", "run", "refs"} \cup FieldsOf(r.op)
      /\ r.op \in {"append", "evidence"} =>
           r.ent \in Entities /\ r.expected \in Nat /\ (r.op = "evidence" => r.expected = 0)
      /\ r.op = "checkpoint" => r.expected \in Nat
      /\ r.op = "changes" => r.limit \in Nat \ {0} /\ r.count = 0
  BY DEF WellFormed
<1>2. /\ DOMAIN q = DOMAIN r /\ q.op = r.op /\ q.run = r.run /\ q.refs = refs
      /\ r.op = "assemble" => q.role = r.role
      /\ r.op \in {"append", "evidence"} => q.ent = r.ent /\ q.expected = r.expected
      /\ r.op = "checkpoint" => q.expected = r.expected
      /\ r.op = "changes" => q.limit = r.limit /\ q.count = r.count
  BY <1>1 DEF FieldsOf
<1> HIDE DEF q
<1>3. /\ DOMAIN c = CallFields(r.op) /\ c.op = r.op /\ c.run = r.run /\ c.refs = refs
      /\ c.pc = w /\ c.next = 1 /\ c.runAt = Current(log, r.run) /\ c.origin = r.run
      /\ c.hits = {} /\ c.found = {}
      /\ c.role = IF r.op = "assemble" THEN q.role ELSE RunRole(log, r.run)
      /\ r.op \in {"append", "evidence"} => c.ent = r.ent /\ c.expected = r.expected
      /\ r.op = "checkpoint" => c.expected = r.expected
      /\ r.op = "changes" => c.limit = r.limit /\ c.count = r.count
  <2>1. q.op \in Ops \ {"open"} /\ DOMAIN q = {"op", "run", "refs"} \cup FieldsOf(q.op)
    BY <1>1, <1>2
  <2>2. /\ DOMAIN c = CallFields(q.op) /\ c.op = q.op /\ c.run = q.run /\ c.refs = q.refs
        /\ c.pc = w /\ c.next = 1 /\ c.runAt = Current(log, q.run) /\ c.origin = q.run
        /\ c.hits = {} /\ c.found = {}
        /\ c.role = IF q.op = "assemble" THEN q.role ELSE RunRole(log, q.run)
        /\ q.op \in {"append", "evidence"} => c.ent = q.ent /\ c.expected = q.expected
        /\ q.op = "checkpoint" => c.expected = q.expected
        /\ q.op = "changes" => c.limit = q.limit /\ c.count = q.count
    BY <2>1, StartedIs
  <2> HIDE DEF c
  <2> QED
    BY <1>2, <2>2
<1> HIDE DEF c
<1>4. c.role = RunRole(log, r.run)
  BY <1>2, <1>3
<1>5. RunRole(log, r.run) \in RolesOf[a] /\ RunRole(log, r.run) # NoRole
  BY RolesAreRoles DEF RunUsable
<1>6. CallRun(log, a, c)
  <2>1. LedgerHolds(log)
    BY DEF IInv
  <2> QED
    BY <2>1, <1>3, <1>4, <1>5, RunRoleIs DEF CallRun
<1>7. CallRecord(log, c)
  BY <1>1, <1>3 DEF CallRecord
<1>8. CallOther(log, a, c)
  BY <1>1, <1>3 DEF CallOther
<1>9. CallShape(c)
  BY <1>1, <1>3 DEF CallShape
<1> QED
  BY <1>6, <1>7, <1>8, <1>9 DEF CallHolds, c, q

\* The next request is well-formed.
LEMMA TodoHead ==
  ASSUME IInv, NEW a \in Agents, todo[a] # <<>>
  PROVE  WellFormed(Head(todo[a]))
<1>1. TodoHolds(todo[a])
  BY DEF IInv
<1> QED
  BY <1>1, TailIs DEF TodoHolds

\* A call that begins in a run.
LEMMA EnterKeeps ==
  ASSUME IInv, NEW a \in Agents, Enter(a)
  PROVE  IInv'
<1> DEFINE r == Head(todo[a])
           c == Started([r EXCEPT !.refs = Pinned(r.refs)], First(r))
<1>1. /\ r.op \notin {"open", "refresh"} /\ RunUsable(a, r) /\ (r.op = "assemble" => Suits(r))
      /\ call' = [call EXCEPT ![a] = c] /\ todo' = Next1(a) /\ todo[a] # <<>>
      /\ log' = log /\ acts' = acts /\ inbox' = inbox /\ reply' = reply
  BY DEF Enter
<1>2. WellFormed(r)
  BY <1>1, TodoHead
<1> HIDE DEF r
<1>3. First(r) \in StepsOf(r.op) /\ (r.op \in {"append", "evidence"} => First(r) = "refs")
      /\ (r.op = "complete" /\ First(r) = "terminal" => log[Current(log, r.run)].phase = "complete")
  BY <1>1, <1>2 DEF First, StepsOf, WellFormed, Ops
<1>4. r.op = "assemble" => r.role = RunRole(log, r.run)
  <2>1. RunRole(log, r.run) # NoRole
    BY <1>1, RolesAreRoles DEF RunUsable
  <2> QED
    BY <2>1, <1>1 DEF Suits, RunRole
<1>5. r.op \in {"append", "evidence"} =>
        Len(Pinned(r.refs)) \in Nat /\ DOMAIN Pinned(r.refs) = 1..Len(Pinned(r.refs))
  BY <1>2, PinnedIs DEF WellFormed
<1>6. CallHolds(log, a, c)
  BY <1>1, <1>2, <1>3, <1>4, <1>5, StartedHolds
<1> HIDE DEF c
<1> QED
  BY <1>1, <1>6, KeptByCall

\* refreshContext, once its receipt is found authentic.
LEMMA EnterRefreshKeeps ==
  ASSUME IInv, NEW a \in Agents, EnterRefresh(a)
  PROVE  IInv'
<1> DEFINE r == Head(todo[a])
           c == Started([r EXCEPT !.refs = Brought(r).pack.content.whom.asked], "refs")
<1>1. /\ r.op = "refresh" /\ RunUsable(a, r)
      /\ call' = [call EXCEPT ![a] = c] /\ todo' = Next1(a) /\ todo[a] # <<>>
      /\ log' = log /\ acts' = acts /\ inbox' = inbox /\ reply' = reply
  BY DEF EnterRefresh
<1>2. WellFormed(r)
  BY <1>1, TodoHead
<1> HIDE DEF r
<1>3. "refs" \in StepsOf(r.op)
  BY <1>1 DEF StepsOf
<1>4. CallHolds(log, a, c)
  BY <1>1, <1>2, <1>3, StartedHolds
<1> HIDE DEF c
<1> QED
  BY <1>1, <1>4, KeptByCall

\* openRun begins.
LEMMA EnterOpenKeeps ==
  ASSUME IInv, NEW a \in Agents, EnterOpen(a)
  PROVE  IInv'
<1> DEFINE r == Head(todo[a])
           own == [pc |-> "commit", runAt |-> 0]
           c == Keeping(r, own)
<1>1. /\ r.op = "open" /\ call' = [call EXCEPT ![a] = c] /\ todo' = Next1(a) /\ todo[a] # <<>>
      /\ log' = log /\ acts' = acts /\ inbox' = inbox /\ reply' = reply
  BY DEF EnterOpen
<1>2. WellFormed(r)
  BY <1>1, TodoHead
<1> HIDE DEF r
<1>3. DOMAIN r = {"op", "run", "refs", "role", "tokens", "key", "mat"} /\ r.run \in Runs
  BY <1>1, <1>2 DEF WellFormed, FieldsOf
<1>4. DOMAIN own = {"pc", "runAt"} /\ own.pc = "commit"
  OBVIOUS
<1> HIDE DEF own
<1>5. /\ DOMAIN c = DOMAIN r \cup DOMAIN own
      /\ \A x \in DOMAIN r : c[x] = r[x]
      /\ \A x \in DOMAIN own \ DOMAIN r : c[x] = own[x]
  BY KeepingIs
<1> HIDE DEF c
<1>6. c.op = "open" /\ c.run = r.run /\ c.pc = "commit"
  BY <1>1, <1>3, <1>4, <1>5
<1>7. DOMAIN c = CallFields("open")
  BY <1>3, <1>4, <1>5 DEF CallFields, FieldsOf
<1>8. CallHolds(log, a, c)
  BY <1>3, <1>6, <1>7 DEF CallHolds, CallShape, CallRun, CallRecord, CallOther, StepsOf, Ops
<1> QED
  BY <1>1, <1>8, KeptByCall

\* A request that is turned away.
LEMMA TurnedKeeps ==
  ASSUME IInv, NEW a \in Agents, Turned(a)
  PROVE  IInv'
<1> DEFINE rep == [code |-> "refused", req |-> Head(todo[a]), event |-> 0]
<1>1. /\ reply' = [reply EXCEPT ![a] = rep] /\ todo' = Next1(a) /\ todo[a] # <<>>
      /\ call' = call /\ call[a] = NoCall
      /\ log' = log /\ acts' = acts /\ inbox' = inbox
  BY DEF Turned
<1>2. ReplyHolds(log, a, rep)
  BY DEF ReplyHolds
<1> HIDE DEF rep
<1>3. DOMAIN call = Agents
  BY DEF IInv
<1>4. /\ LedgerHolds(log) /\ ActsHold(acts) /\ DOMAIN todo = Agents
      /\ DOMAIN reply = Agents /\ DOMAIN inbox = Agents /\ TodoHolds(Tail(todo[a]))
  BY <1>1, TailIs DEF IInv, TodoHolds
<1> QED
  BY <1>1, <1>2, <1>3, <1>4, Kept DEF Next1

\* What a call is made of, by its operation.
LEMMA FieldsAre ==
  ASSUME NEW c, CallShape(c)
  PROVE  /\ c.op \in Ops /\ {"op", "run", "refs", "pc", "runAt"} \subseteq DOMAIN c
         /\ c.op # "open" => {"next", "role", "seeds", "origin", "types", "hits", "found", "draft"} \subseteq DOMAIN c
         /\ c.op \in {"append", "evidence"} => {"ent", "expected"} \subseteq DOMAIN c
         /\ c.op = "checkpoint" => "expected" \in DOMAIN c
         /\ c.op = "changes" => {"limit", "count"} \subseteq DOMAIN c
BY DEF CallShape, CallFields, FieldsOf

\* A call that moves to another step with what that step relies on.
LEMMA MovedTo ==
  ASSUME NEW l, NEW a, NEW c, CallHolds(l, a, c), c # NoCall, NEW w, w \in StepsOf(c.op),
         NEW d, DOMAIN d = DOMAIN c, d.pc = w,
         \A x \in DOMAIN c : x \notin {"pc", "seeds"} => d[x] = c[x],
         c.op \in {"append", "evidence"} =>
           /\ \A n \in DOMAIN c.refs : n < c.next \/ w # "refs" => Cited(l, c.refs[n], c.role, Len(l))
           /\ w = "target" => c.expected > 0
           /\ c.expected > 0 /\ w \in {"build", "commit"} => Vouched(l, c),
         c.op = "complete" /\ w = "terminal" => l[c.runAt].phase = "complete"
  PROVE  CallHolds(l, a, d)
<1>0. CallShape(c) /\ CallRun(l, a, c) /\ CallRecord(l, c) /\ CallOther(l, a, c)
  BY DEF CallHolds
<1>1. /\ c.op \in Ops /\ {"op", "run", "refs", "pc", "runAt"} \subseteq DOMAIN c
      /\ c.op # "open" => {"next", "role", "seeds", "origin", "types", "hits", "found", "draft"} \subseteq DOMAIN c
      /\ c.op \in {"append", "evidence"} => {"ent", "expected"} \subseteq DOMAIN c
      /\ c.op = "checkpoint" => "expected" \in DOMAIN c
      /\ c.op = "changes" => {"limit", "count"} \subseteq DOMAIN c
  BY <1>0, FieldsAre
<1>2. DOMAIN d = DOMAIN c
  OBVIOUS
<1>3. /\ d.op = c.op /\ d.run = c.run /\ d.refs = c.refs /\ d.runAt = c.runAt /\ d.pc = w
      /\ c.op # "open" => d.next = c.next /\ d.role = c.role /\ d.origin = c.origin /\ d.hits = c.hits /\ d.found = c.found
      /\ c.op \in {"append", "evidence"} => d.ent = c.ent /\ d.expected = c.expected
      /\ c.op = "checkpoint" => d.expected = c.expected
      /\ c.op = "changes" => d.limit = c.limit /\ d.count = c.count
  BY <1>1, <1>2
<1>4. CallShape(d)
  BY <1>0, <1>2, <1>3 DEF CallShape
<1>5. CallRun(l, a, d)
  BY <1>0, <1>3 DEF CallRun
<1>6. CallRecord(l, d)
  <2> SUFFICES ASSUME c.op \in {"append", "evidence"} PROVE CallRecord(l, d)
    BY <1>3 DEF CallRecord
  <2>1. c.op # "open"
    OBVIOUS
  <2>2. c.expected > 0 /\ w \in {"build", "commit"} => Vouched(l, d)
    BY <1>3, <2>1 DEF Vouched
  <2> QED
    BY <1>0, <1>3, <2>1, <2>2 DEF CallRecord
<1>7. CallOther(l, a, d)
  <2>1. c.op = "search" => d.hits = c.hits /\ d.found = c.found
    BY <1>3
  <2>2. c.op = "complete" /\ w = "terminal" => l[d.runAt].phase = "complete"
    BY <1>3
  <2> QED
    BY <1>0, <1>3, <2>1, <2>2 DEF CallOther
<1> QED
  BY <1>4, <1>5, <1>6, <1>7 DEF CallHolds

\* The same when nothing but its place changes.
LEMMA Moved ==
  ASSUME NEW l, NEW a, NEW c, CallHolds(l, a, c), c # NoCall, NEW w, w \in StepsOf(c.op),
         c.op \in {"append", "evidence"} =>
           /\ \A n \in DOMAIN c.refs : n < c.next \/ w # "refs" => Cited(l, c.refs[n], c.role, Len(l))
           /\ w = "target" => c.expected > 0
           /\ c.expected > 0 /\ w \in {"build", "commit"} => Vouched(l, c),
         c.op = "complete" /\ w = "terminal" => l[c.runAt].phase = "complete"
  PROVE  CallHolds(l, a, [c EXCEPT !.pc = w])
<1>1. CallShape(c)
  BY DEF CallHolds
<1>2. "pc" \in DOMAIN c
  BY <1>1, FieldsAre
<1>3. LET d == [c EXCEPT !.pc = w] IN
        /\ DOMAIN d = DOMAIN c /\ d.pc = w
        /\ \A x \in DOMAIN c : x \notin {"pc", "seeds"} => d[x] = c[x]
  BY <1>2
<1> QED
  BY <1>3, MovedTo

\* A step that answers and ends the call.
LEMMA AnswerKeeps ==
  ASSUME IInv, NEW a \in Agents, NEW code, NEW event, Answer(a, code, event),
         log' = log, acts' = acts, inbox' = inbox, todo' = todo,
         ReplyHolds(log, a, [code |-> code, req |-> call[a], event |-> event, time |-> now])
  PROVE  IInv'
<1> DEFINE rep == [code |-> code, req |-> call[a], event |-> event, time |-> now]
<1>1. reply' = [reply EXCEPT ![a] = rep] /\ call' = [call EXCEPT ![a] = NoCall]
  BY DEF Answer
<1>2. CallHolds(log, a, NoCall)
  BY NoCallHolds
<1> HIDE DEF rep
<1>3. ReplyHolds(log, a, rep)
  BY DEF rep
<1>4. PICK r : reply' = [reply EXCEPT ![a] = r] /\ ReplyHolds(log, a, r)
  BY <1>1, <1>3
<1>5. PICK c : call' = [call EXCEPT ![a] = c] /\ CallHolds(log, a, c)
  BY <1>1, <1>2
<1> QED
  BY <1>4, <1>5, KeptByCall

\* A refusal, and any answer that gives nothing to read and completes nothing.
LEMMA RefusedHolds ==
  ASSUME NEW l, NEW a, NEW code, NEW event, NEW req, NEW time,
         code = "read" => event = 0, code # "found",
         code \notin {"created", "duplicate"} \/ req.op # "complete"
  PROVE  ReplyHolds(l, a, [code |-> code, req |-> req, event |-> event, time |-> time])
BY DEF ReplyHolds

\* A step that only moves its call on.
LEMMA GoKeeps ==
  ASSUME IInv, NEW a \in Agents, NEW w, Go(a, w), CallHolds(log, a, [call[a] EXCEPT !.pc = w]),
         log' = log, acts' = acts, inbox' = inbox, todo' = todo, reply' = reply
  PROVE  IInv'
<1> DEFINE d == [call[a] EXCEPT !.pc = w]
<1>1. call' = [call EXCEPT ![a] = d]
  BY DEF Go
<1> HIDE DEF d
<1>2. CallHolds(log, a, d)
  BY DEF d
<1>3. PICK c : call' = [call EXCEPT ![a] = c] /\ CallHolds(log, a, c)
  BY <1>1, <1>2
<1> QED
  BY <1>3, KeptByCall

\* One reference is checked against the ledger of its moment.
LEMMA CheckRefKeeps ==
  ASSUME IInv, NEW a \in Agents, CheckRef(a)
  PROVE  IInv'
<1> DEFINE c == call[a]
<1>1. /\ c # NoCall /\ c.pc = "refs"
      /\ log' = log /\ acts' = acts /\ inbox' = inbox /\ todo' = todo
  BY DEF CheckRef
<1>2. CallHolds(log, a, c) /\ LedgerHolds(log)
  BY DEF IInv
<1>3. CallShape(c) /\ CallRun(log, a, c) /\ CallRecord(log, c) /\ CallOther(log, a, c)
  BY <1>1, <1>2 DEF CallHolds
<1>4. c.op \in {"append", "evidence", "complete", "assemble", "refresh"}
  BY <1>1, <1>3 DEF CallShape, StepsOf, Ops
<1>5. CASE c.next > Len(c.refs) /\ Go(a, AfterRefs(c)) /\ reply' = reply
  <2>1. /\ AfterRefs(c) \in StepsOf(c.op) /\ AfterRefs(c) # "terminal"
        /\ c.op \in {"append", "evidence"} => AfterRefs(c) \in {"target", "build"} /\ c.expected \in Nat
        /\ c.op \in {"append", "evidence"} => (c.expected > 0 <=> AfterRefs(c) = "target")
    BY <1>3, <1>4 DEF AfterRefs, StepsOf, CallRecord
  <2>2. c.op \in {"append", "evidence"} =>
          \A n \in DOMAIN c.refs : Cited(log, c.refs[n], c.role, Len(log))
    BY <1>3, <1>5 DEF CallRecord
  <2>3. CallHolds(log, a, [c EXCEPT !.pc = AfterRefs(c)])
    BY <1>1, <1>2, <2>1, <2>2, Moved
  <2> QED
    BY <1>1, <1>5, <2>3, GoKeeps
<1>6. CASE /\ ~(c.next > Len(c.refs)) /\ RefHolds(a, c.refs[c.next])
           /\ call' = [call EXCEPT ![a].next = @ + 1] /\ reply' = reply
  <2> DEFINE d == [c EXCEPT !.next = c.next + 1]
  <2>1. call' = [call EXCEPT ![a] = d]
    BY <1>6
  <2>2. c.op # "open" /\ c.op \in Ops /\ {"next", "op", "run", "refs", "pc", "role", "runAt"} \subseteq DOMAIN c
    BY <1>3, <1>4, FieldsAre
  <2>3. DOMAIN d = DOMAIN c /\ \A x \in DOMAIN c : x # "next" => d[x] = c[x]
    OBVIOUS
  <2>4. /\ d.op = c.op /\ d.run = c.run /\ d.refs = c.refs /\ d.runAt = c.runAt /\ d.pc = c.pc
        /\ d.next = c.next + 1 /\ d.role = c.role
        /\ c.op \in {"append", "evidence"} => /\ d.origin = c.origin /\ d.ent = c.ent
                                             /\ d.expected = c.expected
    BY <2>2, <2>3, <1>3, FieldsAre
  <2> HIDE DEF d
  <2>5. CallShape(d) /\ CallRun(log, a, d) /\ CallOther(log, a, d)
    BY <1>1, <1>3, <1>4, <2>3, <2>4 DEF CallShape, CallRun, CallOther
  <2>6. CallRecord(log, d)
    <3> SUFFICES ASSUME c.op \in {"append", "evidence"} PROVE CallRecord(log, d)
      BY <2>4 DEF CallRecord
    <3>1. c.next \in DOMAIN c.refs /\ c.next \in Nat /\ \A n \in DOMAIN c.refs : n \in Nat
      <4>1. /\ Len(c.refs) \in Nat /\ DOMAIN c.refs = 1..Len(c.refs) /\ c.next \in Nat /\ c.next >= 1
        BY <1>3 DEF CallRecord
      <4> QED
        BY <4>1, <1>6
    <3>2. Holds(log, c.refs[c.next], c.role)
      BY <1>6 DEF RefHolds
    <3>3. Cited(log, c.refs[c.next], c.role, Len(log))
      BY <3>2, <1>2, <1>3, <2>2, HoldsCited, RolesAreRoles DEF CallRun
    <3>4. \A n \in DOMAIN d.refs : n < d.next => Cited(log, d.refs[n], d.role, Len(log))
      <4> TAKE n \in DOMAIN d.refs
      <4>1. n < c.next \/ n = c.next \/ ~(n < d.next)
        BY <3>1, <2>4
      <4> QED
        BY <4>1, <3>3, <1>3, <2>4 DEF CallRecord
    <3> QED
      BY <1>1, <1>3, <2>4, <3>1, <3>4 DEF CallRecord
  <2>7. CallHolds(log, a, d)
    BY <2>5, <2>6 DEF CallHolds
  <2>8. PICK x : call' = [call EXCEPT ![a] = x] /\ CallHolds(log, a, x)
    BY <2>1, <2>7
  <2> QED
    BY <1>1, <1>6, <2>8, KeptByCall
<1>7. CASE Answer(a, "refused", 0)
  BY <1>1, <1>7, AnswerKeeps, RefusedHolds
<1> QED
  BY <1>5, <1>6, <1>7 DEF CheckRef

\* The target of a revision is checked.
LEMMA TargetKeeps ==
  ASSUME IInv, NEW a \in Agents, Target(a)
  PROVE  IInv'
<1> DEFINE c == call[a]
           i == Current(log, c.ent)
           origin == IF log[i].origin = NoRun THEN c.run ELSE log[i].origin
           d == [c EXCEPT !.pc = "build", !.origin = origin]
<1>1. /\ c # NoCall /\ c.pc = "target"
      /\ log' = log /\ acts' = acts /\ inbox' = inbox /\ todo' = todo
  BY DEF Target
<1>2. CallHolds(log, a, c) /\ LedgerHolds(log)
  BY DEF IInv
<1>3. CallShape(c) /\ CallRun(log, a, c) /\ CallRecord(log, c) /\ CallOther(log, a, c)
  BY <1>1, <1>2 DEF CallHolds
<1>4. c.op \in {"append", "evidence"} /\ c.ent \in Entities
  BY <1>1, <1>3 DEF CallShape, StepsOf, Ops, CallRecord
<1>5. CASE Answer(a, "refused", 0)
  BY <1>1, <1>5, AnswerKeeps, RefusedHolds
<1>6. CASE /\ Alive(log, c.ent) /\ Visible(log, i, c.role) /\ RunRole(log, origin) = c.role
           /\ call' = [call EXCEPT ![a] = d] /\ reply' = reply
  <2>1. /\ c.role \in RolesOf[a] /\ c.role # NoRole
    BY <1>3, <1>4, RolesAreRoles DEF CallRun
  <2>2. /\ i \in Rows(log, c.ent) /\ RecordHolds(log, i) /\ log[i].ent = c.ent
    <3>1. i # 0
      BY <1>6 DEF Alive
    <3>2. i \in Rows(log, c.ent)
      BY <1>2, <3>1, LedgerIs, Ends
    <3> QED
      BY <3>2, <1>2, LedgerIs DEF Rows
  <2>3. OpenedAs(log, origin) = c.role
    BY <1>2, <1>6, <2>1, RunRoleIs
  <2>4. \/ log[i].basis = "explicit"
        \/ Home(log, c.ent).maker = System
        \/ origin = Home(log, c.ent).run
    <3>1. SUFFICES ASSUME log[i].basis # "explicit", Home(log, c.ent).maker # System
                   PROVE  origin = Home(log, c.ent).run
      OBVIOUS
    <3>2. Home(log, c.ent).maker \notin {Owner, System}
      BY <3>1, <2>2, <1>4 DEF RecordHolds
    <3>3. log[i].origin = Home(log, c.ent).run /\ Home(log, c.ent).run \in Runs
      BY <3>1, <3>2, <2>2, <1>4 DEF RecordHolds
    <3> QED
      BY <3>3, GatewayAssumption DEF NoRun
  <2> HIDE DEF i, origin
  <2>5. /\ {"op", "run", "refs", "pc", "runAt", "next", "role", "origin", "ent", "expected"} \subseteq DOMAIN c
        /\ DOMAIN d = DOMAIN c /\ \A x \in DOMAIN c : x \notin {"pc", "origin"} => d[x] = c[x]
    BY <1>3, <1>4, FieldsAre
  <2>6. /\ d.op = c.op /\ d.run = c.run /\ d.refs = c.refs /\ d.pc = "build" /\ d.runAt = c.runAt
        /\ d.next = c.next /\ d.role = c.role /\ d.ent = c.ent /\ d.expected = c.expected /\ d.origin = origin
    BY <2>5
  <2> HIDE DEF d
  <2>7. CallShape(d) /\ CallRun(log, a, d) /\ CallOther(log, a, d)
    BY <1>3, <1>4, <2>5, <2>6 DEF CallShape, CallRun, CallOther, StepsOf
  <2>8. Vouched(log, d)
    BY <2>2, <2>3, <2>4, <2>6 DEF Vouched
  <2>9. c.expected > 0 /\ c.expected \in Nat
    BY <1>1, <1>3, <1>4 DEF CallRecord
  <2>10. CallRecord(log, d)
    BY <1>1, <1>3, <1>4, <2>6, <2>8, <2>9 DEF CallRecord
  <2>11. PICK x : call' = [call EXCEPT ![a] = x] /\ CallHolds(log, a, x)
    BY <1>6, <2>7, <2>10 DEF CallHolds
  <2> QED
    BY <1>1, <1>6, <2>11, KeptByCall
<1> QED
  BY <1>5, <1>6 DEF Target

\* The superseded revision is read.
LEMMA BuildKeeps ==
  ASSUME IInv, NEW a \in Agents, Build(a)
  PROVE  IInv'
<1> DEFINE c == call[a]
<1>1. /\ c # NoCall /\ c.pc = "build"
      /\ log' = log /\ acts' = acts /\ inbox' = inbox /\ todo' = todo
  BY DEF Build
<1>2. CallHolds(log, a, c)
  BY DEF IInv
<1>3. CallShape(c) /\ CallRecord(log, c)
  BY <1>1, <1>2 DEF CallHolds
<1>4. c.op \in {"append", "evidence"}
  BY <1>1, <1>3 DEF CallShape, StepsOf, Ops
<1>5. CASE Answer(a, "refused", 0)
  BY <1>1, <1>5, AnswerKeeps, RefusedHolds
<1>6. CASE (\E seeds : call' = [call EXCEPT ![a] = [c EXCEPT !.pc = "commit", !.seeds = seeds]]) /\ reply' = reply
  <2>1. PICK seeds : call' = [call EXCEPT ![a] = [c EXCEPT !.pc = "commit", !.seeds = seeds]]
    BY <1>6
  <2> DEFINE d == [c EXCEPT !.pc = "commit", !.seeds = seeds]
  <2>2. "pc" \in DOMAIN c /\ DOMAIN d = DOMAIN c /\ d.pc = "commit"
        /\ \A x \in DOMAIN c : x \notin {"pc", "seeds"} => d[x] = c[x]
    BY <1>3, FieldsAre
  <2>3. call' = [call EXCEPT ![a] = d]
    BY <2>1
  <2> HIDE DEF d
  <2>4. /\ "commit" \in StepsOf(c.op)
        /\ \A n \in DOMAIN c.refs : Cited(log, c.refs[n], c.role, Len(log))
        /\ c.expected > 0 => Vouched(log, c)
    BY <1>1, <1>3, <1>4 DEF StepsOf, CallRecord
  <2>5. CallHolds(log, a, d)
    BY <1>1, <1>2, <1>4, <2>2, <2>4, MovedTo
  <2>6. PICK x : call' = [call EXCEPT ![a] = x] /\ CallHolds(log, a, x)
    BY <2>3, <2>5
  <2> QED
    BY <1>1, <1>6, <2>6, KeptByCall
<1> QED
  BY <1>5, <1>6 DEF Build

\* A completed run answers only the same completion.
LEMMA TerminalKeeps ==
  ASSUME IInv, NEW a \in Agents, Terminal(a)
  PROVE  IInv'
<1> DEFINE c == call[a]
           done == log[c.runAt]
<1>1. /\ c # NoCall /\ c.pc = "terminal"
      /\ log' = log /\ acts' = acts /\ inbox' = inbox /\ todo' = todo
  BY DEF Terminal
<1>2. CallHolds(log, a, c) /\ LedgerHolds(log)
  BY DEF IInv
<1>3. CallShape(c) /\ CallRun(log, a, c) /\ CallOther(log, a, c)
  BY <1>1, <1>2 DEF CallHolds
<1>4. c.op = "complete"
  BY <1>1, <1>3 DEF CallShape, StepsOf, Ops
<1>5. CASE Answer(a, "refused", 0)
  BY <1>1, <1>5, AnswerKeeps, RefusedHolds
<1>6. CASE done.mat = c.mat /\ done.deps = c.refs /\ Answer(a, "duplicate", c.runAt)
  <2>1. c.runAt \in DOMAIN log /\ done.ent = c.run /\ done.phase = "complete"
    BY <1>1, <1>3, <1>4 DEF CallRun, CallOther, Rows
  <2>2. \A j \in Rows(log, c.run) : log[j].phase = "complete" => j = c.runAt
    <3> SUFFICES ASSUME NEW j \in Rows(log, c.run), log[j].phase = "complete" PROVE j = c.runAt
      OBVIOUS
    <3>1. /\ j \in DOMAIN log /\ log[j].ent = c.run /\ j \in Nat /\ c.runAt \in Nat /\ c.runAt \in Rows(log, c.run)
          /\ RowHolds(log, j) /\ RowHolds(log, c.runAt)
      BY <1>2, <2>1, LedgerIs DEF Rows
    <3>2. ~(j < c.runAt)
      BY <3>1, <2>1 DEF RowHolds
    <3>3. ~(c.runAt < j)
      BY <3>1, <2>1 DEF RowHolds
    <3> QED
      BY <3>1, <3>2, <3>3
  <2>3. Completed(log, c, c.runAt)
    BY <1>6, <2>1, <2>2 DEF Completed
  <2>4. ReplyHolds(log, a, [code |-> "duplicate", req |-> c, event |-> c.runAt, time |-> now])
    BY <2>3 DEF ReplyHolds
  <2> QED
    BY <1>1, <1>6, <2>4, AnswerKeeps
<1> QED
  BY <1>5, <1>6 DEF Terminal

\* A completion that could not be appended looks at the run again.
LEMMA AgainKeeps ==
  ASSUME IInv, NEW a \in Agents, Again(a)
  PROVE  IInv'
<1> DEFINE c == call[a]
           d == [c EXCEPT !.pc = "terminal", !.runAt = Current(log, c.run)]
<1>1. /\ c # NoCall /\ c.pc = "again"
      /\ log' = log /\ acts' = acts /\ inbox' = inbox /\ todo' = todo
  BY DEF Again
<1>2. CallHolds(log, a, c) /\ LedgerHolds(log)
  BY DEF IInv
<1>3. CallShape(c) /\ CallRun(log, a, c) /\ CallOther(log, a, c)
  BY <1>1, <1>2 DEF CallHolds
<1>4. c.op = "complete"
  BY <1>1, <1>3 DEF CallShape, StepsOf, Ops
<1>5. CASE Answer(a, "refused", 0)
  BY <1>1, <1>5, AnswerKeeps, RefusedHolds
<1>6. CASE /\ RunUsable(a, c) /\ log[Current(log, c.run)].phase = "complete"
           /\ call' = [call EXCEPT ![a] = d] /\ reply' = reply
  <2>1. /\ RunRole(log, c.run) # NoRole
    BY <1>6, RolesAreRoles DEF RunUsable
  <2>2. /\ Current(log, c.run) \in Rows(log, c.run)
        /\ log[Current(log, c.run)].role = OpenedAs(log, c.run)
    BY <2>1, <1>2, RunRoleIs
  <2>3. /\ {"op", "run", "refs", "pc", "runAt", "next", "role"} \subseteq DOMAIN c
        /\ DOMAIN d = DOMAIN c /\ \A x \in DOMAIN c : x \notin {"pc", "runAt"} => d[x] = c[x]
    BY <1>3, <1>4, FieldsAre
  <2>4. /\ d.op = c.op /\ d.run = c.run /\ d.refs = c.refs /\ d.pc = "terminal" /\ d.next = c.next
        /\ d.role = c.role /\ d.runAt = Current(log, c.run)
    BY <2>3
  <2> HIDE DEF d
  <2>5. CallHolds(log, a, d)
    BY <1>3, <1>4, <1>6, <2>2, <2>3, <2>4 DEF CallHolds, CallShape, CallRun, CallRecord, CallOther, StepsOf
  <2>6. PICK x : call' = [call EXCEPT ![a] = x] /\ CallHolds(log, a, x)
    BY <1>6, <2>5
  <2> QED
    BY <1>1, <1>6, <2>6, KeptByCall
<1> QED
  BY <1>5, <1>6 DEF Again

\* Scratch files are listed.
LEMMA ListCuesKeeps ==
  ASSUME IInv, NEW a \in Agents, ListCues(a)
  PROVE  IInv'
<1> DEFINE c == call[a]
<1>1. /\ c # NoCall /\ c.pc \in {"list", "relist"}
      /\ log' = log /\ acts' = acts /\ inbox' = inbox /\ todo' = todo
  BY DEF ListCues
<1>2. CallHolds(log, a, c)
  BY DEF IInv
<1>3. c.op = "cue" /\ "create" \in StepsOf(c.op)
  BY <1>1, <1>2 DEF CallHolds, CallShape, StepsOf, Ops
<1>4. CASE \E code \in {"duplicate", "conflict", "refused"} : Answer(a, code, 0)
  <2>1. PICK code \in {"duplicate", "conflict", "refused"} : Answer(a, code, 0)
    BY <1>4
  <2>2. ReplyHolds(log, a, [code |-> code, req |-> call[a], event |-> 0, time |-> now])
    BY <1>3, RefusedHolds
  <2> QED
    BY <1>1, <2>1, <2>2, AnswerKeeps
<1>5. CASE Go(a, "create") /\ reply' = reply
  <2>1. CallHolds(log, a, [c EXCEPT !.pc = "create"])
    BY <1>1, <1>2, <1>3, Moved
  <2> QED
    BY <1>1, <1>5, <2>1, GoKeeps
<1> QED
  BY <1>4, <1>5 DEF ListCues, FromFile

\* A scratch file is created.
LEMMA CreateCueKeeps ==
  ASSUME IInv, NEW a \in Agents, CreateCue(a)
  PROVE  IInv'
<1> DEFINE c == call[a]
<1>1. /\ c # NoCall /\ c.pc = "create"
      /\ log' = log /\ acts' = acts /\ inbox' = inbox /\ todo' = todo
  BY DEF CreateCue
<1>2. CallHolds(log, a, c)
  BY DEF IInv
<1>3. c.op = "cue" /\ "relist" \in StepsOf(c.op)
  BY <1>1, <1>2 DEF CallHolds, CallShape, StepsOf, Ops
<1>4. CASE Answer(a, "created", 0)
  BY <1>1, <1>3, <1>4, RefusedHolds, AnswerKeeps
<1>5. CASE Go(a, "relist") /\ reply' = reply
  <2>1. CallHolds(log, a, [c EXCEPT !.pc = "relist"])
    BY <1>1, <1>2, <1>3, Moved
  <2> QED
    BY <1>1, <1>5, <2>1, GoKeeps
<1> QED
  BY <1>4, <1>5 DEF CreateCue

\* A pack in the making moves on: only the gateway's own notes of it change.
LEMMA DraftKeeps ==
  ASSUME IInv, NEW a \in Agents, call[a] # NoCall, call[a].pc \in {"pack", "gather", "look", "own", "tell"},
         log' = log, acts' = acts, inbox' = inbox, todo' = todo, reply' = reply,
         NEW d, call' = [call EXCEPT ![a] = d], DOMAIN d = DOMAIN call[a],
         d.pc \in {"gather", "look", "own", "tell"},
         \A x \in DOMAIN d : x \notin {"pc", "next", "draft"} => d[x] = call[a][x]
  PROVE  IInv'
<1>1. CallHolds(log, a, call[a])
  BY DEF IInv
<1>2. CallShape(call[a]) /\ CallRun(log, a, call[a])
  BY <1>1 DEF CallHolds
<1>3. call[a].op \in {"assemble", "refresh"}
  BY <1>2 DEF CallShape, StepsOf, Ops
<1>4. {"op", "run", "refs", "pc", "runAt", "role"} \subseteq DOMAIN call[a]
  BY <1>2, <1>3, FieldsAre
<1>5. /\ d.op = call[a].op /\ d.run = call[a].run /\ d.role = call[a].role /\ d.runAt = call[a].runAt
  BY <1>4
<1>6. CallShape(d)
  BY <1>2, <1>3, <1>5 DEF CallShape, StepsOf
<1>7. CallHolds(log, a, d)
  BY <1>2, <1>3, <1>5, <1>6 DEF CallHolds, CallRun, CallRecord, CallOther
<1>8. PICK x : call' = [call EXCEPT ![a] = x] /\ CallHolds(log, a, x)
  BY <1>7
<1> QED
  BY <1>8, KeptByCall

\* A call whose pack is in the making names its step.
LEMMA DraftHasStep ==
  ASSUME IInv, NEW a \in Agents, call[a] # NoCall
  PROVE  "pc" \in DOMAIN call[a]
<1>1. CallShape(call[a])
  BY DEF IInv, CallHolds
<1> QED
  BY <1>1, FieldsAre

\* The replay of a pack, and the cut made of it and of the scratch files.
LEMMA ReplayKeeps ==
  ASSUME IInv, NEW a \in Agents, Replay(a)
  PROVE  IInv'
<1> DEFINE draft == [mark |-> Len(log)]
           d == [call[a] EXCEPT !.pc = "gather", !.draft = draft]
<1>1. /\ call[a] # NoCall /\ call[a].pc = "pack" /\ call' = [call EXCEPT ![a] = d]
      /\ log' = log /\ acts' = acts /\ inbox' = inbox /\ todo' = todo /\ reply' = reply
  BY DEF Replay
<1> HIDE DEF draft
<1>2. DOMAIN d = DOMAIN call[a] /\ d.pc = "gather" /\ \A x \in DOMAIN d : x \notin {"pc", "next", "draft"} => d[x] = call[a][x]
  BY <1>1, DraftHasStep
<1> HIDE DEF d
<1> QED
  BY <1>1, <1>2, DraftKeeps

LEMMA TurnIs == \A items, n : Turn(items, n) \in {"look", "own", "tell"}
BY DEF Turn

LEMMA DraftingKeeps ==
  ASSUME IInv, NEW a \in Agents, call[a] # NoCall, call[a].pc \in {"pack", "gather", "look", "own", "tell"},
         NEW draft, NEW n, Drafting(a, draft, n)
  PROVE  IInv'
<1> DEFINE w == Turn(draft.raw.items, n)
           d == [call[a] EXCEPT !.draft = draft, !.next = n, !.pc = w]
<1>1. /\ call' = [call EXCEPT ![a] = d]
      /\ log' = log /\ acts' = acts /\ inbox' = inbox /\ todo' = todo /\ reply' = reply
  BY DEF Drafting
<1>2. w \in {"look", "own", "tell"}
  BY TurnIs
<1> HIDE DEF w
<1>3. DOMAIN d = DOMAIN call[a] /\ d.pc = w /\ \A x \in DOMAIN d : x \notin {"pc", "next", "draft"} => d[x] = call[a][x]
  BY DraftHasStep
<1> HIDE DEF d
<1> QED
  BY <1>1, <1>2, <1>3, DraftKeeps

LEMMA GatherKeeps ==
  ASSUME IInv, NEW a \in Agents, Gather(a)
  PROVE  IInv'
<1>1. PICK draft, w : /\ w \in {"look", "own", "tell"}
                      /\ call' = [call EXCEPT ![a] = [call[a] EXCEPT !.draft = draft, !.next = 1, !.pc = w]]
  <2>1. PICK raw, draft : call' = [call EXCEPT ![a].pc = Turn(raw.items, 1), ![a].next = 1, ![a].draft = draft]
    BY DEF Gather
  <2>2. PICK w \in {"look", "own", "tell"} : w = Turn(raw.items, 1)
    BY TurnIs
  <2>3. call' = [call EXCEPT ![a] = [call[a] EXCEPT !.draft = draft, !.next = 1, !.pc = w]]
    BY <2>1, <2>2
  <2> QED
    BY <2>3
<1> DEFINE d == [call[a] EXCEPT !.draft = draft, !.next = 1, !.pc = w]
<1>2. /\ call[a] # NoCall /\ call[a].pc = "gather" /\ call' = [call EXCEPT ![a] = d]
      /\ log' = log /\ acts' = acts /\ inbox' = inbox /\ todo' = todo /\ reply' = reply
  BY <1>1 DEF Gather
<1>3. DOMAIN d = DOMAIN call[a] /\ d.pc = w /\ \A x \in DOMAIN d : x \notin {"pc", "next", "draft"} => d[x] = call[a][x]
  BY <1>2, DraftHasStep
<1>4. w \in {"look", "own", "tell"}
  BY <1>1
<1> HIDE DEF d
<1> QED
  BY <1>2, <1>3, <1>4, DraftKeeps

\* The looks at the runs of a pack's items, and at what was left out.
LEMMA LookKeeps ==
  ASSUME IInv, NEW a \in Agents, Look(a) \/ Own(a) \/ Tell(a)
  PROVE  IInv'
<1>1. PICK draft, n : call[a] # NoCall /\ call[a].pc \in {"look", "own", "tell"} /\ Drafting(a, draft, n)
  BY DEF Look, Own, Tell
<1> QED
  BY <1>1, DraftingKeeps

\* A Context Pack is given, or cannot be.
LEMMA IssueKeeps ==
  ASSUME IInv, NEW a \in Agents, Issue(a)
  PROVE  IInv'
<1>1. /\ \E code \in {"packed", "broken"} : Answer(a, code, 0)
      /\ log' = log /\ acts' = acts /\ inbox' = inbox /\ todo' = todo
  BY DEF Issue
<1>2. PICK code \in {"packed", "broken"} : Answer(a, code, 0)
  BY <1>1
<1>3. ReplyHolds(log, a, [code |-> code, req |-> call[a], event |-> 0, time |-> now])
  BY RefusedHolds
<1> QED
  BY <1>1, <1>2, <1>3, AnswerKeeps

\* A record is read by reference.
LEMMA GetKeeps ==
  ASSUME IInv, NEW a \in Agents, Get(a)
  PROVE  IInv'
<1> DEFINE c == call[a]
           ref == c.refs[1]
<1>1. /\ c # NoCall /\ c.op = "get"
      /\ log' = log /\ acts' = acts /\ inbox' = inbox /\ todo' = todo
  BY DEF Get
<1>2. CallHolds(log, a, c) /\ LedgerHolds(log)
  BY DEF IInv
<1>3. c.role \in RolesOf[a] /\ c.role # NoRole
  BY <1>1, <1>2, RolesAreRoles DEF CallHolds, CallRun
<1>4. ASSUME NEW i, i \in DOMAIN log, Visible(log, i, c.role), Answer(a, "read", i)
      PROVE  IInv'
  <2>1. Given(log, a, i)
    BY <1>2, <1>3, <1>4, VisibleMayUse DEF Given
  <2>2. ReplyHolds(log, a, [code |-> "read", req |-> c, event |-> i, time |-> now])
    BY <2>1 DEF ReplyHolds
  <2> QED
    BY <1>1, <1>4, <2>2, AnswerKeeps
<1>5. CASE /\ Current(log, ref.ent) # 0 /\ Visible(log, Current(log, ref.ent), c.role)
           /\ Answer(a, "read", Current(log, ref.ent))
  <2>1. Current(log, ref.ent) \in DOMAIN log
    BY <1>2, <1>5, LedgerIs, Ends DEF Rows
  <2>2. PICK i : i = Current(log, ref.ent)
    OBVIOUS
  <2> QED
    BY <1>4, <1>5, <2>1, <2>2
<1>6. CASE Holds(log, ref, c.role) /\ Answer(a, "read", Named(log, ref))
  <2>1. Named(log, ref) \in DOMAIN log /\ Visible(log, Named(log, ref), c.role)
    BY <1>2, <1>6, NamedIs DEF Holds
  <2>2. PICK i : i = Named(log, ref)
    OBVIOUS
  <2> QED
    BY <1>4, <1>6, <2>1, <2>2
<1>7. CASE Answer(a, "refused", 0)
  BY <1>1, <1>7, AnswerKeeps, RefusedHolds
<1> QED
  BY <1>5, <1>6, <1>7 DEF Get

\* A search takes a step, with hits of the ledger and such of them as the agent may have.
LEMMA SearchKeeps ==
  ASSUME IInv, NEW a \in Agents, call[a] # NoCall, call[a].op = "search",
         log' = log, acts' = acts, inbox' = inbox, todo' = todo, reply' = reply,
         NEW d, call' = [call EXCEPT ![a] = d], DOMAIN d = DOMAIN call[a], d.pc \in {"find", "sift"},
         \A x \in DOMAIN d : x \notin {"pc", "types", "hits", "found"} => d[x] = call[a][x],
         d.hits \subseteq DOMAIN log, \A i \in d.found : Offered(log, a, i)
  PROVE  IInv'
<1>1. CallShape(call[a]) /\ CallRun(log, a, call[a])
  BY DEF IInv, CallHolds
<1>2. {"op", "run", "refs", "pc", "runAt", "role"} \subseteq DOMAIN call[a]
  BY <1>1, FieldsAre
<1>3. /\ d.op = call[a].op /\ d.run = call[a].run /\ d.role = call[a].role /\ d.runAt = call[a].runAt
  BY <1>2
<1>4. CallShape(d)
  BY <1>1, <1>3 DEF CallShape, StepsOf
<1>5. CallHolds(log, a, d)
  BY <1>1, <1>3, <1>4 DEF CallHolds, CallRun, CallRecord, CallOther
<1>6. PICK x : call' = [call EXCEPT ![a] = x] /\ CallHolds(log, a, x)
  BY <1>5
<1> QED
  BY <1>6, KeptByCall

\* What a search in progress holds.
LEMMA SearchIs ==
  ASSUME IInv, NEW a \in Agents, call[a] # NoCall, call[a].pc \in {"find", "sift"}
  PROVE  /\ call[a].op = "search" /\ {"pc", "types", "hits", "found"} \subseteq DOMAIN call[a]
         /\ call[a].hits \subseteq DOMAIN log /\ \A i \in call[a].found : Offered(log, a, i)
         /\ call[a].role \in RolesOf[a] /\ call[a].role # NoRole
<1>1. CallShape(call[a]) /\ CallRun(log, a, call[a]) /\ CallOther(log, a, call[a])
  BY DEF IInv, CallHolds
<1>2. call[a].op = "search"
  BY <1>1 DEF CallShape, StepsOf, Ops
<1> QED
  BY <1>1, <1>2, FieldsAre, RolesAreRoles DEF CallRun, CallOther

\* A search asks the index.
LEMMA FindKeeps ==
  ASSUME IInv, NEW a \in Agents, Find(a)
  PROVE  IInv'
<1>1. PICK types, hits, w :
        /\ w \in {"find", "sift"} /\ hits \subseteq call[a].hits \cup {Current(log, e) : e \in {x \in {Min(call[a].types)} : Current(log, x) # 0}}
        /\ call' = [call EXCEPT ![a] = [call[a] EXCEPT !.types = types, !.hits = hits, !.pc = w]]
  <2>1. PICK e : e = Min(call[a].types)
    OBVIOUS
  <2>2. PICK types, hits, w : /\ types = call[a].types \ {e} /\ hits = call[a].hits \cup ({Current(log, e)} \ {0})
                              /\ w = IF call[a].types = {e} THEN "sift" ELSE "find"
    OBVIOUS
  <2>3. call' = [call EXCEPT ![a] = [call[a] EXCEPT !.types = types, !.hits = hits, !.pc = w]]
    BY <2>1, <2>2 DEF Find
  <2>4. hits \subseteq call[a].hits \cup {Current(log, x) : x \in {y \in {e} : Current(log, y) # 0}}
    BY <2>2
  <2> QED
    BY <2>1, <2>2, <2>3, <2>4
<1>2. /\ call[a] # NoCall /\ call[a].pc = "find"
      /\ log' = log /\ acts' = acts /\ inbox' = inbox /\ todo' = todo /\ reply' = reply
  BY DEF Find
<1>3. LedgerHolds(log)
  BY DEF IInv
<1>4. \A x : Current(log, x) # 0 => Current(log, x) \in DOMAIN log
  BY <1>3, LedgerIs, Ends DEF Rows
<1>5. hits \subseteq DOMAIN log
  BY <1>1, <1>2, <1>4, SearchIs
<1> DEFINE d == [call[a] EXCEPT !.types = types, !.hits = hits, !.pc = w]
<1>6. /\ DOMAIN d = DOMAIN call[a] /\ d.pc \in {"find", "sift"} /\ d.hits = hits /\ d.found = call[a].found
      /\ \A x \in DOMAIN d : x \notin {"pc", "types", "hits", "found"} => d[x] = call[a][x]
  BY <1>1, <1>2, SearchIs
<1>7. call' = [call EXCEPT ![a] = d]
  BY <1>1
<1> HIDE DEF d
<1> QED
  BY <1>2, <1>5, <1>6, <1>7, SearchKeeps, SearchIs

\* A search looks the record of a hit up.
LEMMA SiftKeeps ==
  ASSUME IInv, NEW a \in Agents, Sift(a)
  PROVE  IInv'
<1>1. PICK i : i = Min(call[a].hits)
  OBVIOUS
<1>2. PICK j : j = Current(log, log[i].ent)
  OBVIOUS
<1>3. PICK hits, found : /\ hits = call[a].hits \ {i}
                         /\ found = call[a].found \cup (IF Visible(log, j, call[a].role) THEN {i} ELSE {})
  OBVIOUS
<1>4. /\ call[a] # NoCall /\ call[a].pc = "sift" /\ call[a].hits # {}
      /\ call' = [call EXCEPT ![a] = [call[a] EXCEPT !.hits = hits, !.found = found]]
      /\ log' = log /\ acts' = acts /\ inbox' = inbox /\ todo' = todo /\ reply' = reply
  BY <1>1, <1>2, <1>3 DEF Sift
<1>5. /\ call[a].hits \subseteq DOMAIN log /\ \A x \in call[a].found : Offered(log, a, x)
      /\ call[a].role \in RolesOf[a] /\ call[a].role # NoRole
  BY <1>4, SearchIs
<1>6. LedgerHolds(log)
  BY DEF IInv
<1>7. i \in DOMAIN log
  <2>1. DOMAIN log \subseteq Nat
    BY <1>6, LedgerIs
  <2>2. i \in call[a].hits
    BY <1>1, <1>4, <1>5, <2>1, LeastOf
  <2> QED
    BY <1>5, <2>2
<1>8. ASSUME Visible(log, j, call[a].role) PROVE Offered(log, a, i)
  <2>1. i \in Rows(log, log[i].ent)
    BY <1>7 DEF Rows
  <2>2. j \in Rows(log, log[i].ent) /\ i <= j
    BY <1>2, <1>6, <2>1, LedgerIs, Ends
  <2>3. j \in DOMAIN log /\ log[j].ent = log[i].ent
    BY <2>2 DEF Rows
  <2>4. log[j].ent \in Entities /\ MayUse(log, j, call[a].role, Len(log))
    BY <1>5, <1>6, <1>8, <2>3, VisibleMayUse
  <2> QED
    BY <1>5, <1>7, <2>2, <2>3, <2>4 DEF Offered, MayFind
<1>9. hits \subseteq DOMAIN log /\ \A x \in found : Offered(log, a, x)
  BY <1>3, <1>5, <1>8
<1> DEFINE d == [call[a] EXCEPT !.hits = hits, !.found = found]
<1>10. /\ DOMAIN d = DOMAIN call[a] /\ d.pc = "sift" /\ d.hits = hits /\ d.found = found
       /\ \A x \in DOMAIN d : x \notin {"pc", "types", "hits", "found"} => d[x] = call[a][x]
  BY <1>4, SearchIs
<1>11. call' = [call EXCEPT ![a] = d]
  BY <1>4
<1> HIDE DEF d
<1> QED
  BY <1>4, <1>9, <1>10, <1>11, SearchKeeps, SearchIs

\* A search gives what it has found.
LEMMA FoundKeeps ==
  ASSUME IInv, NEW a \in Agents, Found(a)
  PROVE  IInv'
<1> DEFINE rep == [code |-> "found", req |-> call[a], event |-> 0, found |-> call[a].found]
<1>1. /\ call[a] # NoCall /\ call[a].pc = "sift" /\ call' = [call EXCEPT ![a] = NoCall]
      /\ reply' = [reply EXCEPT ![a] = rep]
      /\ log' = log /\ acts' = acts /\ inbox' = inbox /\ todo' = todo
  BY DEF Found
<1>2. ReplyHolds(log, a, rep)
  BY <1>1, SearchIs DEF ReplyHolds
<1> HIDE DEF rep
<1>3. PICK r : reply' = [reply EXCEPT ![a] = r] /\ ReplyHolds(log, a, r)
  BY <1>1, <1>2
<1>4. CallHolds(log, a, NoCall)
  BY NoCallHolds
<1> QED
  BY <1>1, <1>3, <1>4, KeptByCall

-----------------------------------------------------------------------------
(* Pages of changes *)

\* A batch ends between the cursor and the end of the ledger.
LEMMA BatchIs ==
  ASSUME NEW c, c.limit \in Nat, c.count \in Nat, c.count < c.limit,
         Len(log) \in Nat, NEW from \in 0..Len(log)
  PROVE  BatchEnd(c, from) \in from..Len(log)
<1> DEFINE q == (c.limit - c.count) * 2
           S == {MinBatch, q}
<1>1. q \in Nat /\ MinBatch \in Nat \ {0} /\ MaxBatch \in Nat
  BY GatewayAssumption
<1>2. S \subseteq Nat /\ S # {} /\ MinBatch + q \in Nat /\ (q > 0 => S \subseteq 1..(MinBatch + q))
  BY <1>1
<1>3. q > 0
  OBVIOUS
<1>4. Max(S) \in S
  BY <1>2, <1>3, GreatestOf
<1>5. BatchLimit(c) \in Nat
  BY <1>1, <1>2, <1>4 DEF BatchLimit, Smaller
<1> QED
  BY <1>5 DEF BatchEnd, Smaller

\* A page is what the batch shows, in order, up to where the cursor moves.
LEMMA PageIs ==
  ASSUME NEW c, c.limit \in Nat, c.count \in Nat, c.count < c.limit,
         Len(log) \in Nat, NEW from \in 0..Len(log)
  PROVE  LET shown == Shown(c, from)
             sent == Sent(shown, c.limit - c.count)
             full == Cardinality(shown) >= c.limit - c.count
             cursor == IF full THEN Max(sent) ELSE BatchEnd(c, from)
         IN /\ cursor \in from..Len(log)
            /\ \A i \in sent : i \in (from + 1)..cursor /\ Visible(log, i, c.role)
            /\ \A i \in (from + 1)..cursor : Visible(log, i, c.role) => i \in sent
            /\ ~full => Cardinality(shown) \in Nat /\ c.count + Cardinality(shown) < c.limit
<1> DEFINE shown == Shown(c, from)
           quota == c.limit - c.count
           sent == Sent(shown, quota)
           full == Cardinality(shown) >= quota
           end == BatchEnd(c, from)
           upto(i) == {j \in shown : j <= i}
<1>1. end \in from..Len(log) /\ quota \in Nat \ {0} /\ from \in Nat
  BY BatchIs
<1> HIDE DEF end
<1>2. shown = {i \in (from + 1)..end : Visible(log, i, c.role)}
  BY DEF Shown, end
<1> HIDE DEF shown, quota
<1>3. shown \subseteq 1..Len(log) /\ shown \subseteq Nat /\ IsFiniteSet(shown)
  <2>1. shown \subseteq 1..Len(log)
    BY <1>1, <1>2
  <2>2. IsFiniteSet(1..Len(log))
    BY FS_Interval
  <2>3. IsFiniteSet(shown)
    BY <2>1, <2>2, FS_Subset
  <2> QED
    BY <2>1, <2>3
<1>4. \A S : S \subseteq shown => /\ IsFiniteSet(S) /\ Cardinality(S) \in Nat
                                  /\ Cardinality(S) <= Cardinality(shown)
  BY <1>3, FS_Subset, FS_CardinalityType
<1>5. sent \subseteq shown /\ \A i \in shown : i \in sent <=> Cardinality(upto(i)) <= quota
  BY DEF Sent
<1>6. CASE ~full
  <2>1. \A i \in shown : i \in sent
    <3> TAKE i \in shown
    <3>1. Cardinality(upto(i)) \in Nat /\ Cardinality(upto(i)) <= Cardinality(shown)
      BY <1>4
    <3> QED
      BY <3>1, <1>1, <1>4, <1>5, <1>6
  <2>2. Cardinality(shown) \in Nat /\ c.count + Cardinality(shown) < c.limit
    BY <1>4, <1>6 DEF quota
  <2>3. sent = shown
    BY <2>1, <1>5
  <2> HIDE DEF sent, full
  <2> QED
    BY <2>2, <2>3, <1>1, <1>2, <1>6 DEF sent, full, shown, quota, end
<1>7. CASE full
  <2>1. shown # {}
    <3>1. shown = {} => Cardinality(shown) = 0
      BY FS_EmptySet
    <3> QED
      BY <3>1, <1>1, <1>7
  <2>2. Min(shown) \in shown /\ \A i \in shown : Min(shown) <= i
    BY <1>3, <2>1, LeastOf
  <2>3. upto(Min(shown)) = {Min(shown)}
    <3>1. \A j \in shown : j \in Nat
      BY <1>3
    <3>2. \A j \in shown : j <= Min(shown) <=> j = Min(shown)
      BY <2>2, <3>1
    <3> QED
      BY <2>2, <3>2
  <2>4. Cardinality({Min(shown)}) = 1
    BY FS_Singleton
  <2>5. Min(shown) \in sent
    BY <2>2, <2>3, <2>4, <1>1, <1>5
  <2>6. sent \subseteq 1..Len(log) /\ sent # {}
    BY <2>5, <1>3, <1>5
  <2> DEFINE last == Max(sent)
  <2>7. last \in sent /\ \A i \in sent : i <= last
    BY <2>6, GreatestOf
  <2> HIDE DEF last
  <2>8. last \in shown /\ Cardinality(upto(last)) <= quota
    BY <2>7, <1>5
  <2>9. \A i \in shown : i <= last => i \in sent
    <3> SUFFICES ASSUME NEW i \in shown, i <= last PROVE i \in sent
      OBVIOUS
    <3>0. last \in Nat /\ i \in Nat /\ \A j \in shown : j \in Nat
      BY <1>3, <2>8
    <3>a. \A j \in shown : j <= i => j <= last
      BY <3>0
    <3>1. upto(i) \subseteq upto(last) /\ upto(last) \subseteq shown
      BY <3>a, Zenon
    <3>2. IsFiniteSet(upto(last)) /\ Cardinality(upto(last)) \in Nat
      BY <1>4, <3>1
    <3>3. Cardinality(upto(i)) <= Cardinality(upto(last)) /\ Cardinality(upto(i)) \in Nat
      BY <3>1, <3>2, FS_Subset, FS_CardinalityType
    <3> QED
      BY <3>2, <3>3, <2>8, <1>1, <1>5
  <2>10. last \in (from + 1)..end
    BY <2>8, <1>2
  <2>11. /\ last \in from..Len(log)
         /\ \A i \in sent : i \in (from + 1)..last /\ Visible(log, i, c.role)
         /\ \A i \in (from + 1)..last : Visible(log, i, c.role) => i \in sent
    BY <2>7, <2>9, <2>10, <1>1, <1>2, <1>5
  <2>12. Max(sent) = last
    BY DEF last
  <2> HIDE DEF sent, full
  <2> QED
    BY <2>11, <2>12, <1>7 DEF sent, full, shown, quota, end
<1> QED
  BY <1>6, <1>7

\* One batch of changes is scanned, and its page sent.
LEMMA ScanKeeps ==
  ASSUME IInv, NEW a \in Agents, Scan(a)
  PROVE  IInv'
<1> DEFINE c == call[a]
           role == c.role
           box == inbox[a][role]
           shown == Shown(c, box.cursor)
           sent == Sent(shown, c.limit - c.count)
           full == Cardinality(shown) >= c.limit - c.count
           cursor == IF full THEN Max(sent) ELSE BatchEnd(c, box.cursor)
           new == [cursor |-> cursor, got |-> Append(box.got, sent)]
<1>1. /\ c # NoCall /\ c.op = "changes" /\ c.pc = "read"
      /\ log' = log /\ acts' = acts /\ todo' = todo
      /\ inbox' = [inbox EXCEPT ![a][role] = new]
      /\ \/ Answer(a, "read", 0)
         \/ ~full /\ call' = [call EXCEPT ![a].count = c.count + Cardinality(shown)] /\ reply' = reply
  BY DEF Scan
<1>2. CallHolds(log, a, c) /\ LedgerHolds(log) /\ DOMAIN inbox = Agents /\ DOMAIN inbox[a] = Roles
  BY DEF IInv
<1>3. CallShape(c) /\ CallRun(log, a, c) /\ CallRecord(log, c) /\ CallOther(log, a, c)
  BY <1>1, <1>2 DEF CallHolds
<1>4. c.limit \in Nat /\ c.count \in Nat /\ c.count < c.limit
  BY <1>1, <1>3 DEF CallOther
<1>5. role \in RolesOf[a] /\ role \in Roles /\ role # NoRole
  BY <1>1, <1>3, RolesAreRoles DEF CallRun
<1>6. BoxHolds(log, a, role, box)
  BY <1>5 DEF IInv
<1>7. /\ Len(log) \in Nat /\ DOMAIN log = 1..Len(log) /\ box.cursor \in 0..Len(log)
      /\ IsSeq(box.got)
  BY <1>2, <1>6, LedgerIs DEF BoxHolds
<1> HIDE DEF c, role, box
<1>8. /\ cursor \in box.cursor..Len(log)
      /\ \A i \in sent : i \in (box.cursor + 1)..cursor /\ Visible(log, i, role)
      /\ \A i \in (box.cursor + 1)..cursor : Visible(log, i, role) => i \in sent
      /\ ~full => Cardinality(shown) \in Nat /\ c.count + Cardinality(shown) < c.limit
  BY <1>4, <1>7, PageIs DEF role
<1> HIDE DEF cursor, sent, full, shown
<1>9. /\ IsSeq(new.got) /\ DOMAIN new.got = 1..(Len(box.got) + 1) /\ new.got[Len(box.got) + 1] = sent
      /\ \A n \in 1..Len(box.got) : new.got[n] = box.got[n]
      /\ Len(box.got) \in Nat /\ DOMAIN box.got = 1..Len(box.got) /\ new.cursor = cursor
  <2>1. LET t == Append(box.got, sent) IN
          /\ IsSeq(t) /\ DOMAIN t = 1..(Len(box.got) + 1) /\ t[Len(box.got) + 1] = sent
          /\ \A n \in 1..Len(box.got) : t[n] = box.got[n]
    BY <1>7, AppendIs
  <2> QED
    BY <2>1, <1>7, SequenceIs
<1> HIDE DEF new
<1>10. ASSUME NEW n \in DOMAIN new.got, NEW i \in new.got[n]
       PROVE  /\ i \in 1..cursor /\ log[i].ent \in Entities /\ MayUse(log, i, role, Len(log))
              /\ n = Len(box.got) + 1 => i \in (box.cursor + 1)..cursor
              /\ n # Len(box.got) + 1 => n \in DOMAIN box.got /\ i \in box.got[n] /\ i \in 1..box.cursor
  <2>1. CASE n \in 1..Len(box.got)
    <3>1. n \in DOMAIN box.got /\ i \in box.got[n] /\ n # Len(box.got) + 1
      BY <2>1, <1>9
    <3>2. i \in 1..box.cursor /\ log[i].ent \in Entities /\ MayUse(log, i, role, Len(log))
      BY <3>1, <1>6 DEF BoxHolds
    <3> QED
      BY <3>1, <3>2, <1>7, <1>8
  <2>2. CASE n = Len(box.got) + 1
    <3>1. i \in (box.cursor + 1)..cursor /\ Visible(log, i, role)
      BY <2>2, <1>8, <1>9
    <3>2. i \in DOMAIN log /\ i \in 1..cursor
      BY <3>1, <1>7, <1>8
    <3> QED
      BY <2>2, <3>1, <3>2, <1>2, <1>5, VisibleMayUse
  <2> QED
    BY <2>1, <2>2, <1>9
<1>11. \A m, n \in DOMAIN new.got : m < n => \A i \in new.got[m], j \in new.got[n] : i < j
  <2> SUFFICES ASSUME NEW m \in DOMAIN new.got, NEW n \in DOMAIN new.got, m < n,
                      NEW i \in new.got[m], NEW j \in new.got[n]
               PROVE  i < j
    OBVIOUS
  <2>1. m # Len(box.got) + 1 /\ m \in 1..Len(box.got)
    BY <1>9
  <2>2. m \in DOMAIN box.got /\ i \in box.got[m] /\ i \in 1..box.cursor
    BY <2>1, <1>10
  <2>3. CASE n = Len(box.got) + 1
    BY <2>2, <2>3, <1>7, <1>8, <1>10
  <2>4. CASE n # Len(box.got) + 1
    <3>1. n \in DOMAIN box.got /\ j \in box.got[n]
      BY <2>4, <1>10
    <3> QED
      BY <2>2, <3>1, <1>6 DEF BoxHolds
  <2> QED
    BY <2>3, <2>4
<1>12. ASSUME NEW i \in 1..cursor, log[i].ent \in Entities,
              \A k \in i..Len(log) : RoleAt(log, log[i].origin, k) = role
       PROVE  \E n \in DOMAIN new.got : i \in new.got[n]
  <2>1. CASE i \in 1..box.cursor
    <3>1. PICK n \in DOMAIN box.got : i \in box.got[n]
      BY <2>1, <1>6, <1>12 DEF BoxHolds
    <3>2. n \in DOMAIN new.got /\ new.got[n] = box.got[n]
      BY <1>9
    <3> QED
      BY <3>1, <3>2
  <2>2. CASE i \in (box.cursor + 1)..cursor
    <3>1. Len(log) \in i..Len(log)
      BY <1>7, <1>8
    <3>2. RunRole(log, log[i].origin) = role
      BY <3>1, <1>7, <1>12, RoleAtEnd
    <3>3. Visible(log, i, role)
      BY <3>2, <1>5, <1>12 DEF Visible, OriginRole
    <3>4. i \in sent
      BY <3>3, <2>2, <1>8
    <3>5. Len(box.got) + 1 \in DOMAIN new.got
      BY <1>9
    <3> QED
      BY <3>4, <3>5, <1>9
  <2> QED
    BY <2>1, <2>2, <1>7, <1>8
<1>13. BoxHolds(log, a, role, new)
  <2>1. new.cursor = cursor /\ cursor \in 0..Len(log)
    BY <1>7, <1>8, <1>9
  <2> QED
    BY <2>1, <1>5, <1>9, <1>10, <1>11, <1>12 DEF BoxHolds
<1>14. /\ DOMAIN inbox' = Agents
       /\ \A b \in Agents : inbox'[b] = inbox[b] \/
            /\ DOMAIN inbox'[b] = Roles
            /\ \A r \in Roles : inbox'[b][r] = inbox[b][r] \/ BoxHolds(log', b, r, inbox'[b][r])
  <2>1. DOMAIN inbox' = Agents /\ \A b \in Agents : b # a => inbox'[b] = inbox[b]
    BY <1>1, <1>2
  <2>2. inbox'[a] = [inbox[a] EXCEPT ![role] = new]
    BY <1>1, <1>2
  <2>3. /\ DOMAIN inbox'[a] = Roles
        /\ \A r \in Roles : inbox'[a][r] = inbox[a][r] \/ (r = role /\ inbox'[a][r] = new)
    BY <2>2, <1>2
  <2>4. \A r \in Roles : inbox'[a][r] = inbox[a][r] \/ BoxHolds(log', a, r, inbox'[a][r])
    BY <2>3, <1>1, <1>13
  <2> QED
    BY <2>1, <2>3, <2>4
<1>15. /\ DOMAIN call = Agents /\ DOMAIN reply = Agents /\ DOMAIN todo = Agents /\ ActsHold(acts)
  BY DEF IInv
<1>16. CASE Answer(a, "read", 0)
  <2>1. /\ DOMAIN call' = Agents /\ \A b \in Agents : call'[b] = call[b] \/ CallHolds(log', b, call'[b])
    BY <1>15, <1>16, NoCallHolds DEF Answer
  <2>2. PICK rep : reply' = [reply EXCEPT ![a] = rep] /\ ReplyHolds(log, a, rep)
    <3>1. ReplyHolds(log, a, [code |-> "read", req |-> call[a], event |-> 0, time |-> now])
      BY <1>1, RefusedHolds DEF c
    <3> QED
      BY <3>1, <1>16 DEF Answer
  <2>3. DOMAIN reply' = Agents /\ \A b \in Agents : reply'[b] = reply[b] \/ ReplyHolds(log', b, reply'[b])
    BY <2>2, <1>1, <1>15
  <2> QED
    BY <2>1, <2>3, <1>1, <1>2, <1>14, <1>15, Kept
<1>17. CASE ~full /\ call' = [call EXCEPT ![a].count = c.count + Cardinality(shown)] /\ reply' = reply
  <2> DEFINE d == [c EXCEPT !.count = c.count + Cardinality(shown)]
  <2>1. call' = [call EXCEPT ![a] = d]
    BY <1>17 DEF c
  <2>2. /\ {"op", "run", "refs", "pc", "runAt", "next", "role", "limit", "count"} \subseteq DOMAIN c
        /\ DOMAIN d = DOMAIN c /\ \A x \in DOMAIN c : x # "count" => d[x] = c[x]
    BY <1>1, <1>3, FieldsAre
  <2>3. /\ d.op = c.op /\ d.run = c.run /\ d.refs = c.refs /\ d.pc = c.pc /\ d.runAt = c.runAt
        /\ d.role = c.role /\ d.limit = c.limit /\ d.count = c.count + Cardinality(shown)
    BY <2>2
  <2> HIDE DEF d
  <2>4. d.count \in Nat /\ d.count < d.limit
    BY <2>3, <1>4, <1>8, <1>17
  <2>5. CallHolds(log, a, d)
    BY <1>1, <1>3, <1>4, <2>2, <2>3, <2>4 DEF CallHolds, CallShape, CallRun, CallRecord, CallOther
  <2>6. PICK x : call' = [call EXCEPT ![a] = x] /\ CallHolds(log, a, x)
    BY <2>1, <2>5
  <2>7. DOMAIN call' = Agents /\ \A b \in Agents : call'[b] = call[b] \/ CallHolds(log', b, call'[b])
    BY <2>6, <1>1, <1>15
  <2> QED
    BY <2>7, <1>1, <1>2, <1>14, <1>15, <1>17, Kept
<1> QED
  BY <1>1, <1>16, <1>17 DEF c, full

-----------------------------------------------------------------------------
(* Commits *)

\* The event an append asks for.
LEMMA EntityEventIs ==
  ASSUME NEW a, NEW c
  PROVE  LET e == EntityEvent(a, c) IN
           /\ e.ent = c.ent /\ e.rev = c.expected + 1 /\ e.by = a /\ e.basis \in {"observed", "inferred"}
           /\ e.maker = IF c.expected > 0 /\ Current(log, c.ent) # 0
                          THEN log[Current(log, c.ent)].maker ELSE a
           /\ e.origin = c.origin /\ e.run = c.run /\ e.deps = c.refs
           /\ e.tomb \in BOOLEAN /\ ~e.tomb /\ e.phase = "none"
BY DEF EntityEvent, Blank

\* The event a step of a run asks for.
LEMMA RunEventIs ==
  ASSUME NEW a, NEW c, NEW phase
  PROVE  LET e == RunEvent(a, c, phase) IN
           /\ e.ent = c.run /\ e.rev = Expected(c) + 1 /\ e.by = a /\ e.basis = "inferred"
           /\ e.role = IF c.op = "open" THEN c.role ELSE log[c.runAt].role
           /\ e.mat = c.mat /\ e.deps = c.refs /\ e.tomb \in BOOLEAN /\ ~e.tomb /\ e.phase = phase
BY DEF RunEvent, Blank

\* What a commit on a run asks for.
LEMMA RunWishIs ==
  ASSUME NEW a, NEW c, c.op \in {"open", "checkpoint", "complete"}
  PROVE  LET e == Wish(a, c) IN
           /\ e.ent = c.run /\ e.by = a /\ e.basis = "inferred" /\ e.tomb \in BOOLEAN /\ ~e.tomb
           /\ c.op = "open" => e.rev = 1
           /\ c.op # "open" => e.role = log[c.runAt].role
           /\ c.op = "complete" => e.phase = "complete" /\ e.mat = c.mat /\ e.deps = c.refs
<1>1. CASE c.op = "open"
  <2>1. Wish(a, c) = RunEvent(a, c, "open")
    BY <1>1 DEF Wish
  <2>2. Expected(c) = 0
    BY <1>1 DEF Expected
  <2> QED
    BY <1>1, <2>1, <2>2, RunEventIs
<1>2. CASE c.op = "checkpoint"
  <2>1. Wish(a, c) = RunEvent(a, c, "checkpoint")
    BY <1>2 DEF Wish
  <2> QED
    BY <1>2, <2>1, RunEventIs
<1>3. CASE c.op = "complete"
  <2> DEFINE d == [c EXCEPT !.key = <<c.run, c.mat, c.refs>>]
  <2>1. Wish(a, c) = RunEvent(a, d, "complete")
    BY <1>3 DEF Wish
  <2>2. d.op = c.op /\ d.run = c.run /\ d.runAt = c.runAt /\ d.mat = c.mat /\ d.refs = c.refs
    OBVIOUS
  <2> HIDE DEF d
  <2> QED
    BY <1>3, <2>1, <2>2, RunEventIs
<1> QED
  BY <1>1, <1>2, <1>3

\* A run completes once.
LEMMA OneCompletion ==
  ASSUME NEW l, LedgerHolds(l), NEW r, NEW i \in Rows(l, r), NEW j \in Rows(l, r),
         l[i].phase = "complete", l[j].phase = "complete"
  PROVE  i = j
<1>1. /\ i \in DOMAIN l /\ j \in DOMAIN l /\ l[i].ent = r /\ l[j].ent = r /\ i \in Nat /\ j \in Nat
      /\ RowHolds(l, i) /\ RowHolds(l, j)
  BY LedgerIs DEF Rows
<1>2. ~(i < j)
  BY <1>1 DEF RowHolds
<1>3. ~(j < i)
  BY <1>1 DEF RowHolds
<1> QED
  BY <1>1, <1>2, <1>3

\* The current event of an entity that is there.
LEMMA CurrentIs ==
  ASSUME NEW l, LedgerHolds(l), NEW x, Rows(l, x) # {}
  PROVE  LET i == Current(l, x) IN
           /\ i # 0 /\ i \in DOMAIN l /\ i \in Rows(l, x) /\ l[i].ent = x
           /\ RowHolds(l, i) /\ RecordHolds(l, i) /\ \A j \in Rows(l, x) : j <= i
<1>1. Len(l) \in Nat /\ DOMAIN l = 1..Len(l)
  BY LedgerIs
<1>2. Current(l, x) # 0 /\ Current(l, x) \in Rows(l, x) /\ \A j \in Rows(l, x) : j <= Current(l, x)
  BY <1>1, Ends
<1> QED
  BY <1>2, LedgerIs DEF Rows

\* An entity one of whose rows is explicit is explicit now.
LEMMA ExplicitStays ==
  ASSUME NEW l, LedgerHolds(l), NEW x \in Entities, NEW i \in Rows(l, x), l[i].basis = "explicit"
  PROVE  l[Current(l, x)].basis = "explicit"
<1>1. /\ Current(l, x) \in DOMAIN l /\ Current(l, x) \in Rows(l, x) /\ i <= Current(l, x)
  BY CurrentIs
<1>2. i \in DOMAIN l /\ i \in Nat /\ Current(l, x) \in Nat /\ l[i].ent = x /\ RowHolds(l, i)
  BY <1>1, LedgerIs DEF Rows
<1>3. i < Current(l, x) \/ i = Current(l, x)
  BY <1>1, <1>2
<1> QED
  BY <1>1, <1>2, <1>3 DEF RowHolds

\* What an agent's call commits is a proper next row and a proper next record.
LEMMA RunWishHolds ==
  ASSUME LedgerHolds(log), NEW a \in Agents, NEW c, CallHolds(log, a, c), c # NoCall,
         c.op \in {"open", "checkpoint", "complete"}, Acceptable(log, Wish(a, c))
  PROVE  NewRow(log, Wish(a, c)) /\ NewRecord(log, Wish(a, c))
<1> DEFINE e == Wish(a, c)
<1>1. /\ e.ent = c.run /\ e.by = a /\ e.basis = "inferred" /\ e.tomb \in BOOLEAN /\ ~e.tomb
      /\ c.op = "open" => e.rev = 1
      /\ c.op # "open" => e.role = log[c.runAt].role
  BY RunWishIs
<1> HIDE DEF e
<1>2. CallRun(log, a, c) /\ Acceptable(log, e)
  BY DEF CallHolds, e
<1>3. c.run \in Runs /\ c.run \notin Entities
  BY <1>2, GatewayAssumption DEF CallRun
<1>4. ASSUME Rows(log, e.ent) # {}
      PROVE  e.role \in {OpenedAs(log, e.ent), NoRole}
  <2>1. CASE c.op = "open"
    <3>1. /\ Current(log, e.ent) # 0 /\ RowHolds(log, Current(log, e.ent))
      BY <1>4, CurrentIs
    <3>2. log[Current(log, e.ent)].rev \in Nat \ {0} /\ 1 = log[Current(log, e.ent)].rev + 1
      BY <1>1, <1>2, <2>1, <3>1 DEF RowHolds, Acceptable
    <3> QED
      BY <3>2
  <2>2. CASE c.op # "open"
    BY <1>1, <1>2, <2>2 DEF CallRun
  <2> QED
    BY <2>1, <2>2
<1>5. NewRow(log, e)
  BY <1>1, <1>2, <1>3, <1>4 DEF NewRow
<1>6. NewRecord(log, e)
  BY <1>1, <1>3 DEF NewRecord
<1> QED
  BY <1>5, <1>6 DEF e

\* The same for a record; this is where the checks before the commit have to last.
LEMMA EntityWishHolds ==
  ASSUME LedgerHolds(log), NEW a \in Agents, NEW c, CallHolds(log, a, c), c # NoCall,
         c.op \in {"append", "evidence"}, c.pc = "commit", Acceptable(log, Wish(a, c))
  PROVE  NewRow(log, Wish(a, c)) /\ NewRecord(log, Wish(a, c))
<1> DEFINE e == EntityEvent(a, c)
           cur == Current(log, c.ent)
           home == Home(log, c.ent)
<1>0. Wish(a, c) = e
  BY DEF Wish
<1>1. /\ e.ent = c.ent /\ e.rev = c.expected + 1 /\ e.by = a /\ e.basis \in {"observed", "inferred"}
      /\ e.maker = IF c.expected > 0 /\ cur # 0 THEN log[cur].maker ELSE a
      /\ e.origin = c.origin /\ e.run = c.run /\ e.deps = c.refs
      /\ e.tomb \in BOOLEAN /\ ~e.tomb /\ e.phase = "none"
  BY EntityEventIs
<1> HIDE DEF e
<1>2. CallRun(log, a, c) /\ CallRecord(log, c) /\ Acceptable(log, e)
  BY <1>0 DEF CallHolds
<1>3. /\ c.run \in Runs /\ Rows(log, c.run) # {} /\ c.role = OpenedAs(log, c.run)
      /\ c.ent \in Entities /\ c.ent \notin Runs /\ c.expected \in Nat /\ c.run # NoRun
  BY <1>2, GatewayAssumption DEF CallRun, CallRecord, NoRun
<1>4. a # Owner /\ a # System
  BY GatewayAssumption
<1>5. \A n \in DOMAIN e.deps : Cited(log, e.deps[n], OpenedAs(log, e.run), Len(log))
  BY <1>1, <1>2, <1>3 DEF CallRecord
<1>6. cur # 0 => log[cur].basis # "explicit" /\ ~log[cur].tomb
  BY <1>1, <1>2, <1>4 DEF Acceptable
<1>7. NewRow(log, e)
  <2>1. Rows(log, e.ent) # {} => log[Current(log, e.ent)].basis # "explicit"
    BY <1>1, <1>6, CurrentIs
  <2> QED
    BY <1>1, <1>2, <1>3, <2>1 DEF NewRow
<1>8. CASE Rows(log, c.ent) = {}
  <2>1. cur = 0
    BY <1>8, LedgerIs, Ends
  <2>2. c.expected = 0 /\ c.origin = c.run
    BY <1>1, <1>2, <1>3, <2>1 DEF Acceptable, CallRecord
  <2>3. e.maker = a
    BY <1>1, <2>1
  <2> QED
    BY <1>0, <1>1, <1>3, <1>4, <1>5, <1>7, <1>8, <2>2, <2>3 DEF NewRecord, FirstOfRecord, OfAgent
<1>9. CASE Rows(log, c.ent) # {}
  <2>1. cur # 0 /\ cur \in Rows(log, c.ent) /\ log[cur].ent = c.ent /\ RowHolds(log, cur) /\ RecordHolds(log, cur)
    BY <1>9, CurrentIs
  <2>2. c.expected > 0
    <3>1. log[cur].rev \in Nat \ {0} /\ c.expected + 1 = log[cur].rev + 1
      BY <1>1, <1>2, <2>1 DEF RowHolds, Acceptable
    <3> QED
      BY <3>1, <1>3
  <2>3. Vouched(log, c)
    BY <1>2, <2>2 DEF CallRecord
  <2>4. ~\E i \in Rows(log, c.ent) : log[i].basis = "explicit"
    BY <1>3, <1>6, <2>1, ExplicitStays
  <2>5. home.maker = System \/ (c.origin = home.run /\ OpenedAs(log, c.origin) = c.role)
    BY <2>3, <2>4 DEF Vouched
  <2>6. e.maker = home.maker
    BY <1>1, <1>3, <1>6, <2>1, <2>2 DEF RecordHolds
  <2>7. home.maker # Owner
    BY <1>3, <1>6, <2>1 DEF RecordHolds
  <2>8. home.maker \notin {Owner, System} => home.run \in Runs
    BY <1>3, <2>1 DEF RecordHolds
  <2>9. LaterOfRecord(log, e)
    BY <1>1, <2>5, <2>6, <2>7 DEF LaterOfRecord
  <2>10. home.maker = System \/ HomeRole(log, c.ent) = c.role
    BY <2>5, <2>7, <2>8, GatewayAssumption DEF HomeRole, NoRun
  <2>11. OfAgent(log, e)
    BY <1>1, <1>3, <1>5, <1>9, <2>10 DEF OfAgent
  <2> QED
    BY <1>0, <1>1, <1>7, <1>9, <2>9, <2>11 DEF NewRecord
<1> QED
  BY <1>8, <1>9

\* kernel.change: a new event, a retry, a conflict or a refusal.
LEMMA CommitKeeps ==
  ASSUME IInv, NEW a \in Agents, Commit(a)
  PROVE  IInv'
<1> DEFINE c == call[a]
           e == Wish(a, c)
           same == KeyRows(log, e.key)
<1>1. /\ c # NoCall /\ c.pc = "commit"
      /\ acts' = acts /\ inbox' = inbox /\ todo' = todo
  BY DEF Commit
<1>2. CallHolds(log, a, c) /\ LedgerHolds(log)
  BY DEF IInv
<1>3. CallShape(c) /\ c.op \in {"append", "evidence", "open", "checkpoint", "complete"}
  BY <1>1, <1>2 DEF CallHolds, CallShape, StepsOf, Ops
<1>4. Len(log) \in Nat /\ DOMAIN log = 1..Len(log)
  BY <1>2, LedgerIs
<1>5. c.op = "complete" => e.ent = c.run /\ e.phase = "complete" /\ e.mat = c.mat /\ e.deps = c.refs /\ e.tomb \in BOOLEAN /\ ~e.tomb
  BY RunWishIs
<1> HIDE DEF e
<1>6. CASE /\ same # {} /\ log' = log /\ \A i \in same : log[i] = e
           /\ Answer(a, "duplicate", Min(same))
  <2>1. Min(same) \in same
    <3>1. same \subseteq Nat
      BY <1>4 DEF KeyRows
    <3> QED
      BY <3>1, <1>6, LeastOf
  <2>2. PICK i \in same : i = Min(same)
    BY <2>1
  <2>3. i \in DOMAIN log /\ log[i] = e
    BY <1>6 DEF KeyRows
  <2>4. c.op = "complete" => Completed(log, c, i)
    <3> SUFFICES ASSUME c.op = "complete" PROVE Completed(log, c, i)
      OBVIOUS
    <3>1. i \in Rows(log, c.run) /\ log[i].phase = "complete"
      BY <1>5, <2>3 DEF Rows
    <3>2. \A j \in Rows(log, c.run) : log[j].phase = "complete" => j = i
      BY <3>1, <1>2, OneCompletion
    <3> QED
      BY <3>1, <3>2, <1>5, <2>3 DEF Completed
  <2>5. ReplyHolds(log, a, [code |-> "duplicate", req |-> c, event |-> i, time |-> now])
    BY <2>4 DEF ReplyHolds
  <2>6. Answer(a, "duplicate", i)
    BY <1>6, <2>2
  <2> QED
    BY <1>1, <1>6, <2>5, <2>6, AnswerKeeps
<1>7. CASE /\ Acceptable(log, e) /\ log' = Append(log, e) /\ Answer(a, "created", Len(log) + 1)
  <2>1. NewRow(log, e) /\ NewRecord(log, e)
    BY <1>1, <1>2, <1>3, <1>7, RunWishHolds, EntityWishHolds DEF e
  <2>2. LedgerHolds(log') /\ Grown(log, log', e)
    BY <1>2, <1>7, <2>1, LedgerGrow
  <2>3. ASSUME c.op = "complete" PROVE Completed(log', c, Len(log) + 1)
    <3>1. /\ Len(log) + 1 \in DOMAIN log' /\ DOMAIN log' = 1..(Len(log) + 1)
          /\ log'[Len(log) + 1] = e /\ \A i \in 1..Len(log) : log'[i] = log[i]
      BY <2>2, <1>4 DEF Grown
    <3>2. ASSUME NEW j \in Rows(log, c.run), log[j].phase = "complete" PROVE FALSE
      <4>1. /\ Current(log, c.run) # 0 /\ Current(log, c.run) \in Rows(log, c.run) /\ j <= Current(log, c.run)
        BY <1>2, CurrentIs
      <4>2. j \in DOMAIN log /\ j \in Nat /\ Current(log, c.run) \in Nat /\ RowHolds(log, j) /\ log[j].ent = c.run
        BY <4>1, <1>2, <1>4, LedgerIs DEF Rows
      <4>3. ~log[Current(log, c.run)].tomb /\ log[Current(log, c.run)].phase # "complete"
        BY <4>1, <1>5, <1>7, <2>3 DEF Acceptable
      <4>4. j < Current(log, c.run)
        BY <4>1, <4>2, <4>3, <3>2
      <4> QED
        BY <4>1, <4>2, <4>3, <4>4, <3>2 DEF RowHolds
    <3>3. \A j \in Rows(log', c.run) : log'[j].phase = "complete" => j = Len(log) + 1
      BY <3>1, <3>2, <1>4 DEF Rows
    <3> QED
      BY <3>1, <3>3, <1>5, <2>3 DEF Completed
  <2> DEFINE rep == [code |-> "created", req |-> c, event |-> Len(log) + 1, time |-> now]
  <2>4. reply' = [reply EXCEPT ![a] = rep] /\ call' = [call EXCEPT ![a] = NoCall]
    BY <1>7 DEF Answer
  <2>5. ReplyHolds(log', a, rep)
    BY <2>3 DEF ReplyHolds
  <2> HIDE DEF rep
  <2>6. PICK r : reply' = [reply EXCEPT ![a] = r] /\ ReplyHolds(log', a, r)
    BY <2>4, <2>5
  <2>7. /\ DOMAIN call = Agents /\ DOMAIN reply = Agents /\ DOMAIN todo = Agents /\ DOMAIN inbox = Agents
        /\ ActsHold(acts)
    BY DEF IInv
  <2>8. DOMAIN call' = Agents /\ \A b \in Agents : call'[b] = call[b] \/ CallHolds(log', b, call'[b])
    BY <2>4, <2>7, NoCallHolds
  <2>9. DOMAIN reply' = Agents /\ \A b \in Agents : reply'[b] = reply[b] \/ ReplyHolds(log', b, reply'[b])
    BY <2>6, <2>7
  <2> QED
    BY <1>1, <2>1, <2>2, <2>7, <2>8, <2>9, Kept
<1>8. CASE c.op = "complete" /\ Go(a, "again") /\ log' = log /\ reply' = reply
  <2>1. "again" \in StepsOf(c.op)
    BY <1>8 DEF StepsOf
  <2>2. CallHolds(log, a, [c EXCEPT !.pc = "again"])
    BY <1>1, <1>2, <1>8, <2>1, Moved
  <2> QED
    BY <1>1, <1>8, <2>2, GoKeeps
<1>9. CASE log' = log /\ \E code \in {"conflict", "refused"} : Answer(a, code, 0)
  <2>1. PICK code \in {"conflict", "refused"} : Answer(a, code, 0)
    BY <1>9
  <2>2. ReplyHolds(log, a, [code |-> code, req |-> call[a], event |-> 0, time |-> now])
    BY RefusedHolds
  <2> QED
    BY <1>1, <1>9, <2>1, <2>2, AnswerKeeps
<1>10. \/ /\ same # {} /\ log' = log /\ \A i \in same : log[i] = e
          /\ Answer(a, "duplicate", Min(same))
       \/ Acceptable(log, e) /\ log' = Append(log, e) /\ Answer(a, "created", Len(log) + 1)
       \/ c.op = "complete" /\ Go(a, "again") /\ log' = log /\ reply' = reply
       \/ log' = log /\ \E code \in {"conflict", "refused"} : Answer(a, code, 0)
  BY DEF Commit, e
<1> QED
  BY <1>6, <1>7, <1>8, <1>9, <1>10

-----------------------------------------------------------------------------
(* The owner *)

\* The event the owner asks for.
LEMMA OwnersEventIs ==
  ASSUME NEW act, act.op = "state" <=> Current(log, act.ent) = 0,
         act.op \in {"state", "correct", "restate", "checkpoint", "delete"}
  PROVE  LET e == OwnersEvent(act)
             i == Current(log, act.ent)
         IN /\ e.ent = act.ent /\ e.by = Owner /\ e.phase \in {"none", "checkpoint"} /\ e.role = NoRole
            /\ e.tomb \in BOOLEAN /\ (e.tomb <=> act.op = "delete")
            /\ act.op # "checkpoint" => e.basis = "explicit"
            /\ act.op = "checkpoint" => e.basis = "system"
            /\ act.op = "state" => e.maker = Owner
            /\ act.op \in {"correct", "restate"} => e.maker = log[i].maker
            /\ act.op = "correct" => e.origin = log[i].origin
            /\ act.op \in {"restate", "delete"} => e.origin = NoRun
<1> DEFINE i == Current(log, act.ent)
           b == [Blank EXCEPT !.ent = act.ent, !.basis = "explicit", !.kind = act.op,
                              !.key = <<"owner", Len(log)>>, !.at = Len(log)]
           e == OwnersEvent(act)
<1>1. /\ b.ent = act.ent /\ b.by = Owner /\ b.phase = "none" /\ b.role = NoRole /\ b.tomb \in BOOLEAN /\ ~b.tomb
      /\ b.basis = "explicit" /\ b.maker = Owner /\ b.origin = NoRun
      /\ DOMAIN b = DOMAIN Blank
      /\ {"rev", "tomb", "maker", "origin", "basis", "phase"} \subseteq DOMAIN Blank
  BY DEF Blank
<1> DEFINE d == [b EXCEPT !.rev = log[i].rev + 1, !.tomb = TRUE]
           r == [b EXCEPT !.rev = log[i].rev + 1, !.maker = log[i].maker,
                          !.origin = IF act.op = "correct" THEN log[i].origin ELSE NoRun]
           k == [b EXCEPT !.rev = log[i].rev + 1, !.basis = "system", !.phase = "checkpoint"]
<1>2. /\ act.op = "state" => e = b
      /\ act.op = "delete" => e = d
      /\ act.op \in {"correct", "restate"} => e = r
      /\ act.op = "checkpoint" => e = k
  BY DEF OwnersEvent
<1> HIDE DEF b, e, i
<1>3. /\ d.ent = b.ent /\ d.by = b.by /\ d.phase = b.phase /\ d.role = b.role /\ d.tomb \in BOOLEAN /\ d.tomb
      /\ d.basis = b.basis /\ d.origin = b.origin
  BY <1>1
<1>4. /\ r.ent = b.ent /\ r.by = b.by /\ r.phase = b.phase /\ r.role = b.role /\ r.basis = b.basis
      /\ r.tomb \in BOOLEAN /\ ~r.tomb /\ r.maker = log[i].maker
      /\ r.origin = IF act.op = "correct" THEN log[i].origin ELSE NoRun
  BY <1>1
<1>5. /\ k.ent = b.ent /\ k.by = b.by /\ k.phase = "checkpoint" /\ k.role = b.role /\ k.basis = "system"
      /\ k.tomb \in BOOLEAN /\ ~k.tomb
  BY <1>1
<1> HIDE DEF d, r, k
<1>6. CASE act.op = "state"
  BY <1>1, <1>2, <1>6 DEF e, i
<1>7. CASE act.op = "delete"
  BY <1>1, <1>2, <1>3, <1>7 DEF e, i
<1>8. CASE act.op \in {"correct", "restate"}
  BY <1>1, <1>2, <1>4, <1>8 DEF e, i
<1>9. CASE act.op = "checkpoint"
  BY <1>1, <1>2, <1>5, <1>9 DEF e, i
<1> QED
  BY <1>6, <1>7, <1>8, <1>9

\* What the owner commits is a proper next row and a proper next record.
LEMMA OwnersEventHolds ==
  ASSUME LedgerHolds(log), NEW act, Proper(act), act.op # "tick",
         act.op = "state" <=> Current(log, act.ent) = 0, Acceptable(log, OwnersEvent(act))
  PROVE  NewRow(log, OwnersEvent(act)) /\ NewRecord(log, OwnersEvent(act))
<1> DEFINE e == OwnersEvent(act)
           i == Current(log, act.ent)
<1>1. /\ act.op \in {"state", "correct", "restate", "checkpoint", "delete"}
      /\ act.ent \in Runs \cup Entities
      /\ act.op = "checkpoint" => act.ent \in Runs
  BY DEF Proper
<1>2. /\ e.ent = act.ent /\ e.by = Owner /\ e.phase \in {"none", "checkpoint"} /\ e.role = NoRole
      /\ e.tomb \in BOOLEAN /\ (e.tomb <=> act.op = "delete")
      /\ act.op # "checkpoint" => e.basis = "explicit"
      /\ act.op = "checkpoint" => e.basis = "system"
      /\ act.op = "state" => e.maker = Owner
      /\ act.op \in {"correct", "restate"} => e.maker = log[i].maker
      /\ act.op = "correct" => e.origin = log[i].origin
      /\ act.op \in {"restate", "delete"} => e.origin = NoRun
  BY <1>1, OwnersEventIs
<1>3. Acceptable(log, e) /\ Len(log) \in Nat /\ DOMAIN log = 1..Len(log)
  BY LedgerIs
<1> HIDE DEF e
<1>4. i # 0 <=> Rows(log, e.ent) # {}
  BY <1>2, <1>3, Ends
<1> HIDE DEF i
<1>5. act.op = "checkpoint" => e.ent \notin Entities
  BY <1>1, <1>2, GatewayAssumption
<1>6. act.op = "state" <=> i = 0
  BY DEF i
<1>7. NewRow(log, e)
  BY <1>1, <1>2, <1>3, <1>4, <1>5, <1>6 DEF NewRow
<1>8. Owner \notin Agents
  BY GatewayAssumption
<1>9. ASSUME e.ent \in Entities, i = 0
      PROVE  NewRecord(log, e)
  BY <1>2, <1>4, <1>6, <1>8, <1>9 DEF NewRecord, FirstOfRecord
<1>10. ASSUME e.ent \in Entities, i # 0
       PROVE  NewRecord(log, e)
  <2>1. ~log[i].tomb /\ RecordHolds(log, i) /\ log[i].ent = e.ent
    BY <1>2, <1>3, <1>4, <1>10, CurrentIs DEF Acceptable, i
  <2>2. act.op \in {"correct", "restate", "delete"}
    BY <1>1, <1>5, <1>6, <1>10
  <2>3. LaterOfRecord(log, e)
    BY <1>2, <1>10, <2>1, <2>2 DEF LaterOfRecord, RecordHolds
  <2> QED
    BY <1>2, <1>4, <1>8, <1>10, <2>3 DEF NewRecord
<1>11. NewRecord(log, e)
  BY <1>9, <1>10 DEF NewRecord
<1> QED
  BY <1>7, <1>11 DEF e

\* The owner's next act is proper, and so are the others.
LEMMA ActsTail ==
  ASSUME IInv, acts # <<>>
  PROVE  ActsHold(Tail(acts)) /\ Proper(Head(acts))
<1>1. ActsHold(acts)
  BY DEF IInv
<1> QED
  BY <1>1, TailIs DEF ActsHold

\* The owner acts, or is refused.
LEMMA OwnerActsKeeps ==
  ASSUME IInv, OwnerActs
  PROVE  IInv'
<1> DEFINE act == Head(acts)
           e == OwnersEvent(act)
<1>1. /\ acts # <<>> /\ act.op # "tick" /\ acts' = Tail(acts)
      /\ todo' = todo /\ call' = call /\ reply' = reply /\ inbox' = inbox
  BY DEF OwnerActs
<1>2. ActsHold(acts') /\ Proper(act) /\ LedgerHolds(log)
  BY <1>1, ActsTail DEF IInv
<1>3. DOMAIN call = Agents /\ DOMAIN reply = Agents /\ DOMAIN todo = Agents /\ DOMAIN inbox = Agents
  BY DEF IInv
<1>4. CASE log' = log
  BY <1>1, <1>2, <1>3, <1>4, Kept
<1>5. CASE /\ act.op = "state" <=> Current(log, act.ent) = 0
           /\ Acceptable(log, e) /\ log' = Append(log, e)
  <2>1. NewRow(log, e) /\ NewRecord(log, e)
    BY <1>1, <1>2, <1>5, OwnersEventHolds
  <2> HIDE DEF e
  <2>2. LedgerHolds(log') /\ Grown(log, log', e)
    BY <1>2, <1>5, <2>1, LedgerGrow
  <2> QED
    BY <1>1, <1>2, <1>3, <2>1, <2>2, Kept
<1> QED
  BY <1>4, <1>5 DEF OwnerActs

\* Time passes.
LEMMA TickKeeps ==
  ASSUME IInv, Tick
  PROVE  IInv'
<1>1. /\ acts # <<>> /\ acts' = Tail(acts) /\ log' = log
      /\ todo' = todo /\ call' = call /\ reply' = reply /\ inbox' = inbox
  BY DEF Tick
<1>2. ActsHold(acts') /\ LedgerHolds(log)
  BY <1>1, ActsTail DEF IInv
<1>3. DOMAIN call = Agents /\ DOMAIN reply = Agents /\ DOMAIN todo = Agents /\ DOMAIN inbox = Agents
  BY DEF IInv
<1> QED
  BY <1>1, <1>2, <1>3, Kept

-----------------------------------------------------------------------------
(* The theorems *)

\* PlanAssumption asks nothing of a workspace that begins empty.
LEMMA EmptyLedger == LedgerHolds(<<>>)
<1>1. IsSeq(<<>>) /\ DOMAIN <<>> = {}
  BY DEF IsSeq
<1> QED
  BY <1>1 DEF LedgerHolds, Separate

\* The plans start from ledgers and requests of the assumed form.
LEMMA InitHolds ==
  ASSUME Init
  PROVE  IInv
<1>1. PICK plan \in Plans : log = plan.log /\ todo = plan.calls /\ acts = plan.acts
  BY DEF Init
<1>2. /\ call = [a \in Agents |-> NoCall] /\ reply = [a \in Agents |-> NoReply]
      /\ inbox = [a \in Agents |-> [role \in Roles |-> [cursor |-> 0, got |-> <<>>]]]
  BY DEF Init
<1>3. LedgerHolds(log) /\ ActsHold(acts) /\ DOMAIN todo = Agents /\ \A a \in Agents : TodoHolds(todo[a])
  BY <1>1, PlanAssumption DEF ActsHold, TodoHolds
<1>4. Len(log) \in Nat
  BY <1>3, LedgerIs
<1>5. \A a : ReplyHolds(log, a, NoReply)
  BY DEF ReplyHolds, NoReply
<1> DEFINE box == [cursor |-> 0, got |-> <<>>]
<1>6. \A a, role : BoxHolds(log, a, role, box)
  <2>1. IsSeq(<<>>) /\ DOMAIN <<>> = {}
    BY DEF IsSeq
  <2>2. box.cursor = 0 /\ box.got = <<>>
    OBVIOUS
  <2> HIDE DEF box
  <2>3. 1..box.cursor = {}
    BY <2>2
  <2> QED
    BY <2>1, <2>2, <2>3, <1>4 DEF BoxHolds
<1>7. DOMAIN call = Agents /\ DOMAIN reply = Agents /\ DOMAIN inbox = Agents
  BY <1>2
<1>8. ASSUME NEW a \in Agents
      PROVE  /\ CallHolds(log, a, call[a]) /\ ReplyHolds(log, a, reply[a])
             /\ DOMAIN inbox[a] = Roles
             /\ \A role \in Roles : BoxHolds(log, a, role, inbox[a][role])
  <2>1. call[a] = NoCall /\ reply[a] = NoReply /\ inbox[a] = [role \in Roles |-> box]
    BY <1>2
  <2> HIDE DEF box
  <2> QED
    BY <2>1, <1>5, <1>6, NoCallHolds
<1> QED
  BY <1>3, <1>7, <1>8 DEF IInv

\* Every step, and no step, keeps the invariant.
LEMMA NextKeeps ==
  ASSUME IInv, [Next]_vars
  PROVE  IInv'
<1>1. CASE vars' = vars
  <2>1. /\ log' = log /\ acts' = acts /\ todo' = todo /\ call' = call /\ reply' = reply /\ inbox' = inbox
    BY <1>1 DEF vars
  <2>2. /\ LedgerHolds(log) /\ ActsHold(acts)
        /\ DOMAIN call = Agents /\ DOMAIN reply = Agents /\ DOMAIN todo = Agents /\ DOMAIN inbox = Agents
    BY DEF IInv
  <2> QED
    BY <2>1, <2>2, Kept
<1>2. ASSUME NEW a \in Agents, Move(a) PROVE IInv'
  <2>1. CASE Enter(a)        BY <2>1, EnterKeeps
  <2>2. CASE EnterOpen(a)    BY <2>2, EnterOpenKeeps
  <2>3. CASE EnterRefresh(a) BY <2>3, EnterRefreshKeeps
  <2>4. CASE Turned(a)       BY <2>4, TurnedKeeps
  <2>5. CASE CheckRef(a)     BY <2>5, CheckRefKeeps
  <2>6. CASE Target(a)       BY <2>6, TargetKeeps
  <2>7. CASE Build(a)        BY <2>7, BuildKeeps
  <2>8. CASE Commit(a)       BY <2>8, CommitKeeps
  <2>9. CASE Again(a)        BY <2>9, AgainKeeps
  <2>10. CASE Terminal(a)    BY <2>10, TerminalKeeps
  <2>11. CASE ListCues(a)    BY <2>11, ListCuesKeeps
  <2>12. CASE CreateCue(a)   BY <2>12, CreateCueKeeps
  <2>13. CASE Replay(a)      BY <2>13, ReplayKeeps
  <2>14. CASE Gather(a)      BY <2>14, GatherKeeps
  <2>15. CASE Look(a) \/ Own(a) \/ Tell(a)   BY <2>15, LookKeeps
  <2>16. CASE Issue(a)       BY <2>16, IssueKeeps
  <2>17. CASE Get(a)         BY <2>17, GetKeeps
  <2>18. CASE Find(a)        BY <2>18, FindKeeps
  <2>19. CASE Sift(a)        BY <2>19, SiftKeeps
  <2>20. CASE Found(a)       BY <2>20, FoundKeeps
  <2>21. CASE Scan(a)        BY <2>21, ScanKeeps
  <2> QED
    BY <1>2, <2>1, <2>2, <2>3, <2>4, <2>5, <2>6, <2>7, <2>8, <2>9, <2>10, <2>11, <2>12, <2>13,
       <2>14, <2>15, <2>16, <2>17, <2>18, <2>19, <2>20, <2>21 DEF Move
<1> QED
  BY <1>1, <1>2, OwnerActsKeeps, TickKeeps DEF Next

\* The ledger's own form, every call in progress, and everything that was answered
\* stay as the inductive invariant says, whatever the plans are.
THEOREM GatewayInvariant == Spec => []IInv
<1>1. Init => IInv
  BY InitHolds
<1>2. IInv /\ [Next]_vars => IInv'
  BY NextKeeps
<1> QED
  BY <1>1, <1>2, PTL DEF Spec

\* appendContextEvent and the reads of local-context-gateway.ts, however the
\* agents' and the owner's steps fall between their checks and their commits: a
\* record an agent writes stays in the role that made it and rests only on what is
\* that role's or the owner's; what get_entity and get_changes give is that role's or
\* the owner's, and so is what a search finds, or a later revision of its record is:
\* the text of a hit may be older than the look that let it pass (MayUse, MayFind).
THEOREM RolesAlwaysHold == Spec => []RolesHold
<1>1. IInv => RolesHold
  <2> SUFFICES ASSUME IInv PROVE RolesHold
    OBVIOUS
  <2>1. RolesStaySeparate
    BY DEF IInv, LedgerHolds, RolesStaySeparate
  <2>2. ASSUME NEW a \in Agents
        PROVE  /\ reply[a].code = "read" /\ reply[a].event # 0 =>
                    \E role \in RolesOf[a] : MayUse(log, reply[a].event, role, Len(log))
               /\ reply[a].code = "found" =>
                    \A i \in reply[a].found : \E role \in RolesOf[a] : MayFind(log, i, role)
               /\ \A role \in Roles : \A n \in DOMAIN inbox[a][role].got : \A i \in inbox[a][role].got[n] :
                    role \in RolesOf[a] /\ MayUse(log, i, role, Len(log))
    <3>1. ReplyHolds(log, a, reply[a]) /\ \A role \in Roles : BoxHolds(log, a, role, inbox[a][role])
      BY DEF IInv
    <3> QED
      BY <3>1 DEF ReplyHolds, BoxHolds, Given, Offered
  <2> QED
    BY <2>1, <2>2 DEF RolesHold, ReadsStayInRole
<1> QED
  BY <1>1, GatewayInvariant, PTL

\* completeContextRun: whoever races to complete a run, and however often a
\* completion is retried, every caller that was told it succeeded was told of the
\* one completion the ledger holds, with the outcome it asked for.
THEOREM CompletionIsAlwaysOnce == Spec => []CompletionIsOnce
<1>1. IInv => CompletionIsOnce
  <2> SUFFICES ASSUME IInv, NEW a \in Agents,
                      reply[a].code \in {"created", "duplicate"}, reply[a].req.op = "complete"
               PROVE  LET done == {i \in Rows(log, reply[a].req.run) : log[i].phase = "complete"} IN
                        /\ done = {reply[a].event}
                        /\ log[reply[a].event].mat = reply[a].req.mat
                        /\ log[reply[a].event].deps = reply[a].req.refs
    BY DEF CompletionIsOnce
  <2>1. Completed(log, reply[a].req, reply[a].event)
    BY DEF IInv, ReplyHolds
  <2> QED
    BY <2>1 DEF Completed, Rows
<1> QED
  BY <1>1, GatewayInvariant, PTL

\* readVisibleChanges: an agent that follows its cursor is sent no event twice, none
\* out of order, and every event whose run has been known to have its role ever
\* since, whatever the batch and page sizes are.
THEOREM ChangesAlwaysComplete == Spec => []ChangesComplete
<1>1. IInv => ChangesComplete
  BY DEF IInv, BoxHolds, ChangesComplete
<1> QED
  BY <1>1, GatewayInvariant, PTL
=============================================================================
