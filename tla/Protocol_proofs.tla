-------------------------- MODULE Protocol_proofs ---------------------------
(***************************************************************************)
(* What Protocol's parts keep to, for any owner, copies, intents, requests *)
(* and bounds.                                                             *)
(*                                                                         *)
(* OwnersWordBehindIt and OnlyOwnHistoriesReplay follow from Replaying:    *)
(* every copy, also one restored from another, replays as a whole.         *)
(* ProofsStand follows from ProofHolds, which ties what is shown to the    *)
(* receipts.  ExportsHold and ExportsContinue follow from KernelKept and   *)
(* GatherKept.  The export is a recursive function of the kernel's ledger: *)
(* induction over the numbers is CountingUp, and Upto(l)[n] mirrors the    *)
(* portable events among the first n of l (UptoMirrors), whoever has put   *)
(* l together, the kernel or the gateway's reading of it.  ReplaysAgree    *)
(* follows from RunKept: the record that a consumer keeps is the replay of *)
(* some of the stored events.                                              *)
(***************************************************************************)
EXTENDS Protocol, FiniteSetTheorems, SequenceTheorems, WellFoundedInduction, TLAPS

IsSequence(l) == \E S : l \in Seq(S)

Replaying ==
  /\ copies = [c \in Copies |-> copies[c]]
  /\ \A c \in Copies : IsSequence(copies[c]) /\ Replays(copies[c])

-----------------------------------------------------------------------------
(* Sequences and positions *)

LEMMA Positions ==
  ASSUME NEW l, IsSequence(l) PROVE Len(l) \in Nat /\ DOMAIN l = 1..Len(l)
  BY LenProperties DEF IsSequence

\* A set of positions has a last one.
LEMMA LastOf ==
  ASSUME NEW n \in Nat, NEW S, S \subseteq 1..n, S # {}
  PROVE  LET m == CHOOSE i \in S : \A j \in S : j <= i IN m \in S /\ \A j \in S : j <= m
<1> DEFINE T == {n - i : i \in S}
<1>1. \A i \in S : i \in Nat /\ n - i \in Nat
  OBVIOUS
<1>2. T \subseteq Nat /\ T # {}
  BY <1>1
<1>3. \E t \in T : \A u \in T : ~(<<u, t>> \in OpToRel(<, Nat))
  <2> HIDE DEF T
  <2> QED
    BY <1>2, WFMin, NatLessThanWellFounded, Zenon
<1>4. PICK t \in T : \A u \in T : ~(u \in Nat /\ t \in Nat /\ u < t)
  <2> HIDE DEF T
  <2> QED
    BY <1>3, Zenon DEF OpToRel
<1>5. PICK m \in S : t = n - m
  BY <1>4
<1>6. \A j \in S : j <= m
  <2> TAKE j \in S
  <2>1. n - j \in T /\ n - j \in Nat /\ t \in Nat
    BY <1>1, <1>5
  <2>2. ~(n - j < n - m)
    BY <1>4, <1>5, <2>1
  <2> QED
    BY <1>1, <2>2
<1> QED
  BY <1>6, Zenon

\* The first n events of a ledger.
LEMMA Prefix ==
  ASSUME NEW l, IsSequence(l), NEW n \in 0..Len(l)
  PROVE  /\ IsSequence(SubSeq(l, 1, n)) /\ Len(SubSeq(l, 1, n)) = n
         /\ \A i \in 1..n : SubSeq(l, 1, n)[i] = l[i]
<1>1. PICK S : l \in Seq(S)
  BY DEF IsSequence
<1>2. Len(l) \in Nat /\ \A i \in 1..n : l[i] \in S
  BY <1>1, ElementOfSeq, LenProperties
<1>3. /\ SubSeq(l, 1, n) \in Seq(S) /\ Len(SubSeq(l, 1, n)) = IF 1 <= n THEN n - 1 + 1 ELSE 0
      /\ \A i \in 1..n - 1 + 1 : SubSeq(l, 1, n)[i] = l[1 + i - 1]
  <2>1. 1 \in Int /\ n \in Int
    BY <1>2
  <2> QED
    BY <1>2, <2>1, SubSeqProperties
<1>4. n \in Nat /\ n - 1 + 1 = n /\ \A i \in 1..n : 1 + i - 1 = i
  BY <1>2
<1> QED
  BY <1>3, <1>4 DEF IsSequence

\* Two sequences with the same elements are the same.
LEMMA SameSequence ==
  ASSUME NEW l, NEW m, IsSequence(l), IsSequence(m), Len(l) = Len(m), \A i \in 1..Len(l) : l[i] = m[i]
  PROVE  l = m
<1>1. PICK S : l \in Seq(S)
  BY DEF IsSequence
<1>2. PICK T : m \in Seq(T)
  BY DEF IsSequence
<1>3. l \in Seq(S \cup T) /\ m \in Seq(S \cup T)
  BY <1>1, <1>2, SeqMonotonic
<1> QED
  BY <1>3, SeqEqual

LEMMA PrefixOfPrefix ==
  ASSUME NEW l, IsSequence(l), NEW n \in 0..Len(l), NEW k \in 0..n
  PROVE  SubSeq(SubSeq(l, 1, n), 1, k) = SubSeq(l, 1, k)
<1>1. Len(l) \in Nat
  BY Positions
<1>2. /\ IsSequence(SubSeq(l, 1, n)) /\ Len(SubSeq(l, 1, n)) = n
      /\ \A i \in 1..n : SubSeq(l, 1, n)[i] = l[i]
  BY Prefix
<1>3. /\ IsSequence(SubSeq(SubSeq(l, 1, n), 1, k)) /\ Len(SubSeq(SubSeq(l, 1, n), 1, k)) = k
      /\ \A i \in 1..k : SubSeq(SubSeq(l, 1, n), 1, k)[i] = SubSeq(l, 1, n)[i]
  BY <1>2, Prefix
<1>4. /\ IsSequence(SubSeq(l, 1, k)) /\ Len(SubSeq(l, 1, k)) = k
      /\ \A i \in 1..k : SubSeq(l, 1, k)[i] = l[i]
  <2>1. k \in 0..Len(l)
    BY <1>1
  <2> QED
    BY <2>1, Prefix
<1>5. \A i \in 1..k : i \in 1..n
  BY <1>1
<1> QED
  BY <1>2, <1>3, <1>4, <1>5, SameSequence

LEMMA Appended ==
  ASSUME NEW l, IsSequence(l), NEW e
  PROVE  /\ IsSequence(Append(l, e)) /\ Len(Append(l, e)) = Len(l) + 1
         /\ Append(l, e)[Len(l) + 1] = e
         /\ \A k \in 0..Len(l) : SubSeq(Append(l, e), 1, k) = SubSeq(l, 1, k)
         /\ \A i \in 1..Len(l) : Append(l, e)[i] = l[i]
<1>1. PICK S : l \in Seq(S)
  BY DEF IsSequence
<1>2. l \in Seq(S \cup {e}) /\ Len(l) \in Nat
  BY <1>1, SeqMonotonic, LenProperties
<1>3. /\ IsSequence(Append(l, e)) /\ Len(Append(l, e)) = Len(l) + 1
      /\ Append(l, e)[Len(l) + 1] = e /\ \A i \in 1..Len(l) : Append(l, e)[i] = l[i]
  <2>1. e \in S \cup {e}
    OBVIOUS
  <2> QED
    BY <1>2, <2>1, AppendProperties DEF IsSequence
<1>4. ASSUME NEW k \in 0..Len(l) PROVE SubSeq(Append(l, e), 1, k) = SubSeq(l, 1, k)
  <2>1. k \in 0..Len(Append(l, e)) /\ \A i \in 1..k : i \in 1..Len(l)
    BY <1>2, <1>3
  <2>2. /\ IsSequence(SubSeq(l, 1, k)) /\ Len(SubSeq(l, 1, k)) = k
        /\ \A i \in 1..k : SubSeq(l, 1, k)[i] = l[i]
    BY Prefix
  <2>3. /\ IsSequence(SubSeq(Append(l, e), 1, k)) /\ Len(SubSeq(Append(l, e), 1, k)) = k
        /\ \A i \in 1..k : SubSeq(Append(l, e), 1, k)[i] = Append(l, e)[i]
    BY <1>3, <2>1, Prefix
  <2> QED
    BY <1>3, <2>1, <2>2, <2>3, SameSequence
<1> QED
  BY <1>3, <1>4

-----------------------------------------------------------------------------
(* Every copy replays *)

LEMMA AcceptedReplays ==
  ASSUME NEW l, IsSequence(l), Replays(l), NEW e, Accepts(l, e) PROVE Replays(Append(l, e))
<1>1. Len(l) \in Nat /\ DOMAIN l = 1..Len(l) /\ DOMAIN Append(l, e) = 1..(Len(l) + 1)
  BY Positions, Appended
<1>2. ASSUME NEW i \in 1..Len(l) PROVE Accepts(SubSeq(Append(l, e), 1, i - 1), Append(l, e)[i])
  <2>1. i - 1 \in 0..Len(l)
    BY <1>1
  <2> QED
    BY <1>1, <2>1, Appended DEF Replays
<1>3. Accepts(SubSeq(Append(l, e), 1, Len(l)), Append(l, e)[Len(l) + 1])
  <2>1. SubSeq(l, 1, Len(l)) = l
    BY SubSeqFull DEF IsSequence
  <2>2. Len(l) \in 0..Len(l)
    BY <1>1
  <2> QED
    BY <2>1, <2>2, Appended
<1>4. ASSUME NEW i \in DOMAIN Append(l, e) PROVE Accepts(SubSeq(Append(l, e), 1, i - 1), Append(l, e)[i])
  <2>1. CASE i \in 1..Len(l)
    BY <1>2, <2>1
  <2>2. CASE i = Len(l) + 1
    <3>1. i - 1 = Len(l)
      BY <1>1, <2>2
    <3> QED
      BY <1>3, <2>2, <3>1
  <2> QED
    BY <1>1, <2>1, <2>2
<1> QED
  BY <1>4 DEF Replays

LEMMA PrefixReplays ==
  ASSUME NEW l, IsSequence(l), Replays(l), NEW n \in 0..Len(l) PROVE Replays(SubSeq(l, 1, n))
<1>1. /\ IsSequence(SubSeq(l, 1, n)) /\ Len(SubSeq(l, 1, n)) = n /\ n \in Nat
      /\ \A i \in 1..n : SubSeq(l, 1, n)[i] = l[i]
  BY Prefix, Positions
<1>2. DOMAIN SubSeq(l, 1, n) = 1..n
  BY <1>1, Positions
<1>3. ASSUME NEW i \in 1..n PROVE Accepts(SubSeq(SubSeq(l, 1, n), 1, i - 1), SubSeq(l, 1, n)[i])
  <2>1. i - 1 \in 0..n /\ i \in 1..Len(l) /\ DOMAIN l = 1..Len(l)
    BY <1>1, Positions
  <2>2. SubSeq(SubSeq(l, 1, n), 1, i - 1) = SubSeq(l, 1, i - 1)
    BY <2>1, PrefixOfPrefix
  <2> QED
    BY <1>1, <2>1, <2>2 DEF Replays
<1> QED
  BY <1>2, <1>3 DEF Replays

LEMMA ReplayingAlways == Spec => []Replaying
<1>1. Init => Replaying
  <2> SUFFICES ASSUME Init PROVE Replaying
    OBVIOUS
  <2>1. IsSequence(<<>>) /\ DOMAIN <<>> = {}
    BY EmptySeq DEF IsSequence
  <2>2. Replays(<<>>)
    BY <2>1 DEF Replays
  <2> QED
    BY <2>1, <2>2 DEF Init, Replaying
<1>2. Replaying /\ [Next]_vars => Replaying'
  <2> SUFFICES ASSUME Replaying, [Next]_vars PROVE Replaying'
    OBVIOUS
  <2>1. ASSUME NEW c \in Copies, NEW e, Append1(c, e) PROVE Replaying'
    <3>1. IsSequence(copies[c]) /\ Replays(copies[c]) /\ Accepts(copies[c], e)
      BY <2>1 DEF Append1, Replaying
    <3>2. IsSequence(Append(copies[c], e)) /\ Replays(Append(copies[c], e))
      BY <3>1, Appended, AcceptedReplays
    <3>3. copies' = [copies EXCEPT ![c] = Append(copies[c], e)]
      BY <2>1 DEF Append1
    <3> QED
      BY <3>2, <3>3 DEF Replaying
  <2>2. ASSUME NEW c \in Copies, NEW d \in Copies, NEW n \in 0 .. Len(copies[d]), Restore(c, d, n) PROVE Replaying'
    <3>1. IsSequence(copies[d]) /\ Replays(copies[d])
      BY DEF Replaying
    <3>2. IsSequence(SubSeq(copies[d], 1, n)) /\ Replays(SubSeq(copies[d], 1, n))
      BY <3>1, Prefix, PrefixReplays
    <3>3. copies' = [copies EXCEPT ![c] = SubSeq(copies[d], 1, n)]
      BY <2>2 DEF Restore
    <3> QED
      BY <3>2, <3>3 DEF Replaying
  <2>3. ASSUME UNCHANGED copies PROVE Replaying'
    BY <2>3 DEF Replaying
  <2> QED
    BY <2>1, <2>2, <2>3 DEF Next, vars, Write, Prepare, Submit
<1> QED
  BY <1>1, <1>2, PTL DEF Spec

-----------------------------------------------------------------------------
(* The owner's word *)

LEMMA LastAboutIs ==
  ASSUME NEW l, IsSequence(l), NEW key, Held(l, key) # Absent
  PROVE  LET j == LastAbout(l, key) IN
         /\ j \in 1..Len(l) /\ l[j].target = key /\ l[j].entity = Held(l, key)
         /\ \A k \in j + 1 .. Len(l) : l[k].target # key
<1> DEFINE about == {i \in DOMAIN l : l[i].target = key}
           j == LastAbout(l, key)
<1>1. Len(l) \in Nat /\ DOMAIN l = 1..Len(l)
  BY Positions
<1>2. about # {} /\ j = CHOOSE i \in about : \A k \in about : k <= i
  <2>1. j # 0
    BY DEF Held
  <2> QED
    BY <2>1 DEF LastAbout
<1>3. j \in about /\ \A k \in about : k <= j
  <2>1. about \subseteq 1..Len(l)
    BY <1>1
  <2> HIDE DEF about, j
  <2> QED
    BY <1>1, <1>2, <2>1, LastOf
<1>4. Held(l, key) = l[j].entity
  <2>1. j # 0
    BY <1>1, <1>3
  <2> QED
    BY <2>1 DEF Held
<1>5. \A k \in j + 1 .. Len(l) : l[k].target # key
  BY <1>1, <1>3
<1> QED
  BY <1>1, <1>3, <1>4, <1>5

\* What needs the owner is accepted only from the owner, or with a decision cited.
LEMMA NeedsAuthority ==
  ASSUME NEW l, NEW p, NEW i, NeedsOwner(l, i), Accepts(p, l[i])
  PROVE  Originates(l[i].actor, l[i].auth) \/ ClaimsConfirmation(l[i].auth)
<1> DEFINE ev == l[i]
           e == ev.entity
<1>1. e # Absent /\ EventOK(ev) /\ ContentOK(ev) /\ OperationOK(ev) /\ TransitionOK(Held(p, ev.target), ev)
  BY DEF NeedsOwner, Accepts, EventOK
<1>2. ev.op # "tombstoned" /\ EntityAuthority(e, ev.actor, ev.auth, ev.producer)
  BY <1>1 DEF ContentOK
<1>3. CASE e.type = "context_statement" /\ e.about.basis = "explicit"
  BY <1>2, <1>3 DEF EntityAuthority, StatementAuthority
<1>4. CASE e.type = "decision"
  BY <1>2, <1>4 DEF EntityAuthority
<1>5. CASE e.type = "draft" /\ e.about.status = "approved"
  BY <1>2, <1>5 DEF EntityAuthority
<1>6. CASE ~User(ev.actor) /\ ev.prevHash # Absent /\ Broadens(ev.prevHash, e)
  <2>1. ev.op # "created"
    BY <1>1, <1>6 DEF OperationOK
  <2> QED
    BY <1>1, <1>2, <1>6, <2>1 DEF TransitionOK
<1> QED
  BY <1>3, <1>4, <1>5, <1>6 DEF NeedsOwner

\* Of any ledger that replays.
LEMMA WordBehindIt ==
  ASSUME NEW l, IsSequence(l), Replays(l), NEW i \in DOMAIN l, NeedsOwner(l, i)
  PROVE  OwnersAct(l, i) \/ \E j \in 1 .. i - 1 : StoodFor(l, j, i)
<1> DEFINE p == SubSeq(l, 1, i - 1)
           ev == l[i]
           d == ev.auth.ref
           key == KeyOf(d)
           j == LastAbout(p, key)
<1>1. Len(l) \in Nat /\ i \in 1..Len(l) /\ i - 1 \in 0..Len(l)
  BY Positions
<1>2. IsSequence(p) /\ Len(p) = i - 1 /\ \A k \in 1..i - 1 : p[k] = l[k]
  BY <1>1, Prefix
<1>3. Accepts(p, ev)
  BY DEF Replays
<1>4. CASE Originates(ev.actor, ev.auth)
  BY <1>4 DEF Originates, OwnersAct
<1>5. CASE ClaimsConfirmation(ev.auth)
  <2>1. d # Absent /\ Held(p, key) # Absent /\ Confirms(Held(p, key), ev)
    BY <1>3, <1>5 DEF Accepts, ConfirmationStands, ClaimsConfirmation
  <2>2. Held(p, key) = d
    BY <2>1 DEF Confirms
  <2>3. d.type = "decision"
    BY <1>3, <2>1 DEF Accepts, EventOK, AuthorityOK
  <2>4. /\ j \in 1..i - 1 /\ p[j].target = key /\ p[j].entity = d
        /\ \A k \in j + 1 .. i - 1 : p[k].target # key
    <3> HIDE DEF p, key
    <3> QED
      BY <1>2, <2>1, <2>2, LastAboutIs
  <2>5. l[j] = p[j] /\ \A k \in j + 1 .. i - 1 : p[k] = l[k]
    BY <1>1, <1>2, <2>4
  <2>6. key.type = "decision"
    BY <2>3 DEF KeyOf
  <2>7. d.about.status = "active" /\ d.about.by = Owner /\ \E t \in d.about.targets : KeyOf(t) = ev.target
    BY <2>1, <2>2 DEF Confirms
  <2> HIDE DEF p, d, key, j
  <2>8. StoodFor(l, j, i)
    BY <2>1, <2>2, <2>4, <2>5, <2>6, <2>7 DEF StoodFor, ev
  <2> QED
    BY <2>4, <2>8
<1> QED
  BY <1>3, <1>4, <1>5, NeedsAuthority

\* Whatever needs the owner goes back to an act of the owner that still stood.
THEOREM OwnersWordAlwaysBehindIt == Spec => []OwnersWordBehindIt
<1>1. Replaying => OwnersWordBehindIt
  BY WordBehindIt DEF Replaying, OwnersWordBehindIt
<1> QED
  BY <1>1, ReplayingAlways, PTL

-----------------------------------------------------------------------------
(* Histories cannot be spliced *)

\* Each event but the first is chained to the one before.
LEMMA ChainedToPrevious ==
  ASSUME NEW l, IsSequence(l), Replays(l), NEW i \in 1..Len(l), i # 1 PROVE l[i].prev = {l[i - 1]}
<1> DEFINE p == SubSeq(l, 1, i - 1)
<1>1. Len(l) \in Nat /\ DOMAIN l = 1..Len(l) /\ i - 1 \in 0..Len(l) /\ i - 1 \in 1..i - 1
  BY Positions
<1>2. IsSequence(p) /\ Len(p) = i - 1 /\ p[i - 1] = l[i - 1]
  BY <1>1, Prefix
<1>3. p # <<>>
  BY <1>1, <1>2, EmptySeq
<1>4. Linked(p, l[i])
  BY <1>1 DEF Replays, Accepts
<1> QED
  BY <1>2, <1>3, <1>4 DEF Linked, HashBefore

\* Two ledgers that replay and have one event in common at one place have all
\* events before it in common.
LEMMA OnePastForAnEvent ==
  ASSUME NEW l, NEW m, IsSequence(l), IsSequence(m), Replays(l), Replays(m),
         NEW n \in 1..Len(l), n <= Len(m), l[n] = m[n]
  PROVE  SubSeq(l, 1, n) = SubSeq(m, 1, n)
<1> DEFINE differ == {i \in 1..n : l[i] # m[i]}
<1>1. Len(l) \in Nat /\ Len(m) \in Nat
  BY Positions
<1>2. differ = {}
  <2> SUFFICES ASSUME differ # {} PROVE FALSE
    OBVIOUS
  <2>1. n \in Nat /\ differ \subseteq 1..n
    BY <1>1
  <2>2. \E i \in differ : \A j \in differ : j <= i
    <3> HIDE DEF differ
    <3> QED
      BY <2>1, LastOf
  <2>3. PICK k \in differ : \A j \in differ : j <= k
    BY <2>2
  <2>4. k \in 1..n /\ l[k] # m[k] /\ k # n
    BY <2>3
  <2>5. k + 1 \in 1..n /\ k + 1 \notin differ /\ k + 1 # 1 /\ k + 1 - 1 = k
    BY <1>1, <2>3, <2>4
  <2>6. l[k + 1] = m[k + 1] /\ k + 1 \in 1..Len(l) /\ k + 1 \in 1..Len(m)
    BY <1>1, <2>5
  <2>7. l[k + 1].prev = {l[k]} /\ m[k + 1].prev = {m[k]}
    <3>1. \A i \in 1..Len(l) : i # 1 => l[i].prev = {l[i - 1]}
      BY ChainedToPrevious, Zenon
    <3>2. \A i \in 1..Len(m) : i # 1 => m[i].prev = {m[i - 1]}
      BY ChainedToPrevious, Zenon
    <3> QED
      BY <2>5, <2>6, <3>1, <3>2
  <2> QED
    BY <2>4, <2>6, <2>7
<1>3. n \in 0..Len(l) /\ n \in 0..Len(m) /\ \A i \in 1..n : l[i] = m[i]
  BY <1>1, <1>2
<1>4. /\ IsSequence(SubSeq(l, 1, n)) /\ Len(SubSeq(l, 1, n)) = n /\ \A i \in 1..n : SubSeq(l, 1, n)[i] = l[i]
      /\ IsSequence(SubSeq(m, 1, n)) /\ Len(SubSeq(m, 1, n)) = n /\ \A i \in 1..n : SubSeq(m, 1, n)[i] = m[i]
  BY <1>3, Prefix
<1> QED
  BY <1>3, <1>4, SameSequence

\* However two copies have parted, nothing spliced from both of them replays.
THEOREM OnlyOwnHistoriesAlwaysReplay == Spec => []OnlyOwnHistoriesReplay
<1>1. ASSUME Replaying PROVE OnlyOwnHistoriesReplay
  <2> SUFFICES ASSUME NEW c \in Copies, NEW d \in Copies, NEW n \in 1 .. Len(copies[c]), n <= Len(copies[d]),
                      NEW from \in [1 .. n -> {c, d}], Replays([i \in 1 .. n |-> copies[from[i]][i]])
               PROVE  [i \in 1 .. n |-> copies[from[i]][i]] \in {SubSeq(copies[c], 1, n), SubSeq(copies[d], 1, n)}
    BY DEF OnlyOwnHistoriesReplay
  <2> DEFINE s == [i \in 1 .. n |-> copies[from[i]][i]]
  <2>1. IsSequence(copies[c]) /\ IsSequence(copies[d]) /\ Replays(copies[c]) /\ Replays(copies[d])
    BY <1>1 DEF Replaying
  <2>2. Len(copies[c]) \in Nat /\ Len(copies[d]) \in Nat
    BY <2>1, Positions
  <2>3. n \in Nat /\ n \in 1..n
    BY <2>2
  <2>4. IsSequence(s) /\ Len(s) = n
    <3> DEFINE T == {copies[from[i]][i] : i \in 1 .. n}
    <3>1. s \in [1 .. n -> T]
      OBVIOUS
    <3>2. s \in Seq(T) /\ Len(s) = n
      <4> HIDE DEF s, T
      <4> QED
        BY <2>3, <3>1
    <3> QED
      BY <3>2 DEF IsSequence
  <2>5. s[n] = copies[from[n]][n] /\ from[n] \in {c, d}
    BY <2>3
  <2>6. SubSeq(s, 1, n) = s
    BY <2>4, SubSeqFull DEF IsSequence
  <2>7. Replays(s)
    OBVIOUS
  <2> HIDE DEF s
  <2>8. CASE from[n] = c
    <3>1. SubSeq(s, 1, n) = SubSeq(copies[c], 1, n)
      BY <2>1, <2>2, <2>3, <2>4, <2>5, <2>7, <2>8, OnePastForAnEvent
    <3> QED
      BY <2>6, <3>1 DEF s
  <2>9. CASE from[n] = d
    <3>1. SubSeq(s, 1, n) = SubSeq(copies[d], 1, n)
      BY <2>1, <2>2, <2>3, <2>4, <2>5, <2>7, <2>9, OnePastForAnEvent
    <3> QED
      BY <2>6, <3>1 DEF s
  <2> QED
    BY <2>5, <2>8, <2>9 DEF s
<1> QED
  BY <1>1, ReplayingAlways, PTL

-----------------------------------------------------------------------------
(* ProofsStand of ActionProof.  Behind the invariant: what a view shows is  *)
(* recorded, under the number and with the status it is shown for, so two   *)
(* views that differ would have had two receipts of one status before them, *)
(* which a projection refuses.                                              *)

Recorded(view) ==
  \A status \in Proof!Proofs : view.proof[status] # Absent =>
    view.proof[status] \in DOMAIN receipts /\ receipts[view.proof[status]].status = status

ProofHolds ==
  /\ now \in Nat /\ IsSequence(receipts)
  /\ \A p \in proposals : p.owner = Owner.id
  /\ \A d \in decisions : d.at \in Nat /\ d.by = [kind |-> d.by.kind, id |-> d.by.id]
  /\ \A i \in DOMAIN receipts : receipts[i].id = i /\ receipts[i].at \in Nat
  /\ \A v \in shown : Proof!Backed(v) /\ Recorded(v)
  /\ \A v, w \in shown : Proof!Agree(v, w)

\* Where no two receipts have one status, each proves its own.
LEMMA EachProvesItsOwn ==
  ASSUME NEW rs, \A r, s \in rs : r # s => r.status # s.status, \A r \in rs : r.at \in Nat /\ r.id \in Nat
  PROVE  /\ \A r \in rs : r.status \in Proof!Proofs => Proof!Proved(rs)[r.status] = r.id
         /\ \A status \in Proof!Proofs : Proof!Proved(rs)[status] # Absent =>
              \E r \in rs : r.status = status /\ Proof!Proved(rs)[status] = r.id
<1>1. ASSUME NEW r \in rs PROVE ~Proof!Earlier(r, r)
  BY DEF Proof!Earlier
<1>2. ASSUME NEW r \in rs, r.status \in Proof!Proofs PROVE Proof!Proved(rs)[r.status] = r.id
  <2> DEFINE of == {s \in rs : s.status = r.status}
  <2>1. of = {r}
    OBVIOUS
  <2>2. (CHOOSE s \in of : \A q \in of : ~Proof!Earlier(s, q)) = r
    BY <1>1, <2>1
  <2> QED
    BY <1>2, <2>1, <2>2 DEF Proof!Proved
<1>3. ASSUME NEW status \in Proof!Proofs, Proof!Proved(rs)[status] # Absent
      PROVE  \E r \in rs : r.status = status
  BY <1>3 DEF Proof!Proved
<1> QED
  BY <1>2, <1>3

LEMMA ProjectionIsBacked ==
  ASSUME ProofHolds, PartsAssumption, NEW p \in proposals, NEW d \in decisions \cup {Absent}, Proof!Project(p, d)
  PROVE  ProofHolds'
<1> DEFINE rs == {receipts[i] : i \in DOMAIN receipts}
           proof == Proof!Projection(p, d, rs)
           view == [of |-> p, by |-> d, proof |-> proof]
<1>0. Absent \notin Nat
  BY DEF PartsAssumption, Proof!ActionAssumption
<1>1. /\ proof \notin {Absent, Proof!Nothing} /\ shown' = shown \cup {view}
      /\ UNCHANGED <<now, proposals, decisions, receipts>>
  BY DEF Proof!Project
<1>2. /\ d # Absent => Proof!DecisionFits(p, d, now)
      /\ Proof!ReceiptsFit(p, d, rs) /\ \A r \in rs : Proof!StepsUp(Proof!Proved({s \in rs : Proof!Earlier(s, r)}), r)
      /\ proof = Proof!Proved(rs)
  BY <1>1 DEF Proof!Projection
<1>3. /\ \A r \in rs : r.at \in Nat /\ r.id \in DOMAIN receipts /\ r.id \in Nat /\ receipts[r.id] = r
      /\ \A r, s \in rs : r # s => r.status # s.status
  <2>1. Len(receipts) \in Nat /\ DOMAIN receipts = 1..Len(receipts)
    BY Positions DEF ProofHolds
  <2> QED
    BY <1>2, <2>1 DEF ProofHolds, Proof!ReceiptsFit
<1>4. /\ \A r \in rs : r.status \in Proof!Proofs => proof[r.status] = r.id
      /\ \A status \in Proof!Proofs : proof[status] # Absent => \E r \in rs : r.status = status /\ proof[status] = r.id
  <2> HIDE DEF rs, proof
  <2> QED
    BY <1>2, <1>3, EachProvesItsOwn
<1>5. d # Absent /\ d \in decisions /\ d.decision = "approved" /\ Proof!DecisionFits(p, d, now)
  <2>1. rs # {}
    <3> SUFFICES ASSUME rs = {} PROVE proof = Proof!Nothing
      BY <1>1
    <3> QED
      BY <1>2 DEF Proof!Proved, Proof!Nothing
  <2> QED
    BY <1>2, <2>1 DEF Proof!ReceiptsFit
<1>6. ASSUME NEW status \in Proof!Proofs, proof[status] # Absent
      PROVE  /\ proof[status] \in DOMAIN receipts /\ receipts[proof[status]].status = status
             /\ receipts[proof[status]] \in rs
  <2> HIDE DEF rs, proof
  <2>1. PICK r \in rs : r.status = status /\ proof[status] = r.id
    BY <1>4, <1>6
  <2> QED
    BY <1>3, <2>1
<1>7. ASSUME NEW low \in Proof!Proofs, NEW high \in Proof!Proofs, proof[high] # Absent,
             \A r \in rs : r.status = high => Proof!Proved({s \in rs : Proof!Earlier(s, r)})[low] # Absent
      PROVE  proof[low] # Absent /\ Proof!At(proof[low]) <= Proof!At(proof[high])
  <2>1. PICK r \in rs : r.status = high /\ proof[high] = r.id
    BY <1>4, <1>7
  <2> DEFINE before == {s \in rs : Proof!Earlier(s, r)}
  <2>2. PICK s \in before : s.status = low
    <3>1. \A s, q \in before : s # q => s.status # q.status
      BY <1>3
    <3>2. \A s \in before : s.at \in Nat /\ s.id \in Nat
      BY <1>3
    <3>3. Proof!Proved(before)[low] # Absent
      BY <1>7, <2>1
    <3> HIDE DEF before
    <3> QED
      BY <3>1, <3>2, <3>3, EachProvesItsOwn
  <2>3. s \in rs /\ proof[low] = s.id /\ s.at <= r.at
    <3>1. s \in rs /\ Proof!Earlier(s, r)
      BY <2>2
    <3> QED
      BY <1>3, <1>4, <2>2, <3>1 DEF Proof!Earlier
  <2> QED
    BY <1>0, <1>3, <2>1, <2>3 DEF Proof!At
<1>8. Proof!Backed(view)
  <2> HIDE DEF rs, proof
  <2>1. d.by = [kind |-> "user", id |-> Owner.id] /\ d.rev = p.rev /\ p.at <= d.at /\ d.hash = p.payload
        /\ (p.expires # Absent => d.at <= p.expires)
    BY <1>5 DEF ProofHolds, Proof!DecisionFits, Proof!ProposalOK, Proof!DecisionOK
  <2>2. ASSUME NEW status \in Proof!Proofs, proof[status] # Absent
        PROVE  d.at <= Proof!At(proof[status]) /\ receipts[proof[status]].rev = d.rev /\ receipts[proof[status]].hash = d.hash
    <3>1. receipts[proof[status]] \in rs
      BY <1>6, <2>2
    <3>2. Proof!Binds(receipts[proof[status]], p) /\ d.at <= receipts[proof[status]].at
      BY <1>2, <3>1 DEF Proof!ReceiptsFit
    <3> QED
      BY <1>5, <3>2 DEF Proof!Binds, Proof!At, Proof!DecisionFits
  <2>3. {"provider_acknowledged", "delivered", "read"} \subseteq Proof!Proofs
    BY DEF Proof!Proofs
  <2>4. proof["delivered"] # Absent =>
          proof["provider_acknowledged"] # Absent
          /\ Proof!At(proof["provider_acknowledged"]) <= Proof!At(proof["delivered"])
    <3>1. \A r \in rs : r.status = "delivered" => Proof!Proved({s \in rs : Proof!Earlier(s, r)})["provider_acknowledged"] # Absent
      BY <1>2 DEF Proof!StepsUp
    <3> QED
      BY <1>7, <2>3, <3>1
  <2>5. proof["read"] # Absent =>
          proof["delivered"] # Absent /\ Proof!At(proof["delivered"]) <= Proof!At(proof["read"])
    <3>1. \A r \in rs : r.status = "read" => Proof!Proved({s \in rs : Proof!Earlier(s, r)})["delivered"] # Absent
      BY <1>2 DEF Proof!StepsUp
    <3> QED
      BY <1>7, <2>3, <3>1
  <2> QED
    BY <1>5, <2>1, <2>2, <2>4, <2>5 DEF Proof!Backed
<1>9. ASSUME NEW v \in shown PROVE Proof!Agree(v, view) /\ Proof!Agree(view, v)
  <2>1. ASSUME NEW status \in Proof!Proofs, v.proof[status] # Absent, proof[status] # Absent
        PROVE  v.proof[status] = proof[status]
    <3>1. receipts[v.proof[status]] \in rs /\ receipts[v.proof[status]].status = status
          /\ receipts[v.proof[status]].id = v.proof[status]
      BY <2>1 DEF ProofHolds, Recorded
    <3> QED
      BY <1>4, <2>1, <3>1
  <2>2. view.proof = proof
    OBVIOUS
  <2> HIDE DEF proof, view
  <2> QED
    BY <2>1, <2>2 DEF Proof!Agree
<1>10. Proof!Agree(view, view)
  BY DEF Proof!Agree
<1>11. Recorded(view)
  <2> HIDE DEF rs, proof
  <2> QED
    BY <1>6 DEF Recorded
<1>12. \A v : (Proof!Backed(v) => Proof!Backed(v)') /\ (Recorded(v) => Recorded(v)')
  BY <1>1 DEF Proof!Backed, Recorded, Proof!At
<1>13. \A v, w : Proof!Agree(v, w) => Proof!Agree(v, w)'
  BY DEF Proof!Agree
<1> HIDE DEF rs, proof, view
<1>14. \A v \in shown' : Proof!Backed(v)' /\ Recorded(v)'
  BY <1>1, <1>8, <1>11, <1>12 DEF ProofHolds
<1>15. \A v, w \in shown' : Proof!Agree(v, w)'
  BY <1>1, <1>9, <1>10, <1>13 DEF ProofHolds
<1> QED
  BY <1>1, <1>14, <1>15 DEF ProofHolds

LEMMA ProofHoldsNext ==
  ASSUME ProofHolds, PartsAssumption, Proof!Next PROVE ProofHolds'
<1>1. CASE Proof!Tick
  <2>1. \A v : (Proof!Backed(v) => Proof!Backed(v)') /\ (Recorded(v) => Recorded(v)')
    BY <1>1 DEF Proof!Tick, Proof!Backed, Recorded, Proof!At
  <2> QED
    BY <1>1, <2>1 DEF Proof!Tick, ProofHolds, Proof!Agree
<1>2. CASE Proof!Propose
  <2>1. \A v : (Proof!Backed(v) => Proof!Backed(v)') /\ (Recorded(v) => Recorded(v)')
    BY <1>2 DEF Proof!Propose, Proof!Backed, Recorded, Proof!At
  <2>2. now' = now /\ decisions' = decisions /\ receipts' = receipts /\ shown' = shown
    BY <1>2 DEF Proof!Propose
  <2>3. \A p \in proposals' : p.owner = Owner.id
    BY <1>2 DEF Proof!Propose, ProofHolds
  <2> QED
    BY <2>1, <2>2, <2>3 DEF ProofHolds, Proof!Agree
<1>3. ASSUME NEW answer \in Answers, Proof!Decide(answer) PROVE ProofHolds'
  <2>1. \A v : (Proof!Backed(v) => Proof!Backed(v)') /\ (Recorded(v) => Recorded(v)')
    BY <1>3 DEF Proof!Decide, Proof!Backed, Recorded, Proof!At
  <2>2. now' = now /\ proposals' = proposals /\ receipts' = receipts /\ shown' = shown
    BY <1>3 DEF Proof!Decide
  <2>3. \A d \in decisions' : d.at \in Nat /\ d.by = [kind |-> d.by.kind, id |-> d.by.id]
    BY <1>3 DEF Proof!Decide, ProofHolds
  <2> QED
    BY <2>1, <2>2, <2>3 DEF ProofHolds, Proof!Agree
<1>4. ASSUME NEW report \in Reports, NEW at \in 1 .. now, Proof!Record(report, at) PROVE ProofHolds'
  <2>1. PICK r : /\ receipts' = Append(receipts, r) /\ r.id = Len(receipts) + 1 /\ r.at = at
                 /\ now' = now /\ proposals' = proposals /\ decisions' = decisions /\ shown' = shown
    BY <1>4 DEF Proof!Record
  <2>2. at \in Nat /\ Len(receipts) \in Nat /\ DOMAIN receipts = 1..Len(receipts)
    BY Positions DEF ProofHolds
  <2>3. /\ IsSequence(receipts') /\ DOMAIN receipts' = 1..Len(receipts) + 1
        /\ receipts'[Len(receipts) + 1] = r /\ \A i \in DOMAIN receipts : receipts'[i] = receipts[i]
    <3>1. IsSequence(receipts)
      BY DEF ProofHolds
    <3>2. /\ IsSequence(Append(receipts, r)) /\ Len(Append(receipts, r)) = Len(receipts) + 1
          /\ Append(receipts, r)[Len(receipts) + 1] = r
          /\ \A i \in 1..Len(receipts) : Append(receipts, r)[i] = receipts[i]
      BY <3>1, Appended
    <3> QED
      BY <2>1, <2>2, <3>2, Positions
  <2>4. \A i \in DOMAIN receipts' : receipts'[i].id = i /\ receipts'[i].at \in Nat
    BY <2>1, <2>2, <2>3 DEF ProofHolds
  <2>5. ASSUME NEW v \in shown PROVE Proof!Backed(v)' /\ Recorded(v)'
    <3>1. Recorded(v) /\ Proof!Backed(v)
      BY DEF ProofHolds
    <3>2. \A status \in Proof!Proofs : v.proof[status] # Absent =>
            v.proof[status] \in DOMAIN receipts /\ receipts'[v.proof[status]] = receipts[v.proof[status]]
      BY <2>3, <3>1 DEF Recorded
    <3>3. {"provider_acknowledged", "delivered", "read"} \subseteq Proof!Proofs
      BY DEF Proof!Proofs
    <3>4. Recorded(v)'
      BY <2>2, <2>3, <3>1, <3>2 DEF Recorded
    <3>5. Proof!Backed(v)'
      BY <3>1, <3>2, <3>3 DEF Proof!Backed, Proof!At
    <3> QED
      BY <3>4, <3>5
  <2> QED
    BY <2>1, <2>3, <2>4, <2>5 DEF ProofHolds, Proof!Agree
<1>5. ASSUME NEW p \in proposals, NEW d \in decisions \cup {Absent}, Proof!Project(p, d) PROVE ProofHolds'
  BY <1>5, ProjectionIsBacked
<1> QED
  BY <1>1, <1>2, <1>3, <1>4, <1>5 DEF Proof!Next

\* What is shown of an action stands on the owner's approval, whatever comes later.
THEOREM ProofsAlwaysStand == PartsSpec => []ProofsStand
<1> DEFINE Inv == part = "proof" => ProofHolds
<1>1. PartsInit => Inv
  <2> SUFFICES ASSUME PartsInit, part = "proof" PROVE ProofHolds
    OBVIOUS
  <2>1. now = 1 /\ proposals = {} /\ decisions = {} /\ receipts = <<>> /\ shown = {}
    BY DEF PartsInit, Proof!Init
  <2>2. IsSequence(<<>>) /\ DOMAIN <<>> = {}
    BY EmptySeq DEF IsSequence
  <2> QED
    BY <2>1, <2>2 DEF ProofHolds
<1>2. Inv /\ [PartsNext]_partsVars => Inv'
  <2> SUFFICES ASSUME Inv, [PartsNext]_partsVars, part' = "proof" PROVE ProofHolds'
    OBVIOUS
  <2>1. CASE PartsNext
    <3>1. part = "proof" /\ Proof!Next
      BY <2>1 DEF PartsNext, LedgerParts, ExportParts, RunParts
    <3> QED
      BY <3>1, PartsAssumption, ProofHoldsNext
  <2>2. CASE UNCHANGED partsVars
    BY <2>2 DEF partsVars, actionVars, ProofHolds, Recorded, Proof!Backed, Proof!At, Proof!Agree
  <2> QED
    BY <2>1, <2>2
<1>3. Inv => ProofsStand
  BY DEF ProofsStand, ProofHolds, Proof!ProofsStand
<1> QED
  BY <1>1, <1>2, <1>3, PTL DEF PartsSpec

-----------------------------------------------------------------------------
(* The export, as far as it is a function of the kernel's ledger            *)

\* Induction over the numbers, for a set of them.
LEMMA CountingUp ==
  ASSUME NEW S, 0 \in S, \A n \in Nat : n \in S => n + 1 \in S
  PROVE  Nat \subseteq S
<1> DEFINE T == Nat \ S
<1> SUFFICES ASSUME T # {} PROVE FALSE
  OBVIOUS
<1>1. T \subseteq Nat
  OBVIOUS
<1>2. \E t \in T : \A u \in T : ~(<<u, t>> \in OpToRel(<, Nat))
  <2> HIDE DEF T
  <2> QED
    BY <1>1, WFMin, NatLessThanWellFounded, Zenon
<1>3. PICK t \in T : \A u \in T : ~(u \in Nat /\ t \in Nat /\ u < t)
  <2> HIDE DEF T
  <2> QED
    BY <1>2, Zenon DEF OpToRel
<1>4. t \in Nat /\ t # 0 /\ t - 1 \in Nat /\ t - 1 < t
  OBVIOUS
<1>5. t - 1 \in S
  BY <1>3, <1>4
<1> QED
  BY <1>4, <1>5

\* The portable events among the first n, once `before` has those among the first n - 1.
Extended(l, before, n) ==
  IF n \in Export!Portable(l) THEN Append(before, Export!Adapted(l[n], before)) ELSE before

Builds(l, m, u) == u = [n \in 0 .. m |-> IF n = 0 THEN <<>> ELSE Extended(l, u[n - 1], n)]

\* The portable events among the first n of l, for every n.
Upto(l) == CHOOSE u : Builds(l, Len(l), u)

LEMMA ExportedIsUpto == ASSUME NEW l PROVE Export!Exported(l) = Upto(l)[Len(l)]
  BY DEF Upto, Builds, Extended, Export!Exported

LEMMA UptoIs ==
  ASSUME NEW l, Len(l) \in Nat
  PROVE  Upto(l)[0] = <<>> /\ \A n \in 1 .. Len(l) : Upto(l)[n] = Extended(l, Upto(l)[n - 1], n)
<1> DEFINE S == {m \in Nat : \E u : Builds(l, m, u)}
<1>1. 0 \in S
  <2>1. Builds(l, 0, [n \in 0 .. 0 |-> <<>>])
    BY DEF Builds
  <2> QED
    BY <2>1
<1>2. ASSUME NEW m \in Nat, m \in S PROVE m + 1 \in S
  <2>1. PICK u : Builds(l, m, u)
    BY <1>2
  <2> DEFINE v == [n \in 0 .. m + 1 |-> IF n = m + 1 THEN Extended(l, u[m], m + 1) ELSE u[n]]
  <2>2. \A n \in 0 .. m + 1 : v[n] = IF n = 0 THEN <<>> ELSE Extended(l, v[n - 1], n)
    <3> TAKE n \in 0 .. m + 1
    <3>1. CASE n = m + 1
      BY <3>1
    <3>2. CASE n = 0
      BY <2>1, <3>2 DEF Builds
    <3>3. CASE n \in 1 .. m
      <4>1. u[n] = Extended(l, u[n - 1], n) /\ n - 1 \in 0 .. m
        BY <2>1, <3>3 DEF Builds
      <4>2. v[n] = u[n] /\ v[n - 1] = u[n - 1]
        BY <3>3, <4>1
      <4> QED
        BY <3>3, <4>1, <4>2
    <3> QED
      BY <3>1, <3>2, <3>3
  <2>3. Builds(l, m + 1, v)
    <3>1. v = [n \in 0 .. m + 1 |-> v[n]]
      OBVIOUS
    <3> HIDE DEF v
    <3> QED
      BY <2>2, <3>1 DEF Builds
  <2> QED
    BY <2>3
<1>3. \E u : Builds(l, Len(l), u)
  <2>1. Nat \subseteq S
    <3> HIDE DEF S
    <3> QED
      BY <1>1, <1>2, CountingUp
  <2> QED
    BY <2>1
<1>4. Builds(l, Len(l), Upto(l))
  BY <1>3, Zenon DEF Upto
<1> HIDE DEF S
<1> DEFINE u == Upto(l)
<1>5. u = [n \in 0 .. Len(l) |-> IF n = 0 THEN <<>> ELSE Extended(l, u[n - 1], n)]
  BY <1>4 DEF Builds
<1> HIDE DEF u
<1>6. u[0] = <<>> /\ \A n \in 1 .. Len(l) : u[n] = Extended(l, u[n - 1], n)
  BY <1>5
<1> QED
  BY <1>6 DEF u

-----------------------------------------------------------------------------
(* What the kernel's ledger keeps to                                        *)

\* b passed the boundary as the body of event e.
Passed(e, b) ==
  /\ b # Absent /\ b = [f \in DOMAIN b |-> b[f]] /\ {b.created, b.updated} \subseteq Nat
  /\ Export!P!EntityOK(b) /\ Export!P!EntityAuthority(b, e.actor, Export!AuthorityFor(e.actor), Absent)
  /\ Export!P!KeyOf(b) = e.target /\ b.rev = e.rev /\ b.owner = Owner

Canonical(e) == Passed(e, e.body)

\* The earlier events about the record of event i.
Before(l, i) == {k \in 1 .. i - 1 : l[k].target = l[i].target}

\* Event k is the one that event i follows.
Follows(l, k, i) == k \in Before(l, i) /\ \A j \in Before(l, i) : j <= k

EventKept(l, i) ==
  /\ l[i].id = i /\ l[i].at \in Nat /\ l[i].rev \in Nat \ {0}
  /\ Export!P!User(l[i].actor) => l[i].actor = Owner
  /\ \A k \in Before(l, i) : ~l[k].tomb /\ l[k].rev < l[i].rev
  /\ l[i].rev = 1 => Before(l, i) = {}
  /\ l[i].rev # 1 => \E k : Follows(l, k, i) /\ l[i].rev = l[k].rev + 1 /\ l[i].sup \in {Absent, k}
  /\ i \in Export!Portable(l) => Canonical(l[i])

\* Of any ledger, whether it is the kernel's own or one that was gathered from it.
Kept(l) == IsSequence(l) /\ \A i \in DOMAIN l : EventKept(l, i)

LEMMA SealedIsBody == ASSUME NEW e, Canonical(e) PROVE Export!Sealed(e) = e.body
<1> DEFINE b == e.body
<1>1. b = [f \in DOMAIN b |-> b[f]]
  BY DEF Canonical, Passed
<1>2. b.type = e.target.type /\ b.id = e.target.id
  BY DEF Canonical, Passed, Export!P!KeyOf
<1>3. b.owner = Owner /\ b.rev = e.rev /\ b.sealed
  BY DEF Canonical, Passed, Export!P!EntityOK, Export!P!BaseOK
<1> QED
  BY <1>1, <1>2, <1>3 DEF Export!Sealed

-----------------------------------------------------------------------------
(* The portable events mirror the kernel's                                  *)

\* x is the portable form of the kernel's event of that id.
Stands(l, x) ==
  /\ x.key = x.id /\ x.ledger = "workspace" /\ x.owner = Owner
  /\ x.op # "tombstoned" /\ x.target = l[x.id].target /\ x.entity = Export!Sealed(l[x.id])

\* s has the portable events among the first n of l, in their order.
Mirrors(l, n, s) ==
  /\ IsSequence(s)
  /\ \A k \in DOMAIN s : s[k].id \in Export!Portable(l) /\ s[k].id <= n /\ Stands(l, s[k])
  /\ \A i \in Export!Portable(l) : i <= n => \E k \in DOMAIN s : s[k].id = i
  /\ \A j, k \in DOMAIN s : j < k => s[j].id < s[k].id

LEMMA PortableIs ==
  ASSUME NEW l, Kept(l)
  PROVE  /\ Len(l) \in Nat /\ DOMAIN l = 1 .. Len(l)
         /\ \A i \in Export!Portable(l) : i \in 1 .. Len(l) /\ i \in Nat /\ EventKept(l, i)
  BY Positions DEF Kept, Export!Portable

LEMMA AdaptedIs ==
  ASSUME NEW l, Kept(l), NEW i \in Export!Portable(l), NEW s
  PROVE  Export!Adapted(l[i], s).id = i /\ Stands(l, Export!Adapted(l[i], s))
<1>1. l[i].id = i
  BY PortableIs DEF EventKept
<1>2. Export!Operation(l[i]) \in {"created", "corrected", "revised"}
  BY DEF Export!Operation
<1> QED
  BY <1>1, <1>2 DEF Export!Adapted, Stands

LEMMA MirrorsNext ==
  ASSUME NEW l, Kept(l), NEW n \in 1 .. Len(l), NEW s, Mirrors(l, n - 1, s)
  PROVE  Mirrors(l, n, Extended(l, s, n))
<1>1. Len(l) \in Nat /\ \A i \in Export!Portable(l) : i \in Nat
  BY PortableIs
<1>2. CASE n \notin Export!Portable(l)
  <2>1. \A i \in Export!Portable(l) : i <= n - 1 <=> i <= n
    BY <1>1, <1>2
  <2> QED
    BY <1>2, <2>1 DEF Extended, Mirrors
<1>3. CASE n \in Export!Portable(l)
  <2> DEFINE a == Export!Adapted(l[n], s)
             t == Append(s, a)
  <2>1. a.id = n /\ Stands(l, a)
    BY <1>3, AdaptedIs
  <2>2. IsSequence(s) /\ Len(s) \in Nat /\ DOMAIN s = 1 .. Len(s)
    BY Positions DEF Mirrors
  <2>3. /\ IsSequence(t) /\ DOMAIN t = 1 .. Len(s) + 1
        /\ t[Len(s) + 1] = a /\ \A k \in 1 .. Len(s) : t[k] = s[k]
    BY <2>2, Appended, Positions
  <2> HIDE DEF a, t
  <2>4. ASSUME NEW k \in DOMAIN t
        PROVE  t[k].id \in Export!Portable(l) /\ t[k].id <= n /\ Stands(l, t[k])
    <3>1. CASE k = Len(s) + 1
      BY <1>1, <1>3, <2>1, <2>3, <3>1
    <3>2. CASE k \in 1 .. Len(s)
      <4>1. t[k] = s[k] /\ s[k].id \in Export!Portable(l) /\ s[k].id <= n - 1 /\ Stands(l, s[k])
        BY <2>2, <2>3, <3>2 DEF Mirrors
      <4> QED
        BY <1>1, <4>1
    <3> QED
      BY <2>2, <2>3, <3>1, <3>2
  <2>5. ASSUME NEW i \in Export!Portable(l), i <= n PROVE \E k \in DOMAIN t : t[k].id = i
    <3>1. CASE i = n
      BY <2>1, <2>2, <2>3, <3>1
    <3>2. CASE i <= n - 1
      <4>1. PICK k \in DOMAIN s : s[k].id = i
        BY <3>2 DEF Mirrors
      <4> QED
        BY <2>2, <2>3, <4>1
    <3> QED
      BY <1>1, <2>5, <3>1, <3>2
  <2>6. ASSUME NEW j \in DOMAIN t, NEW k \in DOMAIN t, j < k PROVE t[j].id < t[k].id
    <3>1. j \in 1 .. Len(s) /\ t[j] = s[j] /\ s[j].id <= n - 1 /\ s[j].id \in Nat
      BY <1>1, <2>2, <2>3, <2>6 DEF Mirrors
    <3>2. CASE k = Len(s) + 1
      BY <2>1, <2>3, <3>1, <3>2
    <3>3. CASE k \in 1 .. Len(s)
      BY <2>2, <2>3, <2>6, <3>1, <3>3 DEF Mirrors
    <3> QED
      BY <2>2, <2>3, <3>2, <3>3
  <2>7. Mirrors(l, n, t)
    BY <2>3, <2>4, <2>5, <2>6 DEF Mirrors
  <2> QED
    BY <1>3, <2>7 DEF Extended, a, t
<1> QED
  BY <1>2, <1>3

LEMMA UptoMirrors ==
  ASSUME NEW l, Kept(l) PROVE \A n \in 0 .. Len(l) : Mirrors(l, n, Upto(l)[n])
<1> DEFINE S == {n \in Nat : n <= Len(l) => Mirrors(l, n, Upto(l)[n])}
<1>1. /\ Len(l) \in Nat /\ Upto(l)[0] = <<>> /\ \A n \in 1 .. Len(l) : Upto(l)[n] = Extended(l, Upto(l)[n - 1], n)
      /\ \A i \in Export!Portable(l) : i \in 1 .. Len(l)
  BY PortableIs, UptoIs
<1>2. 0 \in S
  <2>1. IsSequence(<<>>) /\ DOMAIN <<>> = {}
    BY EmptySeq DEF IsSequence
  <2>2. Mirrors(l, 0, <<>>)
    BY <1>1, <2>1 DEF Mirrors
  <2> QED
    BY <1>1, <2>2
<1>3. ASSUME NEW n \in Nat, n \in S PROVE n + 1 \in S
  <2> SUFFICES ASSUME n + 1 <= Len(l) PROVE Mirrors(l, n + 1, Upto(l)[n + 1])
    OBVIOUS
  <2>1. n + 1 \in 1 .. Len(l) /\ n + 1 - 1 = n /\ Mirrors(l, n, Upto(l)[n])
    BY <1>1, <1>3
  <2>2. Mirrors(l, n + 1, Extended(l, Upto(l)[n], n + 1))
    BY <2>1, MirrorsNext
  <2> QED
    BY <1>1, <2>1, <2>2
<1>4. Nat \subseteq S
  <2> HIDE DEF S
  <2> QED
    BY <1>2, <1>3, CountingUp
<1> QED
  BY <1>1, <1>4

\* What a replay of the portable events holds of a record is its last snapshot.
LEMMA HeldOf ==
  ASSUME NEW l, Kept(l), NEW n \in Nat, NEW s, Mirrors(l, n, s), NEW key
  PROVE  LET about == {i \in Export!Portable(l) : i <= n /\ l[i].target = key} IN
         /\ about = {} => Export!P!Held(s, key) = Absent
         /\ \A i \in about : (\A j \in about : j <= i) =>
              /\ Export!P!Held(s, key) = Export!Sealed(l[i])
              /\ Export!P!LastAbout(s, key) \in DOMAIN s /\ s[Export!P!LastAbout(s, key)].id = i
<1> DEFINE about == {i \in Export!Portable(l) : i <= n /\ l[i].target = key}
           there == {k \in DOMAIN s : s[k].target = key}
<1>1. Len(s) \in Nat /\ DOMAIN s = 1 .. Len(s) /\ \A i \in Export!Portable(l) : i \in Nat
  BY Positions, PortableIs DEF Mirrors
<1>2. \A k \in there : s[k].id \in about
  BY DEF Mirrors, Stands
<1>3. \A i \in about : \E k \in there : s[k].id = i
  BY DEF Mirrors, Stands
<1>4. ASSUME about = {} PROVE Export!P!Held(s, key) = Absent
  <2>1. there = {}
    BY <1>2, <1>4
  <2> QED
    BY <2>1 DEF Export!P!Held, Export!P!LastAbout
<1>5. ASSUME NEW i \in about, \A j \in about : j <= i
      PROVE  /\ Export!P!Held(s, key) = Export!Sealed(l[i])
             /\ Export!P!LastAbout(s, key) \in DOMAIN s /\ s[Export!P!LastAbout(s, key)].id = i
  <2> DEFINE m == CHOOSE k \in there : \A j \in there : j <= k
  <2>1. there # {} /\ there \subseteq 1 .. Len(s)
    BY <1>1, <1>3, <1>5
  <2>2. m \in there /\ \A j \in there : j <= m
    <3> HIDE DEF there
    <3> QED
      BY <1>1, <2>1, LastOf
  <2>3. Export!P!LastAbout(s, key) = m
    BY <2>1 DEF Export!P!LastAbout
  <2> HIDE DEF m
  <2>4. PICK k \in there : s[k].id = i
    BY <1>3, <1>5
  <2>5. s[m].id = i
    <3>1. k <= m /\ s[m].id \in about
      BY <1>2, <2>2, <2>4
    <3>2. k < m => s[k].id < s[m].id
      BY <2>2, <2>4 DEF Mirrors
    <3>3. s[m].id \in Nat /\ i \in Nat /\ s[m].id <= i
      BY <1>1, <1>5, <3>1
    <3> QED
      BY <1>1, <2>2, <2>4, <3>1, <3>2, <3>3
  <2>6. m # 0 /\ s[m].entity = Export!Sealed(l[i])
    BY <1>1, <2>2, <2>5 DEF Mirrors, Stands
  <2> QED
    BY <2>2, <2>3, <2>5, <2>6 DEF Export!P!Held
<1> QED
  BY <1>4, <1>5

-----------------------------------------------------------------------------
(* What the replay asks of a portable event                                 *)

\* The snapshot the replay compares with is that of the event this one follows.
LEMMA HeldBefore ==
  ASSUME NEW l, Kept(l), NEW i \in Export!Portable(l), NEW s, Mirrors(l, i - 1, s)
  PROVE  /\ l[i].rev = 1 => Export!P!Held(s, l[i].target) = Absent
         /\ \A k : Follows(l, k, i) =>
              /\ k \in Export!Portable(l) /\ Canonical(l[k]) /\ Export!P!Held(s, l[i].target) = l[k].body
              /\ s[Export!P!LastAbout(s, l[i].target)].id = k
<1> DEFINE key == l[i].target
           about == {j \in Export!Portable(l) : j <= i - 1 /\ l[j].target = key}
<1>1. /\ i \in 1 .. Len(l) /\ i - 1 \in Nat /\ Len(l) \in Nat /\ DOMAIN l = 1 .. Len(l) /\ EventKept(l, i)
      /\ \A j \in Export!Portable(l) : j \in 1 .. Len(l) /\ EventKept(l, j)
  <2>1. i \in 1 .. Len(l) /\ Len(l) \in Nat
    BY PortableIs
  <2> QED
    BY <2>1, PortableIs
<1>2. /\ about = {} => Export!P!Held(s, key) = Absent
      /\ \A j \in about : (\A m \in about : m <= j) =>
           Export!P!Held(s, key) = Export!Sealed(l[j]) /\ s[Export!P!LastAbout(s, key)].id = j
  <2> DEFINE n == i - 1
  <2>1. n \in Nat /\ Mirrors(l, n, s)
    BY <1>1
  <2> HIDE DEF key, n
  <2>2. LET some == {j \in Export!Portable(l) : j <= n /\ l[j].target = key} IN
        /\ some = {} => Export!P!Held(s, key) = Absent
        /\ \A j \in some : (\A m \in some : m <= j) =>
             /\ Export!P!Held(s, key) = Export!Sealed(l[j])
             /\ Export!P!LastAbout(s, key) \in DOMAIN s /\ s[Export!P!LastAbout(s, key)].id = j
    BY <2>1, HeldOf
  <2> QED
    BY <2>2 DEF n
<1>3. about \subseteq Before(l, i)
  <2> SUFFICES ASSUME NEW j \in Export!Portable(l), j <= i - 1, l[j].target = key PROVE j \in Before(l, i)
    OBVIOUS
  <2>1. j \in 1 .. i - 1
    BY <1>1
  <2> QED
    BY <2>1 DEF Before
<1>4. ASSUME NEW k, Follows(l, k, i)
      PROVE  /\ k \in Export!Portable(l) /\ Canonical(l[k]) /\ Export!P!Held(s, key) = l[k].body
             /\ s[Export!P!LastAbout(s, key)].id = k
  <2>1. k \in 1 .. i - 1 /\ l[k].target = key /\ \A j \in about : j <= k
    BY <1>3, <1>4 DEF Follows, Before
  <2>2. k \in Export!Portable(l)
    BY <1>1, <2>1 DEF Export!Portable
  <2>3. k \in about
    BY <1>1, <2>1, <2>2
  <2>4. Export!P!Held(s, key) = Export!Sealed(l[k]) /\ s[Export!P!LastAbout(s, key)].id = k
    BY <1>2, <2>1, <2>3
  <2>5. Canonical(l[k])
    BY <1>1, <2>2 DEF EventKept
  <2> QED
    BY <2>2, <2>4, <2>5, SealedIsBody
<1>5. ASSUME l[i].rev = 1 PROVE Export!P!Held(s, key) = Absent
  BY <1>1, <1>2, <1>3, <1>5 DEF EventKept
<1> QED
  BY <1>4, <1>5

\* It asks that the dates move forward and that nobody but the owner shares more:
\* the boundary has seen to the rest.
LEMMA AcceptedUnlessUnportable ==
  ASSUME PartsAssumption, NEW l, Kept(l), NEW i \in Export!Portable(l), NEW s, Mirrors(l, i - 1, s)
  PROVE  Export!P!Accepts(s, Export!Adapted(l[i], s)) <=> \A k : Follows(l, k, i) => ~Export!Unportable(l, k, i)
<1> DEFINE e == l[i]
           a == Export!Adapted(e, s)
           held == Export!P!Held(s, e.target)
<1>1. /\ i \in 1 .. Len(l) /\ Len(l) \in Nat /\ EventKept(l, i) /\ Canonical(e)
      /\ Len(s) \in Nat /\ DOMAIN s = 1 .. Len(s) /\ IsSequence(s)
  BY PortableIs, Positions DEF EventKept, Mirrors
<1>2. Absent \notin Nat /\ Absent # "corrected" /\ Export!P!User(Owner)
  BY DEF PartsAssumption, Export!ExportAssumption
<1>3. /\ a.ledger = "workspace" /\ a.id = i /\ a.key = i /\ a.owner = Owner /\ a.seq = Len(s) + 1
      /\ a.prev = Export!P!HashBefore(s) /\ a.at = e.at /\ a.recorded = e.at /\ a.op = Export!Operation(e)
      /\ a.target = e.target /\ a.actor = e.actor /\ a.auth = Export!AuthorityFor(e.actor) /\ a.producer = Absent
      /\ a.cause = Absent /\ a.sealed /\ a.rev = e.rev /\ a.entity = e.body
      /\ (e.rev > 1 => a.prevRev = e.rev - 1 /\ a.prevHash = held)
      /\ (~(e.rev > 1) => a.prevRev = Absent /\ a.prevHash = Absent)
      /\ (a.op = "corrected" => a.sup = e.sup /\ a.reason = "corrected")
  <2>1. Export!Sealed(e) = e.body /\ e.id = i
    BY <1>1, SealedIsBody DEF EventKept
  <2> HIDE DEF e
  <2> QED
    BY <2>1 DEF Export!Adapted
<1>4. /\ e.rev \in Nat \ {0} /\ e.at \in Nat
      /\ (a.op = "created" <=> e.rev = 1) /\ a.op \in {"created", "corrected", "revised"}
      /\ (a.op = "corrected" => e.sup # Absent)
  BY <1>1, <1>3 DEF EventKept, Export!Operation
<1>5. a.auth.ref = Absent /\ a.auth.mode # "user_confirmation"
  BY <1>3 DEF Export!AuthorityFor
<1>6. e.rev = 1 => held = Absent /\ \A k : ~Follows(l, k, i)
  BY <1>1, HeldBefore DEF EventKept, Follows
<1>7. ASSUME e.rev # 1
      PROVE  \E k : /\ Follows(l, k, i) /\ k \in Export!Portable(l) /\ Canonical(l[k]) /\ held = l[k].body /\ k \in Nat
                    /\ s[Export!P!LastAbout(s, e.target)].id = k /\ e.rev = l[k].rev + 1 /\ e.sup \in {Absent, k}
                    /\ l[k].rev \in Nat /\ l[k].target = e.target /\ \A j : Follows(l, j, i) => j = k
  <2>1. PICK k : Follows(l, k, i) /\ e.rev = l[k].rev + 1 /\ e.sup \in {Absent, k}
    BY <1>1, <1>7 DEF EventKept
  <2>2. /\ k \in Export!Portable(l) /\ Canonical(l[k]) /\ held = l[k].body
        /\ s[Export!P!LastAbout(s, e.target)].id = k
    BY <2>1, HeldBefore
  <2>3. l[k].rev \in Nat /\ k \in Nat
    BY <2>2, PortableIs DEF EventKept
  <2>4. l[k].target = e.target /\ \A j : Follows(l, j, i) => j = k
    BY <1>1, <2>1 DEF Follows, Before
  <2> QED
    BY <2>1, <2>2, <2>3, <2>4
<1> HIDE DEF a, held
<1>8. Export!P!OperationOK(a)
  <2>1. CASE e.rev = 1
    BY <1>3, <1>4, <2>1 DEF Export!P!OperationOK
  <2>2. CASE e.rev # 1
    <3>1. held # Absent
      BY <1>7, <2>2 DEF Canonical, Passed
    <3>2. e.rev > 1 /\ e.rev - 1 \in Nat /\ e.rev = e.rev - 1 + 1
      BY <1>4, <2>2
    <3> QED
      BY <1>2, <1>3, <1>4, <2>2, <3>1, <3>2 DEF Export!P!OperationOK
  <2> QED
    BY <2>1, <2>2
<1>9. Export!P!ContentOK(a)
  BY <1>1, <1>3, <1>4 DEF Export!P!ContentOK, Canonical, Passed
<1>10. Export!P!Linked(s, a)
  <2>1. \A k \in DOMAIN s : s[k].ledger = "workspace" /\ s[k].owner = Owner /\ s[k].key = s[k].id /\ s[k].id # i
    <3>1. i \in Nat /\ \A j \in Export!Portable(l) : j \in Nat
      BY <1>1, PortableIs
    <3> QED
      BY <3>1 DEF Mirrors, Stands
  <2>2. s # <<>> => 1 \in DOMAIN s
    BY <1>1, EmptySeq DEF IsSequence
  <2> QED
    BY <1>3, <2>1, <2>2 DEF Export!P!Linked
<1>11. Export!P!EventOK(a)
  <2>1. (a.seq = 1) <=> (a.prev = {})
    <3>1. s = <<>> <=> Len(s) = 0
      BY <1>1, EmptySeq DEF IsSequence
    <3> QED
      BY <1>1, <1>3, <3>1 DEF Export!P!HashBefore
  <2>2. e.target.type \in Export!P!EntityTypes
    BY DEF Export!Portable
  <2>3. Export!P!AuthorityOK(a.auth)
    BY <1>5 DEF Export!P!AuthorityOK
  <2> QED
    BY <1>1, <1>3, <1>4, <1>8, <1>9, <2>1, <2>2, <2>3 DEF Export!P!EventOK
<1>12. /\ Export!P!CauseKnown(s, a) /\ Export!P!ConfirmationStands(s, a) /\ ~Export!P!Deleted(s, a.target)
       /\ ~Export!P!ClaimsConfirmation(a.auth)
  BY <1>3, <1>5 DEF Export!P!CauseKnown, Export!P!ConfirmationStands, Export!P!Deleted, Export!P!ClaimsConfirmation, Mirrors, Stands
<1>13. CASE e.rev = 1
  <2>1. Export!P!TransitionOK(Export!P!Held(s, a.target), a)
    BY <1>3, <1>4, <1>6, <1>13 DEF Export!P!TransitionOK, held
  <2>2. a.op # "corrected"
    BY <1>4, <1>13
  <2>3. Export!P!Accepts(s, a)
    BY <1>10, <1>11, <1>12, <2>1, <2>2 DEF Export!P!Accepts
  <2> QED
    BY <1>6, <1>13, <2>3 DEF a
<1>14. CASE e.rev # 1
  <2>1. PICK k : /\ Follows(l, k, i) /\ k \in Export!Portable(l) /\ Canonical(l[k]) /\ held = l[k].body /\ k \in Nat
                 /\ s[Export!P!LastAbout(s, e.target)].id = k /\ e.rev = l[k].rev + 1 /\ e.sup \in {Absent, k}
                 /\ l[k].rev \in Nat /\ l[k].target = e.target /\ \A j : Follows(l, j, i) => j = k
    BY <1>7, <1>14
  <2> DEFINE b == l[k].body
             c == e.body
  <2>2. /\ b # Absent /\ Export!P!KeyOf(b) = e.target /\ b.owner = Owner /\ b.rev = e.rev - 1
        /\ b.created \in Nat /\ b.updated \in Nat /\ c.created \in Nat /\ c.updated \in Nat
    <3>1. Passed(l[k], b) /\ Passed(e, c)
      BY <1>1, <2>1 DEF Canonical
    <3>2. l[k].rev = e.rev - 1 /\ l[k].target = e.target
      BY <1>4, <2>1
    <3> HIDE DEF b, c, e
    <3> QED
      BY <3>1, <3>2 DEF Passed
  <2>3. (a.op = "corrected") => a.sup = s[Export!P!LastAbout(s, a.target)].id
    BY <1>3, <1>4, <2>1
  <2>4. Export!P!User(e.actor) <=> e.actor = Owner
    BY <1>1, <1>2 DEF EventKept
  <2>5. Export!P!TransitionOK(b, a) <=>
          Export!P!MovesForward(b, c) /\ (Export!P!Broadens(b, c) => e.actor = Owner)
    <3>1. a.op # "created" /\ a.op # "tombstoned" /\ a.prevRev = b.rev /\ a.prevHash = b /\ a.entity = c /\ a.actor = e.actor
          /\ a.target = e.target /\ a.owner = Owner
      BY <1>3, <1>4, <1>14, <2>1, <2>2
    <3> HIDE DEF b, c, e
    <3> QED
      BY <1>12, <2>2, <2>4, <3>1 DEF Export!P!TransitionOK
  <2>6. Export!Unportable(l, k, i) <=>
          ~(Export!P!MovesForward(b, c) /\ (Export!P!Broadens(b, c) => e.actor = Owner))
    <3>1. c.updated < b.updated <=> ~(b.updated <= c.updated)
      BY <2>2
    <3> QED
      BY <2>1, <3>1 DEF Export!Unportable, Export!P!MovesForward
  <2>7. Export!P!Accepts(s, a) <=> Export!P!TransitionOK(b, a)
    <3>1. Export!P!Held(s, a.target) = b
      BY <1>3, <2>1 DEF held
    <3> QED
      BY <1>10, <1>11, <1>12, <2>3, <3>1 DEF Export!P!Accepts
  <2> QED
    BY <2>1, <2>5, <2>6, <2>7 DEF a
<1> QED
  BY <1>13, <1>14 DEF a

-----------------------------------------------------------------------------
(* What a replay of the export comes to                                     *)

LEMMA ReplaysOneMore ==
  ASSUME NEW s, IsSequence(s), NEW e
  PROVE  Export!P!Replays(Append(s, e)) <=> Export!P!Replays(s) /\ Export!P!Accepts(s, e)
<1> DEFINE t == Append(s, e)
<1>1. Len(s) \in Nat /\ DOMAIN s = 1 .. Len(s) /\ DOMAIN t = 1 .. Len(s) + 1
  BY Positions, Appended
<1>2. ASSUME NEW i \in 1 .. Len(s) PROVE SubSeq(t, 1, i - 1) = SubSeq(s, 1, i - 1) /\ t[i] = s[i]
  <2>1. i - 1 \in 0 .. Len(s)
    BY <1>1
  <2> QED
    BY <2>1, Appended
<1>3. SubSeq(t, 1, Len(s) + 1 - 1) = s /\ t[Len(s) + 1] = e
  <2>1. SubSeq(s, 1, Len(s)) = s
    BY SubSeqFull DEF IsSequence
  <2>2. Len(s) \in 0 .. Len(s) /\ Len(s) + 1 - 1 = Len(s)
    BY <1>1
  <2> QED
    BY <2>1, <2>2, Appended
<1> HIDE DEF t
<1>4. Export!P!Replays(t) <=>
        /\ \A i \in 1 .. Len(s) : Export!P!Accepts(SubSeq(s, 1, i - 1), s[i])
        /\ Export!P!Accepts(s, e)
  <2>1. Export!P!Replays(t) <=>
          /\ \A i \in 1 .. Len(s) : Export!P!Accepts(SubSeq(t, 1, i - 1), t[i])
          /\ Export!P!Accepts(SubSeq(t, 1, Len(s) + 1 - 1), t[Len(s) + 1])
    <3> DEFINE Q(i) == Export!P!Accepts(SubSeq(t, 1, i - 1), t[i])
    <3>1. DOMAIN t = 1 .. Len(s) \cup {Len(s) + 1}
      BY <1>1
    <3>2. Export!P!Replays(t) <=> \A i \in DOMAIN t : Q(i)
      BY DEF Export!P!Replays
    <3> HIDE DEF Q
    <3>3. Export!P!Replays(t) <=> (\A i \in 1 .. Len(s) : Q(i)) /\ Q(Len(s) + 1)
      BY <3>1, <3>2
    <3> QED
      BY <3>3 DEF Q
  <2> QED
    BY <1>2, <1>3, <2>1
<1> QED
  BY <1>1, <1>4 DEF Export!P!Replays, t

LEMMA UptoReplays ==
  ASSUME NEW l, Kept(l)
  PROVE  Export!P!Replays(Upto(l)[Len(l)]) <=>
           \A i \in Export!Portable(l) : Export!P!Accepts(Upto(l)[i - 1], Export!Adapted(l[i], Upto(l)[i - 1]))
<1> DEFINE Good(i) == Export!P!Accepts(Upto(l)[i - 1], Export!Adapted(l[i], Upto(l)[i - 1]))
           S == {n \in Nat : n <= Len(l) =>
                   (Export!P!Replays(Upto(l)[n]) <=> \A i \in Export!Portable(l) : i <= n => Good(i))}
<1>1. /\ Len(l) \in Nat /\ Upto(l)[0] = <<>> /\ \A n \in 1 .. Len(l) : Upto(l)[n] = Extended(l, Upto(l)[n - 1], n)
      /\ \A i \in Export!Portable(l) : i \in 1 .. Len(l) /\ i \in Nat
  BY PortableIs, UptoIs
<1> HIDE DEF Good
<1>2. 0 \in S
  <2>1. DOMAIN <<>> = {}
    BY EmptySeq
  <2>2. Export!P!Replays(<<>>)
    BY <2>1 DEF Export!P!Replays
  <2> QED
    BY <1>1, <2>2
<1>3. ASSUME NEW n \in Nat, n \in S PROVE n + 1 \in S
  <2> SUFFICES ASSUME n + 1 <= Len(l)
               PROVE  Export!P!Replays(Upto(l)[n + 1]) <=> \A i \in Export!Portable(l) : i <= n + 1 => Good(i)
    OBVIOUS
  <2> DEFINE s == Upto(l)[n]
  <2>1. n + 1 \in 1 .. Len(l) /\ n + 1 - 1 = n /\ n \in 0 .. Len(l)
    BY <1>1
  <2>2. /\ Upto(l)[n + 1] = Extended(l, s, n + 1) /\ IsSequence(s)
        /\ (Export!P!Replays(s) <=> \A i \in Export!Portable(l) : i <= n => Good(i))
    BY <1>1, <1>3, <2>1, UptoMirrors DEF Mirrors
  <2>3. Good(n + 1) <=> Export!P!Accepts(s, Export!Adapted(l[n + 1], s))
    BY <2>1 DEF Good
  <2> HIDE DEF s
  <2>4. CASE n + 1 \in Export!Portable(l)
    <3>1. Upto(l)[n + 1] = Append(s, Export!Adapted(l[n + 1], s))
      BY <2>2, <2>4 DEF Extended
    <3>2. Export!P!Replays(Upto(l)[n + 1]) <=> Export!P!Replays(s) /\ Good(n + 1)
      BY <2>2, <2>3, <3>1, ReplaysOneMore
    <3>3. \A i \in Export!Portable(l) : i <= n + 1 <=> i <= n \/ i = n + 1
      BY <1>1
    <3> QED
      BY <2>2, <2>4, <3>2, <3>3
  <2>5. CASE n + 1 \notin Export!Portable(l)
    <3>1. \A i \in Export!Portable(l) : i <= n + 1 <=> i <= n
      BY <1>1, <2>5
    <3> QED
      BY <2>2, <2>5, <3>1 DEF Extended
  <2> QED
    BY <2>4, <2>5
<1>4. Nat \subseteq S
  <2> HIDE DEF S
  <2> QED
    BY <1>2, <1>3, CountingUp
<1>5. Len(l) \in S
  BY <1>1, <1>4
<1> QED
  BY <1>1, <1>5 DEF Good

\* Revisions that cannot follow each other are those of one record, one after the other.
LEMMA RevisionsFollow ==
  ASSUME NEW l, Kept(l), NEW i \in Export!Portable(l), NEW j \in Export!Portable(l),
         l[j].target = l[i].target, l[j].rev = l[i].rev + 1
  PROVE  Follows(l, i, j)
<1>1. /\ Len(l) \in Nat /\ i \in 1 .. Len(l) /\ j \in 1 .. Len(l) /\ EventKept(l, i) /\ EventKept(l, j)
      /\ DOMAIN l = 1 .. Len(l)
  BY PortableIs
<1>2. l[i].rev \in Nat \ {0} /\ l[j].rev \in Nat /\ l[j].rev # 1
  BY <1>1 DEF EventKept
<1>3. i < j
  <2>1. i # j
    BY <1>2
  <2>2. ~(j < i)
    <3> SUFFICES ASSUME j < i PROVE FALSE
      OBVIOUS
    <3>1. j \in Before(l, i)
      BY <1>1 DEF Before
    <3> QED
      BY <1>1, <1>2, <3>1 DEF EventKept
  <2> QED
    BY <1>1, <2>1, <2>2
<1>4. i \in Before(l, j)
  BY <1>1, <1>3 DEF Before
<1>5. PICK k : Follows(l, k, j) /\ l[j].rev = l[k].rev + 1
  BY <1>1, <1>2 DEF EventKept
<1>6. k \in 1 .. j - 1 /\ l[k].target = l[j].target /\ i <= k
  BY <1>4, <1>5 DEF Follows, Before
<1>7. i = k
  <2> SUFFICES ASSUME i < k PROVE FALSE
    BY <1>1, <1>6
  <2>1. k \in DOMAIN l /\ i \in Before(l, k)
    BY <1>1, <1>6 DEF Before
  <2>2. l[i].rev < l[k].rev /\ l[k].rev \in Nat
    BY <2>1 DEF Kept, EventKept
  <2> QED
    BY <1>2, <1>5, <2>2
<1> QED
  BY <1>5, <1>7

\* An export is refused for such revisions, and for no other reason.
LEMMA RefusedOnlyForRevisions ==
  ASSUME PartsAssumption, NEW l, Kept(l)
  PROVE  ~Export!Exports(l) <=> \E i, j \in Export!Portable(l) : Export!Unportable(l, i, j)
<1>1. Export!Exports(l) <=>
        \A j \in Export!Portable(l) : \A k : Follows(l, k, j) => ~Export!Unportable(l, k, j)
  <2>1. Export!Exports(l) <=> Export!P!Replays(Upto(l)[Len(l)])
    BY ExportedIsUpto DEF Export!Exports
  <2>2. ASSUME NEW j \in Export!Portable(l)
        PROVE  Export!P!Accepts(Upto(l)[j - 1], Export!Adapted(l[j], Upto(l)[j - 1])) <=>
                 \A k : Follows(l, k, j) => ~Export!Unportable(l, k, j)
    <3>1. j \in 1 .. Len(l) /\ Len(l) \in Nat
      BY PortableIs
    <3>2. j - 1 \in 0 .. Len(l)
      BY <3>1
    <3>3. Mirrors(l, j - 1, Upto(l)[j - 1])
      BY <3>2, UptoMirrors
    <3> QED
      BY <3>3, AcceptedUnlessUnportable
  <2> QED
    BY <2>1, <2>2, UptoReplays
<1>2. ASSUME NEW i \in Export!Portable(l), NEW j \in Export!Portable(l), Export!Unportable(l, i, j)
      PROVE  Follows(l, i, j)
  BY <1>2, RevisionsFollow DEF Export!Unportable
<1>3. ASSUME NEW j \in Export!Portable(l), NEW k, Follows(l, k, j) PROVE k \in Export!Portable(l)
  <2>1. j \in 1 .. Len(l) /\ DOMAIN l = 1 .. Len(l) /\ Len(l) \in Nat
    BY PortableIs
  <2>2. k \in DOMAIN l /\ l[k].target = l[j].target
    BY <1>3, <2>1 DEF Follows, Before
  <2> QED
    BY <2>2 DEF Export!Portable
<1> QED
  BY <1>1, <1>2, <1>3

\* The last event about a record is the one that deletes it, if one does.
LEMMA CurrentIs ==
  ASSUME NEW l, Kept(l), NEW i \in DOMAIN l
  PROVE  LET key == l[i].target
             c == Export!CurrentEvent(l, key)
         IN /\ c \in DOMAIN l /\ l[c].target = key /\ \A j \in DOMAIN l : l[j].target = key => j <= c
            /\ l[c].tomb <=> Export!Deleted(l, key)
<1> DEFINE key == l[i].target
           about == Export!About(l, key)
           c == Export!CurrentEvent(l, key)
<1>1. Len(l) \in Nat /\ DOMAIN l = 1 .. Len(l)
  BY PortableIs
<1>2. i \in about /\ about \subseteq 1 .. Len(l)
  BY <1>1 DEF Export!About
<1>3. c \in about /\ \A j \in about : j <= c
  <2>1. c = CHOOSE k \in about : \A j \in about : j <= k
    BY DEF Export!CurrentEvent
  <2> HIDE DEF about, c
  <2> QED
    BY <1>1, <1>2, <2>1, LastOf
<1>4. ASSUME NEW k \in about, k # c PROVE ~l[k].tomb
  <2>1. k \in Before(l, c) /\ c \in DOMAIN l
    BY <1>1, <1>2, <1>3, <1>4 DEF Before, Export!About
  <2> QED
    BY <2>1 DEF Kept, EventKept
<1> QED
  BY <1>3, <1>4 DEF Export!About, Export!Deleted

\* Replaying the export gives the last snapshot of each record that is left.
LEMMA ReplayGivesCurrent ==
  ASSUME NEW l, Kept(l)
  PROVE  Export!P!Entities(Export!Exported(l)) =
           {l[Export!CurrentEvent(l, l[i].target)].body :
              i \in {j \in DOMAIN l : l[j].target.type \in Export!P!EntityTypes
                                      /\ ~l[Export!CurrentEvent(l, l[j].target)].tomb}}
<1> DEFINE s == Upto(l)[Len(l)]
           Current(i) == Export!CurrentEvent(l, l[i].target)
<1>1. Len(l) \in Nat /\ DOMAIN l = 1 .. Len(l) /\ Mirrors(l, Len(l), s) /\ Export!Exported(l) = s
  <2>1. Len(l) \in Nat /\ DOMAIN l = 1 .. Len(l)
    BY PortableIs
  <2> QED
    BY <2>1, UptoMirrors, ExportedIsUpto
<1>2. {j \in DOMAIN l : l[j].target.type \in Export!P!EntityTypes /\ ~l[Current(j)].tomb} = Export!Portable(l)
  BY CurrentIs DEF Export!Portable
<1>3. ASSUME NEW i \in Export!Portable(l)
      PROVE  Export!P!Held(s, l[i].target) = l[Current(i)].body /\ l[Current(i)].body # Absent
  <2> DEFINE key == l[i].target
             c == Current(i)
             about == {j \in Export!Portable(l) : j <= Len(l) /\ l[j].target = key}
  <2>1. i \in DOMAIN l
    BY DEF Export!Portable
  <2>2. c \in DOMAIN l /\ l[c].target = key /\ \A j \in DOMAIN l : l[j].target = key => j <= c
    BY <2>1, CurrentIs
  <2>3. c \in Export!Portable(l) /\ c <= Len(l)
    BY <1>1, <2>2 DEF Export!Portable
  <2>4. c \in about /\ \A j \in about : j <= c
    BY <2>2, <2>3 DEF Export!Portable
  <2>5. \A m \in about : (\A j \in about : j <= m) => Export!P!Held(s, key) = Export!Sealed(l[m])
    <3> HIDE DEF key, s
    <3>1. LET some == {j \in Export!Portable(l) : j <= Len(l) /\ l[j].target = key} IN
          /\ some = {} => Export!P!Held(s, key) = Absent
          /\ \A j \in some : (\A m \in some : m <= j) =>
               /\ Export!P!Held(s, key) = Export!Sealed(l[j])
               /\ Export!P!LastAbout(s, key) \in DOMAIN s /\ s[Export!P!LastAbout(s, key)].id = j
      BY <1>1, HeldOf
    <3> QED
      BY <3>1
  <2>6. Canonical(l[c])
    BY <2>3, PortableIs DEF EventKept
  <2>7. Export!Sealed(l[c]) = l[c].body /\ l[c].body # Absent
    BY <2>6, SealedIsBody DEF Canonical, Passed
  <2> HIDE DEF about, c
  <2> QED
    BY <2>4, <2>5, <2>7 DEF c
<1> HIDE DEF s, Current
<1>4. \A k \in DOMAIN s : s[k].id \in Export!Portable(l) /\ s[k].target = l[s[k].id].target
  BY <1>1 DEF Mirrors, Stands
<1>5. \A i \in Export!Portable(l) : \E k \in DOMAIN s : s[k].target = l[i].target
  <2>1. \A i \in Export!Portable(l) : i <= Len(l)
    BY <1>1 DEF Export!Portable
  <2> QED
    BY <1>1, <2>1 DEF Mirrors, Stands
<1>6. Export!P!Entities(s) = {l[Current(i)].body : i \in Export!Portable(l)}
  <2>1. ASSUME NEW k \in DOMAIN s
        PROVE  Export!P!Held(s, s[k].target) \in {l[Current(i)].body : i \in Export!Portable(l)}
    BY <1>3, <1>4
  <2>2. ASSUME NEW i \in Export!Portable(l) PROVE l[Current(i)].body \in Export!P!Entities(s)
    <3>1. PICK k \in DOMAIN s : s[k].target = l[i].target
      BY <1>5
    <3> QED
      BY <1>3, <3>1 DEF Export!P!Entities
  <2> QED
    BY <2>1, <2>2 DEF Export!P!Entities
<1> QED
  BY <1>1, <1>2, <1>6 DEF Current

-----------------------------------------------------------------------------
(* The kernel keeps its ledger so                                           *)

IsEvent(e) ==
  e = [target |-> e.target, rev |-> e.rev, id |-> e.id, actor |-> e.actor, basis |-> e.basis,
       at |-> e.at, body |-> e.body, tomb |-> e.tomb, sup |-> e.sup]

\* With it: a record's revisions are counted by its events, and nothing is left of
\* the bodies of a record that was deleted.
KernelKept ==
  /\ Kept(log)
  /\ \A i \in DOMAIN log : IsEvent(log[i])
  /\ \A i \in DOMAIN log : Export!Deleted(log, log[i].target) => log[i].tomb \/ log[i].body = Absent
  /\ \A i \in DOMAIN log :
       log[Export!CurrentEvent(log, log[i].target)].rev = Export!Revision(log, log[i].target)

\* The instance's Cardinality is the one that the facts about finite sets are about.
LEMMA SameCardinality == \A S : Export!Cardinality(S) = Cardinality(S)
  BY DEF Export!Cardinality, Cardinality

\* e has the fields of d, and its body unless that was erased.
SameButErased(d, e) ==
  /\ IsEvent(e) /\ e.target = d.target /\ e.rev = d.rev /\ e.id = d.id /\ e.actor = d.actor
  /\ e.at = d.at /\ e.tomb = d.tomb /\ e.sup = d.sup /\ e.body \in {d.body, Absent}

\* m is l with e after it, the bodies of e's record erased if e deletes it.
Grows(l, m, e) ==
  /\ IsSequence(m) /\ Len(m) = Len(l) + 1 /\ m[Len(l) + 1] = e
  /\ \A i \in 1 .. Len(l) :
       /\ SameButErased(l[i], m[i])
       /\ IF e.tomb /\ l[i].target = e.target THEN m[i].body = Absent ELSE m[i] = l[i]

LEMMA MadeSequence ==
  ASSUME NEW n \in Nat, NEW f, f = [i \in 1 .. n |-> f[i]] PROVE IsSequence(f) /\ Len(f) = n
<1> DEFINE T == {f[i] : i \in 1 .. n}
<1>1. f \in [1 .. n -> T]
  OBVIOUS
<1>2. f \in Seq(T)
  <2> HIDE DEF T
  <2> QED
    BY <1>1, SeqDef
<1>3. DOMAIN f = 1 .. n
  OBVIOUS
<1> HIDE DEF T
<1> QED
  BY <1>2, <1>3, LenProperties DEF IsSequence

LEMMA Committed ==
  ASSUME KernelKept, NEW r \in Requests, Export!Change(r) \/ Export!Delete(r)
  PROVE  \E tomb \in BOOLEAN :
           /\ Grows(log, log', Export!KernelEvent(r, tomb)) /\ Export!Permitted(log, r) /\ export' = export
           /\ tomb \/ Export!CanonicalBody(r)
<1>1. Len(log) \in Nat /\ DOMAIN log = 1 .. Len(log) /\ IsSequence(log) /\ \A i \in 1 .. Len(log) : IsEvent(log[i])
  BY Positions DEF KernelKept, Kept
<1>2. ASSUME NEW i \in 1 .. Len(log) PROVE SameButErased(log[i], log[i])
  BY <1>1 DEF SameButErased
<1>3. ASSUME NEW i \in 1 .. Len(log) PROVE SameButErased(log[i], [log[i] EXCEPT !.body = Absent])
  <2> DEFINE d == log[i]
             e == [d EXCEPT !.body = Absent]
  <2>1. d = [target |-> d.target, rev |-> d.rev, id |-> d.id, actor |-> d.actor, basis |-> d.basis,
             at |-> d.at, body |-> d.body, tomb |-> d.tomb, sup |-> d.sup]
    BY <1>1 DEF IsEvent
  <2> HIDE DEF d
  <2>2. e = [target |-> d.target, rev |-> d.rev, id |-> d.id, actor |-> d.actor, basis |-> d.basis,
             at |-> d.at, body |-> Absent, tomb |-> d.tomb, sup |-> d.sup]
    BY <2>1
  <2> HIDE DEF e
  <2>3. SameButErased(d, e)
    BY <2>2 DEF SameButErased, IsEvent
  <2> QED
    BY <2>3 DEF d, e
<1>4. CASE Export!Change(r)
  <2>1. log' = Append(log, Export!KernelEvent(r, FALSE))
    BY <1>4 DEF Export!Change
  <2>2. ~Export!KernelEvent(r, FALSE).tomb
    BY DEF Export!KernelEvent
  <2>3. Grows(log, log', Export!KernelEvent(r, FALSE))
    <3> DEFINE e == Export!KernelEvent(r, FALSE)
    <3>1. /\ IsSequence(log') /\ Len(log') = Len(log) + 1 /\ log'[Len(log) + 1] = e
          /\ \A i \in 1 .. Len(log) : log'[i] = log[i]
      <4> HIDE DEF e
      <4>1. log' = Append(log, e)
        BY <2>1 DEF e
      <4> QED
        BY <1>1, <4>1, Appended
    <3> HIDE DEF e
    <3>2. Grows(log, log', e)
      BY <1>2, <2>2, <3>1 DEF Grows, e
    <3> QED
      BY <3>2 DEF e
  <2> QED
    BY <1>4, <2>3 DEF Export!Change
<1>5. CASE Export!Delete(r)
  <2> DEFINE e == Export!KernelEvent(r, TRUE)
             m == [i \in 1 .. Len(log) + 1 |->
                     IF i > Len(log) THEN e ELSE IF log[i].target = r.target THEN [log[i] EXCEPT !.body = Absent] ELSE log[i]]
  <2>1. log' = m
    BY <1>5 DEF Export!Delete
  <2>2. e.tomb /\ e.target = r.target
    BY DEF Export!KernelEvent
  <2> HIDE DEF e
  <2>3. IsSequence(m) /\ Len(m) = Len(log) + 1
    <3>1. Len(log) + 1 \in Nat /\ m = [i \in 1 .. Len(log) + 1 |-> m[i]]
      BY <1>1
    <3> HIDE DEF m
    <3> QED
      BY <3>1, MadeSequence
  <2>4. m[Len(log) + 1] = e
    <3>1. Len(log) + 1 \in 1 .. Len(log) + 1 /\ Len(log) + 1 > Len(log)
      BY <1>1
    <3> QED
      BY <3>1
  <2>5. ASSUME NEW i \in 1 .. Len(log)
        PROVE  /\ SameButErased(log[i], m[i])
               /\ IF e.tomb /\ log[i].target = e.target THEN m[i].body = Absent ELSE m[i] = log[i]
    <3>1. i \in 1 .. Len(log) + 1 /\ ~(i > Len(log))
      BY <1>1
    <3>2. m[i] = IF log[i].target = r.target THEN [log[i] EXCEPT !.body = Absent] ELSE log[i]
      BY <3>1
    <3>3. [log[i] EXCEPT !.body = Absent].body = Absent
      BY <1>1 DEF IsEvent
    <3> HIDE DEF m
    <3> QED
      BY <1>2, <1>3, <2>2, <3>2, <3>3
  <2>6. Grows(log, log', e)
    <3> HIDE DEF m
    <3> QED
      BY <2>1, <2>3, <2>4, <2>5 DEF Grows
  <2> QED
    BY <1>5, <2>6 DEF Export!Delete, e
<1> QED
  BY <1>4, <1>5

\* e is what r commits to l: it follows the record's last event, under the next revision.
Commits(l, e, r, tomb) ==
  LET about == Export!About(l, r.target) IN
  /\ IsEvent(e) /\ e.id = Len(l) + 1 /\ e.at \in Nat /\ e.rev \in Nat \ {0} /\ e.target = r.target
  /\ e.tomb = tomb /\ e.body = r.body /\ (Export!P!User(e.actor) => e.actor = Owner)
  /\ IsFiniteSet(about) /\ e.rev = Cardinality(about) + 1
  /\ \A k \in about : ~l[k].tomb /\ l[k].rev < e.rev
  /\ e.rev = 1 => about = {}
  /\ e.rev # 1 => \E k \in about : (\A j \in about : j <= k) /\ e.rev = l[k].rev + 1 /\ e.sup \in {Absent, k}

LEMMA CommittedFollows ==
  ASSUME PartsAssumption, KernelKept, NEW r \in Requests, Export!Permitted(log, r), NEW tomb \in BOOLEAN
  PROVE  Commits(log, Export!KernelEvent(r, tomb), r, tomb)
<1> DEFINE e == Export!KernelEvent(r, tomb)
           about == Export!About(log, r.target)
           c == Export!CurrentEvent(log, r.target)
<1>1. /\ Len(log) \in Nat /\ DOMAIN log = 1 .. Len(log) /\ Kept(log)
      /\ r.expected \in Nat /\ r.at \in Nat
  BY PortableIs DEF KernelKept, PartsAssumption, Export!ExportAssumption
<1>2. /\ IsEvent(e) /\ e.id = Len(log) + 1 /\ e.at = r.at /\ e.rev = r.expected + 1 /\ e.target = r.target
      /\ e.tomb = tomb /\ e.body = r.body /\ e.actor = r.actor /\ e.sup \in {Absent, c}
  BY DEF Export!KernelEvent, IsEvent
<1>3. IsFiniteSet(about) /\ Cardinality(about) = r.expected
  <2>1. about \subseteq 1 .. Len(log)
    BY <1>1 DEF Export!About
  <2>2. IsFiniteSet(1 .. Len(log))
    BY <1>1, FS_Interval
  <2>3. IsFiniteSet(about)
    BY <2>1, <2>2, FS_Subset
  <2>4. Export!Revision(log, r.target) = r.expected
    BY DEF Export!Permitted
  <2> QED
    BY <2>3, <2>4, SameCardinality DEF Export!Revision
<1>4. Export!P!User(e.actor) => e.actor = Owner
  BY <1>2 DEF Export!Permitted, Export!P!User
<1>5. \A k \in about : ~log[k].tomb
  BY DEF Export!Permitted, Export!Deleted
<1>6. ASSUME NEW k \in about
      PROVE  c \in about /\ (\A j \in about : j <= c) /\ log[c].rev = r.expected /\ log[k].rev < e.rev
  <2>1. k \in DOMAIN log /\ log[k].target = r.target
    BY DEF Export!About
  <2>2. c \in DOMAIN log /\ log[c].target = r.target /\ \A j \in DOMAIN log : log[j].target = r.target => j <= c
    BY <1>1, <2>1, CurrentIs
  <2>3. log[c].rev = r.expected
    BY <2>1 DEF KernelKept, Export!Permitted
  <2>4. k = c \/ log[k].rev < log[c].rev
    <3> SUFFICES ASSUME k # c PROVE log[k].rev < log[c].rev
      OBVIOUS
    <3>1. k \in Before(log, c)
      BY <1>1, <2>1, <2>2 DEF Before
    <3> QED
      BY <1>1, <2>2, <3>1 DEF Kept, EventKept
  <2>5. log[k].rev \in Nat
    BY <1>1, <2>1 DEF Kept, EventKept
  <2> HIDE DEF c, e
  <2> QED
    BY <1>1, <1>2, <2>2, <2>3, <2>4, <2>5 DEF Export!About
<1>7. e.rev = 1 => about = {}
  BY <1>1, <1>2, <1>3, FS_EmptySet
<1>8. e.rev # 1 => \E k \in about : (\A j \in about : j <= k) /\ e.rev = log[k].rev + 1 /\ e.sup \in {Absent, k}
  <2> SUFFICES ASSUME e.rev # 1 PROVE c \in about /\ (\A j \in about : j <= c) /\ e.rev = log[c].rev + 1
    BY <1>2
  <2>1. about # {}
    BY <1>1, <1>2, <1>3, FS_EmptySet
  <2> HIDE DEF about, c, e
  <2> QED
    BY <1>1, <1>2, <1>6, <2>1
<1> HIDE DEF about, c, e
<1> QED
  BY <1>1, <1>2, <1>3, <1>4, <1>5, <1>6, <1>7, <1>8 DEF Commits, about, e

LEMMA KernelKeptNext ==
  ASSUME PartsAssumption, KernelKept, NEW r \in Requests, Export!Change(r) \/ Export!Delete(r)
  PROVE  KernelKept'
<1> DEFINE n == Len(log) + 1
<1>1. PICK tomb \in BOOLEAN :
        /\ Grows(log, log', Export!KernelEvent(r, tomb)) /\ Export!Permitted(log, r)
        /\ tomb \/ Export!CanonicalBody(r)
  BY Committed
<1> DEFINE e == Export!KernelEvent(r, tomb)
           about == Export!About(log, r.target)
<1>2. /\ Len(log) \in Nat /\ n \in Nat /\ DOMAIN log = 1 .. Len(log) /\ DOMAIN log' = 1 .. n /\ IsSequence(log')
      /\ Kept(log) /\ log'[n] = e
      /\ \A i \in 1 .. Len(log) :
           /\ SameButErased(log[i], log'[i])
           /\ IF e.tomb /\ log[i].target = e.target THEN log'[i].body = Absent ELSE log'[i] = log[i]
  BY <1>1, PortableIs, Positions DEF KernelKept, Grows
<1>3. /\ IsEvent(e) /\ e.id = n /\ e.at \in Nat /\ e.rev \in Nat \ {0} /\ e.target = r.target
      /\ e.tomb = tomb /\ e.body = r.body /\ (Export!P!User(e.actor) => e.actor = Owner)
      /\ IsFiniteSet(about) /\ e.rev = Cardinality(about) + 1
      /\ \A k \in about : ~log[k].tomb /\ log[k].rev < e.rev
      /\ e.rev = 1 => about = {}
      /\ e.rev # 1 => \E k \in about : (\A j \in about : j <= k) /\ e.rev = log[k].rev + 1 /\ e.sup \in {Absent, k}
  <2>1. Commits(log, e, r, tomb)
    BY <1>1, CommittedFollows
  <2> HIDE DEF e
  <2> QED
    BY <2>1 DEF Commits
<1>4. e.actor = r.actor
  BY DEF Export!KernelEvent
<1> HIDE DEF e, n
<1>5. about = {k \in 1 .. Len(log) : log[k].target = e.target}
  BY <1>2, <1>3 DEF Export!About
<1>6. \A i \in 1 .. n : i \in 1 .. Len(log) \/ i = n
  BY <1>2 DEF n
<1>7. Before(log', n) = about
  BY <1>2, <1>5 DEF Before, SameButErased, n
<1>8. \A i \in 1 .. Len(log) : Before(log', i) = Before(log, i)
  BY <1>2 DEF Before, SameButErased
<1> HIDE DEF about
<1>9. ASSUME n \in Export!Portable(log') PROVE Canonical(e)
  <2>1. ~e.tomb /\ e.target.type \in Export!P!EntityTypes
    BY <1>2, <1>9 DEF Export!Portable, Export!Deleted, Export!About
  <2>2. Export!CanonicalBody(r)
    BY <1>1, <1>3, <2>1
  <2>3. /\ r.body # Absent /\ Export!P!EntityOK(r.body)
        /\ Export!P!EntityAuthority(r.body, r.actor, Export!AuthorityFor(r.actor), Absent) /\ Export!Bound(r)
    BY <1>3, <2>1, <2>2 DEF Export!CanonicalBody
  <2>4. r.body = [f \in DOMAIN r.body |-> r.body[f]] /\ {r.body.created, r.body.updated} \subseteq Nat
    BY <2>3 DEF PartsAssumption, Export!ExportAssumption
  <2>5. Export!P!KeyOf(r.body) = r.target /\ r.body.rev = e.rev /\ r.body.owner = Owner
    BY <2>3 DEF Export!Bound, e, Export!KernelEvent
  <2> QED
    BY <1>3, <1>4, <2>3, <2>4, <2>5 DEF Canonical, Passed
<1>10. ASSUME NEW i \in 1 .. Len(log), i \in Export!Portable(log') PROVE i \in Export!Portable(log) /\ log'[i] = log[i]
  <2>1. n \in 1 .. n
    BY <1>2 DEF n
  <2>2. log'[i] = log[i]
    BY <1>2, <1>10, <2>1 DEF Export!Portable, Export!Deleted, Export!About, SameButErased
  <2>3. \A k \in 1 .. Len(log) : k \in 1 .. n
    BY <1>2 DEF n
  <2>4. ~Export!Deleted(log, log[i].target)
    BY <1>2, <1>10, <2>2, <2>3 DEF Export!Portable, Export!Deleted, Export!About, SameButErased
  <2> QED
    BY <1>2, <1>10, <2>2, <2>4 DEF Export!Portable
<1>11. EventKept(log', n)
  <2>1. \A k \in about : k \in 1 .. Len(log) /\ ~log'[k].tomb /\ log'[k].rev = log[k].rev
    BY <1>2, <1>3, <1>5 DEF SameButErased
  <2>2. e.rev # 1 => \E k : Follows(log', k, n) /\ e.rev = log'[k].rev + 1 /\ e.sup \in {Absent, k}
    BY <1>3, <1>7, <2>1 DEF Follows
  <2> QED
    BY <1>2, <1>3, <1>7, <1>9, <2>1, <2>2 DEF EventKept
<1>12. ASSUME NEW i \in 1 .. Len(log) PROVE EventKept(log', i)
  <2>1. EventKept(log, i) /\ SameButErased(log[i], log'[i])
    BY <1>2 DEF Kept
  <2>2. \A k \in Before(log, i) : k \in 1 .. Len(log) /\ log'[k].tomb = log[k].tomb /\ log'[k].rev = log[k].rev
    BY <1>2 DEF Before, SameButErased
  <2>3. i \in Export!Portable(log') => Canonical(log'[i])
    BY <1>10, <2>1 DEF EventKept
  <2>4. log'[i].rev # 1 => \E k : Follows(log', k, i) /\ log'[i].rev = log'[k].rev + 1 /\ log'[i].sup \in {Absent, k}
    BY <1>8, <2>1, <2>2 DEF EventKept, Follows, SameButErased
  <2> QED
    BY <1>8, <2>1, <2>2, <2>3, <2>4 DEF EventKept, SameButErased
<1>13. Kept(log')
  BY <1>2, <1>6, <1>11, <1>12 DEF Kept
<1>14. \A i \in DOMAIN log' : IsEvent(log'[i])
  BY <1>2, <1>3, <1>6 DEF SameButErased
<1>15. ASSUME NEW i \in DOMAIN log'
       PROVE  log'[Export!CurrentEvent(log', log'[i].target)].rev = Export!Revision(log', log'[i].target)
  <2> DEFINE key == log'[i].target
             c == Export!CurrentEvent(log', key)
  <2>1. c \in DOMAIN log' /\ log'[c].target = key /\ \A j \in DOMAIN log' : log'[j].target = key => j <= c
    BY <1>13, CurrentIs
  <2>2. CASE key = e.target
    <3>1. c = n
      BY <1>2, <1>6, <2>1, <2>2
    <3>2. Export!About(log', key) = about \cup {n}
      BY <1>2, <1>5, <1>6, <2>2 DEF Export!About, SameButErased, n
    <3>3. n \notin about
      BY <1>2, <1>5 DEF n
    <3>4. Cardinality(about \cup {n}) = Cardinality(about) + 1
      BY <1>3, <3>3, FS_AddElement
    <3>5. log'[c].rev = Cardinality(about) + 1
      BY <1>2, <1>3, <3>1
    <3>6. log'[c].rev = Export!Revision(log', key)
      <4> HIDE DEF c, key
      <4> QED
        BY <3>2, <3>4, <3>5, SameCardinality DEF Export!Revision
    <3> QED
      BY <3>6
  <2>3. CASE key # e.target
    <3>1. i \in DOMAIN log /\ log[i].target = key
      BY <1>2, <1>6, <2>3 DEF SameButErased
    <3>2. Export!About(log', key) = Export!About(log, key)
      BY <1>2, <1>6, <2>3 DEF Export!About, SameButErased, n
    <3>3. c = Export!CurrentEvent(log, key)
      BY <3>2 DEF Export!CurrentEvent
    <3>4. c \in DOMAIN log /\ log'[c].rev = log[c].rev
      BY <1>2, <1>6, <2>1, <2>3 DEF SameButErased
    <3>5. log[c].rev = Export!Revision(log, key)
      BY <3>1, <3>3 DEF KernelKept
    <3> QED
      BY <3>2, <3>4, <3>5 DEF Export!Revision
  <2> QED
    BY <2>2, <2>3
<1>16. ASSUME NEW i \in DOMAIN log', Export!Deleted(log', log'[i].target) PROVE log'[i].tomb \/ log'[i].body = Absent
  <2>1. PICK k \in 1 .. n : log'[k].target = log'[i].target /\ log'[k].tomb
    BY <1>2, <1>16 DEF Export!Deleted, Export!About
  <2>2. CASE i = n
    <3>1. k \in 1 .. Len(log) => k \in about
      BY <1>2, <1>5, <2>1, <2>2 DEF SameButErased
    <3> QED
      BY <1>2, <1>3, <1>6, <2>1, <2>2, <3>1 DEF SameButErased
  <2>3. CASE i \in 1 .. Len(log) /\ k = n
    BY <1>2, <2>1, <2>3 DEF SameButErased
  <2>4. CASE i \in 1 .. Len(log) /\ k \in 1 .. Len(log)
    <3>1. SameButErased(log[i], log'[i]) /\ SameButErased(log[k], log'[k])
      BY <1>2, <2>4
    <3>2. Export!Deleted(log, log[i].target)
      BY <1>2, <2>1, <2>4, <3>1 DEF Export!Deleted, Export!About, SameButErased
    <3>3. log[i].tomb \/ log[i].body = Absent
      BY <1>2, <2>4, <3>2 DEF KernelKept
    <3> QED
      BY <3>1, <3>3 DEF SameButErased
  <2> QED
    BY <1>2, <1>6, <2>1, <2>2, <2>3, <2>4
<1> QED
  BY <1>13, <1>14, <1>15, <1>16 DEF KernelKept

-----------------------------------------------------------------------------
(* What the gateway has gathered                                            *)

\* By event n, l had the deletion of event i's record.
Erased(l, n, i) == \E k \in 1 .. n : l[k].target = l[i].target /\ l[k].tomb

\* b is what ReadBody keeps of event i: the body it was committed with, if the record
\* is the protocol's and was there when the last page was read.
BodyRead(l, n, b, i) ==
  \/ l[i].target.type = "run" \/ Erased(l, n, i)
  \/ l[i].target.type \in Export!P!EntityTypes /\ Passed(l[i], b) /\ l[i].body \in {Absent, b}

\* Why an export of the first n events may be refused.
Reasons(l, n) ==
  \/ \E i \in DOMAIN l : l[i].tomb /\ i > n
  \/ \E i \in DOMAIN l : l[i].target.type \notin Export!P!EntityTypes \cup {"run"}
  \/ \E i, j \in Export!Portable(SubSeq(l, 1, n)) : Export!Unportable(l, i, j)

GatherKept ==
  /\ export = [pc |-> export.pc, read |-> export.read, bodies |-> export.bodies, begun |-> export.begun]
  /\ export.read \in 0 .. Len(log)
  /\ IsSequence(export.bodies) /\ Len(export.bodies) <= export.read
  /\ \A i \in 1 .. Len(export.bodies) : BodyRead(log, export.read, export.bodies[i], i)
  /\ export.pc \in {"idle", "pages"} => export.bodies = <<>>
  /\ export.pc = "done" => Len(export.bodies) = export.read
  /\ export.pc = "refused" => Reasons(log, export.read)

\* e has the fields of d, and b for its body.
WithBody(d, e, b) ==
  /\ IsEvent(e) /\ e.target = d.target /\ e.rev = d.rev /\ e.id = d.id /\ e.actor = d.actor
  /\ e.at = d.at /\ e.tomb = d.tomb /\ e.sup = d.sup /\ e.body = b

LEMMA GatheredIs ==
  ASSUME KernelKept, GatherKept
  PROVE  LET g == Export!Gathered IN
         /\ IsSequence(g) /\ Len(g) = export.read /\ DOMAIN g = 1 .. export.read
         /\ Len(log) \in Nat /\ DOMAIN log = 1 .. Len(log) /\ export.read \in Nat
         /\ \A i \in 1 .. export.read :
              /\ i \in 1 .. Len(log)
              /\ WithBody(log[i], g[i], IF i \in 1 .. Len(export.bodies) THEN export.bodies[i] ELSE Absent)
<1> DEFINE g == Export!Gathered
           Body(i) == IF i \in DOMAIN export.bodies THEN export.bodies[i] ELSE Absent
<1>1. /\ Len(log) \in Nat /\ DOMAIN log = 1 .. Len(log) /\ export.read \in Nat
      /\ DOMAIN export.bodies = 1 .. Len(export.bodies)
      /\ \A i \in 1 .. export.read : i \in 1 .. Len(log)
  BY Positions DEF KernelKept, Kept, GatherKept
<1>2. g = [i \in 1 .. export.read |-> [log[i] EXCEPT !.body = Body(i)]]
  BY DEF Export!Gathered
<1> HIDE DEF g, Body
<1>3. IsSequence(g) /\ Len(g) = export.read
  <2>1. g = [i \in 1 .. export.read |-> g[i]]
    BY <1>2
  <2> QED
    BY <1>1, <2>1, MadeSequence
<1>4. ASSUME NEW i \in 1 .. export.read PROVE WithBody(log[i], g[i], Body(i))
  <2> DEFINE d == log[i]
             e == g[i]
  <2>1. e = [d EXCEPT !.body = Body(i)]
    BY <1>2
  <2>2. d = [target |-> d.target, rev |-> d.rev, id |-> d.id, actor |-> d.actor, basis |-> d.basis,
             at |-> d.at, body |-> d.body, tomb |-> d.tomb, sup |-> d.sup]
    BY <1>1 DEF KernelKept, IsEvent
  <2> HIDE DEF d, e
  <2>3. e = [target |-> d.target, rev |-> d.rev, id |-> d.id, actor |-> d.actor, basis |-> d.basis,
             at |-> d.at, body |-> Body(i), tomb |-> d.tomb, sup |-> d.sup]
    BY <2>1, <2>2
  <2>4. WithBody(d, e, Body(i))
    BY <2>3 DEF WithBody, IsEvent
  <2> QED
    BY <2>4 DEF d, e
<1> QED
  BY <1>1, <1>3, <1>4, Positions DEF g, Body

\* It is of the moment the last page was read, whatever was deleted since.
LEMMA GatheredPortable ==
  ASSUME KernelKept, GatherKept
  PROVE  LET kept == {i \in 1 .. export.read :
                        log[i].target.type \in Export!P!EntityTypes /\ ~Erased(log, export.read, i)} IN
         /\ Export!Portable(Export!Gathered) = kept
         /\ Export!Portable(SubSeq(log, 1, export.read)) = kept
         /\ \A i \in 1 .. export.read : Export!Deleted(Export!Gathered, log[i].target) <=> Erased(log, export.read, i)
<1> DEFINE g == Export!Gathered
           t == SubSeq(log, 1, export.read)
           kept == {i \in 1 .. export.read : log[i].target.type \in Export!P!EntityTypes /\ ~Erased(log, export.read, i)}
<1>1. DOMAIN g = 1 .. export.read /\ \A i \in 1 .. export.read : g[i].target = log[i].target /\ g[i].tomb = log[i].tomb
  BY GatheredIs DEF WithBody
<1>2. DOMAIN t = 1 .. export.read /\ \A i \in 1 .. export.read : t[i] = log[i]
  <2>1. IsSequence(log) /\ export.read \in 0 .. Len(log)
    BY DEF KernelKept, Kept, GatherKept
  <2>2. IsSequence(t) /\ Len(t) = export.read /\ \A i \in 1 .. export.read : t[i] = log[i]
    BY <2>1, Prefix
  <2> HIDE DEF t
  <2> QED
    BY <2>2, Positions
<1> HIDE DEF g, t
<1>3. \A i \in 1 .. export.read :
        /\ Export!Deleted(g, log[i].target) <=> Erased(log, export.read, i)
        /\ Export!Deleted(t, log[i].target) <=> Erased(log, export.read, i)
  BY <1>1, <1>2 DEF Export!Deleted, Export!About, Erased
<1>4. Export!Portable(g) = kept
  BY <1>1, <1>3 DEF Export!Portable
<1>5. Export!Portable(t) = kept
  BY <1>2, <1>3 DEF Export!Portable
<1> QED
  BY <1>3, <1>4, <1>5 DEF g, t

\* A body that is gone was erased, and its record's deletion is behind the pages.
LEMMA GoneIsDeleted ==
  ASSUME KernelKept, GatherKept, NEW i \in 1 .. export.read,
         log[i].target.type \in Export!P!EntityTypes, ~Erased(log, export.read, i), ~Canonical(log[i])
  PROVE  \E k \in DOMAIN log : log[k].tomb /\ k > export.read
<1>1. Len(log) \in Nat /\ DOMAIN log = 1 .. Len(log) /\ export.read \in Nat /\ i \in DOMAIN log
  BY GatheredIs
<1>2. i \notin Export!Portable(log)
  BY <1>1 DEF KernelKept, Kept, EventKept
<1>3. PICK k \in DOMAIN log : log[k].target = log[i].target /\ log[k].tomb
  BY <1>1, <1>2 DEF Export!Portable, Export!Deleted, Export!About
<1>4. ~(k <= export.read)
  BY <1>1, <1>3 DEF Erased
<1> QED
  BY <1>1, <1>3, <1>4

\* All bodies read, it has what the kernel's ledger keeps to.
LEMMA GatheredKept ==
  ASSUME KernelKept, GatherKept, Len(export.bodies) = export.read
  PROVE  Kept(Export!Gathered)
<1> DEFINE g == Export!Gathered
<1>1. /\ IsSequence(g) /\ DOMAIN g = 1 .. export.read
      /\ DOMAIN log = 1 .. Len(log) /\ export.read \in Nat /\ Len(log) \in Nat
      /\ \A i \in 1 .. export.read : i \in 1 .. Len(log) /\ WithBody(log[i], g[i], export.bodies[i])
  BY GatheredIs
<1>2. Export!Portable(g) = {i \in 1 .. export.read :
                        log[i].target.type \in Export!P!EntityTypes /\ ~Erased(log, export.read, i)}
  BY GatheredPortable
<1> HIDE DEF g
<1>3. ASSUME NEW i \in 1 .. export.read PROVE EventKept(g, i)
  <2>1. EventKept(log, i) /\ WithBody(log[i], g[i], export.bodies[i])
    BY <1>1 DEF KernelKept, Kept
  <2>2. \A k \in 1 .. i - 1 : k \in 1 .. export.read
    BY <1>1
  <2>3. Before(g, i) = Before(log, i)
    BY <1>1, <2>2 DEF Before, WithBody
  <2>4. \A k \in Before(log, i) : g[k].tomb = log[k].tomb /\ g[k].rev = log[k].rev
    BY <1>1, <2>2 DEF Before, WithBody
  <2>5. ASSUME i \in Export!Portable(g) PROVE Canonical(g[i])
    <3>1. log[i].target.type # "run"
      BY <1>2, <2>5 DEF Export!P!EntityTypes
    <3>2. Passed(log[i], export.bodies[i])
      BY <1>2, <2>5, <3>1 DEF GatherKept, BodyRead
    <3> QED
      BY <2>1, <3>2 DEF Canonical, Passed, WithBody
  <2>6. g[i].rev # 1 => \E k : Follows(g, k, i) /\ g[i].rev = g[k].rev + 1 /\ g[i].sup \in {Absent, k}
    BY <2>1, <2>3, <2>4 DEF EventKept, Follows, WithBody
  <2> QED
    BY <2>1, <2>3, <2>4, <2>5, <2>6 DEF EventKept, WithBody
<1> QED
  BY <1>1, <1>3 DEF Kept, g

\* The bodies read stay what they are, and so do the reasons to refuse.
LEMMA GatherKeptCommitted ==
  ASSUME PartsAssumption, KernelKept, GatherKept, NEW r \in Requests, Export!Change(r) \/ Export!Delete(r)
  PROVE  GatherKept'
<1> DEFINE n == export.read
           size == Len(log)
<1>1. PICK tomb \in BOOLEAN :
        /\ Grows(log, log', Export!KernelEvent(r, tomb)) /\ export' = export
  BY Committed
<1> DEFINE e == Export!KernelEvent(r, tomb)
<1>2. /\ IsSequence(log) /\ size \in Nat /\ DOMAIN log = 1 .. size /\ n \in 0 .. size
  BY Positions DEF KernelKept, Kept, GatherKept
<1>3. /\ IsSequence(log') /\ Len(log') = size + 1 /\ DOMAIN log' = 1 .. size + 1 /\ log'[size + 1] = e
      /\ \A i \in 1 .. size :
           /\ SameButErased(log[i], log'[i])
           /\ IF e.tomb /\ log[i].target = e.target THEN log'[i].body = Absent ELSE log'[i] = log[i]
  BY <1>1, Positions DEF Grows
<1> HIDE DEF e
<1>4. \A i \in 1 .. n : i \in 1 .. size
  BY <1>2
<1>5. \A i \in 1 .. n : Erased(log', n, i) <=> Erased(log, n, i)
  BY <1>3, <1>4 DEF Erased, SameButErased
<1>6. ASSUME NEW i \in 1 .. Len(export.bodies) PROVE BodyRead(log', n, export.bodies[i], i)
  <2>1. i \in 1 .. n /\ BodyRead(log, n, export.bodies[i], i)
    <3>1. Len(export.bodies) \in Nat /\ Len(export.bodies) <= n
      BY Positions DEF GatherKept
    <3> QED
      BY <1>2, <3>1 DEF GatherKept
  <2>2. SameButErased(log[i], log'[i])
    BY <1>3, <1>4, <2>1
  <2> QED
    BY <1>5, <2>1, <2>2 DEF BodyRead, Passed, SameButErased
<1>7. ASSUME Reasons(log, n) PROVE Reasons(log', n)
  <2>1. CASE \E i \in DOMAIN log : log[i].tomb /\ i > n
    <3>1. PICK i \in 1 .. size : log[i].tomb /\ i > n
      BY <1>2, <2>1
    <3>2. i \in 1 .. size + 1 /\ log'[i].tomb
      BY <1>2, <1>3, <3>1 DEF SameButErased
    <3> QED
      BY <1>3, <3>1, <3>2 DEF Reasons
  <2>2. CASE \E i \in DOMAIN log : log[i].target.type \notin Export!P!EntityTypes \cup {"run"}
    <3>1. PICK i \in 1 .. size : log[i].target.type \notin Export!P!EntityTypes \cup {"run"}
      BY <1>2, <2>2
    <3>2. i \in 1 .. size + 1 /\ log'[i].target = log[i].target
      BY <1>2, <1>3, <3>1 DEF SameButErased
    <3> QED
      BY <1>3, <3>1, <3>2 DEF Reasons
  <2>3. CASE \E i, j \in Export!Portable(SubSeq(log, 1, n)) : Export!Unportable(log, i, j)
    <3>1. CASE e.tomb
      <4>1. size + 1 \in DOMAIN log' /\ log'[size + 1].tomb /\ size + 1 > n
        BY <1>2, <1>3, <3>1
      <4> QED
        BY <4>1 DEF Reasons
    <3>2. CASE ~e.tomb
      <4>1. n \in 0 .. Len(log')
        BY <1>2, <1>3
      <4>2. /\ IsSequence(SubSeq(log, 1, n)) /\ Len(SubSeq(log, 1, n)) = n
            /\ \A i \in 1 .. n : SubSeq(log, 1, n)[i] = log[i]
        BY <1>2, Prefix
      <4>3. /\ IsSequence(SubSeq(log', 1, n)) /\ Len(SubSeq(log', 1, n)) = n
            /\ \A i \in 1 .. n : SubSeq(log', 1, n)[i] = log'[i]
        BY <1>3, <4>1, Prefix
      <4>4. SubSeq(log', 1, n) = SubSeq(log, 1, n)
        BY <1>3, <1>4, <3>2, <4>2, <4>3, SameSequence
      <4>5. PICK i, j \in Export!Portable(SubSeq(log, 1, n)) : Export!Unportable(log, i, j)
        BY <2>3
      <4>6. i \in 1 .. n /\ j \in 1 .. n
        BY <4>5, GatheredPortable
      <4>7. Export!Unportable(log', i, j)
        BY <1>3, <1>4, <3>2, <4>5, <4>6 DEF Export!Unportable
      <4> QED
        BY <4>4, <4>5, <4>7 DEF Reasons
    <3> QED
      BY <3>1, <3>2
  <2> QED
    BY <1>7, <2>1, <2>2, <2>3 DEF Reasons
<1>8. n \in 0 .. Len(log')
  BY <1>2, <1>3
<1> QED
  BY <1>1, <1>6, <1>7, <1>8 DEF GatherKept

LEMMA GatherKeptBegin == ASSUME KernelKept, GatherKept, Export!Begin PROVE GatherKept'
<1> DEFINE x == [pc |-> "pages", read |-> 0, bodies |-> <<>>, begun |-> export.begun + 1]
<1>1. export' = x /\ log' = log
  BY DEF Export!Begin
<1>2. Len(log) \in Nat /\ IsSequence(<<>>) /\ Len(<<>>) = 0
  BY Positions, EmptySeq DEF KernelKept, Kept, IsSequence
<1> QED
  BY <1>1, <1>2 DEF GatherKept

LEMMA GatherKeptPage == ASSUME PartsAssumption, KernelKept, GatherKept, Export!ReadPage PROVE GatherKept'
<1> DEFINE rest == Len(log) - export.read
<1>1. Len(log) \in Nat /\ export.read \in 0 .. Len(log) /\ PageSize \in Nat /\ rest \in Nat /\ export.bodies = <<>>
  BY Positions DEF KernelKept, Kept, GatherKept, Export!ReadPage, PartsAssumption, Export!ExportAssumption
<1>2. PICK more \in {rest, PageSize}, pc \in {"bodies", "pages"} :
        /\ export' = [export EXCEPT !.read = @ + more, !.pc = pc] /\ log' = log /\ more <= rest
  <2> DEFINE more == IF rest < PageSize THEN rest ELSE PageSize
             pc == IF rest < PageSize THEN "bodies" ELSE "pages"
  <2>1. export' = [export EXCEPT !.read = @ + more, !.pc = pc] /\ log' = log
    BY DEF Export!ReadPage
  <2>2. more \in {rest, PageSize} /\ more <= rest /\ pc \in {"bodies", "pages"}
    BY <1>1
  <2> HIDE DEF more, pc
  <2> QED
    BY <2>1, <2>2
<1>3. export' = [pc |-> pc, read |-> export.read + more, bodies |-> <<>>, begun |-> export.begun]
  BY <1>1, <1>2 DEF GatherKept
<1>4. IsSequence(<<>>) /\ Len(<<>>) = 0
  BY EmptySeq DEF IsSequence
<1>5. export.read + more \in 0 .. Len(log)
  <2>1. more \in Nat /\ more <= rest
    BY <1>1, <1>2
  <2>2. ASSUME NEW size \in Nat, NEW n \in 0 .. size, NEW k \in Nat, k <= size - n PROVE n + k \in 0 .. size
    BY <2>2
  <2> QED
    BY <1>1, <2>1, <2>2
<1> HIDE DEF rest
<1>6. /\ export'.pc = pc /\ export'.read = export.read + more /\ export'.bodies = <<>>
      /\ export' = [pc |-> export'.pc, read |-> export'.read, bodies |-> export'.bodies, begun |-> export'.begun]
  BY <1>3
<1>7. pc # "done" /\ pc # "refused" /\ Len(<<>>) <= export.read + more /\ 1 .. Len(<<>>) = {}
  BY <1>4, <1>5
<1> QED
  BY <1>2, <1>4, <1>5, <1>6, <1>7 DEF GatherKept

LEMMA GatherKeptBody == ASSUME PartsAssumption, KernelKept, GatherKept, Export!ReadBody PROVE GatherKept'
<1> DEFINE bodies == export.bodies
           n == export.read
           i == Len(bodies) + 1
           body == log[i].body
<1>1. /\ export.pc = "bodies" /\ Len(bodies) < n /\ Len(bodies) \in Nat /\ n \in Nat /\ i \in 1 .. n
      /\ n \in 0 .. Len(log) /\ IsSequence(bodies) /\ log' = log
      /\ Len(log) \in Nat /\ DOMAIN log = 1 .. Len(log)
      /\ export = [pc |-> export.pc, read |-> export.read, bodies |-> export.bodies, begun |-> export.begun]
      /\ \A k \in 1 .. Len(bodies) : BodyRead(log, n, bodies[k], k)
  <2>1. /\ export.pc = "bodies" /\ Len(bodies) < n /\ log' = log
    BY DEF Export!ReadBody
  <2>2. /\ Len(bodies) \in Nat /\ n \in 0 .. Len(log) /\ IsSequence(bodies)
        /\ Len(log) \in Nat /\ DOMAIN log = 1 .. Len(log)
        /\ export = [pc |-> export.pc, read |-> export.read, bodies |-> export.bodies, begun |-> export.begun]
        /\ \A k \in 1 .. Len(bodies) : BodyRead(log, n, bodies[k], k)
    BY Positions DEF KernelKept, Kept, GatherKept
  <2> QED
    BY <2>1, <2>2
<1>2. Export!Skipped(i) <=> log[i].target.type = "run" \/ Erased(log, n, i)
  BY <1>1, GatheredPortable DEF Export!Skipped
<1>3. ASSUME NEW b, BodyRead(log, n, b, i), export' = [export EXCEPT !.bodies = Append(@, b)]
      PROVE  GatherKept'
  <2>1. export' = [pc |-> "bodies", read |-> n, bodies |-> Append(bodies, b), begun |-> export.begun]
    BY <1>1, <1>3
  <2>2. /\ IsSequence(Append(bodies, b)) /\ Len(Append(bodies, b)) = i /\ Append(bodies, b)[i] = b
        /\ \A k \in 1 .. Len(bodies) : Append(bodies, b)[k] = bodies[k]
    BY <1>1, Appended
  <2>3. \A k \in 1 .. i : k \in 1 .. Len(bodies) \/ k = i
    BY <1>1
  <2>4. \A k \in 1 .. i : BodyRead(log, n, Append(bodies, b)[k], k)
    BY <1>1, <1>3, <2>2, <2>3
  <2>5. i <= n
    BY <1>1
  <2> HIDE DEF i, n, bodies
  <2>6. /\ export'.pc = "bodies" /\ export'.read = n /\ export'.bodies = Append(bodies, b)
        /\ export' = [pc |-> export'.pc, read |-> export'.read, bodies |-> export'.bodies, begun |-> export'.begun]
    BY <2>1
  <2> QED
    BY <1>1, <2>2, <2>4, <2>5, <2>6 DEF GatherKept
<1>4. CASE Export!Skipped(i)
  <2>1. export' = [export EXCEPT !.bodies = Append(@, Absent)]
    BY <1>4 DEF Export!ReadBody
  <2>2. BodyRead(log, n, Absent, i)
    BY <1>2, <1>4 DEF BodyRead
  <2> QED
    BY <1>3, <2>1, <2>2
<1>5. CASE /\ ~Export!Skipped(i)
           /\ body # Absent /\ log[i].target.type \in Export!P!EntityTypes /\ Export!P!EntityOK(body)
  <2>1. export' = [export EXCEPT !.bodies = Append(@, body)]
    BY <1>5 DEF Export!ReadBody
  <2>2. BodyRead(log, n, body, i)
    <3>1. i \in DOMAIN log /\ ~log[i].tomb
      BY <1>1, <1>2, <1>5 DEF Erased
    <3>2. ~Export!Deleted(log, log[i].target)
      BY <1>5, <3>1 DEF KernelKept
    <3>3. Canonical(log[i])
      BY <1>5, <3>1, <3>2 DEF KernelKept, Kept, EventKept, Export!Portable
    <3> QED
      BY <1>5, <3>3 DEF Canonical, BodyRead
  <2> QED
    BY <1>3, <2>1, <2>2
<1>6. CASE /\ ~Export!Skipped(i)
           /\ ~(body # Absent /\ log[i].target.type \in Export!P!EntityTypes /\ Export!P!EntityOK(body))
  <2>1. export' = [export EXCEPT !.pc = "refused"]
    BY <1>6 DEF Export!ReadBody
  <2>2. Reasons(log, n)
    <3>1. CASE log[i].target.type \notin Export!P!EntityTypes
      <4>1. i \in DOMAIN log
        BY <1>1
      <4> QED
        BY <1>2, <1>6, <3>1, <4>1 DEF Reasons
    <3>2. CASE log[i].target.type \in Export!P!EntityTypes
      <4>1. ~Canonical(log[i])
        BY <1>6, <3>2 DEF Canonical, Passed
      <4>2. \E k \in DOMAIN log : log[k].tomb /\ k > n
        BY <1>1, <1>2, <1>6, <3>2, <4>1, GoneIsDeleted
      <4> QED
        BY <4>2 DEF Reasons
    <3> QED
      BY <3>1, <3>2
  <2>3. export' = [pc |-> "refused", read |-> n, bodies |-> bodies, begun |-> export.begun]
    BY <1>1, <2>1
  <2> HIDE DEF i, n, bodies
  <2> QED
    BY <1>1, <2>2, <2>3 DEF GatherKept
<1> QED
  BY <1>4, <1>5, <1>6

\* What Finish refuses is refused for one of the reasons.
LEMMA FinishReasons ==
  ASSUME PartsAssumption, KernelKept, GatherKept, Len(export.bodies) = export.read, ~Export!Exports(Export!Gathered)
  PROVE  Reasons(log, export.read)
<1> DEFINE g == Export!Gathered
           n == export.read
           t == SubSeq(log, 1, n)
<1>1. PICK i \in Export!Portable(g), j \in Export!Portable(g) : Export!Unportable(g, i, j)
  BY GatheredKept, RefusedOnlyForRevisions
<1>2. i \in Export!Portable(t) /\ j \in Export!Portable(t)
  BY <1>1, GatheredPortable
<1>3. /\ i \in 1 .. n /\ log[i].target.type \in Export!P!EntityTypes /\ ~Erased(log, n, i)
      /\ j \in 1 .. n /\ log[j].target.type \in Export!P!EntityTypes /\ ~Erased(log, n, j)
  BY <1>1, GatheredPortable
<1>4. CASE Canonical(log[i]) /\ Canonical(log[j])
  <2>1. /\ WithBody(log[i], g[i], export.bodies[i]) /\ BodyRead(log, n, export.bodies[i], i)
        /\ WithBody(log[j], g[j], export.bodies[j]) /\ BodyRead(log, n, export.bodies[j], j)
    <3>1. i \in 1 .. Len(export.bodies) /\ j \in 1 .. Len(export.bodies)
      BY <1>3
    <3> QED
      BY <1>3, <3>1, GatheredIs DEF GatherKept
  <2>2. log[i].body = export.bodies[i] /\ log[j].body = export.bodies[j]
    BY <1>3, <1>4, <2>1 DEF BodyRead, Canonical, Passed, Export!P!EntityTypes
  <2>3. Export!Unportable(log, i, j)
    <3> HIDE DEF g
    <3> QED
      BY <1>1, <2>1, <2>2 DEF Export!Unportable, WithBody
  <2> QED
    BY <1>2, <2>3 DEF Reasons
<1>5. CASE ~Canonical(log[i]) \/ ~Canonical(log[j])
  <2>1. \E k \in DOMAIN log : log[k].tomb /\ k > n
    BY <1>3, <1>5, GoneIsDeleted
  <2> QED
    BY <2>1 DEF Reasons
<1> QED
  BY <1>4, <1>5

LEMMA GatherKeptFinish == ASSUME PartsAssumption, KernelKept, GatherKept, Export!Finish PROVE GatherKept'
<1>1. log' = log /\ Len(export.bodies) = export.read
  BY DEF Export!Finish
<1>2. PICK pc \in {"done", "refused"} :
        export' = [export EXCEPT !.pc = pc] /\ (pc = "refused" => ~Export!Exports(Export!Gathered))
  <2>1. export' = [export EXCEPT !.pc = IF Export!Exports(Export!Gathered) THEN "done" ELSE "refused"]
    BY DEF Export!Finish
  <2> QED
    BY <2>1
<1>3. pc = "refused" => Reasons(log, export.read)
  BY <1>1, <1>2, FinishReasons
<1>4. export' = [pc |-> pc, read |-> export.read, bodies |-> export.bodies, begun |-> export.begun]
  BY <1>2 DEF GatherKept
<1> QED
  BY <1>1, <1>2, <1>3, <1>4 DEF GatherKept

\* What it gives is of the moment it says.
LEMMA DoneIsOfOneMoment ==
  ASSUME KernelKept, GatherKept, export.pc = "done"
  PROVE  LET out == Export!Exported(Export!Gathered) IN
         /\ {out[k].id : k \in DOMAIN out} = Export!Portable(SubSeq(log, 1, export.read))
         /\ \A k \in DOMAIN out : log[out[k].id].body # Absent => out[k].entity = Export!Sealed(log[out[k].id])
<1> DEFINE g == Export!Gathered
           out == Export!Exported(g)
<1>1. Len(export.bodies) = export.read /\ export.read \in Nat /\ Kept(g) /\ Len(g) = export.read /\ DOMAIN g = 1 .. export.read
  BY GatheredKept, GatheredIs DEF GatherKept
<1>2. Mirrors(g, Len(g), out)
  <2> HIDE DEF g
  <2>1. Len(g) \in 0 .. Len(g)
    BY <1>1
  <2> QED
    BY <1>1, <2>1, UptoMirrors, ExportedIsUpto
<1>3. \A i \in Export!Portable(g) : i \in 1 .. export.read /\ i <= Len(g)
  BY <1>1 DEF Export!Portable
<1> HIDE DEF out
<1>4. {out[k].id : k \in DOMAIN out} = Export!Portable(g)
  <2> HIDE DEF g
  <2> QED
    BY <1>2, <1>3 DEF Mirrors
<1>5. ASSUME NEW k \in DOMAIN out, log[out[k].id].body # Absent PROVE out[k].entity = Export!Sealed(log[out[k].id])
  <2> DEFINE i == out[k].id
  <2>1. i \in Export!Portable(g) /\ out[k].entity = Export!Sealed(g[i])
    BY <1>2 DEF Mirrors, Stands
  <2>2. i \in 1 .. export.read /\ log[i].target.type \in Export!P!EntityTypes /\ ~Erased(log, export.read, i)
    BY <2>1, GatheredPortable
  <2>3. WithBody(log[i], g[i], export.bodies[i]) /\ BodyRead(log, export.read, export.bodies[i], i)
    <3>1. i \in 1 .. Len(export.bodies)
      BY <1>1, <2>2
    <3> QED
      BY <2>2, <3>1, GatheredIs DEF GatherKept
  <2>4. log[i].body = export.bodies[i]
    BY <1>5, <2>2, <2>3 DEF BodyRead, Export!P!EntityTypes
  <2>5. g[i].body = log[i].body /\ g[i].target = log[i].target /\ g[i].rev = log[i].rev
    BY <2>3, <2>4 DEF WithBody
  <2> HIDE DEF i, g
  <2> QED
    BY <2>1, <2>5 DEF Export!Sealed, i
<1> QED
  BY <1>4, <1>5, GatheredPortable DEF out

-----------------------------------------------------------------------------
(* The export's theorems                                                    *)

PartsKept == part \in ExportParts => KernelKept /\ GatherKept

LEMMA PartsKeptInit == ASSUME PartsInit PROVE PartsKept
<1> SUFFICES ASSUME part \in ExportParts PROVE KernelKept /\ GatherKept
  BY DEF PartsKept
<1>1. log = <<>> /\ export = [pc |-> "idle", read |-> 0, bodies |-> <<>>, begun |-> 0]
  BY DEF PartsInit, Export!Init
<1>2. IsSequence(<<>>) /\ DOMAIN <<>> = {} /\ Len(<<>>) = 0 /\ 1 .. Len(<<>>) = {}
  BY EmptySeq DEF IsSequence
<1>3. KernelKept
  BY <1>1, <1>2 DEF KernelKept, Kept
<1>4. GatherKept
  BY <1>1, <1>2 DEF GatherKept
<1> QED
  BY <1>3, <1>4

LEMMA PartsKeptNext == ASSUME PartsKept, [PartsNext]_partsVars PROVE PartsKept'
<1>1. part' = part
  BY DEF PartsNext, partsVars
<1> SUFFICES ASSUME part \in ExportParts PROVE (KernelKept /\ GatherKept)'
  BY <1>1 DEF PartsKept
<1>2. KernelKept /\ GatherKept
  BY DEF PartsKept
<1>3. ASSUME log' = log PROVE KernelKept'
  BY <1>2, <1>3 DEF KernelKept
<1>4. CASE PartsNext
  <2>1. Export!Next
    BY <1>4 DEF PartsNext, LedgerParts, ExportParts, RunParts
  <2>2. ASSUME NEW r \in Requests, Export!Change(r) \/ Export!Delete(r) PROVE (KernelKept /\ GatherKept)'
    BY <1>2, <2>2, PartsAssumption, KernelKeptNext, GatherKeptCommitted
  <2>3. ASSUME Export!Begin \/ Export!ReadPage \/ Export!ReadBody \/ Export!Finish PROVE (KernelKept /\ GatherKept)'
    <3>1. log' = log
      BY <2>3 DEF Export!Begin, Export!ReadPage, Export!ReadBody, Export!Finish
    <3> QED
      BY <1>2, <1>3, <2>3, <3>1, PartsAssumption, GatherKeptBegin, GatherKeptPage, GatherKeptBody, GatherKeptFinish
  <2> QED
    BY <2>1, <2>2, <2>3 DEF Export!Next
<1>5. CASE UNCHANGED partsVars
  <2>1. log' = log /\ export' = export
    BY <1>5 DEF partsVars
  <2>2. GatherKept'
    BY <1>2, <2>1 DEF GatherKept
  <2> QED
    BY <1>3, <2>1, <2>2
<1> QED
  BY <1>4, <1>5

\* An export is refused for dates and retention alone, replaying it gives what the kernel
\* holds, and one read while the kernel goes on is of one moment.
THEOREM ExportsAlwaysHold == PartsSpec => []ExportsHold
<1>1. PartsInit => PartsKept
  BY PartsKeptInit
<1>2. PartsKept /\ [PartsNext]_partsVars => PartsKept'
  BY PartsKeptNext
<1>3. PartsKept => ExportsHold
  <2> SUFFICES ASSUME KernelKept, GatherKept
               PROVE  Export!RefusedOnlyForDates /\ Export!ExportIsWhatIsHeld /\ Export!ExportIsOfOneMoment
    BY DEF PartsKept, ExportsHold
  <2>1. Kept(log)
    BY DEF KernelKept
  <2>2. Export!RefusedOnlyForDates
    BY <2>1, PartsAssumption, RefusedOnlyForRevisions DEF Export!RefusedOnlyForDates
  <2>3. Export!ExportIsWhatIsHeld
    BY <2>1, ReplayGivesCurrent DEF Export!ExportIsWhatIsHeld
  <2>4. export.pc = "refused" => Reasons(log, export.read)
    BY DEF GatherKept
  <2>5. Export!ExportIsOfOneMoment
    <3> DEFINE out == Export!Exported(Export!Gathered)
               then == SubSeq(log, 1, export.read)
    <3>1. export.pc = "done" =>
            /\ {out[n].id : n \in DOMAIN out} = Export!Portable(then)
            /\ \A n \in DOMAIN out : log[out[n].id].body # Absent => out[n].entity = Export!Sealed(log[out[n].id])
      BY DoneIsOfOneMoment
    <3>2. export.pc = "refused" =>
            \/ \E i \in DOMAIN log : log[i].tomb /\ i > export.read
            \/ \E i \in DOMAIN log : log[i].target.type \notin Export!P!EntityTypes \cup {"run"}
            \/ \E i, j \in Export!Portable(then) : Export!Unportable(log, i, j)
      BY <2>4, Zenon DEF Reasons
    <3> QED
      BY <3>1, <3>2, Zenon DEF Export!ExportIsOfOneMoment
  <2> QED
    BY <2>2, <2>3, <2>5
<1> QED
  BY <1>1, <1>2, <1>3, PTL DEF PartsSpec

\* With nothing deleted, one more event leaves the portable ones before it as they were.
LEMMA Continued ==
  ASSUME NEW l, Kept(l), NEW e, \A i \in DOMAIN l : ~l[i].tomb, ~e.tomb
  PROVE  SubSeq(Export!Exported(Append(l, e)), 1, Len(Export!Exported(l))) = Export!Exported(l)
<1> DEFINE m == Append(l, e)
           n == Len(l)
           S == {k \in Nat : k <= n => Upto(m)[k] = Upto(l)[k]}
           s == Upto(l)[n]
<1>1. /\ IsSequence(l) /\ n \in Nat /\ DOMAIN l = 1 .. n /\ Len(m) = n + 1 /\ DOMAIN m = 1 .. n + 1
      /\ m[n + 1] = e /\ \A k \in 1 .. n : m[k] = l[k]
  <2>1. IsSequence(l)
    BY DEF Kept
  <2> QED
    BY <2>1, Appended, Positions
<1> HIDE DEF m, n
<1>2. \A k \in 1 .. n : (k \in Export!Portable(m) <=> k \in Export!Portable(l))
  <2>1. \A k \in DOMAIN m : ~m[k].tomb
    <3>1. \A k \in DOMAIN m : k \in 1 .. n \/ k = n + 1
      BY <1>1
    <3> QED
      BY <1>1, <3>1
  <2>2. \A key : ~Export!Deleted(m, key) /\ ~Export!Deleted(l, key)
    BY <2>1 DEF Export!Deleted, Export!About
  <2>3. \A k \in 1 .. n : k \in DOMAIN m /\ k \in DOMAIN l
    BY <1>1
  <2> QED
    BY <1>1, <2>2, <2>3 DEF Export!Portable
<1>3. /\ Upto(l)[0] = <<>> /\ \A k \in 1 .. n : Upto(l)[k] = Extended(l, Upto(l)[k - 1], k)
      /\ Upto(m)[0] = <<>> /\ \A k \in 1 .. n + 1 : Upto(m)[k] = Extended(m, Upto(m)[k - 1], k)
  <2>1. Len(l) \in Nat /\ Len(m) \in Nat
    BY <1>1 DEF n
  <2> QED
    BY <1>1, <2>1, UptoIs DEF n
<1>4. 0 \in S
  BY <1>3
<1>5. ASSUME NEW k \in Nat, k \in S PROVE k + 1 \in S
  <2> SUFFICES ASSUME k + 1 <= n PROVE Upto(m)[k + 1] = Upto(l)[k + 1]
    OBVIOUS
  <2>1. k + 1 \in 1 .. n /\ k + 1 \in 1 .. n + 1 /\ k + 1 - 1 = k /\ Upto(m)[k] = Upto(l)[k]
    BY <1>1, <1>5
  <2> QED
    BY <1>1, <1>2, <1>3, <2>1 DEF Extended
<1>6. Nat \subseteq S
  <2> HIDE DEF S
  <2> QED
    BY <1>4, <1>5, CountingUp
<1>7. Upto(m)[n] = s /\ n + 1 \in 1 .. n + 1 /\ n + 1 - 1 = n
  BY <1>1, <1>6
<1>8. IsSequence(s)
  <2>1. n \in 0 .. Len(l)
    BY <1>1 DEF n
  <2> QED
    BY <2>1, UptoMirrors DEF Mirrors
<1>9. Export!Exported(l) = s /\ Export!Exported(m) = Extended(m, s, n + 1)
  <2>1. Upto(m)[n + 1] = Extended(m, s, n + 1)
    <3> HIDE DEF s, S
    <3>1. \A k \in 1 .. n + 1 : Upto(m)[k] = Extended(m, Upto(m)[k - 1], k)
      BY <1>3
    <3>2. ASSUME NEW k \in 1 .. n + 1, k - 1 = n PROVE Upto(m)[k] = Extended(m, Upto(m)[n], k)
      BY <3>1, <3>2
    <3> QED
      BY <1>1, <1>7, <3>2
  <2>2. Export!Exported(m) = Upto(m)[n + 1]
    BY <1>1, ExportedIsUpto
  <2>3. Export!Exported(l) = s
    BY ExportedIsUpto DEF n
  <2> QED
    BY <2>1, <2>2, <2>3
<1> HIDE DEF s
<1>10. SubSeq(s, 1, Len(s)) = s /\ Len(s) \in 0 .. Len(s)
  BY <1>8, SubSeqFull, Positions DEF IsSequence
<1>11. SubSeq(Extended(m, s, n + 1), 1, Len(s)) = s
  BY <1>8, <1>10, Appended DEF Extended
<1> QED
  BY <1>9, <1>11 DEF m

\* As long as nothing is deleted, a later export continues an earlier one.
THEOREM ExportsAlwaysContinue == PartsSpec => ExportsContinue
<1> DEFINE Continues == (part \in ExportParts) /\ (\A i \in DOMAIN log' : ~log'[i].tomb)
                          => SubSeq(Export!Exported(log'), 1, Len(Export!Exported(log))) = Export!Exported(log)
<1>1. PartsInit => PartsKept
  BY PartsKeptInit
<1>2. PartsKept /\ [PartsNext]_partsVars => PartsKept'
  BY PartsKeptNext
<1>3. PartsKept /\ [PartsNext]_partsVars => [Continues]_partsVars
  <2> SUFFICES ASSUME PartsKept, PartsNext, part \in ExportParts, \A i \in DOMAIN log' : ~log'[i].tomb
               PROVE  SubSeq(Export!Exported(log'), 1, Len(Export!Exported(log))) = Export!Exported(log)
    OBVIOUS
  <2>1. KernelKept /\ Kept(log) /\ Export!Next
    BY DEF PartsKept, KernelKept, PartsNext, LedgerParts, ExportParts, RunParts
  <2>2. ASSUME NEW r \in Requests, Export!Change(r) \/ Export!Delete(r)
        PROVE  \E e : ~e.tomb /\ log' = Append(log, e)
    <3>1. PICK e : Grows(log, log', e)
      BY <2>1, <2>2, Committed
    <3>2. /\ IsSequence(log) /\ IsSequence(log') /\ Len(log) \in Nat /\ Len(log') = Len(log) + 1
          /\ DOMAIN log = 1 .. Len(log) /\ DOMAIN log' = 1 .. Len(log) + 1 /\ log'[Len(log) + 1] = e
      BY <2>1, <3>1, Positions DEF Kept, Grows
    <3>3. ~e.tomb
      BY <3>2
    <3>4. \A i \in 1 .. Len(log) : log'[i] = log[i]
      BY <3>1, <3>3 DEF Grows
    <3>5. /\ IsSequence(Append(log, e)) /\ Len(Append(log, e)) = Len(log) + 1 /\ Append(log, e)[Len(log) + 1] = e
          /\ \A i \in 1 .. Len(log) : Append(log, e)[i] = log[i]
      BY <3>2, Appended
    <3>6. \A i \in 1 .. Len(log) + 1 : log'[i] = Append(log, e)[i]
      <4>1. \A i \in 1 .. Len(log) + 1 : i \in 1 .. Len(log) \/ i = Len(log) + 1
        BY <3>2
      <4> QED
        BY <3>2, <3>4, <3>5, <4>1
    <3>7. log' = Append(log, e)
      BY <3>2, <3>5, <3>6, SameSequence
    <3> QED
      BY <3>3, <3>7
  <2>3. CASE \E e : ~e.tomb /\ log' = Append(log, e)
    <3>1. PICK e : ~e.tomb /\ log' = Append(log, e)
      BY <2>3
    <3>2. \A i \in DOMAIN log : ~log[i].tomb
      <4>1. /\ IsSequence(log) /\ Len(log) \in Nat /\ DOMAIN log = 1 .. Len(log) /\ DOMAIN log' = 1 .. Len(log) + 1
            /\ \A i \in 1 .. Len(log) : log'[i] = log[i]
        BY <2>1, <3>1, Appended, Positions DEF Kept
      <4> QED
        BY <4>1
    <3> QED
      BY <2>1, <3>1, <3>2, Continued
  <2>4. CASE log' = log
    <3>1. IsSequence(Export!Exported(log))
      <4>1. Len(log) \in 0 .. Len(log)
        BY <2>1, PortableIs
      <4> QED
        BY <2>1, <4>1, UptoMirrors, ExportedIsUpto DEF Mirrors
    <3>2. SubSeq(Export!Exported(log), 1, Len(Export!Exported(log))) = Export!Exported(log)
      BY <3>1, SubSeqFull DEF IsSequence
    <3> QED
      BY <2>4, <3>2
  <2>5. (\E r \in Requests : Export!Change(r) \/ Export!Delete(r)) \/ log' = log
    BY <2>1 DEF Export!Next, Export!Begin, Export!ReadPage, Export!ReadBody, Export!Finish
  <2> QED
    BY <2>2, <2>3, <2>4, <2>5
<1>4. (PartsSpec => [][Continues]_partsVars) => (PartsSpec => ExportsContinue)
  BY DEF ExportsContinue
<1> QED
  BY <1>1, <1>2, <1>3, <1>4, PTL DEF PartsSpec
-----------------------------------------------------------------------------
(* A run's record, as a function of the events it is made from               *)

\* Events whose numbers are their own.
Numbered(events) ==
  /\ IsFiniteSet(events) /\ \A e \in events : e.seq \in Nat /\ e.id \in 1 .. MaxPosts
  /\ \A d, e \in events : d.seq = e.seq => d = e

LEMMA RunsCardinality == \A S : Runs!Cardinality(S) = Cardinality(S)
  BY DEF Runs!Cardinality, Cardinality

\* The numbers of the events are those from k + 1 to k + Cardinality(events).
Continues(events, k) ==
  /\ Numbered(events)
  /\ \A e \in events : e.seq \in k + 1 .. k + Cardinality(events)
  /\ \A n \in 1 .. Cardinality(events) : \E e \in events : e.seq = k + n

LEMMA Below ==
  ASSUME NEW events, Numbered(events), NEW e \in events
  PROVE  {d \in events : Runs!Before(d, e)} = {d \in events : d.seq < e.seq}
<1>1. \A d \in events : Runs!Before(d, e) <=> d.seq < e.seq
  <2> TAKE d \in events
  <2>1. CASE d.seq = e.seq
    <3>1. d = e /\ e.seq \in Nat
      BY <2>1 DEF Numbered
    <3>2. ~(e.seq < e.seq) /\ ~(e.id < e.id)
      BY <3>1 DEF Numbered
    <3>3. ~Runs!Before(d, e)
      BY <3>1, <3>2 DEF Runs!Before
    <3> QED
      BY <3>1, <3>2, <3>3
  <2> QED
    BY <2>1 DEF Runs!Before
<1> QED
  BY <1>1

\* Events that are numbered from k + 1 to k + m are m events.
LEMMA Counted ==
  ASSUME NEW k \in Nat, NEW m \in Nat, NEW events, Numbered(events),
         \A e \in events : e.seq \in k + 1 .. k + m, \A n \in 1 .. m : \E e \in events : e.seq = k + n
  PROVE  Cardinality(events) = m /\ Continues(events, k)
<1> DEFINE f == [e \in events |-> e.seq]
           numbers == k + 1 .. k + m
<1>1. f \in [events -> numbers]
  OBVIOUS
<1>2. \A d, e \in events : f[d] = f[e] => d = e
  BY DEF Numbered
<1>3. \A n \in numbers : \E e \in events : f[e] = n
  <2> TAKE n \in numbers
  <2>1. n - k \in 1 .. m /\ n = k + (n - k)
    OBVIOUS
  <2>2. PICK e \in events : e.seq = k + (n - k)
    BY <2>1
  <2> QED
    BY <2>1, <2>2
<1>4. ExistsBijection(events, numbers)
  <2> HIDE DEF f, numbers
  <2> QED
    BY <1>1, <1>2, <1>3 DEF ExistsBijection, Bijection, Injection, IsInjective, Surjection
<1>5. Cardinality(numbers) = Cardinality(events)
  <2> HIDE DEF numbers
  <2> QED
    BY <1>4, FS_Bijection DEF Numbered
<1>6. Cardinality(numbers) = m
  <2>1. k + 1 \in Int /\ k + m \in Int
    OBVIOUS
  <2>2. Cardinality(numbers) = IF k + 1 > k + m THEN 0 ELSE k + m - (k + 1) + 1
    <3> HIDE DEF numbers
    <3> QED
      BY <2>1, FS_Interval DEF numbers
  <2> QED
    BY <2>2
<1> QED
  BY <1>5, <1>6 DEF Continues

\* The n-th of them is the one numbered k + n.
LEMMA NthIs ==
  ASSUME NEW k \in Nat, NEW events, Continues(events, k), NEW n \in 1 .. Cardinality(events)
  PROVE  Runs!Nth(events, n) \in events /\ Runs!Nth(events, n).seq = k + n
<1>1. Numbered(events) /\ Cardinality(events) \in Nat
  BY FS_CardinalityType DEF Continues, Numbered
<1>2. ASSUME NEW e \in events PROVE Runs!Cardinality({d \in events : Runs!Before(d, e)}) = e.seq - k - 1
  <2> DEFINE below == {d \in events : d.seq < e.seq}
             m == e.seq - k - 1
  <2>1. e.seq \in Nat /\ e.seq \in k + 1 .. k + Cardinality(events) /\ m \in Nat
    BY <1>1 DEF Continues, Numbered
  <2>2. Numbered(below)
    BY <1>1, FS_Subset DEF Numbered
  <2>3. \A d \in below : d.seq \in k + 1 .. k + m
    <3>1. \A d \in below : d.seq \in Nat /\ d.seq \in k + 1 .. k + Cardinality(events) /\ d.seq < e.seq
      BY <1>1 DEF Continues, Numbered
    <3> QED
      BY <1>1, <2>1, <3>1
  <2>4. \A i \in 1 .. m : \E d \in below : d.seq = k + i
    <3> TAKE i \in 1 .. m
    <3>1. i \in 1 .. Cardinality(events) /\ k + i < e.seq
      BY <1>1, <2>1
    <3>2. PICK d \in events : d.seq = k + i
      BY <3>1 DEF Continues
    <3> QED
      BY <3>1, <3>2
  <2>5. Cardinality(below) = m
    <3> HIDE DEF below, m
    <3> QED
      BY <2>1, <2>2, <2>3, <2>4, Counted
  <2> QED
    BY <1>1, <2>5, Below, RunsCardinality
<1>3. PICK e \in events : e.seq = k + n
  BY DEF Continues
<1>4. \A c \in events : Runs!Cardinality({d \in events : Runs!Before(d, c)}) = n - 1 <=> c.seq = k + n
  <2> TAKE c \in events
  <2>1. c.seq \in Nat /\ n \in Nat
    BY <1>1 DEF Numbered
  <2> QED
    BY <1>2, <2>1
<1> QED
  BY <1>3, <1>4, Zenon DEF Runs!Nth

\* Any events have a first, a second and so on, which are all of them.
LEMMA NthExists ==
  ASSUME NEW events, Numbered(events)
  PROVE  /\ \A n \in 1 .. Cardinality(events) : Runs!Nth(events, n) \in events
         /\ \A e \in events : \E n \in 1 .. Cardinality(events) : e = Runs!Nth(events, n)
<1> DEFINE below(e) == {d \in events : d.seq < e.seq}
           N == Cardinality(events)
           f == [e \in events |-> Cardinality(below(e)) + 1]
<1>1. IsFiniteSet(events) /\ N \in Nat
  BY FS_CardinalityType DEF Numbered
<1>2. ASSUME NEW e \in events
      PROVE  /\ IsFiniteSet(below(e)) /\ Cardinality(below(e)) \in 0 .. N - 1
             /\ Runs!Cardinality({d \in events : Runs!Before(d, e)}) = Cardinality(below(e))
  <2>1. e \notin below(e) /\ below(e) \subseteq events
    BY DEF Numbered
  <2>2. IsFiniteSet(below(e)) /\ Cardinality(below(e)) <= N /\ (N = Cardinality(below(e)) => events = below(e))
    <3> HIDE DEF below
    <3> QED
      BY <1>1, <2>1, FS_Subset
  <2>3. Cardinality(below(e)) \in Nat
    <3> HIDE DEF below
    <3> QED
      BY <2>2, FS_CardinalityType
  <2>4. Cardinality(below(e)) # N
    <3> HIDE DEF below
    <3> QED
      BY <2>1, <2>2
  <2>5. Runs!Cardinality({d \in events : Runs!Before(d, e)}) = Cardinality(below(e))
    BY Below, RunsCardinality
  <2> QED
    BY <1>1, <2>2, <2>3, <2>4, <2>5
<1> DEFINE size(e) == Cardinality(below(e))
<1>12. \A e \in events : size(e) \in Nat /\ size(e) \in 0 .. N - 1
  <2> TAKE e \in events
  <2>1. Cardinality(below(e)) \in 0 .. N - 1
    BY <1>2
  <2> HIDE DEF below
  <2> QED
    BY <1>1, <2>1
<1>3. ASSUME NEW d \in events, NEW e \in events, d.seq < e.seq
      PROVE  Cardinality(below(d)) < Cardinality(below(e))
  <2>1. below(d) \subseteq below(e) /\ d \in below(e) /\ d \notin below(d)
    BY <1>3 DEF Numbered
  <2>2. /\ Cardinality(below(d)) <= Cardinality(below(e))
        /\ (Cardinality(below(e)) = Cardinality(below(d)) => below(e) = below(d))
    <3>1. IsFiniteSet(below(e))
      BY <1>2
    <3> HIDE DEF below
    <3> QED
      BY <2>1, <3>1, FS_Subset
  <2>3. Cardinality(below(d)) \in Nat /\ Cardinality(below(e)) \in Nat
    BY <1>12
  <2> HIDE DEF below
  <2> QED
    BY <2>1, <2>2, <2>3
<1>4. \A d, e \in events : Cardinality(below(d)) = Cardinality(below(e)) => d = e
  <2> TAKE d, e \in events
  <2> HAVE Cardinality(below(d)) = Cardinality(below(e))
  <2>1. Cardinality(below(d)) \in Nat
    BY <1>12
  <2>2. ~(d.seq < e.seq)
    <3>1. d.seq < e.seq => Cardinality(below(d)) < Cardinality(below(e))
      BY <1>3
    <3> HIDE DEF below
    <3> QED
      BY <2>1, <3>1
  <2>3. ~(e.seq < d.seq)
    <3>1. e.seq < d.seq => Cardinality(below(e)) < Cardinality(below(d))
      BY <1>3
    <3> HIDE DEF below
    <3> QED
      BY <2>1, <3>1
  <2> QED
    BY <2>2, <2>3 DEF Numbered
<1> HIDE DEF below
<1>5. f \in [events -> 1 .. N]
  <2>1. \A e \in events : Cardinality(below(e)) + 1 \in 1 .. N
    <3> TAKE e \in events
    <3>1. Cardinality(below(e)) \in Nat /\ Cardinality(below(e)) \in 0 .. N - 1
      BY <1>12
    <3> QED
      BY <1>1, <3>1
  <2> QED
    BY <2>1
<1>6. f \in Injection(events, 1 .. N)
  <2>1. \A d, e \in events : f[d] = f[e] => d = e
    <3> TAKE d, e \in events
    <3> HAVE f[d] = f[e]
    <3>1. Cardinality(below(d)) \in Nat /\ Cardinality(below(e)) \in Nat
      BY <1>12
    <3>2. Cardinality(below(d)) = Cardinality(below(e))
      BY <1>1, <3>1
    <3> QED
      BY <1>4, <3>2
  <2> HIDE DEF f
  <2> QED
    BY <1>5, <2>1 DEF Injection, IsInjective
<1>7. IsFiniteSet(1 .. N) /\ Cardinality(1 .. N) = N
  BY <1>1, FS_Interval
<1>8. f \in Surjection(events, 1 .. N)
  <2> HIDE DEF f
  <2> QED
    BY <1>6, <1>7, FS_Injection
<1>9. \A n \in 1 .. N : \E e \in events : f[e] = n
  <2> HIDE DEF f
  <2> QED
    BY <1>8 DEF Surjection
<1>10. ASSUME NEW n \in 1 .. N
       PROVE  /\ Runs!Nth(events, n) \in events
              /\ \A e \in events : f[e] = n => e = Runs!Nth(events, n)
  <2>1. \A e \in events : Runs!Cardinality({d \in events : Runs!Before(d, e)}) = n - 1 <=> f[e] = n
    <3> TAKE e \in events
    <3>1. f[e] = Cardinality(below(e)) + 1 /\ Cardinality(below(e)) \in Nat /\ n \in Nat
      BY <1>1, <1>12
    <3>2. Runs!Cardinality({d \in events : Runs!Before(d, e)}) = Cardinality(below(e))
      BY <1>2
    <3> HIDE DEF f
    <3> QED
      BY <1>1, <3>1, <3>2
  <2>2. PICK x \in events : f[x] = n
    BY <1>9
  <2> HIDE DEF f
  <2>3. Runs!Nth(events, n) \in events /\ f[Runs!Nth(events, n)] = n
    BY <2>1, <2>2, Zenon DEF Runs!Nth
  <2>4. \A d, e \in events : f[d] = f[e] => d = e
    BY <1>6 DEF Injection, IsInjective
  <2> QED
    BY <2>3, <2>4
<1>11. \A e \in events : f[e] \in 1 .. N
  <2> HIDE DEF f
  <2> QED
    BY <1>5
<1> HIDE DEF f
<1> QED
  BY <1>10, <1>11

-----------------------------------------------------------------------------
(* What the first n events make of a run, and of the status the hub shows    *)

RunBuilds(run, events, u) ==
  u = [n \in 0 .. Runs!Cardinality(events) |-> IF n = 0 THEN run ELSE Runs!Step(u[n - 1], Runs!Nth(events, n))]
RunUpto(run, events) == CHOOSE u : RunBuilds(run, events, u)

HubBuilds(events, u) ==
  u = [n \in 0 .. Runs!Cardinality(events) |-> IF n = 0 THEN "pending" ELSE Runs!HubStep(u[n - 1], Runs!Nth(events, n))]
HubUpto(events) == CHOOSE u : HubBuilds(events, u)

LEMMA ReplayIsUpto ==
  ASSUME NEW run, NEW events, Runs!RunOK(run), Runs!Normal(events)
  PROVE  Runs!Replay(run, events) = RunUpto(run, events)[Runs!Cardinality(events)]
  BY DEF RunUpto, RunBuilds, Runs!Replay

LEMMA HubStatusIsUpto ==
  ASSUME NEW events PROVE Runs!HubStatus(events) = HubUpto(events)[Runs!Cardinality(events)]
  BY DEF HubUpto, HubBuilds, Runs!HubStatus

\* Both side by side.
BothBuild(run, events, m, w) ==
  w = [n \in 0 .. m |->
         IF n = 0 THEN [run |-> run, hub |-> "pending"]
         ELSE [run |-> Runs!Step(w[n - 1].run, Runs!Nth(events, n)),
               hub |-> Runs!HubStep(w[n - 1].hub, Runs!Nth(events, n))]]

LEMMA BothExist ==
  ASSUME NEW run, NEW events, NEW m \in Nat PROVE \E w : BothBuild(run, events, m, w)
<1> DEFINE S == {k \in Nat : \E w : BothBuild(run, events, k, w)}
           Made(w, n) == IF n = 0 THEN [run |-> run, hub |-> "pending"]
                         ELSE [run |-> Runs!Step(w[n - 1].run, Runs!Nth(events, n)),
                               hub |-> Runs!HubStep(w[n - 1].hub, Runs!Nth(events, n))]
<1>1. 0 \in S
  <2>1. BothBuild(run, events, 0, [n \in 0 .. 0 |-> [run |-> run, hub |-> "pending"]])
    BY DEF BothBuild
  <2> QED
    BY <2>1
<1>2. ASSUME NEW k \in Nat, k \in S PROVE k + 1 \in S
  <2>1. PICK w : BothBuild(run, events, k, w)
    BY <1>2
  <2>2. \A n \in 0 .. k : w[n] = Made(w, n)
    BY <2>1 DEF BothBuild
  <2> DEFINE v == [n \in 0 .. k + 1 |-> IF n = k + 1 THEN Made(w, k + 1) ELSE w[n]]
  <2>3. \A n \in 0 .. k + 1 : v[n] = Made(v, n)
    <3> TAKE n \in 0 .. k + 1
    <3>1. CASE n = k + 1
      <4>1. v[n] = Made(w, n) /\ n - 1 = k /\ v[k] = w[k] /\ n # 0
        BY <3>1
      <4> HIDE DEF v
      <4> QED
        BY <4>1
    <3>2. CASE n = 0
      <4>1. v[n] = w[n] /\ w[n] = Made(w, n)
        <5>1. n # k + 1 /\ n \in 0 .. k
          BY <3>2
        <5> QED
          BY <2>2, <5>1
      <4> HIDE DEF v
      <4> QED
        BY <3>2, <4>1
    <3>3. CASE n \in 1 .. k
      <4>1. v[n] = w[n] /\ v[n - 1] = w[n - 1] /\ n \in 0 .. k /\ n # 0
        BY <3>3
      <4>2. w[n] = Made(w, n)
        BY <2>2, <4>1
      <4> HIDE DEF v
      <4> QED
        BY <4>1, <4>2
    <3> QED
      BY <3>1, <3>2, <3>3
  <2>4. v = [n \in 0 .. k + 1 |-> v[n]]
    OBVIOUS
  <2>5. BothBuild(run, events, k + 1, v)
    <3> HIDE DEF v
    <3> QED
      BY <2>3, <2>4 DEF BothBuild
  <2> HIDE DEF v
  <2> QED
    BY <2>5
<1>3. Nat \subseteq S
  <2> HIDE DEF S
  <2> QED
    BY <1>1, <1>2, CountingUp
<1> QED
  BY <1>3

LEMMA UptosAre ==
  ASSUME NEW run, NEW events, Runs!Cardinality(events) \in Nat
  PROVE  /\ RunUpto(run, events)[0] = run /\ HubUpto(events)[0] = "pending"
         /\ \A n \in 1 .. Runs!Cardinality(events) :
              /\ RunUpto(run, events)[n] = Runs!Step(RunUpto(run, events)[n - 1], Runs!Nth(events, n))
              /\ HubUpto(events)[n] = Runs!HubStep(HubUpto(events)[n - 1], Runs!Nth(events, n))
<1> DEFINE N == Runs!Cardinality(events)
<1>1. PICK w : BothBuild(run, events, N, w)
  BY BothExist
<1>2. /\ w[0].run = run /\ w[0].hub = "pending"
      /\ \A n \in 1 .. N : /\ w[n].run = Runs!Step(w[n - 1].run, Runs!Nth(events, n))
                           /\ w[n].hub = Runs!HubStep(w[n - 1].hub, Runs!Nth(events, n))
  BY <1>1 DEF BothBuild
<1> DEFINE u == [n \in 0 .. N |-> w[n].run]
           h == [n \in 0 .. N |-> w[n].hub]
<1>3. \A n \in 0 .. N : n = 0 \/ (n \in 1 .. N /\ n - 1 \in 0 .. N /\ n # 0)
  OBVIOUS
<1>4. RunBuilds(run, events, u)
  <2>1. \A n \in 0 .. N : u[n] = IF n = 0 THEN run ELSE Runs!Step(u[n - 1], Runs!Nth(events, n))
    BY <1>2, <1>3
  <2>2. u = [n \in 0 .. N |-> u[n]]
    OBVIOUS
  <2> HIDE DEF u
  <2> QED
    BY <2>1, <2>2 DEF RunBuilds
<1>5. HubBuilds(events, h)
  <2>1. \A n \in 0 .. N : h[n] = IF n = 0 THEN "pending" ELSE Runs!HubStep(h[n - 1], Runs!Nth(events, n))
    BY <1>2, <1>3
  <2>2. h = [n \in 0 .. N |-> h[n]]
    OBVIOUS
  <2> HIDE DEF h
  <2> QED
    BY <2>1, <2>2 DEF HubBuilds
<1> HIDE DEF u, h
<1>6. RunBuilds(run, events, RunUpto(run, events))
  BY <1>4, Zenon DEF RunUpto
<1>7. HubBuilds(events, HubUpto(events))
  BY <1>5, Zenon DEF HubUpto
<1> DEFINE x == RunUpto(run, events)
           y == HubUpto(events)
<1>8. x = [n \in 0 .. N |-> IF n = 0 THEN run ELSE Runs!Step(x[n - 1], Runs!Nth(events, n))]
  BY <1>6, Zenon DEF RunBuilds
<1>9. y = [n \in 0 .. N |-> IF n = 0 THEN "pending" ELSE Runs!HubStep(y[n - 1], Runs!Nth(events, n))]
  BY <1>7, Zenon DEF HubBuilds
<1> HIDE DEF x, y
<1>10. x[0] = run /\ \A n \in 1 .. N : x[n] = Runs!Step(x[n - 1], Runs!Nth(events, n))
  BY <1>8
<1>11. y[0] = "pending" /\ \A n \in 1 .. N : y[n] = Runs!HubStep(y[n - 1], Runs!Nth(events, n))
  BY <1>9
<1> QED
  BY <1>10, <1>11 DEF x, y

-----------------------------------------------------------------------------
(* What a replay that is not refused has gone through                        *)

IsRun(run) ==
  /\ run = [status |-> run.status, started |-> run.started, ended |-> run.ended, completion |-> run.completion,
            last |-> run.last, conn |-> run.conn, run |-> run.run, agent |-> run.agent]
  /\ Runs!RunOK(run) /\ run.last \in Nat

LEMMA StatusesOfEnds ==
  /\ Runs!Ends = {"run.completed", "run.partial", "run.failed"}
  /\ \A kind \in Runs!Ends : Runs!StatusOfEnd(kind) \in Runs!Terminals
<1>1. Runs!Ends = {"run.completed", "run.partial", "run.failed"}
  BY DEF Runs!Ends, Runs!Terminals, Runs!KindOfEnd
<1>2. \A kind \in Runs!Ends : \E s \in Runs!Terminals : Runs!KindOfEnd(s) = kind
  BY DEF Runs!Ends
<1> QED
  BY <1>1, <1>2 DEF Runs!StatusOfEnd

LEMMA OneStep ==
  ASSUME NEW run, IsRun(run), NEW e, e.seq \in Nat, e.id \in 1 .. MaxPosts,
         Runs!Step(run, e) # Runs!Refused
  PROVE  /\ IsRun(Runs!Step(run, e)) /\ Runs!Step(run, e).last = e.seq /\ e.seq = run.last + 1
         /\ \A status : Runs!SameStatus(run, status) => Runs!SameStatus(Runs!Step(run, e), Runs!HubStep(status, e))
<1>1. /\ e.seq = run.last + 1 /\ run.status \notin Runs!Terminals
      /\ (e.kind = "run.started") <=> (run.status = "queued")
  BY DEF Runs!Step, Runs!Follows
<1>2. run.status \in {"queued", "running"} /\ run.ended = Absent /\ run.completion = Absent
  BY <1>1 DEF IsRun, Runs!RunOK
<1>3. /\ Absent # e.id
      /\ \A s \in Runs!Terminals : Absent # [status |-> s, said |-> e.id]
  <2>1. \A s \in Runs!Terminals : Absent \notin {e.id, [status |-> s, said |-> e.id]}
    BY PartsAssumption, Zenon DEF Runs!RunAssumption
  <2> QED
    BY <2>1, StatusesOfEnds DEF Runs!Terminals
<1> DEFINE next == [run EXCEPT !.last = e.seq]
<1>4. next = [status |-> run.status, started |-> run.started, ended |-> run.ended, completion |-> run.completion,
              last |-> e.seq, conn |-> run.conn, run |-> run.run, agent |-> run.agent]
  BY DEF IsRun
<1>5. Runs!Step(run, e) =
        CASE e.kind = "run.started" -> [next EXCEPT !.status = "running", !.started = e.id]
          [] e.kind \in Runs!Ends ->
               [next EXCEPT !.status = Runs!StatusOfEnd(e.kind), !.ended = e.id,
                            !.completion = [status |-> Runs!StatusOfEnd(e.kind), said |-> e.id]]
          [] OTHER -> next
  BY DEF Runs!Step
<1> HIDE DEF next
<1>6. CASE e.kind = "run.started"
  <2>1. e.kind \notin Runs!Ends
    BY <1>6, StatusesOfEnds
  <2>2. Runs!Step(run, e) =
          [status |-> "running", started |-> e.id, ended |-> run.ended, completion |-> run.completion,
           last |-> e.seq, conn |-> run.conn, run |-> run.run, agent |-> run.agent]
    BY <1>4, <1>5, <1>6, <2>1
  <2>3. Runs!RunOK(Runs!Step(run, e))
    BY <1>2, <1>3, <2>2 DEF Runs!RunOK, Runs!Terminals
  <2>4. \A status : Runs!HubStep(status, e) = "running"
    BY <1>6, <2>1 DEF Runs!HubStep, Runs!Proceeds
  <2> QED
    BY <1>1, <2>2, <2>3, <2>4 DEF IsRun, Runs!SameStatus
<1>7. CASE e.kind \in Runs!Ends
  <2> DEFINE s == Runs!StatusOfEnd(e.kind)
  <2>1. e.kind # "run.started" /\ s \in Runs!Terminals /\ e.kind \in {"run.completed", "run.partial", "run.failed"}
    BY <1>7, StatusesOfEnds
  <2> HIDE DEF s
  <2>2. Runs!Step(run, e) =
          [status |-> s, started |-> run.started, ended |-> e.id, completion |-> [status |-> s, said |-> e.id],
           last |-> e.seq, conn |-> run.conn, run |-> run.run, agent |-> run.agent]
    BY <1>4, <1>5, <1>7, <2>1 DEF s
  <2>3. run.started # Absent
    BY <1>1, <1>2, <2>1 DEF IsRun, Runs!RunOK
  <2>4. Runs!RunOK(Runs!Step(run, e))
    BY <1>3, <2>1, <2>2, <2>3 DEF Runs!RunOK
  <2>5. \A status : Runs!HubStep(status, e) = s
    BY <1>7, <2>1 DEF Runs!HubStep, Runs!Proceeds, Runs!FeedKinds, s
  <2>6. s \notin {"queued", "running"}
    BY <2>1 DEF Runs!Terminals
  <2> QED
    BY <1>1, <2>2, <2>4, <2>5, <2>6 DEF IsRun, Runs!SameStatus
<1>8. CASE e.kind # "run.started" /\ e.kind \notin Runs!Ends
  <2>1. Runs!Step(run, e) = next /\ run.status = "running"
    BY <1>1, <1>2, <1>5, <1>8
  <2>2. Runs!RunOK(next)
    BY <1>4 DEF IsRun, Runs!RunOK
  <2>3. \A status : Runs!HubStep(status, e) \in {"running", "awaiting_approval", status}
    BY <1>8 DEF Runs!HubStep
  <2> QED
    BY <1>1, <1>4, <2>1, <2>2, <2>3 DEF IsRun, Runs!SameStatus
<1> QED
  BY <1>6, <1>7, <1>8

\* From one event to the next.
Progresses(run, events, u) ==
  /\ u[0] = run
  /\ \A n \in 1 .. Cardinality(events) : \A e \in events :
       e.seq = run.last + n => u[n] = Runs!Step(u[n - 1], e)

\* Whatever goes from one event to the next is the replay.
LEMMA ReplayComesTo ==
  ASSUME NEW run, IsRun(run), NEW events, Runs!Normal(events), Continues(events, run.last),
         NEW u, Progresses(run, events, u)
  PROVE  Runs!Replay(run, events) = u[Cardinality(events)]
<1> DEFINE N == Cardinality(events)
           x == RunUpto(run, events)
           S == {n \in Nat : n <= N => x[n] = u[n]}
<1>1. N \in Nat /\ Runs!Cardinality(events) = N /\ run.last \in Nat
  BY FS_CardinalityType, RunsCardinality DEF Continues, Numbered, IsRun
<1>2. x[0] = run /\ \A n \in 1 .. N : x[n] = Runs!Step(x[n - 1], Runs!Nth(events, n))
  BY <1>1, UptosAre
<1>3. \A n \in 1 .. N : Runs!Nth(events, n) \in events /\ Runs!Nth(events, n).seq = run.last + n
  BY <1>1, NthIs
<1> HIDE DEF x
<1>4. 0 \in S
  BY <1>2 DEF Progresses
<1>5. ASSUME NEW n \in Nat, n \in S PROVE n + 1 \in S
  <2> SUFFICES ASSUME n + 1 <= N PROVE x[n + 1] = u[n + 1]
    OBVIOUS
  <2>1. n + 1 \in 1 .. N /\ n + 1 - 1 = n /\ x[n] = u[n]
    BY <1>1, <1>5
  <2> QED
    BY <1>2, <1>3, <2>1 DEF Progresses
<1>6. N \in S
  <2>1. Nat \subseteq S
    <3> HIDE DEF S
    <3> QED
      BY <1>4, <1>5, CountingUp
  <2> QED
    BY <1>1, <2>1
<1>7. Runs!Replay(run, events) = x[N]
  BY <1>1, ReplayIsUpto DEF x, IsRun
<1> QED
  BY <1>1, <1>6, <1>7

\* A replay that is not refused goes from one event to the next, and so does the hub.
LEMMA ReplayGoes ==
  ASSUME NEW run, IsRun(run), NEW events, Numbered(events),
         Runs!Replay(run, events) # Runs!Refused
  PROVE  LET u == RunUpto(run, events)
             N == Cardinality(events)
         IN  /\ Runs!Normal(events) /\ Continues(events, run.last) /\ Progresses(run, events, u)
             /\ u[N] = Runs!Replay(run, events) /\ u[N].last = run.last + N
             /\ \A n \in 0 .. N : IsRun(u[n]) /\ u[n].last = run.last + n /\ u[n] # Runs!Refused
             /\ Runs!SameStatus(run, "pending") => Runs!SameStatus(u[N], Runs!HubStatus(events))
<1> DEFINE N == Cardinality(events)
           u == RunUpto(run, events)
           h == HubUpto(events)
           S == {n \in Nat : n <= N => u[N - n] # Runs!Refused}
           T == {n \in Nat : n <= N =>
                   /\ IsRun(u[n]) /\ u[n].last = run.last + n
                   /\ Runs!SameStatus(run, "pending") => Runs!SameStatus(u[n], h[n])}
<1>1. N \in Nat /\ Runs!Cardinality(events) = N /\ run.last \in Nat
  BY FS_CardinalityType, RunsCardinality DEF Numbered, IsRun
<1>2. /\ u[0] = run /\ h[0] = "pending"
      /\ \A n \in 1 .. N : /\ u[n] = Runs!Step(u[n - 1], Runs!Nth(events, n))
                           /\ h[n] = Runs!HubStep(h[n - 1], Runs!Nth(events, n))
  BY <1>1, UptosAre
<1>3. Runs!Normal(events)
  BY DEF Runs!Replay
<1>4. Runs!Replay(run, events) = u[N] /\ Runs!HubStatus(events) = h[N]
  BY <1>1, <1>3, ReplayIsUpto, HubStatusIsUpto DEF IsRun
<1> HIDE DEF u, h
<1>5. \A n \in 0 .. N : u[n] # Runs!Refused
  <2>1. 0 \in S
    BY <1>1, <1>4
  <2>2. ASSUME NEW n \in Nat, n \in S PROVE n + 1 \in S
    <3> SUFFICES ASSUME n + 1 <= N PROVE u[N - (n + 1)] # Runs!Refused
      OBVIOUS
    <3>1. N - n \in 1 .. N /\ N - n - 1 = N - (n + 1) /\ u[N - n] # Runs!Refused
      BY <1>1, <2>2
    <3>2. u[N - n] = Runs!Step(u[N - (n + 1)], Runs!Nth(events, N - n))
      BY <1>2, <3>1
    <3> QED
      BY <3>1, <3>2 DEF Runs!Step
  <2>3. Nat \subseteq S
    <3> HIDE DEF S
    <3> QED
      BY <2>1, <2>2, CountingUp
  <2> TAKE n \in 0 .. N
  <2>4. N - n \in Nat /\ N - n <= N /\ N - (N - n) = n
    BY <1>1
  <2> QED
    BY <2>3, <2>4
<1>6. /\ \A n \in 1 .. N : Runs!Nth(events, n) \in events
      /\ \A e \in events : \E n \in 1 .. N : e = Runs!Nth(events, n)
  BY NthExists
<1>7. ASSUME NEW n \in Nat, n + 1 <= N, IsRun(u[n]), u[n].last = run.last + n
      PROVE  /\ IsRun(u[n + 1]) /\ u[n + 1].last = run.last + (n + 1)
             /\ Runs!Nth(events, n + 1).seq = run.last + (n + 1)
             /\ Runs!SameStatus(u[n], h[n]) => Runs!SameStatus(u[n + 1], h[n + 1])
  <2> DEFINE e == Runs!Nth(events, n + 1)
  <2>1. n + 1 \in 1 .. N /\ n + 1 \in 0 .. N /\ n + 1 - 1 = n /\ run.last + n + 1 = run.last + (n + 1)
    BY <1>1, <1>7
  <2>2. e \in events /\ e.seq \in Nat /\ e.id \in 1 .. MaxPosts
    BY <1>6, <2>1 DEF Numbered
  <2> HIDE DEF e
  <2>3. u[n + 1] = Runs!Step(u[n], e) /\ h[n + 1] = Runs!HubStep(h[n], e) /\ u[n + 1] # Runs!Refused
    BY <1>2, <1>5, <2>1 DEF e
  <2>4. /\ IsRun(Runs!Step(u[n], e)) /\ Runs!Step(u[n], e).last = e.seq /\ e.seq = u[n].last + 1
        /\ \A status : Runs!SameStatus(u[n], status) => Runs!SameStatus(Runs!Step(u[n], e), Runs!HubStep(status, e))
    BY <1>7, <2>2, <2>3, OneStep
  <2> QED
    BY <1>7, <2>1, <2>3, <2>4 DEF e
<1>8. Nat \subseteq T
  <2>1. 0 \in T
    BY <1>1, <1>2
  <2>2. ASSUME NEW n \in Nat, n \in T PROVE n + 1 \in T
    <3> SUFFICES ASSUME n + 1 <= N
                 PROVE  /\ IsRun(u[n + 1]) /\ u[n + 1].last = run.last + (n + 1)
                        /\ Runs!SameStatus(run, "pending") => Runs!SameStatus(u[n + 1], h[n + 1])
      OBVIOUS
    <3>1. n <= N
      BY <1>1
    <3> QED
      BY <1>7, <2>2, <3>1
  <2> HIDE DEF T
  <2> QED
    BY <2>1, <2>2, CountingUp
<1>9. \A n \in 1 .. N : Runs!Nth(events, n).seq = run.last + n
  <2> TAKE n \in 1 .. N
  <2>1. n - 1 \in Nat /\ n - 1 + 1 <= N /\ n - 1 + 1 = n /\ n - 1 <= N
    BY <1>1
  <2>2. n - 1 \in T
    BY <1>8, <2>1
  <2> QED
    BY <1>7, <2>1, <2>2
<1>10. Continues(events, run.last)
  <2>1. \A e \in events : e.seq \in run.last + 1 .. run.last + N
    <3> TAKE e \in events
    <3>1. PICK n \in 1 .. N : e = Runs!Nth(events, n)
      BY <1>6
    <3> QED
      BY <1>1, <1>9, <3>1
  <2> QED
    BY <1>6, <1>9, <2>1 DEF Continues
<1>11. Progresses(run, events, u)
  <2>1. ASSUME NEW n \in 1 .. N, NEW e \in events, e.seq = run.last + n PROVE u[n] = Runs!Step(u[n - 1], e)
    <3>1. e = Runs!Nth(events, n)
      BY <1>6, <1>9, <2>1 DEF Numbered
    <3> QED
      BY <1>2, <3>1
  <2> QED
    BY <1>2, <2>1 DEF Progresses
<1>12. \A n \in 0 .. N : IsRun(u[n]) /\ u[n].last = run.last + n
  BY <1>1, <1>8
<1>13. Runs!SameStatus(run, "pending") => Runs!SameStatus(u[N], h[N])
  BY <1>1, <1>8
<1>14. N \in 0 .. N
  BY <1>1
<1> QED
  BY <1>3, <1>4, <1>5, <1>10, <1>11, <1>12, <1>13, <1>14 DEF u

-----------------------------------------------------------------------------
(* Cut anywhere and resumed                                                  *)

LEMMA SomeNumbered ==
  ASSUME NEW events, Numbered(events), NEW some, some \subseteq events PROVE Numbered(some)
  BY FS_Subset DEF Numbered

LEMMA CutAndResumed ==
  ASSUME NEW run, IsRun(run), NEW events, Numbered(events), Runs!Replay(run, events) # Runs!Refused,
         NEW n \in 0 .. Cardinality(events)
  PROVE  LET u == RunUpto(run, events)
             first == {e \in events : e.seq <= run.last + n}
             rest == {e \in events : e.seq > run.last + n}
         IN  /\ Cardinality(first) = n /\ Runs!Replay(run, first) = u[n]
             /\ Runs!Replay(u[n], rest) = Runs!Replay(run, events)
<1> DEFINE u == RunUpto(run, events)
           N == Cardinality(events)
           first == {e \in events : e.seq <= run.last + n}
           rest == {e \in events : e.seq > run.last + n}
<1>1. /\ N \in Nat /\ run.last \in Nat /\ n \in Nat /\ n <= N /\ N - n \in Nat /\ run.last + n \in Nat
      /\ \A e \in events : e.seq \in Nat
  BY FS_CardinalityType DEF Numbered, IsRun
<1>2. /\ Runs!Normal(events) /\ Continues(events, run.last) /\ Progresses(run, events, u)
      /\ u[N] = Runs!Replay(run, events)
      /\ \A i \in 0 .. N : IsRun(u[i]) /\ u[i].last = run.last + i
  BY ReplayGoes
<1> HIDE DEF u
<1>3. Numbered(first) /\ Runs!Normal(first)
  BY <1>2, SomeNumbered DEF Runs!Normal
<1>4. Numbered(rest) /\ Runs!Normal(rest)
  BY <1>2, SomeNumbered DEF Runs!Normal
<1>5. Cardinality(first) = n /\ Continues(first, run.last)
  <2>1. \A e \in first : e.seq \in run.last + 1 .. run.last + n
    BY <1>1, <1>2 DEF Continues
  <2>2. \A i \in 1 .. n : \E e \in first : e.seq = run.last + i
    <3> TAKE i \in 1 .. n
    <3>1. i \in 1 .. N /\ run.last + i <= run.last + n
      BY <1>1
    <3>2. PICK e \in events : e.seq = run.last + i
      BY <1>2, <3>1 DEF Continues
    <3> QED
      BY <3>1, <3>2
  <2> HIDE DEF first
  <2> QED
    BY <1>1, <1>3, <2>1, <2>2, Counted
<1>6. Cardinality(rest) = N - n /\ Continues(rest, run.last + n)
  <2>1. \A e \in rest : e.seq \in run.last + n + 1 .. run.last + n + (N - n)
    BY <1>1, <1>2 DEF Continues
  <2>2. \A i \in 1 .. N - n : \E e \in rest : e.seq = run.last + n + i
    <3> TAKE i \in 1 .. N - n
    <3>1. n + i \in 1 .. N /\ run.last + (n + i) > run.last + n /\ run.last + (n + i) = run.last + n + i
      BY <1>1
    <3>2. PICK e \in events : e.seq = run.last + (n + i)
      BY <1>2, <3>1 DEF Continues
    <3> QED
      BY <3>1, <3>2
  <2> HIDE DEF rest
  <2> QED
    BY <1>1, <1>4, <2>1, <2>2, Counted
<1>7. Runs!Replay(run, first) = u[n]
  <2>1. Progresses(run, first, u)
    <3>1. \A i \in 1 .. n : i \in 1 .. N
      BY <1>1
    <3> QED
      BY <1>2, <1>5, <3>1 DEF Progresses
  <2> HIDE DEF first
  <2> QED
    BY <1>3, <1>5, <2>1, ReplayComesTo
<1>8. Runs!Replay(u[n], rest) = u[N]
  <2> DEFINE v == [i \in 0 .. N - n |-> u[n + i]]
  <2>1. IsRun(u[n]) /\ u[n].last = run.last + n
    BY <1>2
  <2>2. v[0] = u[n] /\ v[N - n] = u[N]
    BY <1>1
  <2>3. ASSUME NEW i \in 1 .. N - n, NEW e \in rest, e.seq = u[n].last + i PROVE v[i] = Runs!Step(v[i - 1], e)
    <3>1. n + i \in 1 .. N /\ e.seq = run.last + (n + i) /\ n + i - 1 = n + (i - 1)
      BY <1>1, <2>1, <2>3
    <3>2. v[i] = u[n + i] /\ v[i - 1] = u[n + i - 1]
      BY <1>1, <3>1
    <3> HIDE DEF v
    <3> QED
      BY <1>2, <3>1, <3>2 DEF Progresses
  <2> HIDE DEF v
  <2>4. Progresses(u[n], rest, v)
    BY <1>6, <2>2, <2>3 DEF Progresses
  <2> HIDE DEF rest
  <2> QED
    BY <1>4, <1>6, <2>1, <2>2, <2>4, ReplayComesTo
<1> QED
  BY <1>2, <1>5, <1>7, <1>8 DEF u

\* Where one replay ends the next one goes on.
LEMMA Resumed ==
  ASSUME NEW run, IsRun(run), NEW first, Numbered(first), NEW rest, Numbered(rest),
         \A d, e \in first \cup rest : (d.id = e.id => d = e) /\ (d.key = e.key => d.seq = e.seq),
         Runs!Replay(run, first) # Runs!Refused,
         Runs!Replay(Runs!Replay(run, first), rest) # Runs!Refused
  PROVE  /\ Numbered(first \cup rest)
         /\ Runs!Replay(run, first \cup rest) = Runs!Replay(Runs!Replay(run, first), rest)
<1> DEFINE u == RunUpto(run, first)
           then == Runs!Replay(run, first)
           v == RunUpto(then, rest)
           all == first \cup rest
           M == Cardinality(first)
           N == Cardinality(rest)
<1>1. M \in Nat /\ N \in Nat /\ run.last \in Nat /\ M \in 0 .. M
  BY FS_CardinalityType DEF Numbered, IsRun
<1>2. /\ Runs!Normal(first) /\ Continues(first, run.last) /\ Progresses(run, first, u) /\ u[M] = then
      /\ IsRun(u[M]) /\ u[M].last = run.last + M
  BY <1>1, ReplayGoes
<1> HIDE DEF u, then
<1>3. /\ Runs!Normal(rest) /\ Continues(rest, then.last) /\ Progresses(then, rest, v)
      /\ v[N] = Runs!Replay(then, rest) /\ then.last = run.last + M
  BY <1>2, ReplayGoes DEF then
<1> HIDE DEF v
<1>4. /\ \A e \in first : e.seq \in run.last + 1 .. run.last + M
      /\ \A e \in rest : e.seq \in run.last + M + 1 .. run.last + M + N
      /\ \A n \in 1 .. M : \E e \in first : e.seq = run.last + n
      /\ \A n \in 1 .. N : \E e \in rest : e.seq = run.last + M + n
  BY <1>2, <1>3 DEF Continues
<1>5. \A d \in first, e \in rest : d.seq # e.seq
  BY <1>1, <1>4
<1>6. Numbered(all)
  <2>1. IsFiniteSet(all)
    BY FS_Union DEF Numbered
  <2> QED
    BY <1>5, <2>1 DEF Numbered
<1>7. Runs!Normal(all)
  <2>1. \A e \in all : Runs!EnvelopeOK(e)
    BY <1>2, <1>3 DEF Runs!Normal
  <2>2. \A d, e \in all : d # e => d.id # e.id /\ d.key # e.key /\ d.seq # e.seq
    BY <1>6 DEF Numbered
  <2> HIDE DEF all
  <2> QED
    BY <2>1, <2>2 DEF Runs!Normal
<1>8. Cardinality(all) = M + N /\ Continues(all, run.last)
  <2>1. \A e \in all : e.seq \in run.last + 1 .. run.last + (M + N)
    <3>1. \A e \in first : e.seq \in run.last + 1 .. run.last + (M + N)
      BY <1>1, <1>4
    <3>2. \A e \in rest : e.seq \in run.last + 1 .. run.last + (M + N)
      BY <1>1, <1>4
    <3> QED
      BY <3>1, <3>2
  <2>2. \A n \in 1 .. M + N : \E e \in all : e.seq = run.last + n
    <3> TAKE n \in 1 .. M + N
    <3>1. CASE n <= M
      <4>1. n \in 1 .. M
        BY <1>1, <3>1
      <4> QED
        BY <1>4, <4>1
    <3>2. CASE M < n
      <4>1. n - M \in 1 .. N /\ run.last + M + (n - M) = run.last + n
        BY <1>1, <3>2
      <4>2. PICK e \in rest : e.seq = run.last + M + (n - M)
        BY <1>4, <4>1
      <4> QED
        BY <4>1, <4>2
    <3> QED
      BY <1>1, <3>1, <3>2
  <2>3. M + N \in Nat
    BY <1>1
  <2> HIDE DEF all
  <2> QED
    BY <1>1, <1>6, <2>1, <2>2, <2>3, Counted
<1> DEFINE w == [n \in 0 .. M + N |-> IF n <= M THEN u[n] ELSE v[n - M]]
<1>9. w[0] = run /\ w[M + N] = v[N]
  <2>1. u[0] = run /\ v[0] = u[M]
    BY <1>2, <1>3 DEF Progresses
  <2>2. CASE N = 0
    BY <1>1, <2>1, <2>2
  <2>3. CASE N # 0
    <3>1. ~(M + N <= M) /\ M + N - M = N /\ 0 <= M /\ 0 \in 0 .. M + N /\ M + N \in 0 .. M + N
      BY <1>1, <2>3
    <3>2. \A n \in 0 .. M + N : w[n] = IF n <= M THEN u[n] ELSE v[n - M]
      OBVIOUS
    <3>3. w[0] = u[0] /\ w[M + N] = v[M + N - M]
      <4> HIDE DEF w, M, N
      <4> QED
        BY <1>1, <3>1, <3>2
    <3> HIDE DEF w, M, N
    <3> QED
      BY <2>1, <3>1, <3>3
  <2> QED
    BY <2>2, <2>3
<1>10. ASSUME NEW n \in 1 .. M + N, NEW e \in all, e.seq = run.last + n PROVE w[n] = Runs!Step(w[n - 1], e)
  <2>1. n \in Int /\ n - 1 \in 0 .. M + N /\ n \in 0 .. M + N
    BY <1>1
  <2>2. CASE n <= M
    <3>1. n \in 1 .. M /\ n - 1 <= M
      BY <1>1, <2>2
    <3>2. e \in first
      <4>1. ~(run.last + n \in run.last + M + 1 .. run.last + M + N)
        BY <1>1, <2>2
      <4> QED
        BY <1>4, <1>10, <4>1
    <3>3. w[n] = u[n] /\ w[n - 1] = u[n - 1]
      BY <2>1, <2>2, <3>1
    <3> HIDE DEF w
    <3> QED
      BY <1>2, <1>10, <3>1, <3>2, <3>3 DEF Progresses
  <2>3. CASE M < n
    <3>1. n - M \in 1 .. N /\ ~(n <= M) /\ run.last + M + (n - M) = run.last + n /\ n - M - 1 = n - 1 - M
      BY <1>1, <2>3
    <3>2. e \in rest
      <4>1. ~(run.last + n \in run.last + 1 .. run.last + M)
        BY <1>1, <2>3
      <4> QED
        BY <1>4, <1>10, <4>1
    <3>3. w[n] = v[n - M]
      BY <2>1, <3>1
    <3>4. w[n - 1] = v[n - M - 1]
      <4>1. CASE n - 1 <= M
        <5>1. n - 1 = M /\ n - M - 1 = 0
          BY <1>1, <2>3, <4>1
        <5>2. w[n - 1] = u[M]
          BY <2>1, <5>1
        <5> HIDE DEF w
        <5> QED
          BY <1>2, <1>3, <5>1, <5>2 DEF Progresses
      <4>2. CASE ~(n - 1 <= M)
        BY <2>1, <3>1, <4>2
      <4> QED
        BY <4>1, <4>2
    <3>5. v[n - M] = Runs!Step(v[n - M - 1], e)
      <4>1. e.seq = then.last + (n - M)
        BY <1>3, <1>10, <3>1
      <4> QED
        BY <1>3, <3>1, <3>2, <4>1 DEF Progresses
    <3> HIDE DEF w
    <3> QED
      BY <3>3, <3>4, <3>5
  <2> QED
    BY <1>1, <2>1, <2>2, <2>3
<1> HIDE DEF w
<1>11. Progresses(run, all, w)
  <2> HIDE DEF all
  <2> QED
    BY <1>8, <1>9, <1>10 DEF Progresses
<1>12. Runs!Replay(run, all) = w[M + N]
  <2> HIDE DEF all
  <2> QED
    BY <1>7, <1>8, <1>11, ReplayComesTo
<1> QED
  BY <1>3, <1>6, <1>9, <1>12 DEF then

-----------------------------------------------------------------------------
(* What the hub stores of a run, and what its consumer has replayed          *)

\* The record that the consumer keeps is the replay of some of the stored events,
\* which keep the numbers and the ids they were sent with.
RunKept ==
  /\ used.id \in Nat /\ used.seq \in Nat /\ IsFiniteSet(log)
  /\ \A e \in flight \cup log :
       /\ e.id \in 1 .. MaxPosts /\ e.id <= used.id /\ e.seq \in Nat
       /\ e.key = <<Me.conn, Me.run, e.seq, e.kind>>
  /\ \A d, e \in flight \cup log : d.id = e.id => d = e
  /\ IsRun(saved)
  /\ \E read \in SUBSET log : Numbered(read) /\ Runs!Replay(Runs!Queued, read) = saved

LEMMA QueuedIsRun == IsRun(Runs!Queued) /\ Runs!SameStatus(Runs!Queued, "pending") /\ Runs!Queued.last = 0
  BY DEF IsRun, Runs!Queued, Runs!RunOK, Runs!Terminals, Runs!SameStatus

LEMMA RunKeptInit == ASSUME Runs!Init PROVE RunKept
<1>1. Numbered({}) /\ Runs!Normal({}) /\ Cardinality({}) = 0
  BY FS_EmptySet DEF Numbered, Runs!Normal
<1>2. Continues({}, Runs!Queued.last) /\ Progresses(Runs!Queued, {}, [n \in 0 .. 0 |-> Runs!Queued])
  BY <1>1 DEF Continues, Progresses
<1>3. Runs!Replay(Runs!Queued, {}) = Runs!Queued
  <2>1. Runs!Replay(Runs!Queued, {}) = [n \in 0 .. 0 |-> Runs!Queued][Cardinality({})]
    BY <1>1, <1>2, QueuedIsRun, ReplayComesTo
  <2> QED
    BY <1>1, <2>1
<1> QED
  BY <1>1, <1>3, QueuedIsRun, FS_EmptySet DEF Runs!Init, RunKept

LEMMA RunKeptNext == ASSUME RunKept, Runs!Next PROVE RunKept'
<1>1. PICK read \in SUBSET log : Numbered(read) /\ Runs!Replay(Runs!Queued, read) = saved
  BY DEF RunKept
<1>2. ASSUME NEW post \in Posts, Runs!Send(post) PROVE RunKept'
  <2>1. PICK seq \in {used.seq, used.seq + 1, used.seq + 2} :
          /\ flight' = flight \cup {Runs!Envelope(post, seq)}
          /\ used' = [seq |-> seq, id |-> used.id + 1, slips |-> used'.slips]
    BY <1>2 DEF Runs!Send
  <2> DEFINE e == Runs!Envelope(post, seq)
  <2>2. e.id = used.id + 1 /\ e.seq = seq /\ e.key = <<Me.conn, Me.run, e.seq, e.kind>>
    BY DEF Runs!Envelope
  <2>3. used.id < MaxPosts /\ log' = log /\ saved' = saved
    BY <1>2 DEF Runs!Send
  <2>4. MaxPosts \in Nat /\ used.id \in Nat /\ seq \in Nat
    BY PartsAssumption DEF RunKept, Runs!RunAssumption
  <2> HIDE DEF e
  <2>5. used'.id = used.id + 1 /\ used'.seq = seq /\ flight' = flight \cup {e}
    BY <2>1 DEF e
  <2>6. \A d \in flight \cup log : d.id # e.id
    BY <2>2, <2>4 DEF RunKept
  <2>7. /\ used'.id \in Nat /\ used'.seq \in Nat
        /\ \A d \in flight' \cup log' :
             /\ d.id \in 1 .. MaxPosts /\ d.id <= used'.id /\ d.seq \in Nat
             /\ d.key = <<Me.conn, Me.run, d.seq, d.kind>>
    BY <2>2, <2>3, <2>4, <2>5 DEF RunKept
  <2>8. \A c, d \in flight' \cup log' : c.id = d.id => c = d
    BY <2>3, <2>5, <2>6 DEF RunKept
  <2> QED
    BY <2>3, <2>7, <2>8 DEF RunKept
<1>3. ASSUME NEW e \in flight, Runs!Store(e) PROVE RunKept'
  <2>1. /\ flight' \cup log' \subseteq flight \cup log /\ used' = used /\ saved' = saved
        /\ log \subseteq log' /\ log' \in {log, log \cup {e}}
    BY <1>3 DEF Runs!Store
  <2>2. IsFiniteSet(log')
    BY <2>1, FS_AddElement DEF RunKept
  <2>3. read \in SUBSET log'
    BY <2>1
  <2> QED
    BY <1>1, <2>1, <2>2, <2>3 DEF RunKept
<1>4. ASSUME Runs!Follow PROVE RunKept'
  <2> DEFINE later == Runs!Later(saved)
             run == Runs!Replay(saved, later)
  <2>1. run # Runs!Refused /\ saved' = run /\ log' = log /\ flight' = flight /\ used' = used
    BY <1>4 DEF Runs!Follow
  <2>2. later \subseteq log /\ IsFiniteSet(log) /\ IsRun(saved)
    BY DEF Runs!Later, RunKept
  <2>3. Runs!Normal(later)
    BY <2>1 DEF Runs!Replay
  <2>4. Numbered(later)
    <3>1. IsFiniteSet(later)
      BY <2>2, FS_Subset
    <3> HIDE DEF later
    <3> QED
      BY <2>2, <2>3, <3>1 DEF Numbered, RunKept, Runs!Normal
  <2> HIDE DEF later
  <2>5. IsRun(run)
    <3>1. Cardinality(later) \in 0 .. Cardinality(later)
      BY <2>4, FS_CardinalityType DEF Numbered
    <3> QED
      BY <2>1, <2>2, <2>4, <3>1, ReplayGoes
  <2>6. Numbered(read \cup later) /\ Runs!Replay(Runs!Queued, read \cup later) = run
    <3>1. saved # Runs!Refused
      BY <2>2 DEF IsRun, Runs!RunOK, Runs!Refused, Runs!Terminals
    <3>2. \A d, e \in read \cup later : (d.id = e.id => d = e) /\ (d.key = e.key => d.seq = e.seq)
      BY <2>2 DEF RunKept
    <3> QED
      BY <1>1, <2>1, <2>4, <3>1, <3>2, QueuedIsRun, Resumed
  <2> HIDE DEF run
  <2>7. read \cup later \in SUBSET log'
    BY <2>1, <2>2
  <2> QED
    BY <2>1, <2>5, <2>6, <2>7 DEF RunKept
<1> QED
  BY <1>2, <1>3, <1>4 DEF Runs!Next

LEMMA KeptAgree == ASSUME RunKept PROVE Runs!ReplaysAgree
<1> DEFINE full == Runs!Replay(Runs!Queued, log)
           u == RunUpto(Runs!Queued, log)
           N == Cardinality(log)
<1>1. PICK read \in SUBSET log : Numbered(read) /\ Runs!Replay(Runs!Queued, read) = saved
  BY DEF RunKept
<1>2. saved # Runs!Refused /\ Cardinality(read) \in Nat
  <2>1. saved # Runs!Refused
    BY DEF RunKept, IsRun, Runs!RunOK, Runs!Refused, Runs!Terminals
  <2> QED
    BY <1>1, <2>1, FS_CardinalityType DEF Numbered
<1>3. Continues(read, 0) /\ saved.last = Cardinality(read)
  BY <1>1, <1>2, QueuedIsRun, ReplayGoes
<1>4. \A n \in 1 .. saved.last : \E e \in log : e.seq = n
  BY <1>1, <1>3 DEF Continues
<1>5. ASSUME full # Runs!Refused
      PROVE  /\ Runs!SameStatus(full, Runs!HubStatus(log))
             /\ Runs!Replay(saved, Runs!Later(saved)) = full
             /\ \A n \in 0 .. full.last :
                  LET cut == Runs!Replay(Runs!Queued, {e \in log : e.seq <= n})
                  IN  cut # Runs!Refused /\ Runs!Replay(cut, Runs!Later(cut)) = full
  <2>1. Runs!Normal(log)
    BY <1>5 DEF Runs!Replay
  <2>2. Numbered(log) /\ N \in Nat
    BY <2>1, FS_CardinalityType DEF Numbered, RunKept, Runs!Normal
  <2>3. /\ u[N] = full /\ full.last = N /\ Continues(log, 0)
        /\ \A n \in 0 .. N : u[n].last = n /\ u[n] # Runs!Refused
        /\ Runs!SameStatus(full, Runs!HubStatus(log))
    <3>1. \A n \in Nat : 0 + n = n
      OBVIOUS
    <3> QED
      BY <1>5, <2>2, <3>1, QueuedIsRun, ReplayGoes
  <2>4. ASSUME NEW n \in 0 .. N
        PROVE  /\ Cardinality({e \in log : e.seq <= n}) = n
               /\ Runs!Replay(Runs!Queued, {e \in log : e.seq <= n}) = u[n]
               /\ Runs!Replay(u[n], Runs!Later(u[n])) = full
    <3>1. 0 + n = n /\ Runs!Queued.last + n = n
      BY QueuedIsRun
    <3>2. Runs!Later(u[n]) = {e \in log : e.seq > n}
      BY <2>3 DEF Runs!Later
    <3>3. LET first == {e \in log : e.seq <= Runs!Queued.last + n}
              rest == {e \in log : e.seq > Runs!Queued.last + n}
          IN  Cardinality(first) = n /\ Runs!Replay(Runs!Queued, first) = u[n] /\ Runs!Replay(u[n], rest) = full
      BY <1>5, <2>2, QueuedIsRun, CutAndResumed
    <3> HIDE DEF u, full
    <3> QED
      BY <3>1, <3>2, <3>3
  <2>5. Runs!Replay(saved, Runs!Later(saved)) = full
    <3> DEFINE n == saved.last
    <3>1. n \in 0 .. N
      <4>1. Cardinality(read) <= N
        BY <1>1, <2>2, FS_Subset DEF Numbered
      <4> QED
        BY <1>2, <1>3, <2>2, <4>1
    <3>2. read = {e \in log : e.seq <= n}
      <4>1. \A e \in read : e.seq <= n /\ e \in log
        BY <1>1, <1>2, <1>3 DEF Continues
      <4>2. ASSUME NEW e \in log, e.seq <= n PROVE e \in read
        <5>1. e.seq \in 1 .. Cardinality(read) /\ 0 + e.seq = e.seq
          BY <1>2, <1>3, <2>2, <2>3, <4>2 DEF Continues
        <5>2. PICK d \in read : d.seq = e.seq
          BY <1>3, <5>1 DEF Continues
        <5> QED
          BY <2>2, <5>2 DEF Numbered
      <4> QED
        BY <4>1, <4>2
    <3>3. saved = u[n]
      BY <1>1, <2>4, <3>1, <3>2
    <3>4. Runs!Replay(u[n], Runs!Later(u[n])) = full
      BY <2>4, <3>1
    <3> HIDE DEF u, full
    <3> QED
      BY <3>3, <3>4
  <2>6. ASSUME NEW n \in 0 .. full.last
        PROVE  LET cut == Runs!Replay(Runs!Queued, {e \in log : e.seq <= n})
               IN  cut # Runs!Refused /\ Runs!Replay(cut, Runs!Later(cut)) = full
    BY <2>3, <2>4
  <2> QED
    BY <2>3, <2>5, <2>6
<1> QED
  BY <1>4, <1>5 DEF Runs!ReplaysAgree

\* A stored log that replays gives one run, however it is cut, late or out of order
\* its events come, and the hub shows that run's status.
THEOREM ReplaysAlwaysAgree == PartsSpec => []ReplaysAgree
<1> DEFINE Inv == part \in RunParts => RunKept
<1>1. PartsInit => Inv
  BY RunKeptInit DEF PartsInit
<1>2. Inv /\ [PartsNext]_partsVars => Inv'
  <2> SUFFICES ASSUME Inv, [PartsNext]_partsVars, part' \in RunParts PROVE RunKept'
    OBVIOUS
  <2>1. part' = part
    BY DEF PartsNext, partsVars
  <2>2. RunKept
    BY <2>1
  <2>3. CASE PartsNext
    <3>1. Runs!Next
      BY <2>1, <2>3 DEF PartsNext, LedgerParts, ExportParts, RunParts
    <3> QED
      BY <2>2, <3>1, RunKeptNext
  <2>4. CASE UNCHANGED partsVars
    <3>1. used' = used /\ log' = log /\ flight' = flight /\ saved' = saved
      BY <2>4 DEF partsVars, runVars
    <3> QED
      BY <2>2, <3>1 DEF RunKept
  <2> QED
    BY <2>3, <2>4
<1>3. Inv => ReplaysAgree
  BY KeptAgree DEF ReplaysAgree
<1> QED
  BY <1>1, <1>2, <1>3, PTL DEF PartsSpec
=============================================================================
