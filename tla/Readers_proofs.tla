--------------------------- MODULE Readers_proofs ---------------------------
(***************************************************************************)
(* Theorems about Readers: a section for each of its machines, with what   *)
(* the machine keeps for any values of its constants, and last the same of *)
(* the parts of Readers.                                                   *)
(***************************************************************************)
EXTENDS Readers, FiniteSetTheorems, SequenceTheorems, WellFoundedInduction, TLAPS

-----------------------------------------------------------------------------
(* Workspace *)

HomeManifests == [owner : {OwnerOf[p] : p \in Procs}, by : Procs]
HomeSteps == {"idle", "key", "manifest", "open", "opening",
          "OWNER_MISMATCH", "ALREADY_EXISTS", "ENCRYPTION_KEY_MISSING"}

HomeTyped ==
  /\ home \in HomeManifests \cup {Absent} /\ key \in Procs \cup {Absent}
  /\ procs \in [Procs -> [at : HomeSteps, manifest : HomeManifests \cup {Absent}, created : BOOLEAN]]
  /\ losses \in {0, 1}

\* One key for all that is sealed; if it is lost, the manifest keeps every process
\* from making another.
Recoverable ==
  /\ key # Absent => \A s \in sealed : s.key = key
  /\ key = Absent /\ sealed # {} =>
       losses = 1 /\ home # Absent /\ \A p \in Procs : procs[p].at # "key"

\* Until something is lost, the key comes before the manifest and the manifest
\* before anything is open or sealed, and the manifest names its creator.
Founded ==
  losses = 0 =>
    /\ home # Absent => key # Absent
    /\ sealed # {} => home # Absent
    /\ \A p \in Procs :
         /\ procs[p].at = "manifest" => key # Absent
         /\ procs[p].at \in {"open", "opening"} => home # Absent /\ procs[p].manifest = home
         /\ procs[p].created => home # Absent /\ home.by = p

HomeWhole == HomeTyped /\ Recoverable /\ Founded

\* A workspace has one key and one creator, whoever initializes it at the same time
\* or again and wherever they die: what was sealed can be read as long as there is
\* a key (initializeWorkspace's two create-only writes, openWorkspace's check).
THEOREM HomeKeepsOneKey ==
  ASSUME Home!WorkspaceAssumption PROVE Home!Spec => []Home!OneKey
<1> USE DEF Home!WorkspaceAssumption, HomeManifests
<1>1. Home!Init => HomeWhole
  BY DEF Home!Init, Home!Idle, HomeWhole, HomeTyped, Recoverable, Founded, HomeSteps
<1>2. HomeWhole /\ [Home!Next]_Home!vars => HomeWhole'
  <2> SUFFICES ASSUME HomeWhole, [Home!Next]_Home!vars PROVE HomeWhole'
    OBVIOUS
  <2> USE DEF HomeWhole, HomeTyped, Recoverable, Founded, HomeSteps
  <2>1. ASSUME NEW p \in Procs, Home!Find(p) PROVE HomeWhole'
    <3>1. CASE home = Absent
      BY <2>1, <3>1 DEF Home!Find, Home!Moves
    <3>2. CASE home # Absent /\ home.owner = OwnerOf[p]
      <4>1. procs' = [procs EXCEPT ![p] = [at |-> "open", manifest |-> home, created |-> FALSE]]
        BY <2>1, <3>2 DEF Home!Find, Home!Has
      <4> QED
        BY <2>1, <3>2, <4>1 DEF Home!Find
    <3>3. CASE home # Absent /\ home.owner # OwnerOf[p]
      <4>1. procs' = [procs EXCEPT ![p].at = "OWNER_MISMATCH"]
        BY <2>1, <3>3 DEF Home!Find, Home!Moves
      <4> QED
        BY <2>1, <3>3, <4>1 DEF Home!Find
    <3> QED
      BY <3>1, <3>2, <3>3
  <2>2. ASSUME NEW p \in Procs, Home!WriteKey(p) PROVE HomeWhole'
    BY <2>2 DEF Home!WriteKey, Home!Created, Home!Moves
  <2>3. ASSUME NEW p \in Procs, Home!WriteManifest(p) PROVE HomeWhole'
    <3>1. CASE home = Absent
      <4>1. /\ home' = [owner |-> OwnerOf[p], by |-> p]
            /\ procs' = [procs EXCEPT ![p] = [at |-> "open", manifest |-> home', created |-> TRUE]]
        BY <2>3, <3>1 DEF Home!WriteManifest, Home!Created, Home!Has
      <4>2. home' \in HomeManifests /\ home' # Absent /\ home'.by = p
        BY <4>1
      <4> QED
        BY <2>3, <3>1, <4>1, <4>2 DEF Home!WriteManifest
    <3>2. CASE home # Absent
      BY <2>3, <3>2 DEF Home!WriteManifest, Home!Created, Home!Moves
    <3> QED
      BY <3>1, <3>2
  <2>4. ASSUME NEW p \in Procs, Home!Open(p) PROVE HomeWhole'
    BY <2>4 DEF Home!Open
  <2>5. ASSUME NEW p \in Procs, Home!Opened(p) PROVE HomeWhole'
    BY <2>5 DEF Home!Opened, Home!Moves
  <2>6. ASSUME NEW p \in Procs, Home!Seal(p) PROVE HomeWhole'
    BY <2>6 DEF Home!Seal
  <2>7. ASSUME NEW p \in Procs, Home!Restart(p) PROVE HomeWhole'
    BY <2>7 DEF Home!Restart, Home!Idle
  <2>8. CASE Home!LoseKey
    BY <2>8 DEF Home!LoseKey, Home!Settled
  <2>9. CASE Home!LoseManifest
    BY <2>9 DEF Home!LoseManifest, Home!Settled
  <2>10. CASE UNCHANGED Home!vars
    BY <2>10 DEF Home!vars
  <2> QED
    BY <2>1, <2>2, <2>3, <2>4, <2>5, <2>6, <2>7, <2>8, <2>9, <2>10 DEF Home!Next
<1>3. HomeWhole => Home!OneKey
  BY DEF HomeWhole, HomeTyped, Recoverable, Founded, Home!OneKey, Home!Reads
<1> QED
  BY <1>1, <1>2, <1>3, PTL DEF Home!Spec
-----------------------------------------------------------------------------
(* CompanionLog: CommitsFollowReads, SavedIsKept and DecisionOnShelf are   *)
(* about the files.  Ordered adds what every process in between stands on: *)
(* the revision it read is still in the log where it read it, the one it   *)
(* compared with is the one before the slot it tries, and what it has      *)
(* linked stays there until it says so.                                    *)

Revisions == Companion!InputType \cup {Origin}
LogSteps == {"apart", "ready", "load", "stage", "link", "unlink", "unsure"}

LogTyped ==
  /\ records \in Seq([body : Companion!InputType, previous : Revisions])
  /\ bases \in Seq(Nat) /\ Len(bases) = Len(records)
  /\ agent \in [Agent -> [step : LogSteps, expected : Revisions, base : Nat, input : Input \cup {Origin},
                          body : Revisions, listed : Nat]]

\* The revision after the first n records of a log.
Rev(l, n) == IF n = 0 THEN Origin ELSE l[n].body

\* What a process goes by is in the log.
Stands(a) ==
  LET c == agent[a] IN
  /\ c.step # "apart" => c.base <= Len(records) /\ c.expected = Rev(records, c.base)
  /\ c.step \in {"load", "stage", "link", "unlink", "unsure"} => c.input \in Input
  /\ c.step \in {"stage", "link"} =>
       /\ c.listed <= Len(records) /\ c.expected = Rev(records, c.listed)
       /\ c.body \in Companion!InputType /\ c.body # Rev(records, c.listed)
  /\ c.step = "unlink" => \E n \in DOMAIN records : records[n].body = c.body

\* CommitsFollowReads, and that a record was read for before it was written.
Follows ==
  \A n \in DOMAIN records :
    /\ bases[n] < n
    /\ records[n].previous = Rev(records, n - 1)
    /\ Rev(records, bases[n]) = Rev(records, n - 1)
    /\ records[n].body # Rev(records, n - 1)

Ordered ==
  /\ LogTyped /\ Follows /\ Companion!SavedIsKept
  /\ \A a \in Agent : Stands(a)

\* The body that is saved is an input, perhaps with the decision cleared.
LEMMA BodyIsTyped ==
  ASSUME Companion!CompanionAssumption, NEW i \in Input, NEW n PROVE Companion!Body(i, n) \in Companion!InputType
  BY DEF Companion!CompanionAssumption, Companion!Body, Companion!InputType

\* A record that is appended leaves the revisions before it as they were.
LEMMA RevisionsStay ==
  ASSUME NEW r, LogTyped, records' = Append(records, r), r \in [body : Companion!InputType, previous : Revisions]
  PROVE  /\ records' \in Seq([body : Companion!InputType, previous : Revisions]) /\ Len(records') = Len(records) + 1
         /\ \A n \in 0..Len(records) : Rev(records', n) = Rev(records, n)
         /\ Rev(records', Len(records) + 1) = r.body
         /\ \A n \in 1..Len(records) : records'[n] = records[n]
         /\ records'[Len(records) + 1] = r
<1>1. Len(records) \in Nat /\ DOMAIN records = 1..Len(records)
  BY LenProperties DEF LogTyped
<1>2. /\ records' \in Seq([body : Companion!InputType, previous : Revisions]) /\ Len(records') = Len(records) + 1
      /\ \A n \in 1..Len(records) : records'[n] = records[n]
      /\ records'[Len(records) + 1] = r
  BY AppendProperties DEF LogTyped
<1>3. ASSUME NEW n \in 0..Len(records) PROVE Rev(records', n) = Rev(records, n)
  <2>1. CASE n = 0
    BY <2>1 DEF Rev
  <2>2. CASE n \in 1..Len(records)
    BY <1>2, <2>2 DEF Rev
  <2> QED
    BY <1>1, <2>1, <2>2
<1>4. Rev(records', Len(records) + 1) = r.body
  BY <1>1, <1>2 DEF Rev
<1> QED
  BY <1>2, <1>3, <1>4

\* A revision of the log is a body or the origin; only the origin comes first.
LEMMA RevIsTyped ==
  ASSUME LogTyped, NEW n \in 0..Len(records)
  PROVE  Rev(records, n) \in Revisions /\ (n # 0 => n \in DOMAIN records /\ Rev(records, n) = records[n].body)
<1>1. Len(records) \in Nat /\ DOMAIN records = 1..Len(records)
  BY LenProperties DEF LogTyped
<1>2. CASE n = 0
  BY <1>2 DEF Rev, Revisions
<1>3. CASE n \in 1..Len(records)
  <2>1. records[n] \in [body : Companion!InputType, previous : Revisions]
    BY <1>3, ElementOfSeq DEF LogTyped
  <2> QED
    BY <1>1, <1>3, <2>1 DEF Rev, Revisions
<1> QED
  BY <1>1, <1>2, <1>3

\* An agent that changes to a typed record leaves the agents typed.
LEMMA MoveIsTyped ==
  ASSUME NEW a \in Agent, NEW step \in LogSteps, NEW body \in Revisions, NEW n \in Nat, LogTyped,
         agent' = [agent EXCEPT ![a].step = step, ![a].body = body, ![a].listed = n]
  PROVE  /\ agent' \in [Agent -> [step : LogSteps, expected : Revisions, base : Nat, input : Input \cup {Origin},
                                body : Revisions, listed : Nat]]
         /\ agent'[a].step = step /\ agent'[a].body = body /\ agent'[a].listed = n
         /\ agent'[a].base = agent[a].base /\ agent'[a].input = agent[a].input
         /\ agent'[a].expected = agent[a].expected
         /\ \A b \in Agent \ {a} : agent'[b] = agent[b]
<1> DEFINE State == [step : LogSteps, expected : Revisions, base : Nat, input : Input \cup {Origin},
                     body : Revisions, listed : Nat]
           c == [agent[a] EXCEPT !.step = step, !.body = body, !.listed = n]
<1>1. agent \in [Agent -> State]
  BY DEF LogTyped
<1>2. /\ c \in State /\ c.step = step /\ c.body = body /\ c.listed = n
      /\ c.base = agent[a].base /\ c.input = agent[a].input /\ c.expected = agent[a].expected
  <2>1. agent[a] \in State
    BY <1>1
  <2> QED
    BY <2>1
<1>3. agent' = [agent EXCEPT ![a] = c]
  BY <1>1
<1> HIDE DEF c, State
<1>4. agent' \in [Agent -> State] /\ agent'[a] = c /\ \A b \in Agent \ {a} : agent'[b] = agent[b]
  <2>1. c \in State
    BY <1>2
  <2> QED
    BY <1>1, <1>3, <2>1
<1> QED
  BY <1>2, <1>4 DEF State

LEMMA RevisionIsRev == \A n : Companion!Revision(n) = Rev(records, n)
  BY DEF Companion!Revision, Rev

-----------------------------------------------------------------------------
\* Steps that leave the records alone keep what an agent stands on, unless the
\* agent itself moves.
LEMMA OthersStand ==
  ASSUME NEW a \in Agent, Stands(a), UNCHANGED records, agent'[a] = agent[a] PROVE Stands(a)'
  BY DEF Stands

\* An appended record leaves what an agent stands on where it is.
LEMMA AppendStands ==
  ASSUME NEW a \in Agent, LogTyped, Stands(a), agent'[a] = agent[a],
         NEW r \in [body : Companion!InputType, previous : Revisions], records' = Append(records, r)
  PROVE  Stands(a)'
<1>1. Len(records) \in Nat /\ agent[a].base \in Nat /\ agent[a].listed \in Nat
  BY DEF LogTyped
<1> QED
  BY <1>1, RevisionsStay DEF Stands

LEMMA OrderedAlways ==
  ASSUME Companion!CompanionAssumption PROVE Companion!Spec => []Ordered
<1>1. Companion!Init => Ordered
  BY DEF Companion!Init, Companion!Nothing, Ordered, LogTyped, Stands, Follows, Companion!SavedIsKept,
         Revisions, LogSteps
<1>2. Ordered /\ [Companion!Next]_Companion!vars => Ordered'
  <2> SUFFICES ASSUME Ordered, [Companion!Next]_Companion!vars PROVE Ordered'
    OBVIOUS
  <2> USE DEF Ordered
  <2>0. Len(records) \in Nat /\ DOMAIN records = 1..Len(records)
    BY LenProperties DEF LogTyped
  <2>1. ASSUME NEW a \in Agent, Companion!Read(a) PROVE Ordered'
    <3>1. Rev(records, Len(records)) \in Revisions /\ Companion!Revision(Len(records)) = Rev(records, Len(records))
      BY <2>0, RevIsTyped, RevisionIsRev
    <3>2. LogTyped'
      BY <2>0, <2>1, <3>1 DEF LogTyped, Companion!Read, Companion!Nothing, LogSteps, Revisions
    <3>3. ASSUME NEW b \in Agent PROVE Stands(b)'
      <4>1. CASE b = a
        <5>1. /\ agent'[a].step = "ready" /\ agent'[a].base = Len(records)
              /\ agent'[a].expected = Rev(records, Len(records)) /\ UNCHANGED records
          BY <2>1, <3>1 DEF LogTyped, Companion!Read, Companion!Nothing
        <5> QED
          BY <2>0, <4>1, <5>1 DEF Stands
      <4>2. CASE b # a
        BY <2>1, <4>2, OthersStand DEF LogTyped, Companion!Read
      <4> QED
        BY <4>1, <4>2
    <3> QED
      BY <2>1, <3>2, <3>3 DEF Companion!Read, Follows, Companion!SavedIsKept
  <2>2. ASSUME NEW a \in Agent, NEW i \in Input, Companion!Call(a, i) PROVE Ordered'
    <3>1. LogTyped'
      BY <2>2 DEF LogTyped, Companion!Call, LogSteps
    <3>2. ASSUME NEW b \in Agent PROVE Stands(b)'
      <4>1. CASE b = a
        BY <2>2, <4>1 DEF LogTyped, Companion!Call, Stands
      <4>2. CASE b # a
        BY <2>2, <4>2, OthersStand DEF LogTyped, Companion!Call
      <4> QED
        BY <4>1, <4>2
    <3> QED
      BY <2>2, <3>1, <3>2 DEF Companion!Call, Follows, Companion!SavedIsKept
  <2>3. ASSUME NEW a \in Agent, Companion!CallAgain(a) PROVE Ordered'
    <3>1. LogTyped'
      BY <2>3 DEF LogTyped, Companion!CallAgain, LogSteps
    <3>2. ASSUME NEW b \in Agent PROVE Stands(b)'
      <4>1. CASE b = a
        BY <2>3, <4>1 DEF LogTyped, Companion!CallAgain, Stands
      <4>2. CASE b # a
        BY <2>3, <4>2, OthersStand DEF LogTyped, Companion!CallAgain
      <4> QED
        BY <4>1, <4>2
    <3> QED
      BY <2>3, <3>1, <3>2 DEF Companion!CallAgain, Follows, Companion!SavedIsKept
  <2>4. ASSUME NEW a \in Agent, Companion!Load(a) PROVE Ordered'
    <3>1. agent[a].step = "load" /\ agent[a].input \in Input /\ UNCHANGED <<records, bases>>
      BY <2>4 DEF Companion!Load, Stands
    <3>2. Companion!Body(agent[a].input, Len(records)) \in Companion!InputType
      BY <3>1, BodyIsTyped
    <3>3. Companion!Grounded(agent[a].input, Len(records))
            /\ Companion!AlreadySaved(Len(records), Companion!Body(agent[a].input, Len(records)))
          => \E n \in DOMAIN records : records[n].body = Companion!Body(agent[a].input, Len(records))
      <4>1. CASE Len(records) = 0
        BY <3>2, <4>1 DEF Companion!AlreadySaved, Companion!Revision, Companion!CompanionAssumption
      <4>2. CASE Len(records) # 0
        BY <2>0, <4>2, RevIsTyped, RevisionIsRev DEF Companion!AlreadySaved
      <4> QED
        BY <4>1, <4>2
    <3>4. \/ told' = told
          \/ /\ told' = told \cup {Companion!Body(agent[a].input, Len(records))}
             /\ \E n \in DOMAIN records : records[n].body = Companion!Body(agent[a].input, Len(records))
      <4> DEFINE i == agent[a].input
                 n == Len(records)
      <4>1. CASE Companion!Grounded(i, n) /\ Companion!AlreadySaved(n, Companion!Body(i, n)) /\ Companion!Saved(a, Companion!Body(i, n))
        BY <3>3, <4>1 DEF Companion!Saved
      <4>2. CASE UNCHANGED told
        BY <4>2
      <4>3. \/ Companion!Grounded(i, n) /\ Companion!AlreadySaved(n, Companion!Body(i, n)) /\ Companion!Saved(a, Companion!Body(i, n))
            \/ UNCHANGED told
        BY <2>4 DEF Companion!Load, Companion!Refused
      <4> QED
        BY <4>1, <4>2, <4>3
    <3>5. \/ agent' = [agent EXCEPT ![a] = Companion!Nothing]
          \/ /\ agent' = [agent EXCEPT ![a].step = "stage", ![a].body = Companion!Body(agent[a].input, Len(records)),
                                       ![a].listed = Len(records)]
             /\ agent[a].expected = Rev(records, Len(records))
             /\ Companion!Body(agent[a].input, Len(records)) # Rev(records, Len(records))
      <4>1. Companion!AlreadySaved(Len(records), Companion!Body(agent[a].input, Len(records)))
              <=> Rev(records, Len(records)) = Companion!Body(agent[a].input, Len(records))
        BY RevisionIsRev DEF Companion!AlreadySaved
      <4>2. Companion!Expected(a, Len(records)) <=> agent[a].expected = Rev(records, Len(records))
        BY RevisionIsRev DEF Companion!Expected
      <4> QED
        BY <2>4, <4>1, <4>2 DEF Companion!Load, Companion!Refused, Companion!Saved
    <3>6. LogTyped'
      <4>1. CASE agent' = [agent EXCEPT ![a] = Companion!Nothing]
        BY <3>1, <4>1 DEF LogTyped, Companion!Nothing, LogSteps, Revisions
      <4>2. CASE agent' # [agent EXCEPT ![a] = Companion!Nothing]
        BY <2>0, <3>1, <3>2, <3>5, <4>2, MoveIsTyped DEF LogTyped, LogSteps, Revisions
      <4> QED
        BY <4>1, <4>2
    <3>7. ASSUME NEW b \in Agent PROVE Stands(b)'
      <4>1. CASE b = a /\ agent' = [agent EXCEPT ![a] = Companion!Nothing]
        <5>1. agent'[b].step = "apart"
          BY <4>1 DEF LogTyped, Companion!Nothing
        <5> QED
          BY <5>1 DEF Stands
      <4>2. CASE b = a /\ agent' # [agent EXCEPT ![a] = Companion!Nothing]
        <5>1. /\ agent'[b].step = "stage" /\ agent'[b].body = Companion!Body(agent[a].input, Len(records))
              /\ agent'[b].listed = Len(records) /\ agent'[b].base = agent[a].base
              /\ agent'[b].input = agent[a].input /\ agent'[b].expected = agent[a].expected
          <6> DEFINE body == Companion!Body(agent[a].input, Len(records))
                     n == Len(records)
                     step == "stage"
          <6>1. step \in LogSteps /\ body \in Revisions /\ n \in Nat
            BY <2>0, <3>2 DEF LogSteps, Revisions
          <6>2. agent' = [agent EXCEPT ![a].step = step, ![a].body = body, ![a].listed = n]
            BY <3>5, <4>2
          <6>3. LogTyped /\ b = a
            BY <4>2
          <6> HIDE DEF Ordered, body, n, step
          <6>4. /\ agent'[a].step = step /\ agent'[a].body = body /\ agent'[a].listed = n
                /\ agent'[a].base = agent[a].base /\ agent'[a].input = agent[a].input
                /\ agent'[a].expected = agent[a].expected
            BY <6>1, <6>2, <6>3, MoveIsTyped
          <6> QED
            BY <6>3, <6>4 DEF body, n, step
        <5> QED
          BY <2>0, <3>1, <3>2, <3>5, <4>2, <5>1 DEF Stands
      <4>3. CASE b # a
        BY <3>1, <3>5, <4>3, OthersStand DEF LogTyped
      <4> QED
        BY <4>1, <4>2, <4>3
    <3> QED
      BY <3>1, <3>4, <3>6, <3>7 DEF Follows, Companion!SavedIsKept
  <2>5. ASSUME NEW a \in Agent, Companion!Stage(a) PROVE Ordered'
    <3>1. LogTyped'
      BY <2>5 DEF LogTyped, Companion!Stage, LogSteps
    <3>2. ASSUME NEW b \in Agent PROVE Stands(b)'
      <4>1. CASE b = a
        BY <2>5, <4>1 DEF LogTyped, Companion!Stage, Stands
      <4>2. CASE b # a
        BY <2>5, <4>2, OthersStand DEF LogTyped, Companion!Stage
      <4> QED
        BY <4>1, <4>2
    <3> QED
      BY <2>5, <3>1, <3>2 DEF Companion!Stage, Follows, Companion!SavedIsKept
  <2>6. ASSUME NEW a \in Agent, agent[a].step = "link", Companion!LinkSlot(a), Len(records) = agent[a].listed PROVE Ordered'
    <3> DEFINE c == agent[a]
               r == [body |-> c.body, previous |-> c.expected]
    <3>1. /\ records' = Append(records, r) /\ bases' = Append(bases, c.base)
          /\ agent' = [agent EXCEPT ![a].step = "unlink"] /\ UNCHANGED told
      BY <2>6 DEF Companion!LinkSlot
    <3>2. /\ c.base \in Nat /\ c.base <= Len(records) /\ c.expected = Rev(records, c.base)
          /\ c.expected = Rev(records, Len(records)) /\ c.body # Rev(records, Len(records))
          /\ c.input \in Input /\ r \in [body : Companion!InputType, previous : Revisions]
      BY <2>6 DEF Stands, LogTyped
    <3>3. /\ records' \in Seq([body : Companion!InputType, previous : Revisions]) /\ Len(records') = Len(records) + 1
          /\ \A n \in 0..Len(records) : Rev(records', n) = Rev(records, n)
          /\ Rev(records', Len(records) + 1) = r.body
          /\ \A n \in 1..Len(records) : records'[n] = records[n]
          /\ records'[Len(records) + 1] = r
      <4> HIDE DEF r
      <4> QED
        BY <3>1, <3>2, RevisionsStay
    <3>4. /\ bases' \in Seq(Nat) /\ Len(bases') = Len(bases) + 1
          /\ \A n \in 1..Len(records) : bases'[n] = bases[n]
          /\ bases'[Len(records) + 1] = c.base
      <4>1. bases \in Seq(Nat) /\ Len(bases) = Len(records) /\ c.base \in Nat
        BY <3>2 DEF LogTyped
      <4> HIDE DEF c, r
      <4> QED
        BY <3>1, <4>1, AppendProperties
    <3>5. LogTyped'
      <4>1. agent' \in [Agent -> [step : LogSteps, expected : Revisions, base : Nat, input : Input \cup {Origin},
                                  body : Revisions, listed : Nat]]
        BY <3>1 DEF LogTyped, LogSteps
      <4>2. Len(bases') = Len(records')
        BY <3>3, <3>4 DEF LogTyped
      <4> QED
        BY <3>3, <3>4, <4>1, <4>2 DEF LogTyped
    <3>6. ASSUME NEW b \in Agent PROVE Stands(b)'
      <4>1. CASE b = a
        <5>1. agent'[a].step = "unlink" /\ agent'[a].base = c.base /\ agent'[a].expected = c.expected
                /\ agent'[a].input = c.input /\ agent'[a].body = c.body
          BY <3>1 DEF LogTyped
        <5>2. Len(records) + 1 \in DOMAIN records'
          BY <2>0, <3>3, LenProperties
        <5>3. c.base \in 0..Len(records) /\ c.expected = Rev(records', c.base) /\ c.base <= Len(records')
          <6>1. c.base \in 0..Len(records)
            BY <2>0, <3>2
          <6>2. c.expected = Rev(records, c.base) /\ Len(records') = Len(records) + 1
            BY <3>2, <3>3
          <6>3. \A n \in 0..Len(records) : Rev(records', n) = Rev(records, n)
            BY <3>3
          <6> HIDE DEF c, r
          <6> QED
            BY <2>0, <6>1, <6>2, <6>3
        <5>4. records'[Len(records) + 1].body = c.body
          BY <3>3
        <5> QED
          BY <3>2, <4>1, <5>1, <5>2, <5>3, <5>4 DEF Stands
      <4>2. CASE b # a
        <5>1. agent'[b] = agent[b]
          BY <3>1, <4>2 DEF LogTyped
        <5> HIDE DEF r
        <5> QED
          BY <3>1, <3>2, <5>1, AppendStands
      <4> QED
        BY <4>1, <4>2
    <3>7. DOMAIN records' = 1..(Len(records) + 1)
      BY <2>0, <3>3, LenProperties
    <3>8. Follows'
      <4> SUFFICES ASSUME NEW n \in 1..(Len(records) + 1)
                   PROVE  /\ bases'[n] < n /\ records'[n].previous = Rev(records', n - 1)
                          /\ Rev(records', bases'[n]) = Rev(records', n - 1)
                          /\ records'[n].body # Rev(records', n - 1)
        BY <3>7 DEF Follows
      <4>1. CASE n = Len(records) + 1
        <5>1. Rev(records', n - 1) = Rev(records, Len(records)) /\ Rev(records', bases'[n]) = Rev(records, c.base)
          <6>1. n - 1 = Len(records) /\ n - 1 \in 0..Len(records) /\ bases'[n] = c.base /\ c.base \in 0..Len(records)
            BY <2>0, <3>2, <3>4, <4>1
          <6> HIDE DEF c, r
          <6> QED
            BY <3>3, <6>1
        <5>2. n - 1 = Len(records) /\ bases'[n] = c.base /\ c.base < n
          BY <2>0, <3>2, <3>4, <4>1
        <5>3. records'[n].previous = c.expected /\ records'[n].body = c.body
          BY <3>3, <4>1
        <5> QED
          BY <3>2, <5>1, <5>2, <5>3
      <4>2. CASE n \in 1..Len(records)
        <5>1. bases[n] \in Nat /\ bases[n] < n /\ n - 1 \in 0..Len(records) /\ bases[n] \in 0..Len(records)
          <6>1. bases[n] \in Nat /\ bases[n] < n
            <7>1. bases \in Seq(Nat) /\ Len(bases) = Len(records) /\ Follows
              BY <2>0 DEF LogTyped
            <7>2. bases[n] \in Nat
              BY ONLY <4>2, <7>1
            <7>3. n \in DOMAIN records
              BY <2>0, <4>2 DEF LogTyped
            <7> QED
              BY <7>1, <7>2, <7>3 DEF Follows
          <6>2. Len(records) \in Nat
            BY <2>0 DEF LogTyped
          <6> QED
            BY ONLY <4>2, <6>1, <6>2
        <5>2. Rev(records', n - 1) = Rev(records, n - 1) /\ Rev(records', bases'[n]) = Rev(records, bases[n])
                /\ bases'[n] = bases[n] /\ records'[n] = records[n]
          BY <3>3, <3>4, <4>2, <5>1
        <5> QED
          BY <2>0, <4>2, <5>1, <5>2 DEF Follows
      <4> QED
        BY <2>0, <4>1, <4>2
    <3>9. Companion!SavedIsKept'
      BY <2>0, <3>1, <3>3, <3>7 DEF Companion!SavedIsKept
    <3> QED
      BY <3>5, <3>6, <3>8, <3>9
  <2>7. ASSUME NEW a \in Agent, agent[a].step = "link", Companion!LinkSlot(a), Len(records) # agent[a].listed PROVE Ordered'
    <3>1. agent' = [agent EXCEPT ![a] = Companion!Nothing] /\ UNCHANGED <<records, bases, told>>
      BY <2>7 DEF Companion!LinkSlot, Companion!Refused
    <3>2. LogTyped'
      BY <3>1 DEF LogTyped, Companion!Nothing, LogSteps, Revisions
    <3>3. ASSUME NEW b \in Agent PROVE Stands(b)'
      <4>1. CASE b = a
        BY <3>1, <4>1 DEF LogTyped, Companion!Nothing, Stands
      <4>2. CASE b # a
        BY <3>1, <4>2, OthersStand DEF LogTyped
      <4> QED
        BY <4>1, <4>2
    <3> QED
      BY <3>1, <3>2, <3>3 DEF Follows, Companion!SavedIsKept
  <2>8. ASSUME NEW a \in Agent, Companion!Unlink(a) PROVE Ordered'
    <3>1. /\ agent[a].step = "unlink" /\ agent' = [agent EXCEPT ![a] = Companion!Nothing]
          /\ told' = told \cup {agent[a].body} /\ UNCHANGED <<records, bases>>
      BY <2>8 DEF Companion!Unlink, Companion!Saved
    <3>2. LogTyped'
      BY <3>1 DEF LogTyped, Companion!Nothing, LogSteps, Revisions
    <3>3. ASSUME NEW b \in Agent PROVE Stands(b)'
      <4>1. CASE b = a
        BY <3>1, <4>1 DEF LogTyped, Companion!Nothing, Stands
      <4>2. CASE b # a
        BY <3>1, <4>2, OthersStand DEF LogTyped
      <4> QED
        BY <4>1, <4>2
    <3>4. \E n \in DOMAIN records : records[n].body = agent[a].body
      BY <3>1 DEF Stands
    <3>5. Companion!SavedIsKept'
      BY <3>1, <3>4 DEF Companion!SavedIsKept
    <3> QED
      BY <3>1, <3>2, <3>3, <3>5 DEF Follows
  <2>9. ASSUME NEW a \in Agent, Companion!Fail(a) PROVE Ordered'
    <3>1. LogTyped'
      <4>1. agent' = [agent EXCEPT ![a].step = "unsure", ![a].body = Origin, ![a].listed = 0]
              /\ UNCHANGED <<records, bases>>
        BY <2>9 DEF Companion!Fail
      <4> QED
        BY <4>1, MoveIsTyped DEF LogTyped, LogSteps, Revisions
    <3>2. ASSUME NEW b \in Agent PROVE Stands(b)'
      <4>1. CASE b = a
        BY <2>9, <4>1 DEF LogTyped, Companion!Fail, Stands
      <4>2. CASE b # a
        BY <2>9, <4>2, OthersStand DEF LogTyped, Companion!Fail
      <4> QED
        BY <4>1, <4>2
    <3> QED
      BY <2>9, <3>1, <3>2 DEF Companion!Fail, Follows, Companion!SavedIsKept
  <2>10. CASE UNCHANGED Companion!vars
    BY <2>10 DEF Companion!vars, LogTyped, Stands, Follows, Companion!SavedIsKept
  <2> QED
    BY <2>1, <2>2, <2>3, <2>4, <2>5, <2>6, <2>7, <2>8, <2>9, <2>10 DEF Companion!Next, Companion!Link
<1> QED
  BY <1>1, <1>2, PTL DEF Companion!Spec

\* Checkpoints follow what their agents had read, and what was told is kept.
THEOREM CompanionSavesInOrder ==
  ASSUME Companion!CompanionAssumption PROVE Companion!Spec => [](Companion!CommitsFollowReads /\ Companion!SavedIsKept)
<1>1. Ordered => Companion!CommitsFollowReads /\ Companion!SavedIsKept
  BY RevisionIsRev DEF Ordered, Follows, Companion!CommitsFollowReads
<1> QED
  BY <1>1, OrderedAlways, PTL

-----------------------------------------------------------------------------
(* The shelf and the decision *)

\* A set of positions in the log has a last one.
LEMMA LastOf ==
  ASSUME NEW n \in Nat, NEW S, S \subseteq 1..n, S # {}
  PROVE  LET m == CHOOSE i \in S : \A j \in S : j <= i IN m \in S /\ \A j \in S : j <= m
<1> DEFINE T == {n - i : i \in S}
<1>1. \A i \in S : i \in Nat /\ n - i \in Nat
  OBVIOUS
<1>2. T \subseteq Nat /\ T # {}
  BY <1>1
<1>3. \E t \in T : \A u \in T : ~(<<u, t>> \in OpToRel(<, Nat))
  <2> HIDE DEF T
  <2> QED
    BY <1>2, WFMin, NatLessThanWellFounded, Zenon
<1>4. PICK t \in T : \A u \in T : ~(u \in Nat /\ t \in Nat /\ u < t)
  <2> HIDE DEF T
  <2> QED
    BY <1>3, Zenon DEF OpToRel
<1>5. PICK m \in S : t = n - m
  BY <1>4
<1>6. \A j \in S : j <= m
  <2> TAKE j \in S
  <2>1. n - j \in T /\ n - j \in Nat /\ t \in Nat
    BY <1>1, <1>5
  <2>2. ~(n - j < n - m)
    BY <1>4, <1>5, <2>1
  <2> QED
    BY <1>1, <2>2
<1> QED
  BY <1>6, Zenon

\* What stands after one more checkpoint: what it gives, or else what stood.
LEMMA StandingOfAppend ==
  ASSUME LogTyped, NEW r \in [body : Companion!InputType, previous : Revisions], records' = Append(records, r), NEW field
  PROVE  Companion!Standing(Len(records), field)'
           = IF r.body[field] = {} THEN Companion!Standing(Len(records), field) ELSE CHOOSE v \in r.body[field] : TRUE
<1> DEFINE n == Len(records)
           old == {i \in 1..n : records[i].body[field] # {}}
           new == {i \in 1..n + 1 : records'[i].body[field] # {}}
           Last(S) == CHOOSE i \in S : \A j \in S : j <= i
<1>1. n \in Nat /\ Len(records') = n + 1 /\ records'[n + 1] = r /\ \A i \in 1..n : records'[i] = records[i]
  BY RevisionsStay, LenProperties DEF LogTyped
<1>2. /\ Companion!Standing(Len(records), field) = IF old = {} THEN {} ELSE CHOOSE v \in records[Last(old)].body[field] : TRUE
      /\ Companion!Standing(Len(records), field)' = IF new = {} THEN {} ELSE CHOOSE v \in records'[Last(new)].body[field] : TRUE
  BY <1>1 DEF Companion!Standing
<1> HIDE DEF n
<1>3. CASE r.body[field] = {}
  <2>1. new = old
    BY <1>1, <1>3
  <2>2. ASSUME old # {} PROVE records'[Last(old)] = records[Last(old)]
    <3>1. Last(old) \in old
      <4>1. old \subseteq 1..n
        OBVIOUS
      <4> HIDE DEF old
      <4> QED
        BY <1>1, <2>2, <4>1, LastOf
    <3> QED
      BY <1>1, <3>1
  <2> HIDE DEF old, new, Last
  <2> QED
    BY <1>2, <1>3, <2>1, <2>2
<1>4. CASE r.body[field] # {}
  <2>1. new \subseteq 1..n + 1 /\ n + 1 \in new
    BY <1>1, <1>4
  <2>2. Last(new) \in new /\ n + 1 <= Last(new)
    <3> HIDE DEF new
    <3>1. n + 1 \in Nat /\ new # {}
      BY <1>1, <2>1
    <3> QED
      BY <2>1, <3>1, LastOf
  <2>3. Last(new) = n + 1
    <3>1. Last(new) \in 1..n + 1
      BY <2>1, <2>2
    <3> HIDE DEF new, Last
    <3> QED
      BY <1>1, <2>2, <3>1
  <2>4. new # {}
    BY <2>1
  <2> HIDE DEF new, Last
  <2> QED
    BY <1>1, <1>2, <1>4, <2>3, <2>4
<1> QED
  BY <1>3, <1>4

\* What will stand if a checkpoint with this body comes after the first n.
Shelf(b, n) == IF b.items = {} THEN Companion!WorkItems(n) ELSE CHOOSE v \in b.items : TRUE
Chosen(b, n) == IF b.decision = {} THEN Companion!Decision(n) ELSE CHOOSE v \in b.decision : TRUE

\* A body that may follow the first n checkpoints.
Lands(b, n) == Chosen(b, n) \subseteq Shelf(b, n) /\ Companion!AtMostOne(Chosen(b, n))

\* The inductive invariant behind DecisionOnShelf: a body that was checked
\* still lands if no checkpoint has come between; and if one has, its link fails.
Shelved ==
  /\ Companion!DecisionOnShelf /\ Companion!AtMostOne(Companion!Decision(Len(records)))
  /\ \A a \in Agent : agent[a].step \in {"stage", "link"} /\ agent[a].listed = Len(records)
                        => Lands(agent[a].body, Len(records))

\* The checks and the clearing of checkpointCompanion give a body that lands.
LEMMA CheckedLands ==
  ASSUME Companion!CompanionAssumption, NEW i \in Input, NEW n, Companion!Grounded(i, n),
         Companion!Decision(n) \subseteq Companion!WorkItems(n), Companion!AtMostOne(Companion!Decision(n))
  PROVE  Lands(Companion!Body(i, n), n)
<1> DEFINE shelf == CHOOSE v \in i.items : TRUE
           given == CHOOSE v \in i.decision : TRUE
<1>1. /\ i \in Companion!InputType /\ Companion!AtMostOne(i.items) /\ Companion!AtMostOne(i.decision)
      /\ \A d \in i.decision : Companion!AtMostOne(d)
  BY DEF Companion!CompanionAssumption
<1>2. i.items # {} => shelf \in i.items /\ UNION i.items = shelf /\ Shelf(i, n) = shelf
  <2>1. ASSUME i.items # {} PROVE shelf \in i.items
    BY <2>1
  <2> HIDE DEF shelf
  <2>2. ASSUME i.items # {} PROVE i.items = {shelf}
    BY <1>1, <2>1, <2>2 DEF Companion!AtMostOne
  <2> QED
    BY <2>1, <2>2 DEF Shelf, shelf
<1>3. CASE i.decision # {}
  <2>1. given \in i.decision
    BY <1>3
  <2>2. Companion!Body(i, n) = i /\ Chosen(i, n) = given
    BY <1>3 DEF Companion!Body, Chosen
  <2> HIDE DEF given, shelf
  <2>3. given \subseteq Shelf(i, n)
    BY <1>2, <2>1 DEF Companion!Grounded, Shelf
  <2> QED
    BY <1>1, <2>1, <2>2, <2>3 DEF Lands
<1>4. CASE i.decision = {} /\ \E S \in i.items : ~\E d \in Companion!Decision(n) : d \in S
  <2>1. Companion!Body(i, n) = [i EXCEPT !.decision = {{}}]
    BY <1>4 DEF Companion!Body
  <2>2. Companion!Body(i, n).decision = {{}}
    BY <1>1, <2>1 DEF Companion!InputType
  <2>3. Chosen(Companion!Body(i, n), n) = {}
    BY <2>2 DEF Chosen
  <2> QED
    BY <2>3 DEF Lands, Companion!AtMostOne
<1>5. CASE i.decision = {} /\ \A S \in i.items : \E d \in Companion!Decision(n) : d \in S
  <2>1. Companion!Body(i, n) = i /\ Chosen(i, n) = Companion!Decision(n)
    BY <1>5 DEF Companion!Body, Chosen
  <2>2. Companion!Decision(n) \subseteq Shelf(i, n)
    <3>1. CASE i.items = {}
      BY <3>1 DEF Shelf
    <3>2. CASE i.items # {}
      <4> HIDE DEF shelf
      <4> QED
        BY <1>2, <1>5, <3>2 DEF Companion!AtMostOne
    <3> QED
      BY <3>1, <3>2
  <2> QED
    BY <2>1, <2>2 DEF Lands
<1> QED
  BY <1>3, <1>4, <1>5

\* Steps that leave the records alone, and give no agent a body to save.
LEMMA ShelvedStays ==
  ASSUME LogTyped, Shelved, UNCHANGED records, NEW a \in Agent, \A b \in Agent \ {a} : agent'[b] = agent[b],
         \/ agent'[a].step \notin {"stage", "link"}
         \/ agent[a].step = "stage" /\ agent'[a].body = agent[a].body /\ agent'[a].listed = agent[a].listed
  PROVE  Shelved'
<1>1. \A n : Companion!WorkItems(n)' = Companion!WorkItems(n) /\ Companion!Decision(n)' = Companion!Decision(n)
  BY DEF Companion!WorkItems, Companion!Decision, Companion!Standing
<1>2. \A b, n : Lands(b, n)' = Lands(b, n)
  BY <1>1 DEF Lands, Chosen, Shelf
<1>3. Companion!DecisionOnShelf' /\ Companion!AtMostOne(Companion!Decision(Len(records)))'
  BY <1>1 DEF Shelved, Companion!DecisionOnShelf, Companion!AtMostOne
<1> QED
  BY <1>2, <1>3 DEF Shelved

LEMMA ShelvedStep ==
  ASSUME Companion!CompanionAssumption, Ordered, Shelved, [Companion!Next]_Companion!vars PROVE Shelved'
<1> USE DEF Ordered
<1>0. Len(records) \in Nat
  BY LenProperties DEF LogTyped
<1>1. ASSUME NEW a \in Agent, \/ Companion!Read(a) \/ (\E i \in Input : Companion!Call(a, i)) \/ Companion!CallAgain(a)
                              \/ Companion!Unlink(a) \/ Companion!Fail(a)
      PROVE  Shelved'
  <2>1. UNCHANGED records /\ (\A b \in Agent \ {a} : agent'[b] = agent[b]) /\ agent'[a].step \notin {"stage", "link"}
    <3>1. CASE Companion!Read(a)
      BY <3>1 DEF LogTyped, Companion!Read, Companion!Nothing
    <3>2. CASE (\E i \in Input : Companion!Call(a, i)) \/ Companion!CallAgain(a)
      BY <3>2 DEF LogTyped, Companion!Call, Companion!CallAgain
    <3>3. CASE Companion!Unlink(a)
      BY <3>3 DEF LogTyped, Companion!Unlink, Companion!Saved, Companion!Nothing
    <3>4. CASE Companion!Fail(a)
      <4>1. 0 \in Nat /\ Origin \in Revisions /\ "unsure" \in LogSteps
        BY DEF Revisions, LogSteps
      <4>2. agent' = [agent EXCEPT ![a].step = "unsure", ![a].body = Origin, ![a].listed = 0] /\ UNCHANGED records
        BY <3>4 DEF Companion!Fail
      <4>3. LogTyped
        OBVIOUS
      <4> HIDE DEF Ordered
      <4>4. agent'[a].step = "unsure" /\ \A b \in Agent \ {a} : agent'[b] = agent[b]
        BY <4>1, <4>2, <4>3, MoveIsTyped
      <4> QED
        BY <4>2, <4>4
    <3> QED
      BY <1>1, <3>1, <3>2, <3>3, <3>4
  <2> QED
    BY <2>1, ShelvedStays
<1>2. ASSUME NEW a \in Agent, Companion!Load(a) PROVE Shelved'
  <2> DEFINE n == Len(records)
             body == Companion!Body(agent[a].input, n)
  <2>1. UNCHANGED records /\ agent[a].input \in Input
    BY <1>2 DEF Companion!Load, Stands
  <2>2. CASE agent' = [agent EXCEPT ![a] = Companion!Nothing]
    <3>1. (\A b \in Agent \ {a} : agent'[b] = agent[b]) /\ agent'[a].step \notin {"stage", "link"}
      BY <2>2 DEF LogTyped, Companion!Nothing
    <3> QED
      BY <2>1, <3>1, ShelvedStays
  <2>3. CASE Companion!Grounded(agent[a].input, n)
             /\ agent' = [agent EXCEPT ![a].step = "stage", ![a].body = body, ![a].listed = n]
    <3>1. Lands(body, n)
      BY <2>1, <2>3, CheckedLands DEF Shelved, Companion!DecisionOnShelf
    <3>2. body \in Companion!InputType
      BY <2>1, BodyIsTyped
    <3>3. agent'[a].body = body /\ \A b \in Agent \ {a} : agent'[b] = agent[b]
      <4> HIDE DEF body, n
      <4> QED
        BY <2>3 DEF LogTyped
    <3>4. \A m : Companion!WorkItems(m)' = Companion!WorkItems(m) /\ Companion!Decision(m)' = Companion!Decision(m)
      BY <2>1 DEF Companion!WorkItems, Companion!Decision, Companion!Standing
    <3>5. \A b, m : Lands(b, m)' = Lands(b, m)
      BY <3>4 DEF Lands, Chosen, Shelf
    <3>6. Companion!DecisionOnShelf' /\ Companion!AtMostOne(Companion!Decision(Len(records)))'
      BY <2>1, <3>4 DEF Shelved, Companion!DecisionOnShelf, Companion!AtMostOne
    <3>7. Len(records)' = n
      BY <2>1
    <3> HIDE DEF body, n
    <3>8. ASSUME NEW b \in Agent, agent'[b].step \in {"stage", "link"}, agent'[b].listed = n PROVE Lands(agent'[b].body, n)
      <4>1. CASE b = a
        BY <3>1, <3>3, <4>1
      <4>2. CASE b # a
        BY <3>3, <3>8, <4>2 DEF Shelved, n
      <4> QED
        BY <4>1, <4>2
    <3> QED
      BY <3>5, <3>6, <3>7, <3>8 DEF Shelved
  <2> QED
    BY <1>2, <2>2, <2>3 DEF Companion!Load, Companion!Refused, Companion!Saved
<1>3. ASSUME NEW a \in Agent, Companion!Stage(a) PROVE Shelved'
  <2>1. /\ UNCHANGED records /\ (\A b \in Agent \ {a} : agent'[b] = agent[b]) /\ agent[a].step = "stage"
        /\ agent'[a].body = agent[a].body /\ agent'[a].listed = agent[a].listed
    BY <1>3 DEF LogTyped, Companion!Stage
  <2> QED
    BY <2>1, ShelvedStays
<1>4. ASSUME NEW a \in Agent, agent[a].step = "link", Companion!LinkSlot(a), Len(records) = agent[a].listed PROVE Shelved'
  <2> DEFINE c == agent[a]
             n == Len(records)
             r == [body |-> c.body, previous |-> c.expected]
  <2>1. /\ records' = Append(records, r) /\ agent' = [agent EXCEPT ![a].step = "unlink"]
        /\ r \in [body : Companion!InputType, previous : Revisions] /\ r.body = c.body
    BY <1>4 DEF Companion!LinkSlot, Stands, LogTyped
  <2>2. Lands(c.body, n)
    BY <1>4 DEF Shelved
  <2>3. Companion!WorkItems(Len(records))' = Shelf(c.body, n) /\ Companion!Decision(Len(records))' = Chosen(c.body, n)
    <3> HIDE DEF r, c
    <3>1. \A field : Companion!Standing(Len(records), field)'
                     = IF r.body[field] = {} THEN Companion!Standing(Len(records), field) ELSE CHOOSE v \in r.body[field] : TRUE
      BY <2>1, StandingOfAppend
    <3> QED
      BY <2>1, <3>1 DEF Companion!WorkItems, Companion!Decision, Shelf, Chosen
  <2>4. Companion!DecisionOnShelf' /\ Companion!AtMostOne(Companion!Decision(Len(records)))'
    BY <2>2, <2>3 DEF Lands, Companion!DecisionOnShelf, Companion!AtMostOne
  <2>5. Len(records') = n + 1
    <3> HIDE DEF r, c
    <3> QED
      BY <2>1, RevisionsStay
  <2>6. ASSUME NEW b \in Agent, agent'[b].step \in {"stage", "link"} PROVE agent'[b].listed # Len(records')
    <3>1. b # a /\ agent'[b] = agent[b]
      BY <2>1, <2>6 DEF LogTyped
    <3>2. agent[b].listed \in Nat /\ agent[b].listed <= n
      BY <2>6, <3>1 DEF LogTyped, Stands
    <3> QED
      BY <1>0, <2>5, <3>1, <3>2
  <2> QED
    BY <2>4, <2>6 DEF Shelved
<1>5. ASSUME NEW a \in Agent, agent[a].step = "link", Companion!LinkSlot(a), Len(records) # agent[a].listed PROVE Shelved'
  <2>1. UNCHANGED records /\ (\A b \in Agent \ {a} : agent'[b] = agent[b]) /\ agent'[a].step \notin {"stage", "link"}
    BY <1>5 DEF LogTyped, Companion!LinkSlot, Companion!Refused, Companion!Nothing
  <2> QED
    BY <2>1, ShelvedStays
<1>6. CASE UNCHANGED Companion!vars
  <2>1. \A n : Companion!WorkItems(n)' = Companion!WorkItems(n) /\ Companion!Decision(n)' = Companion!Decision(n)
    BY <1>6 DEF Companion!vars, Companion!WorkItems, Companion!Decision, Companion!Standing
  <2>2. \A b, n : Lands(b, n)' = Lands(b, n)
    BY <2>1 DEF Lands, Chosen, Shelf
  <2> QED
    BY <1>6, <2>1, <2>2 DEF Companion!vars, Shelved, Companion!DecisionOnShelf, Companion!AtMostOne
<1> QED
  BY <1>1, <1>2, <1>3, <1>4, <1>5, <1>6 DEF Companion!Next, Companion!Link

\* The standing decision is on the standing shelf, whoever saves in between.
THEOREM CompanionShelvesDecisions ==
  ASSUME Companion!CompanionAssumption PROVE Companion!Spec => []Companion!DecisionOnShelf
<1>1. Companion!Init => Shelved
  BY DEF Companion!Init, Companion!Nothing, Shelved, Companion!DecisionOnShelf, Companion!Decision, Companion!WorkItems, Companion!Standing, Companion!AtMostOne
<1>2. Ordered /\ Shelved /\ [Companion!Next]_Companion!vars => Shelved'
  BY ShelvedStep
<1>3. Shelved => Companion!DecisionOnShelf
  BY DEF Shelved
<1> QED
  BY <1>1, <1>2, <1>3, OrderedAlways, PTL DEF Companion!Spec

-----------------------------------------------------------------------------
(* MailingList: a row counts the requests of its window, each once; and    *)
(* what a request will answer 202 for is on the list, or was taken off.    *)

Request == [by : Visitors, typed : UNION {Typed[v] : v \in Visitors},
            step : {"sent", "claim", "check", "insert", "touch", "answered"}, at : Nat,
            window : Nat \cup {Absent}, read : Nat \cup {Absent}, code : Nat, left : BOOLEAN]
Form == [status : {"idle", "submitting", "success", "error"}, request : Nat \cup {Absent}]
Limit == [start : Nat, attempts : Nat, first : Nat]
Member == [id : Nat, left : BOOLEAN]

MailTyped ==
  /\ now \in Nat /\ requests \in Seq(Request) /\ forms \in [Visitors -> Form]
  /\ limits \in [Mail!Ips -> Limit \cup {Absent}] /\ list \in [Mail!Addresses -> Member \cup {Absent}]

Sent(r) == requests[r].step \in {"sent", "claim"}
Counted(first) == {r \in DOMAIN requests : requests[r].window = first}

\* A window is named for the request that opened it, whose slot was claimed; a
\* row of it counts those whose slot was claimed in it.
Claims(r) ==
  /\ Sent(r) => requests[r].window = Absent
  /\ requests[r].step \in {"sent", "claim", "check"} => requests[r].read = Absent
  /\ requests[r].window # Absent => requests[r].window \in DOMAIN requests /\ ~Sent(requests[r].window)
RowCounts(ip, row) ==
  /\ row.first \in DOMAIN requests /\ ~Sent(row.first) /\ IpOf[requests[row.first].by] = ip
  /\ row.attempts = Cardinality(Counted(row.first))
Counts ==
  /\ \A r \in DOMAIN requests : Claims(r)
  /\ \A ip \in Mail!Ips : limits[ip] # Absent => RowCounts(ip, limits[ip])
  /\ \A f \in Nat : Cardinality(Mail!Admitted(f)) <= MaxAttempts

\* What a 202 says of its request, and a form of its 202.
OnList(r) == LET q == requests[r] IN q.typed.is # Absent /\ (list[q.typed.is] # Absent \/ q.left)
Says ==
  /\ \A r \in DOMAIN requests :
       /\ requests[r].step = "insert" => requests[r].typed.is # Absent
       /\ requests[r].step = "touch" \/ (requests[r].step = "answered" /\ requests[r].code = 202) => OnList(r)
  /\ \A v \in Visitors :
       /\ forms[v].status \in {"submitting", "success"} => forms[v].request \in DOMAIN requests
       /\ forms[v].status = "success" =>
            requests[forms[v].request].step = "answered" /\ requests[forms[v].request].code = 202

MailHolds == MailTyped /\ Counts /\ Says

LEMMA RequestsAre ==
  ASSUME MailTyped
  PROVE  /\ Len(requests) \in Nat /\ DOMAIN requests = 1 .. Len(requests) /\ IsFiniteSet(DOMAIN requests)
         /\ \A r \in DOMAIN requests : requests[r] \in Request
         /\ \A f : IsFiniteSet(Counted(f)) /\ Cardinality(Counted(f)) \in Nat
                   /\ IsFiniteSet(Mail!Admitted(f)) /\ Cardinality(Mail!Admitted(f)) \in Nat
<1>1. Len(requests) \in Nat /\ DOMAIN requests = 1 .. Len(requests) /\ \A r \in DOMAIN requests : requests[r] \in Request
  BY DEF MailTyped
<1>2. IsFiniteSet(DOMAIN requests)
  BY <1>1, FS_Interval
<1>3. \A f : Counted(f) \in SUBSET DOMAIN requests /\ Mail!Admitted(f) \in SUBSET DOMAIN requests
  BY DEF Counted, Mail!Admitted
<1> QED
  BY <1>1, <1>2, <1>3, FS_Subset, FS_CardinalityType

\* Requests that change in what is not counted.
SameCounts(r, q) == q.window = r.window /\ q.read = r.read /\ q.by = r.by

LEMMA CountsKept ==
  ASSUME MailTyped, Counts, UNCHANGED limits, DOMAIN requests \subseteq DOMAIN requests',
         \A r \in DOMAIN requests :
           SameCounts(requests[r], requests'[r]) /\ (Sent(r)' => Sent(r))
           /\ (requests'[r].step \in {"sent", "claim", "check"} => requests[r].step \in {"sent", "claim", "check"}),
         \A r \in DOMAIN requests' \ DOMAIN requests : requests'[r].window = Absent /\ requests'[r].read = Absent,
         Absent \notin Nat
  PROVE  Counts'
<1>1. \A f : f # Absent => Counted(f)' = Counted(f) /\ Mail!Admitted(f)' = Mail!Admitted(f)
  BY DEF Counted, Mail!Admitted, SameCounts
<1>2. ASSUME NEW r \in DOMAIN requests' PROVE Claims(r)'
  <2>1. CASE r \notin DOMAIN requests
    BY <1>2, <2>1 DEF Claims
  <2>2. CASE r \in DOMAIN requests
    <3>1. requests'[r].window = requests[r].window /\ requests'[r].read = requests[r].read
      BY <2>2 DEF SameCounts
    <3>2. Claims(r)
      BY <2>2 DEF Counts
    <3>3. ASSUME requests'[r].window # Absent
          PROVE  (requests[r].window \in DOMAIN requests /\ ~Sent(requests[r].window))'
      <4>1. PICK w : w = requests[r].window
        OBVIOUS
      <4>2. w \in DOMAIN requests /\ ~Sent(w)
        BY <3>1, <3>2, <3>3, <4>1 DEF Claims
      <4>3. w \in DOMAIN requests' /\ ~Sent(w)'
        BY <4>2
      <4> QED
        BY <3>1, <4>1, <4>3 DEF Sent
    <3> QED
      BY <2>2, <3>1, <3>2, <3>3 DEF Claims
  <2> QED
    BY <2>1, <2>2
<1>3. ASSUME NEW ip \in Mail!Ips, limits'[ip] # Absent PROVE RowCounts(ip, limits[ip])'
  <2>1. limits' = limits
    OBVIOUS
  <2>2. limits[ip] \in Limit
    BY <1>3, <2>1 DEF MailTyped
  <2>3. limits[ip].first # Absent
    BY <2>2 DEF Limit
  <2>4. RowCounts(ip, limits[ip])
    BY <1>3, <2>1 DEF Counts
  <2>5. limits[ip].first \in DOMAIN requests' /\ ~Sent(limits[ip].first)'
        /\ requests'[limits[ip].first].by = requests[limits[ip].first].by
    BY <2>4 DEF RowCounts, SameCounts
  <2>6. RowCounts(ip, limits[ip])' <=>
          (limits[ip].first \in DOMAIN requests' /\ ~Sent(limits[ip].first)'
           /\ IpOf[requests'[limits[ip].first].by] = ip
           /\ limits[ip].attempts = Cardinality(Counted(limits[ip].first)'))
    BY <2>1 DEF RowCounts
  <2> QED
    BY <1>1, <2>3, <2>4, <2>5, <2>6 DEF RowCounts
<1>4. ASSUME NEW f \in Nat PROVE Cardinality(Mail!Admitted(f)') <= MaxAttempts
  BY <1>1, <1>4 DEF Counts
<1> QED
  BY <1>2, <1>3, <1>4 DEF Counts

\* Steps of requests keep what each is about, and what a form or an answer
\* stood on stands as long as an address leaves the list only with a note of it.
LEMMA SaysKept ==
  ASSUME MailTyped, Says, UNCHANGED forms, DOMAIN requests' = DOMAIN requests,
         \A r \in DOMAIN requests :
           /\ requests'[r].typed = requests[r].typed /\ (requests[r].left => requests'[r].left)
           /\ requests[r].step = "answered" => requests'[r].step = "answered" /\ requests'[r].code = requests[r].code
           /\ requests[r].typed.is # Absent /\ list[requests[r].typed.is] # Absent =>
                list'[requests[r].typed.is] # Absent \/ requests'[r].left
           /\ requests'[r].step = "insert" => requests[r].typed.is # Absent
           /\ requests'[r].step = "touch" \/ (requests'[r].step = "answered" /\ requests'[r].code = 202) =>
                OnList(r) \/ OnList(r)'
  PROVE  Says'
<1>1. ASSUME NEW r \in DOMAIN requests, OnList(r) PROVE OnList(r)'
  BY <1>1 DEF OnList
<1>2. ASSUME NEW r \in DOMAIN requests'
      PROVE  /\ requests'[r].step = "insert" => requests'[r].typed.is # Absent
             /\ requests'[r].step = "touch" \/ (requests'[r].step = "answered" /\ requests'[r].code = 202) => OnList(r)'
  BY <1>1, <1>2
<1>3. ASSUME NEW v \in Visitors
      PROVE  /\ forms'[v].status \in {"submitting", "success"} => forms'[v].request \in DOMAIN requests'
             /\ forms'[v].status = "success" =>
                  requests'[forms'[v].request].step = "answered" /\ requests'[forms'[v].request].code = 202
  BY DEF Says
<1> QED
  BY <1>2, <1>3 DEF Says

\* One request moves on.
LEMMA OneMoves ==
  ASSUME MailTyped, NEW r \in DOMAIN requests, NEW q \in Request, requests' = [requests EXCEPT ![r] = q]
  PROVE  /\ requests' \in Seq(Request) /\ DOMAIN requests' = DOMAIN requests
         /\ requests'[r] = q /\ \A s \in DOMAIN requests \ {r} : requests'[s] = requests[s]
  BY DEF MailTyped

-----------------------------------------------------------------------------
(* Every request and every row, whatever the forms do *)

\* The form, the list and the clock leave the counts alone.
LEMMA FormsStep ==
  ASSUME Mail!MailAssumption, MailHolds,
         Mail!Tick \/ \E v \in Visitors : (\E s \in Typed[v] : Mail!Submit(v, s)) \/ Mail!Answered(v) \/ Mail!Lost(v)
  PROVE  MailHolds'
<1> USE DEF MailHolds, Mail!MailAssumption
<1>1. CASE Mail!Tick
  <2>1. UNCHANGED <<forms, requests, limits, list>> /\ now' \in Nat
    BY <1>1 DEF Mail!Tick, MailTyped
  <2> QED
    BY <2>1 DEF MailTyped, Counts, Claims, RowCounts, Counted, Mail!Admitted, Sent, Says, OnList
<1>2. ASSUME NEW v \in Visitors, NEW s \in Typed[v], Mail!Submit(v, s), s.looks PROVE MailHolds'
  <2>1. /\ requests' = Append(requests, Mail!Sent(v, s)) /\ UNCHANGED <<now, limits, list>>
        /\ forms' = [forms EXCEPT ![v] = [status |-> "submitting", request |-> Len(requests) + 1]]
    BY <1>2 DEF Mail!Submit
  <2>2. Mail!Sent(v, s) \in Request
    BY DEF Mail!Sent, Request
  <2>3. /\ requests' \in Seq(Request) /\ DOMAIN requests' = DOMAIN requests \cup {Len(requests) + 1}
        /\ Len(requests) + 1 \notin DOMAIN requests /\ requests'[Len(requests) + 1] = Mail!Sent(v, s)
        /\ \A r \in DOMAIN requests : requests'[r] = requests[r]
    BY <2>1, <2>2, RequestsAre DEF MailTyped
  <2>4. MailTyped'
    BY <2>1, <2>3, RequestsAre DEF MailTyped, Form
  <2>5. Counts'
    <3>1. \A r \in DOMAIN requests :
            SameCounts(requests[r], requests'[r]) /\ (Sent(r)' => Sent(r))
            /\ (requests'[r].step \in {"sent", "claim", "check"} => requests[r].step \in {"sent", "claim", "check"})
      BY <2>3 DEF SameCounts, Sent
    <3>2. \A r \in DOMAIN requests' \ DOMAIN requests : requests'[r].window = Absent /\ requests'[r].read = Absent
      BY <2>3 DEF Mail!Sent
    <3> QED
      BY <2>1, <2>3, <3>1, <3>2, CountsKept
  <2>6. Says'
    <3>1. ASSUME NEW r \in DOMAIN requests'
          PROVE  /\ requests'[r].step = "insert" => requests'[r].typed.is # Absent
                 /\ requests'[r].step = "touch" \/ (requests'[r].step = "answered" /\ requests'[r].code = 202) => OnList(r)'
      <4>1. CASE r = Len(requests) + 1
        BY <2>3, <4>1 DEF Mail!Sent
      <4>2. CASE r \in DOMAIN requests
        BY <2>1, <2>3, <4>2 DEF Says, OnList
      <4> QED
        BY <2>3, <4>1, <4>2
    <3>2. ASSUME NEW w \in Visitors
          PROVE  /\ forms'[w].status \in {"submitting", "success"} => forms'[w].request \in DOMAIN requests'
                 /\ forms'[w].status = "success" =>
                      requests'[forms'[w].request].step = "answered" /\ requests'[forms'[w].request].code = 202
      <4>1. CASE w = v
        BY <2>1, <2>3, <4>1 DEF MailTyped
      <4>2. CASE w # v
        BY <2>1, <2>3, <4>2 DEF MailTyped, Says
      <4> QED
        BY <4>1, <4>2
    <3> QED
      BY <3>1, <3>2 DEF Says
  <2> QED
    BY <2>4, <2>5, <2>6
<1>3. ASSUME NEW v \in Visitors,
             (\E s \in Typed[v] : Mail!Submit(v, s) /\ ~s.looks) \/ Mail!Answered(v) \/ Mail!Lost(v) PROVE MailHolds'
  <2>1. /\ UNCHANGED <<now, requests, limits, list>>
        /\ \/ forms' = [forms EXCEPT ![v] = Mail!Failed]
           \/ /\ forms' = [forms EXCEPT ![v] = [@ EXCEPT !.status = "success"]] /\ forms[v].status = "submitting"
              /\ requests[forms[v].request].step = "answered" /\ requests[forms[v].request].code = 202
    BY <1>3 DEF Mail!Submit, Mail!Answered, Mail!Lost, Mail!InFlight
  <2>2. forms' \in [Visitors -> Form]
    BY <2>1 DEF MailTyped, Form, Mail!Failed
  <2>3. ASSUME NEW w \in Visitors
        PROVE  /\ forms'[w].status \in {"submitting", "success"} => forms'[w].request \in DOMAIN requests
               /\ forms'[w].status = "success" =>
                    requests[forms'[w].request].step = "answered" /\ requests[forms'[w].request].code = 202
    <3>1. CASE w # v
      BY <2>1, <3>1 DEF MailTyped, Says
    <3>2. CASE w = v
      BY <2>1, <3>2 DEF MailTyped, Form, Says, Mail!Failed
    <3> QED
      BY <3>1, <3>2
  <2>4. MailTyped' /\ Counts'
    BY <2>1, <2>2 DEF MailTyped, Counts, Claims, RowCounts, Counted, Mail!Admitted, Sent
  <2>5. Says'
    BY <2>1, <2>3 DEF Says, OnList
  <2> QED
    BY <2>4, <2>5
<1> QED
  BY <1>1, <1>2, <1>3

\* A request moves on, to where no count is taken of it.
SameRequest(p, q) ==
  q.window = p.window /\ q.read = p.read /\ q.by = p.by /\ q.typed = p.typed /\ q.left = p.left
MovesOn(p, q) ==
  /\ SameRequest(p, q) /\ p.step # "answered" /\ q.step \in {"claim", "touch", "answered"}
  /\ q.step = "claim" => p.step = "sent"
  /\ q.step = "touch" => p.step = "insert" /\ list[p.typed.is] # Absent
  /\ q.step = "answered" /\ q.code = 202 => p.step = "touch" \/ (p.step = "insert" /\ list'[p.typed.is] # Absent)

LEMMA MovedOn ==
  ASSUME Mail!MailAssumption, MailHolds, NEW r \in DOMAIN requests, NEW q \in Request,
         requests' = [requests EXCEPT ![r] = q], MovesOn(requests[r], q), UNCHANGED <<now, forms, limits>>,
         list' \in [Mail!Addresses -> Member \cup {Absent}],
         \A b \in Mail!Addresses : list[b] # Absent => list'[b] # Absent
  PROVE  MailHolds'
<1> USE DEF MailHolds, Mail!MailAssumption
<1>1. /\ requests' \in Seq(Request) /\ DOMAIN requests' = DOMAIN requests /\ requests'[r] = q
      /\ \A s \in DOMAIN requests \ {r} : requests'[s] = requests[s]
  BY OneMoves
<1>2. MailTyped'
  BY <1>1 DEF MailTyped
<1>3. Counts'
  <2>1. \A s \in DOMAIN requests :
          SameCounts(requests[s], requests'[s]) /\ (Sent(s)' => Sent(s))
          /\ (requests'[s].step \in {"sent", "claim", "check"} => requests[s].step \in {"sent", "claim", "check"})
    BY <1>1 DEF SameCounts, MovesOn, SameRequest, Sent
  <2> QED
    BY <1>1, <2>1, CountsKept
<1>4. Says'
  <2>1. ASSUME NEW s \in DOMAIN requests
        PROVE  /\ requests'[s].typed = requests[s].typed /\ (requests[s].left => requests'[s].left)
               /\ requests[s].step = "answered" => requests'[s].step = "answered" /\ requests'[s].code = requests[s].code
               /\ requests'[s].step = "insert" => requests[s].typed.is # Absent
    BY <1>1 DEF Says, MovesOn, SameRequest
  <2>2. ASSUME NEW s \in DOMAIN requests, requests[s].typed.is # Absent, list[requests[s].typed.is] # Absent
        PROVE  list'[requests[s].typed.is] # Absent
    <3>1. requests[s].typed.is \in Mail!Addresses
      BY <2>2, RequestsAre DEF Request, Mail!Addresses
    <3> QED
      BY <2>2, <3>1
  <2>3. ASSUME NEW s \in DOMAIN requests,
               requests'[s].step = "touch" \/ (requests'[s].step = "answered" /\ requests'[s].code = 202)
        PROVE  OnList(s) \/ OnList(s)'
    BY <1>1, <2>3 DEF Says, OnList, MovesOn, SameRequest
  <2> QED
    BY <1>1, <2>1, <2>2, <2>3, SaysKept
<1> QED
  BY <1>2, <1>3, <1>4


LEMMA AnsweredStep ==
  ASSUME Mail!MailAssumption, MailHolds, NEW r \in DOMAIN requests, NEW c \in Nat, Mail!Answer(r, c),
         requests[r].step # "answered", UNCHANGED <<now, forms, limits>>,
         list' \in [Mail!Addresses -> Member \cup {Absent}],
         \A b \in Mail!Addresses : list[b] # Absent => list'[b] # Absent,
         c = 202 => requests[r].step = "touch" \/ (requests[r].step = "insert" /\ list'[requests[r].typed.is] # Absent)
  PROVE  MailHolds'
<1>1. PICK p : p = requests[r]
  OBVIOUS
<1>2. p \in Request /\ requests \in Seq(Request)
  BY <1>1, RequestsAre DEF MailHolds, MailTyped
<1>3. PICK q : q = [p EXCEPT !.step = "answered", !.code = c]
  OBVIOUS
<1>4. q \in Request /\ SameRequest(p, q) /\ q.step = "answered" /\ q.code = c
  BY <1>2, <1>3 DEF Request, SameRequest
<1>5. requests' = [requests EXCEPT ![r] = q]
  BY <1>1, <1>2, <1>3 DEF Mail!Answer
<1>6. MovesOn(requests[r], q)
  BY <1>1, <1>4 DEF MovesOn
<1> QED
  BY <1>4, <1>5, <1>6, MovedOn

\* What no count is taken of: a request is refused, arrives, is written down,
\* touched, or fails.
LEMMA PlainStep ==
  ASSUME Mail!MailAssumption, MailHolds, NEW r \in 1 .. MaxRequests,
         Mail!Refuse(r) \/ Mail!Arrive(r) \/ Mail!Insert(r) \/ Mail!Touch(r) \/ Mail!Fail(r)
  PROVE  MailHolds'
<1>1. r \in DOMAIN requests /\ UNCHANGED <<now, forms, limits>> /\ r \in Nat
  BY DEF Mail!Refuse, Mail!Arrive, Mail!Insert, Mail!Touch, Mail!Fail, Mail!On
<1>2. requests[r] \in Request /\ requests \in Seq(Request) /\ now \in Nat /\ list \in [Mail!Addresses -> Member \cup {Absent}]
  BY <1>1, RequestsAre DEF MailHolds, MailTyped
<1>3. ASSUME NEW c \in {403, 202, 500}, Mail!Answer(r, c), requests[r].step # "answered", list' = list,
             c = 202 => requests[r].step = "touch"
      PROVE  MailHolds'
  BY <1>1, <1>2, <1>3, AnsweredStep
<1>4. CASE Mail!Refuse(r)
  BY <1>3, <1>4 DEF Mail!Refuse, Mail!On
<1>5. CASE Mail!Touch(r)
  BY <1>3, <1>5 DEF Mail!Touch, Mail!On
<1>6. CASE Mail!Fail(r)
  BY <1>3, <1>6 DEF Mail!Fail
<1>7. CASE Mail!Arrive(r)
  <2>1. PICK p : p = requests[r]
    OBVIOUS
  <2>2. PICK q : q = [p EXCEPT !.step = "claim", !.at = now]
    OBVIOUS
  <2>3. q \in Request /\ SameRequest(p, q) /\ q.step = "claim" /\ p.step = "sent"
    BY <1>2, <1>7, <2>1, <2>2 DEF Request, SameRequest, Mail!Arrive, Mail!On
  <2>4. requests' = [requests EXCEPT ![r] = q] /\ list' = list
    BY <1>1, <1>2, <1>7, <2>1, <2>2 DEF Mail!Arrive
  <2>5. MovesOn(requests[r], q)
    BY <2>1, <2>3 DEF MovesOn
  <2> QED
    BY <1>1, <1>2, <2>3, <2>4, <2>5, MovedOn
<1>8. CASE Mail!Insert(r)
  <2>1. PICK p : p = requests[r]
    OBVIOUS
  <2>2. p \in Request /\ p.step = "insert" /\ p.typed.is \in Mail!Addresses
    BY <1>1, <1>2, <1>8, <2>1 DEF Mail!Insert, Mail!On, MailHolds, Says, Request, Mail!Addresses
  <2>3. CASE list[p.typed.is] = Absent
    <3>1. [id |-> r, left |-> FALSE] \in Member
      BY <1>1 DEF Member
    <3>2. [id |-> r, left |-> FALSE] # Absent
      BY <3>1 DEF Member, Mail!MailAssumption
    <3>3. Mail!Answer(r, 202) /\ list' = [list EXCEPT ![p.typed.is] = [id |-> r, left |-> FALSE]]
      BY <1>8, <2>1, <2>3 DEF Mail!Insert
    <3>4. /\ list' \in [Mail!Addresses -> Member \cup {Absent}] /\ list'[p.typed.is] # Absent
          /\ \A b \in Mail!Addresses : list[b] # Absent => list'[b] # Absent
      BY <1>2, <2>2, <3>1, <3>2, <3>3
    <3> QED
      BY <1>1, <2>1, <2>2, <3>3, <3>4, AnsweredStep
  <2>4. CASE list[p.typed.is] # Absent
    <3>1. PICK q : q = [p EXCEPT !.step = "touch"]
      OBVIOUS
    <3>2. q \in Request /\ SameRequest(p, q) /\ q.step = "touch"
      BY <2>2, <3>1 DEF Request, SameRequest
    <3>3. requests' = [requests EXCEPT ![r] = q] /\ list' = list
      BY <1>1, <1>2, <1>8, <2>1, <2>4, <3>1 DEF Mail!Insert, Mail!Goes
    <3>4. MovesOn(requests[r], q)
      BY <2>1, <2>2, <2>4, <3>2 DEF MovesOn
    <3> QED
      BY <1>1, <1>2, <3>2, <3>3, <3>4, MovedOn
  <2> QED
    BY <2>3, <2>4
<1> QED
  BY <1>4, <1>5, <1>6, <1>7, <1>8

\* A slot is claimed: the request is counted in the row it finds, or opens one.
LEMMA ClaimStep ==
  ASSUME Mail!MailAssumption, MailHolds, NEW r \in 1 .. MaxRequests, Mail!Claim(r)
  PROVE  MailHolds'
<1> USE DEF MailHolds, Mail!MailAssumption
<1>1. PICK p, sw, ip, row :
        /\ p = requests[r] /\ sw = Mail!Swept(p.at) /\ ip = IpOf[p.by] /\ row = Mail!Row(r, sw[ip])
        /\ r \in DOMAIN requests /\ p.step = "claim" /\ UNCHANGED <<now, forms, list>>
        /\ limits' = [sw EXCEPT ![ip] = row]
        /\ requests' = [requests EXCEPT ![r].step = "check", ![r].at = 0, ![r].window = row.first]
  BY DEF Mail!Claim, Mail!On
<1>2. /\ p \in Request /\ requests \in Seq(Request) /\ ip \in Mail!Ips /\ r \in Nat
      /\ limits \in [Mail!Ips -> Limit \cup {Absent}]
  BY <1>1, RequestsAre DEF MailTyped, Request, Mail!Ips
<1>3. DOMAIN sw = Mail!Ips /\ \A i \in Mail!Ips : sw[i] \in {limits[i], Absent}
  BY <1>1, <1>2 DEF Mail!Swept
<1>4. PICK f : f = row.first
  OBVIOUS
<1>5. /\ Claims(r) /\ p.window = Absent /\ p.read = Absent
  BY <1>1, <1>2 DEF Counts, Claims, Sent
<1>6. /\ row \in Limit /\ f \in DOMAIN requests /\ f \in Nat /\ IpOf[requests[f].by] = ip
      /\ \/ f = r /\ row.attempts = 1
         \/ f # r /\ sw[ip] = limits[ip] /\ limits[ip] # Absent /\ f = limits[ip].first /\ row.attempts = limits[ip].attempts + 1
  <2>1. CASE sw[ip] = Absent
    <3>1. row = [start |-> p.at, attempts |-> 1, first |-> r]
      BY <1>1, <2>1 DEF Mail!Row, Mail!Opened
    <3> QED
      BY <1>1, <1>2, <1>4, <3>1 DEF Limit, Request
  <2>2. CASE sw[ip] # Absent
    <3>1. sw[ip] = limits[ip] /\ limits[ip] \in Limit /\ row = [limits[ip] EXCEPT !.attempts = @ + 1]
      BY <1>1, <1>2, <1>3, <2>2 DEF Mail!Row
    <3>2. RowCounts(ip, limits[ip])
      BY <1>2, <2>2, <3>1 DEF Counts
    <3>3. limits[ip].first # r
      BY <1>1, <3>2 DEF RowCounts, Sent
    <3> QED
      BY <1>4, <2>2, <3>1, <3>2, <3>3 DEF Limit, RowCounts
  <2> QED
    BY <2>1, <2>2
<1>7. PICK q : q = [p EXCEPT !.step = "check", !.at = 0, !.window = f]
  OBVIOUS
<1>8. /\ q \in Request /\ q.step = "check" /\ q.window = f /\ q.read = p.read /\ q.by = p.by
      /\ q.typed = p.typed /\ q.left = p.left
  BY <1>2, <1>6, <1>7 DEF Request
<1>9. requests' = [requests EXCEPT ![r] = q]
  BY <1>1, <1>2, <1>4, <1>7
<1>10. /\ requests' \in Seq(Request) /\ DOMAIN requests' = DOMAIN requests /\ requests'[r] = q
       /\ \A s \in DOMAIN requests \ {r} : requests'[s] = requests[s]
  <2>1. r \in DOMAIN requests /\ MailTyped
    BY <1>1
  <2> QED
    BY ONLY <2>1, <1>8, <1>9, OneMoves
<1>11. limits' \in [Mail!Ips -> Limit \cup {Absent}] /\ limits'[ip] = row
       /\ \A i \in Mail!Ips \ {ip} : limits'[i] \in {limits[i], Absent}
  BY <1>1, <1>2, <1>3, <1>6
<1>12. MailTyped'
  BY <1>1, <1>10, <1>11 DEF MailTyped
<1>13. \A s \in DOMAIN requests : Sent(s)' => Sent(s)
  BY <1>8, <1>10 DEF Sent
<1>14. ~Sent(f)
  \/ f = r
  BY <1>6, <1>2 DEF Counts, RowCounts
<1>15. ~Sent(f)'
  BY <1>6, <1>8, <1>10, <1>13, <1>14 DEF Sent
<1>115. /\ \A s \in DOMAIN requests : requests'[s].window = IF s = r THEN f ELSE requests[s].window
        /\ r \in DOMAIN requests /\ requests[r].window = Absent /\ f # Absent /\ Absent \notin Nat
  BY <1>1, <1>5, <1>6, <1>8, <1>10
<1>16. Counted(f)' = Counted(f) \cup {r} /\ r \notin Counted(f)
  BY ONLY <1>10, <1>115 DEF Counted
<1>17. \A g \in Nat : g # f => Counted(g)' = Counted(g)
  BY ONLY <1>10, <1>115 DEF Counted
<1>18. \A g \in Nat : Mail!Admitted(g)' = Mail!Admitted(g)
  <2>1. r \in DOMAIN requests /\ requests[r].read = Absent /\ requests'[r].read = Absent
    BY <1>1, <1>5, <1>8, <1>10
  <2> QED
    BY ONLY <1>10, <1>115, <2>1 DEF Mail!Admitted
<1>19. ASSUME NEW s \in DOMAIN requests' PROVE Claims(s)'
  <2>1. CASE s = r
    BY <1>5, <1>6, <1>8, <1>10, <1>15, <2>1 DEF Claims, Sent
  <2>2. CASE s # r
    <3>1. requests'[s] = requests[s] /\ Claims(s)
      BY <1>10, <1>19, <2>2 DEF Counts
    <3>2. PICK w : w = requests[s].window
      OBVIOUS
    <3>3. w # Absent => w \in DOMAIN requests /\ ~Sent(w)'
      BY <1>13, <3>1, <3>2 DEF Claims
    <3> QED
      BY <1>10, <3>1, <3>2, <3>3 DEF Claims, Sent
  <2> QED
    BY <2>1, <2>2
<1>20. RowCounts(ip, row)'
  <2>1. row.attempts = Cardinality(Counted(f)')
    <3>1. CASE f = r
      <4>1. Counted(f) = {}
        BY <1>1, <1>2, <3>1 DEF Counts, Claims, Counted, Sent
      <4> QED
        BY <1>6, <1>16, <3>1, <4>1, FS_Singleton
    <3>2. CASE f # r
      <4>1. limits[ip].attempts = Cardinality(Counted(f))
        BY <1>2, <1>6, <3>2 DEF Counts, RowCounts
      <4> QED
        BY <1>6, <1>16, <3>2, <4>1, RequestsAre, FS_AddElement
    <3> QED
      BY <3>1, <3>2
  <2>2. requests'[f].by = requests[f].by
    BY <1>1, <1>6, <1>8, <1>10
  <2> QED
    BY <1>4, <1>6, <1>10, <1>15, <2>1, <2>2 DEF RowCounts
<1>21. ASSUME NEW i \in Mail!Ips, i # ip, limits'[i] # Absent PROVE RowCounts(i, limits[i])'
  <2>1. limits'[i] = limits[i] /\ limits[i] \in Limit
    BY <1>2, <1>11, <1>21
  <2>2. PICK g : g = limits[i].first
    OBVIOUS
  <2>3. g \in DOMAIN requests /\ ~Sent(g) /\ IpOf[requests[g].by] = i /\ limits[i].attempts = Cardinality(Counted(g))
    BY <1>21, <2>1, <2>2 DEF Counts, RowCounts
  <2>4. g \in Nat /\ g # f /\ g # r
    BY <1>1, <1>6, <1>21, <2>1, <2>2, <2>3 DEF Limit, Sent
  <2>5. g \in DOMAIN requests' /\ ~Sent(g)' /\ requests'[g] = requests[g] /\ Counted(g)' = Counted(g)
    BY <1>10, <1>13, <1>17, <2>3, <2>4
  <2> QED
    BY <2>1, <2>2, <2>3, <2>5 DEF RowCounts
<1>22. Counts'
  <2>1. \A i \in Mail!Ips : limits'[i] # Absent => RowCounts(i, limits[i])'
    BY <1>11, <1>20, <1>21
  <2>2. \A g \in Nat : Cardinality(Mail!Admitted(g)') <= MaxAttempts
    BY <1>18 DEF Counts
  <2> QED
    BY <1>19, <2>1, <2>2 DEF Counts
<1>23. Says'
  <2>1. \A s \in DOMAIN requests :
          /\ requests'[s].typed = requests[s].typed /\ (requests[s].left => requests'[s].left)
          /\ requests[s].step = "answered" => requests'[s].step = "answered" /\ requests'[s].code = requests[s].code
          /\ requests'[s].step = "insert" => requests[s].typed.is # Absent
          /\ requests'[s].step = "touch" \/ (requests'[s].step = "answered" /\ requests'[s].code = 202) => OnList(s)
    BY <1>1, <1>8, <1>10 DEF Says
  <2> QED
    BY <1>1, <1>10, <2>1, SaysKept
<1> QED
  BY <1>12, <1>22, <1>23

\* A request is judged by the row it finds, which may be of a later window.
LEMMA CheckStep ==
  ASSUME Mail!MailAssumption, MailHolds, NEW r \in 1 .. MaxRequests, Mail!Check(r)
  PROVE  MailHolds'
<1> USE DEF MailHolds, Mail!MailAssumption
<1>1. PICK p : p = requests[r]
  OBVIOUS
<1>101. PICK row : row = limits[IpOf[p.by]]
  OBVIOUS
<1>102. PICK admitted \in BOOLEAN : admitted = (row = Absent \/ row.attempts <= MaxAttempts)
  OBVIOUS
<1>103. PICK step : step = (IF admitted /\ p.typed.is # Absent THEN "insert" ELSE "answered")
  OBVIOUS
<1>104. PICK code : code = (IF ~admitted THEN 429 ELSE IF p.typed.is = Absent THEN 422 ELSE 0)
  OBVIOUS
<1>105. PICK read : read = (IF ~admitted \/ row = Absent THEN Absent ELSE row.first)
  OBVIOUS
<1>106. /\ r \in DOMAIN requests /\ p.step = "check" /\ UNCHANGED <<now, forms, list, limits>>
        /\ requests' = [requests EXCEPT ![r].step = step, ![r].code = code, ![r].read = read]
  BY <1>1, <1>101, <1>102, <1>103, <1>104, <1>105 DEF Mail!Check, Mail!On
<1>2. /\ p \in Request /\ requests \in Seq(Request) /\ row \in Limit \cup {Absent} /\ IpOf[p.by] \in Mail!Ips
  BY <1>1, <1>101, <1>106, RequestsAre DEF MailTyped, Request, Mail!Ips
<1>3. /\ step \in {"insert", "answered"} /\ code \in {429, 422, 0} /\ read \in Nat \cup {Absent}
      /\ step = "insert" => p.typed.is # Absent
      /\ read # Absent => row # Absent /\ read = row.first /\ row.attempts <= MaxAttempts
  <2>1. step \in {"insert", "answered"} /\ (step = "insert" => p.typed.is # Absent)
    BY <1>103
  <2>2. code \in {429, 422, 0}
    BY <1>104
  <2>3. row # Absent => row.first \in Nat
    BY <1>2 DEF Limit
  <2>4. read \in Nat \cup {Absent} /\ (read # Absent => row # Absent /\ read = row.first /\ row.attempts <= MaxAttempts)
    BY <1>102, <1>105, <2>3
  <2> QED
    BY <2>1, <2>2, <2>4
<1>4. PICK q : q = [p EXCEPT !.step = step, !.code = code, !.read = read]
  OBVIOUS
<1>5. /\ q \in Request /\ q.step = step /\ q.code = code /\ q.read = read /\ q.window = p.window
      /\ q.by = p.by /\ q.typed = p.typed /\ q.left = p.left
  <2>1. step \in {"sent", "claim", "check", "insert", "touch", "answered"} /\ code \in Nat
    BY <1>3
  <2> QED
    BY ONLY <1>2, <1>3, <1>4, <2>1 DEF Request
<1>6. requests' = [requests EXCEPT ![r] = q]
  BY <1>1, <1>101, <1>106, <1>2, <1>4
<1>7. /\ requests' \in Seq(Request) /\ DOMAIN requests' = DOMAIN requests /\ requests'[r] = q
      /\ \A s \in DOMAIN requests \ {r} : requests'[s] = requests[s]
  <2>1. r \in DOMAIN requests /\ MailTyped
    BY <1>1, <1>106
  <2> QED
    BY ONLY <2>1, <1>5, <1>6, OneMoves
<1>8. MailTyped'
  BY <1>1, <1>101, <1>106, <1>7 DEF MailTyped
<1>9. \A s \in DOMAIN requests : (Sent(s)' <=> Sent(s)) /\ requests'[s].window = requests[s].window /\ requests'[s].by = requests[s].by
  BY <1>1, <1>101, <1>106, <1>3, <1>5, <1>7 DEF Sent
<1>10. \A g : Counted(g)' = Counted(g)
  BY <1>7, <1>9 DEF Counted
<1>11. ASSUME NEW s \in DOMAIN requests' PROVE Claims(s)'
  <2>1. Claims(s)
    BY <1>7, <1>11 DEF Counts
  <2>2. PICK w : w = requests[s].window
    OBVIOUS
  <2>3. w # Absent => w \in DOMAIN requests /\ ~Sent(w)'
    BY <1>9, <2>1, <2>2 DEF Claims
  <2>4. requests'[s].step \in {"sent", "claim", "check"} => requests'[s].read = Absent
    BY <1>3, <1>5, <1>7, <1>11, <2>1 DEF Claims
  <2>5. requests'[s].window = w /\ (Sent(s)' => w = Absent)
    BY <1>7, <1>9, <1>11, <2>1, <2>2 DEF Claims
  <2> QED
    BY <1>7, <2>3, <2>4, <2>5 DEF Claims, Sent
<1>12. ASSUME NEW i \in Mail!Ips, limits'[i] # Absent PROVE RowCounts(i, limits[i])'
  <2>1. limits'[i] = limits[i] /\ RowCounts(i, limits[i])
    BY <1>1, <1>101, <1>106, <1>12 DEF Counts
  <2>2. PICK g : g = limits[i].first
    OBVIOUS
  <2>3. g \in DOMAIN requests /\ ~Sent(g)' /\ IpOf[requests'[g].by] = i /\ limits[i].attempts = Cardinality(Counted(g)')
    BY <1>9, <1>10, <2>1, <2>2 DEF RowCounts
  <2> QED
    BY <1>7, <2>1, <2>2, <2>3 DEF RowCounts
<1>13. ASSUME NEW f \in Nat PROVE Cardinality(Mail!Admitted(f)') <= MaxAttempts
  <2>1. CASE r \notin Mail!Admitted(f)'
    <3>1. Mail!Admitted(f)' \subseteq Mail!Admitted(f)
      BY <1>7, <2>1 DEF Mail!Admitted
    <3>2. Cardinality(Mail!Admitted(f)') <= Cardinality(Mail!Admitted(f)) /\ Cardinality(Mail!Admitted(f)') \in Nat
      BY <3>1, RequestsAre, FS_Subset, FS_CardinalityType
    <3>3. Cardinality(Mail!Admitted(f)) <= MaxAttempts /\ Cardinality(Mail!Admitted(f)) \in Nat
      BY <1>13, RequestsAre DEF Counts
    <3> QED
      BY <3>2, <3>3
  <2>2. CASE r \in Mail!Admitted(f)'
    <3>1. read = f /\ f # Absent
      BY <1>5, <1>7, <1>13, <2>2 DEF Mail!Admitted
    <3>2. row # Absent /\ f = row.first /\ row.attempts <= MaxAttempts /\ row.attempts = Cardinality(Counted(f))
      BY <1>1, <1>101, <1>106, <1>2, <1>3, <3>1 DEF Counts, RowCounts
    <3>3. Mail!Admitted(f)' \subseteq Counted(f)
      BY <1>7, <1>9 DEF Mail!Admitted, Counted
    <3>4. Cardinality(Mail!Admitted(f)') <= Cardinality(Counted(f)) /\ Cardinality(Mail!Admitted(f)') \in Nat
          /\ Cardinality(Counted(f)) \in Nat
      BY <3>3, RequestsAre, FS_Subset, FS_CardinalityType
    <3> QED
      BY <3>2, <3>4
  <2> QED
    BY <2>1, <2>2
<1>14. Counts'
  BY <1>11, <1>12, <1>13 DEF Counts
<1>15. Says'
  <2>1. \A s \in DOMAIN requests :
          /\ requests'[s].typed = requests[s].typed /\ (requests[s].left => requests'[s].left)
          /\ requests[s].step = "answered" => requests'[s].step = "answered" /\ requests'[s].code = requests[s].code
          /\ requests'[s].step = "insert" => requests[s].typed.is # Absent
          /\ requests'[s].step = "touch" \/ (requests'[s].step = "answered" /\ requests'[s].code = 202) => OnList(s)
    BY <1>1, <1>101, <1>106, <1>3, <1>5, <1>7 DEF Says
  <2> QED
    BY <1>1, <1>101, <1>106, <1>7, <2>1, SaysKept
<1> QED
  BY <1>8, <1>14, <1>15

\* The owner of the list takes a person off it, or notes that one has left.
LEMMA OwnerStep ==
  ASSUME Mail!MailAssumption, MailHolds, NEW a \in Mail!Addresses, Mail!Remove(a) \/ Mail!Unsubscribe(a)
  PROVE  MailHolds'
<1> USE DEF MailHolds, Mail!MailAssumption
<1>1. /\ list[a] # Absent /\ UNCHANGED <<now, forms, limits>>
      /\ \/ list' = [list EXCEPT ![a] = Absent] /\ requests' = Mail!Outstanding(a)
         \/ list' = [list EXCEPT ![a].left = TRUE] /\ requests' = requests
  BY DEF Mail!Remove, Mail!Unsubscribe
<1>2. list \in [Mail!Addresses -> Member \cup {Absent}] /\ list[a] \in Member
  BY <1>1 DEF MailTyped
<1>3. PICK m : m = [list[a] EXCEPT !.left = TRUE]
  OBVIOUS
<1>4. m \in Member /\ m # Absent
  <2>1. m \in Member
    BY <1>2, <1>3 DEF Member
  <2> QED
    BY <2>1 DEF Member
<1>5. /\ list' \in [Mail!Addresses -> Member \cup {Absent}]
      /\ \A b \in Mail!Addresses : b # a => list'[b] = list[b]
      /\ list'[a] = Absent => requests' = Mail!Outstanding(a)
  BY <1>1, <1>2, <1>3, <1>4
<1>6. ASSUME NEW r \in DOMAIN requests
      PROVE  [requests[r] EXCEPT !.left = TRUE] \in Request
  <2>1. PICK p \in Request : p = requests[r]
    BY <1>6, RequestsAre
  <2> QED
    BY <2>1 DEF Request
<1>7. /\ requests' \in Seq(Request) /\ DOMAIN requests' = DOMAIN requests
      /\ \A r \in DOMAIN requests :
           requests'[r] \in {requests[r], [requests[r] EXCEPT !.left = TRUE]}
           /\ (requests' = Mail!Outstanding(a) /\ requests[r].typed.is = a => requests'[r].left)
  <2>1. CASE requests' = requests
    <3>1. requests \in Seq(Request)
      BY DEF MailTyped
    <3>2. ASSUME NEW r \in DOMAIN requests, requests' = Mail!Outstanding(a), requests[r].typed.is = a PROVE requests'[r].left
      <4>1. PICK p \in Request : p = requests[r]
        BY <3>2, RequestsAre
      <4>2. requests'[r] = [p EXCEPT !.left = TRUE]
        BY <3>2, <4>1 DEF Mail!Outstanding
      <4> QED
        BY <4>2 DEF Request
    <3> QED
      BY <2>1, <3>1, <3>2
  <2>2. CASE requests' = Mail!Outstanding(a)
    <3>1. DOMAIN requests' = DOMAIN requests
      BY <2>2 DEF Mail!Outstanding
    <3>2. ASSUME NEW r \in DOMAIN requests
          PROVE  /\ requests'[r] \in {requests[r], [requests[r] EXCEPT !.left = TRUE]} /\ requests'[r] \in Request
                 /\ requests[r].typed.is = a => requests'[r].left
      <4>1. PICK p \in Request : p = requests[r]
        BY <3>2, RequestsAre
      <4>2. requests'[r] = IF p.typed.is = a THEN [p EXCEPT !.left = TRUE] ELSE p
        BY <2>2, <3>2, <4>1 DEF Mail!Outstanding
      <4>3. [p EXCEPT !.left = TRUE].left /\ [p EXCEPT !.left = TRUE] \in Request
        BY DEF Request
      <4> QED
        BY <4>1, <4>2, <4>3
    <3>3. requests' \in Seq(Request)
      <4>1. requests' = [r \in 1 .. Len(requests) |-> requests'[r]]
        BY <2>2, RequestsAre DEF Mail!Outstanding
      <4>2. \A r \in 1 .. Len(requests) : requests'[r] \in Request
        BY <3>2, RequestsAre
      <4> QED
        BY <4>1, <4>2, RequestsAre, IsASeq
    <3> QED
      BY <3>1, <3>2, <3>3
  <2> QED
    BY <1>1, <2>1, <2>2
<1>8. ASSUME NEW r \in DOMAIN requests
      PROVE  /\ SameRequest(requests[r], [requests'[r] EXCEPT !.left = requests[r].left]) /\ requests'[r].step = requests[r].step
             /\ requests'[r].code = requests[r].code /\ (requests[r].left => requests'[r].left)
             /\ requests'[r].window = requests[r].window /\ requests'[r].read = requests[r].read
             /\ requests'[r].by = requests[r].by /\ requests'[r].typed = requests[r].typed
  <2>1. PICK p \in Request : p = requests[r]
    BY <1>8, RequestsAre
  <2>2. requests'[r] \in {p, [p EXCEPT !.left = TRUE]}
    BY <1>7, <1>8, <2>1
  <2> QED
    BY <2>1, <2>2 DEF Request, SameRequest
<1>9. MailTyped'
  BY <1>1, <1>5, <1>7 DEF MailTyped
<1>10. Counts'
  <2>1. \A r \in DOMAIN requests :
          SameCounts(requests[r], requests'[r]) /\ (Sent(r)' => Sent(r))
          /\ (requests'[r].step \in {"sent", "claim", "check"} => requests[r].step \in {"sent", "claim", "check"})
    BY <1>8 DEF SameCounts, Sent
  <2> QED
    BY <1>1, <1>7, <2>1, CountsKept
<1>11. Says'
  <2>1. ASSUME NEW r \in DOMAIN requests
        PROVE  /\ requests'[r].typed = requests[r].typed /\ (requests[r].left => requests'[r].left)
               /\ requests[r].step = "answered" => requests'[r].step = "answered" /\ requests'[r].code = requests[r].code
               /\ requests'[r].step = "insert" => requests[r].typed.is # Absent
               /\ requests'[r].step = "touch" \/ (requests'[r].step = "answered" /\ requests'[r].code = 202) => OnList(r)
    <3>1. /\ requests'[r].step = requests[r].step /\ requests'[r].code = requests[r].code
          /\ requests'[r].typed = requests[r].typed /\ (requests[r].left => requests'[r].left)
      BY <1>8
    <3>2. /\ requests[r].step = "insert" => requests[r].typed.is # Absent
          /\ requests[r].step = "touch" \/ (requests[r].step = "answered" /\ requests[r].code = 202) => OnList(r)
      BY DEF Says
    <3> QED
      BY ONLY <3>1, <3>2
  <2>2. ASSUME NEW r \in DOMAIN requests, requests[r].typed.is # Absent, list[requests[r].typed.is] # Absent
        PROVE  list'[requests[r].typed.is] # Absent \/ requests'[r].left
    <3>1. requests[r].typed.is \in Mail!Addresses
      BY <2>2, RequestsAre DEF Request, Mail!Addresses
    <3> QED
      BY <1>5, <1>7, <2>2, <3>1
  <2> QED
    BY <1>1, <1>7, <2>1, <2>2, SaysKept
<1> QED
  BY <1>9, <1>10, <1>11

\* A form says that an address is on the list only if it is, or was and has been
\* taken off since, and a window lets in no more than its limit, whatever
\* statements of other requests run in between, fail, or lose their answers.
THEOREM MailKeepsItsWord ==
  ASSUME Mail!MailAssumption PROVE Mail!Spec => []Mail!ListKeepsItsWord
<1>1. Mail!Init => MailHolds
  <2> SUFFICES ASSUME Mail!Init PROVE MailHolds
    OBVIOUS
  <2>1. requests = <<>> /\ DOMAIN requests = {}
    BY DEF Mail!Init
  <2>2. \A f \in Nat : Cardinality(Mail!Admitted(f)) <= MaxAttempts
    <3>1. \A f \in Nat : Mail!Admitted(f) = {}
      BY <2>1 DEF Mail!Admitted
    <3> QED
      BY <3>1, FS_EmptySet DEF Mail!MailAssumption
  <2> QED
    BY <2>1, <2>2 DEF Mail!Init, MailHolds, MailTyped, Form, Counts, Says
<1>2. MailHolds /\ [Mail!Next]_Mail!vars => MailHolds'
  <2>1. ASSUME MailHolds, UNCHANGED Mail!vars PROVE MailHolds'
    BY <2>1 DEF Mail!vars, MailHolds, MailTyped, Counts, Claims, RowCounts, Counted, Mail!Admitted, Sent, Says, OnList
  <2>2. ASSUME MailHolds, Mail!Next PROVE MailHolds'
    BY <2>2, FormsStep, PlainStep, ClaimStep, CheckStep, OwnerStep DEF Mail!Next
  <2> QED
    BY <2>1, <2>2
<1>3. MailHolds => Mail!ListKeepsItsWord
  <2> SUFFICES ASSUME MailHolds PROVE Mail!ListKeepsItsWord
    OBVIOUS
  <2>1. \A r \in DOMAIN requests : Cardinality(Mail!Admitted(r)) <= MaxAttempts
    BY RequestsAre DEF MailHolds, Counts
  <2>2. \A v \in Visitors : forms[v].status = "success" =>
          LET r == requests[forms[v].request] IN r.typed.is # Absent /\ (list[r.typed.is] # Absent \/ r.left)
    <3> TAKE v \in Visitors
    <3> HAVE forms[v].status = "success"
    <3>1. OnList(forms[v].request)
      BY DEF MailHolds, Says
    <3> QED
      BY <3>1 DEF OnList
  <2>3. \A S : Mail!Cardinality(S) = Cardinality(S)
    BY DEF Mail!Cardinality, Cardinality
  <2> QED
    BY ONLY <2>1, <2>2, <2>3 DEF Mail!ListKeepsItsWord
<1> QED
  BY <1>1, <1>2, <1>3, PTL DEF Mail!Spec

-----------------------------------------------------------------------------
(* PieceDesk: what the app and the runner go by was signed *)

LEMMA LeastIs ==
  ASSUME NEW S \in SUBSET Nat, S # {}
  PROVE  Piece!Min(S) \in S /\ \A i \in S : Piece!Min(S) <= i
<1>1. \E m \in S : \A i \in S : ~(<<i, m>> \in OpToRel(<, Nat))
  BY WFMin, NatLessThanWellFounded, Zenon
<1>2. PICK m \in S : \A i \in S : ~(i \in Nat /\ m \in Nat /\ i < m)
  BY <1>1, Zenon DEF OpToRel
<1>3. \A i \in S : m <= i
  BY <1>2
<1>4. \E x \in S : \A y \in S : x <= y
  BY <1>3
<1> QED
  BY <1>4 DEF Piece!Min

LEMMA ElementsOf ==
  ASSUME NEW S, NEW s \in Seq(S)
  PROVE  Len(s) \in Nat /\ DOMAIN s = 1 .. Len(s) /\ \A i \in DOMAIN s : s[i] \in S
  OBVIOUS

\* The candidates of a form, in the runner's others and in the app's.
LEMMA CandidatesAre ==
  ASSUME Piece!PieceAssumption, manifest \in Manifests
  PROVE  /\ manifest.canonical \in Paths /\ manifest.revision \in Nat /\ Len(manifest.posts) \in Nat
         /\ DOMAIN manifest.posts = 1 .. Len(manifest.posts)
         /\ \A i \in DOMAIN manifest.posts : manifest.posts[i].path \in Paths /\ Piece!AppKey(i) \in Piece!Keys
         /\ DOMAIN Piece!RunnerCandidates = 1 .. Len(manifest.posts) + 1
         /\ Piece!RunnerCandidates[1] = [key |-> "web", path |-> manifest.canonical]
         /\ \A i \in DOMAIN manifest.posts :
              Piece!RunnerCandidates[i + 1] = [key |-> Piece!RunnerKey(i), path |-> manifest.posts[i].path]
<1>1. /\ manifest.canonical \in Paths /\ manifest.revision \in Nat
      /\ manifest.posts \in Seq([channel : DOMAIN AppKeyOf, path : Paths])
  BY DEF Piece!PieceAssumption
<1>2. PICK posts \in Seq([channel : DOMAIN AppKeyOf, path : Paths]) : posts = manifest.posts
  BY <1>1
<1>3. Len(posts) \in Nat /\ DOMAIN posts = 1 .. Len(posts)
      /\ \A i \in DOMAIN posts : posts[i].path \in Paths /\ posts[i].channel \in DOMAIN AppKeyOf
  <2>1. Len(posts) \in Nat /\ DOMAIN posts = 1 .. Len(posts)
        /\ \A i \in DOMAIN posts : posts[i] \in [channel : DOMAIN AppKeyOf, path : Paths]
    BY ElementsOf
  <2> QED
    BY <2>1
<1>4. PICK others : others = [i \in DOMAIN posts |-> [key |-> Piece!RunnerKey(i), path |-> posts[i].path]]
  OBVIOUS
<1>5. Piece!RunnerCandidates = <<[key |-> "web", path |-> manifest.canonical]>> \o others
  BY <1>2, <1>4 DEF Piece!RunnerCandidates
<1>6. others \in Seq({others[i] : i \in DOMAIN posts}) /\ Len(others) = Len(posts)
  BY <1>3, <1>4
<1>7. \A i \in DOMAIN posts : Piece!AppKey(i) \in Piece!Keys
  BY <1>2, <1>3 DEF Piece!AppKey, Piece!Keys
<1> QED
  BY <1>1, <1>2, <1>3, <1>4, <1>5, <1>6, <1>7

\* What the app lists of a form, and where its words are.
LEMMA FormsAre ==
  ASSUME Piece!PieceAssumption, manifest \in Manifests, NEW k \in DOMAIN Piece!AppForms
  PROVE  /\ k \in Piece!Keys /\ Piece!AppForms[k].path \in Paths
         /\ Piece!AppForms[k].digest = text[Piece!AppForms[k].path]
         /\ Piece!AppForms[k].state = Piece!State(k, Piece!AppForms[k].digest)
         /\ \/ k = "web" /\ Piece!AppForms[k].path = manifest.canonical /\ text[manifest.canonical] # Nil
            \/ /\ k # "web" /\ Piece!FirstPost(k, Piece!Candidates) \in Piece!Candidates
               /\ Piece!AppKey(Piece!FirstPost(k, Piece!Candidates)) = k
               /\ \A i \in Piece!Candidates : Piece!AppKey(i) = k => Piece!FirstPost(k, Piece!Candidates) <= i
               /\ Piece!AppForms[k].path = manifest.posts[Piece!FirstPost(k, Piece!Candidates)].path
<1>1. k = "web" => text[manifest.canonical] # Nil
  BY DEF Piece!AppForms
<1>2. k # "web" => \E i \in Piece!Candidates : Piece!AppKey(i) = k
  BY DEF Piece!AppForms
<1>3. PICK path : /\ path = IF k = "web" THEN manifest.canonical ELSE manifest.posts[Piece!FirstPost(k, Piece!Candidates)].path
                  /\ Piece!AppForms[k] = [path |-> path, state |-> Piece!State(k, text[path]), digest |-> text[path]]
  BY DEF Piece!AppForms
<1>4. CASE k = "web"
  BY <1>1, <1>3, <1>4, CandidatesAre DEF Piece!Keys
<1>5. CASE k # "web"
  <2>1. PICK S : S = {i \in Piece!Candidates : Piece!AppKey(i) = k}
    OBVIOUS
  <2>2. S \in SUBSET Nat /\ S # {} /\ S \subseteq Piece!Candidates /\ Piece!Candidates \subseteq DOMAIN manifest.posts
    BY <1>2, <1>5, <2>1, CandidatesAre DEF Piece!Candidates
  <2>3. Piece!FirstPost(k, Piece!Candidates) \in S /\ \A i \in S : Piece!FirstPost(k, Piece!Candidates) <= i
    BY <2>1, <2>2, LeastIs DEF Piece!FirstPost
  <2> QED
    BY <1>3, <1>5, <2>1, <2>2, <2>3, CandidatesAre
<1> QED
  BY <1>4, <1>5

\* The app and the runner derive the same state of the essay, and of every form
\* the app lists that both file alike.
LEMMA StatesAgree ==
  ASSUME Piece!PieceAssumption, manifest \in Manifests
  PROVE  Piece!ReadersAgree
<1> SUFFICES ASSUME NEW k \in DOMAIN Piece!AppForms,
                    k = "web" \/ Piece!FiledAlike(k)
             PROVE  k \in DOMAIN Piece!RunnerForms /\ Piece!RunnerForms[k] = Piece!AppForms[k].state
  BY DEF Piece!ReadersAgree
<1>1. PICK C : C = Piece!RunnerCandidates
  OBVIOUS
<1>2. PICK S : S = {j \in Piece!Readable : C[j].key = k}
  OBVIOUS
<1>3. /\ Piece!Readable \subseteq DOMAIN C /\ DOMAIN C = 1 .. Len(manifest.posts) + 1 /\ Len(manifest.posts) \in Nat
      /\ \A j \in DOMAIN C : j \in Piece!Readable <=> text[C[j].path] # Nil
  BY <1>1, CandidatesAre DEF Piece!Readable
<1>4. PICK first : /\ first \in S /\ C[first].path = Piece!AppForms[k].path /\ \A j \in S : first <= j
  <2>1. CASE k = "web"
    <3>1. 1 \in S /\ C[1].path = Piece!AppForms[k].path
      BY <1>1, <1>2, <1>3, <2>1, CandidatesAre, FormsAre
    <3>2. \A j \in S : 1 <= j
      BY <1>2, <1>3
    <3> QED
      BY <3>1, <3>2
  <2>2. CASE k # "web"
    <3>1. PICK i : i = Piece!FirstPost(k, Piece!Candidates)
      OBVIOUS
    <3>2. /\ i \in Piece!Candidates /\ Piece!AppKey(i) = k /\ Piece!AppForms[k].path = manifest.posts[i].path
          /\ \A j \in Piece!Candidates : Piece!AppKey(j) = k => i <= j
      BY <2>2, <3>1, FormsAre
    <3>3. i \in DOMAIN manifest.posts /\ text[manifest.posts[i].path] # Nil /\ i \in 1 .. Len(manifest.posts)
      BY <3>2, CandidatesAre DEF Piece!Candidates
    <3>4. C[i + 1] = [key |-> k, path |-> manifest.posts[i].path] /\ i + 1 \in DOMAIN C
      BY <1>1, <1>3, <2>2, <3>2, <3>3, CandidatesAre DEF Piece!FiledAlike
    <3>5. i + 1 \in S /\ C[i + 1].path = Piece!AppForms[k].path
      BY <1>2, <1>3, <3>2, <3>3, <3>4
    <3>6. ASSUME NEW j \in S PROVE i + 1 <= j
      <4>1. j \in 1 .. Len(manifest.posts) + 1 /\ C[j].key = k /\ text[C[j].path] # Nil
        BY <1>2, <1>3
      <4>2. j # 1
        BY <1>1, <2>2, <4>1, CandidatesAre
      <4>3. PICK n \in DOMAIN manifest.posts : j = n + 1
        <5>1. j - 1 \in 1 .. Len(manifest.posts) /\ j = (j - 1) + 1
          BY <1>3, <4>1, <4>2
        <5> QED
          BY <5>1, CandidatesAre
      <4>4. C[n + 1] = [key |-> Piece!RunnerKey(n), path |-> manifest.posts[n].path]
        BY <1>1, CandidatesAre
      <4>5. n \in Piece!Candidates /\ Piece!AppKey(n) = k
        BY <2>2, <4>1, <4>3, <4>4 DEF Piece!Candidates, Piece!FiledAlike
      <4> QED
        BY <3>2, <3>3, <4>3, <4>5, CandidatesAre
    <3> QED
      BY <3>5, <3>6
  <2> QED
    BY <2>1, <2>2
<1>5. Piece!Min(S) = first
  <2>1. S \in SUBSET Nat /\ S # {}
    BY <1>2, <1>3, <1>4
  <2>2. Piece!Min(S) \in S /\ \A i \in S : Piece!Min(S) <= i
    BY <2>1, LeastIs
  <2>3. first \in Nat /\ Piece!Min(S) \in Nat /\ first <= Piece!Min(S) /\ Piece!Min(S) <= first
    BY <1>4, <2>1, <2>2
  <2> QED
    BY <2>3
<1>6. PICK digest : digest = text[C[first].path]
  OBVIOUS
<1>7. /\ k \in DOMAIN Piece!RunnerForms
      /\ Piece!RunnerForms[k] =
           IF receipts[k] = digest THEN "published"
           ELSE IF approvals[k] = Nil THEN "draft"
           ELSE IF approvals[k].by # "human" THEN "draft"
           ELSE IF approvals[k].digest = digest THEN "signed" ELSE "changed"
  <2>1. k \in {C[j].key : j \in Piece!Readable}
    BY <1>2, <1>4
  <2> QED
    BY <1>1, <1>2, <1>5, <1>6, <2>1 DEF Piece!RunnerForms
<1>8. digest # Nil /\ Piece!AppForms[k].state = Piece!State(k, digest)
  BY <1>2, <1>3, <1>4, <1>6, FormsAre
<1> QED
  BY <1>7, <1>8 DEF Piece!State

-----------------------------------------------------------------------------
(* What was signed, and what a hand built *)

Thing == [by : {"hand", "house"}, words : Texts \cup {Nil}, signed : BOOLEAN, revision : Nat]
Approval == [by : {"human", "agent"}, digest : Texts \cup {Nil}, revision : Nat]
Built == [Piece!Targets -> Thing \cup {Nil}]
Render == [at : {"words", "approvals", "look", "page", "cards"}, force : BOOLEAN, path : Paths, revision : Nat,
           words : Texts \cup {Nil}, approvals : SUBSET [form : Piece!Keys, by : {"human", "agent"}, digest : Texts \cup {Nil}],
           seen : Built]

PieceTyped ==
  /\ manifest \in Manifests /\ text \in [Paths -> Texts \cup {Nil}]
  /\ approvals \in [Piece!Keys -> Approval \cup {Nil}] /\ DOMAIN receipts = Piece!Keys
  /\ built \in Built /\ render \in Render \cup {Piece!NoRender}

Hand == [by |-> "hand", words |-> Nil, signed |-> FALSE, revision |-> 0]

\* Whatever says of words that they are signed says it of words that were.
SignedFor ==
  /\ \A k \in Piece!Keys : approvals[k] # Nil /\ approvals[k].by = "human" => <<k, approvals[k].digest>> \in signed
  /\ render # Piece!NoRender =>
       \A a \in render.approvals : a.by = "human" => <<a.form, a.digest>> \in signed

\* So does what the app has read.
GoesBy(read) ==
  /\ read.revision \in Nat
  /\ \A k \in DOMAIN read.forms :
       /\ k \in Piece!Keys /\ read.forms[k].path \in Paths
       /\ read.forms[k].state = "signed" => <<k, read.forms[k].digest>> \in signed

\* A render that is about to write was forced, or has seen no page of a hand.
HandsSeen ==
  /\ \A t \in Piece!Targets : built[t] # Nil /\ built[t].by = "hand" => built[t] = Hand
  /\ render # Piece!NoRender /\ render.at \in {"page", "cards"} /\ ~render.force =>
       \A t \in Piece!Targets : render.seen[t] = Nil \/ render.seen[t].by = "house"

PieceHolds ==
  /\ PieceTyped /\ SignedFor /\ GoesBy(app) /\ HandsSeen
  /\ Piece!SignedPagesWereSigned /\ Piece!ReceiptsWereSigned

\* What the app reads, it reads of what was signed.
LEMMA ReadIs ==
  ASSUME Piece!PieceAssumption PROVE PieceTyped /\ SignedFor => GoesBy(Piece!Read)
<1> SUFFICES ASSUME PieceTyped, SignedFor PROVE GoesBy(Piece!Read)
  OBVIOUS
<1>1. Piece!Read.revision = manifest.revision /\ Piece!Read.forms = Piece!AppForms /\ manifest \in Manifests
  BY DEF Piece!Read, PieceTyped
<1>2. manifest.revision \in Nat
  BY <1>1, CandidatesAre
<1>3. ASSUME NEW k \in DOMAIN Piece!AppForms
      PROVE  /\ k \in Piece!Keys /\ Piece!AppForms[k].path \in Paths
             /\ Piece!AppForms[k].state = "signed" => <<k, Piece!AppForms[k].digest>> \in signed
  <2>1. k \in Piece!Keys /\ Piece!AppForms[k].path \in Paths /\ Piece!AppForms[k].state = Piece!State(k, Piece!AppForms[k].digest)
    BY <1>1, FormsAre
  <2> QED
    BY <2>1 DEF Piece!State, SignedFor
<1> QED
  BY <1>1, <1>2, <1>3 DEF GoesBy

\* The agent's hand, and the person's pages, sign nothing.
LEMMA AgentStep ==
  ASSUME Piece!PieceAssumption, PieceHolds,
         \/ \E p \in Paths : Piece!EditText(p)
         \/ Piece!EditManifest
         \/ \E k \in Piece!Keys : Piece!AgentApproves(k)
         \/ \E t \in Piece!Targets : Piece!BuildByHand(t)
  PROVE  PieceHolds'
<1> USE DEF PieceHolds, GoesBy
<1>1. UNCHANGED <<receipts, render, app, signed>>
  BY DEF Piece!EditText, Piece!EditManifest, Piece!AgentApproves, Piece!BuildByHand, Piece!Edits
<1>2. ASSUME NEW p \in Paths, Piece!EditText(p) PROVE PieceHolds'
  <2>1. UNCHANGED <<manifest, approvals, built>> /\ text' \in [Paths -> Texts \cup {Nil}]
    BY <1>2 DEF Piece!EditText, PieceTyped
  <2> QED
    BY <1>1, <2>1 DEF PieceTyped, SignedFor, HandsSeen, Piece!SignedPagesWereSigned, Piece!ReceiptsWereSigned
<1>3. CASE Piece!EditManifest
  <2>1. UNCHANGED <<text, approvals, built>> /\ manifest' \in Manifests
    BY <1>3 DEF Piece!EditManifest
  <2> QED
    BY <1>1, <2>1 DEF PieceTyped, SignedFor, HandsSeen, Piece!SignedPagesWereSigned, Piece!ReceiptsWereSigned
<1>4. ASSUME NEW k \in Piece!Keys, Piece!AgentApproves(k) PROVE PieceHolds'
  <2>1. PICK a : a = [by |-> "agent", digest |-> text[manifest.canonical], revision |-> manifest.revision]
    OBVIOUS
  <2>2. UNCHANGED <<text, manifest, built>> /\ approvals' = [approvals EXCEPT ![k] = a]
    BY <1>4, <2>1 DEF Piece!AgentApproves
  <2>3. a \in Approval /\ a.by = "agent"
    <3>1. manifest.canonical \in Paths /\ manifest.revision \in Nat
      BY CandidatesAre DEF PieceTyped
    <3> QED
      BY <2>1, <3>1 DEF Approval, PieceTyped
  <2>4. PieceTyped'
    BY <1>1, <2>2, <2>3 DEF PieceTyped
  <2>5. SignedFor'
    BY <1>1, <2>2, <2>3 DEF SignedFor, PieceTyped
  <2> QED
    BY <1>1, <2>2, <2>4, <2>5 DEF HandsSeen, Piece!SignedPagesWereSigned, Piece!ReceiptsWereSigned
<1>5. ASSUME NEW t \in Piece!Targets, Piece!BuildByHand(t) PROVE PieceHolds'
  <2>1. UNCHANGED <<text, manifest, approvals>> /\ built' = [built EXCEPT ![t] = Hand]
    BY <1>5 DEF Piece!BuildByHand, Hand
  <2>2. Hand \in Thing /\ ~Hand.signed
    BY DEF Hand, Thing
  <2>3. built' \in Built
    BY <2>1, <2>2 DEF PieceTyped, Built
  <2>4. PieceTyped'
    BY <1>1, <2>1, <2>3 DEF PieceTyped
  <2>5. HandsSeen' /\ Piece!SignedPagesWereSigned'
    BY <1>1, <2>1, <2>2 DEF HandsSeen, Piece!SignedPagesWereSigned, PieceTyped, Built
  <2> QED
    BY <1>1, <2>1, <2>4, <2>5 DEF SignedFor, Piece!ReceiptsWereSigned
<1> QED
  BY <1>2, <1>3, <1>4, <1>5

\* The runner's render puts the signature on a page for the approval it has read.
LEMMA RenderStep ==
  ASSUME Piece!PieceAssumption, PieceHolds,
         \/ Piece!RenderBegin \/ Piece!RenderWords \/ Piece!RenderApprovals
         \/ Piece!RenderLook \/ Piece!RenderPage \/ Piece!RenderCards
  PROVE  PieceHolds'
<1> USE DEF PieceHolds, GoesBy
<1>1. UNCHANGED <<text, manifest, approvals, receipts, app, signed>>
  BY DEF Piece!RenderBegin, Piece!RenderWords, Piece!RenderApprovals, Piece!RenderLook, Piece!RenderPage, Piece!RenderCards,
         Piece!Rendering, Piece!disk
<1>2. \A r \in Render : r # Piece!NoRender /\ Piece!NoRender.at = "done"
  <2>1. Piece!NoRender.at = "done"
    BY DEF Piece!NoRender
  <2> QED
    BY <2>1 DEF Render
<1>3. ASSUME NEW r \in Render, render' = r, built' = built,
             \A a \in r.approvals : a.by = "human" => <<a.form, a.digest>> \in signed,
             r.at \in {"page", "cards"} /\ ~r.force => \A t \in Piece!Targets : r.seen[t] = Nil \/ r.seen[t].by = "house"
      PROVE  PieceHolds'
  BY <1>1, <1>3 DEF PieceTyped, SignedFor, HandsSeen, Piece!SignedPagesWereSigned, Piece!ReceiptsWereSigned
<1>4. ASSUME render' = Piece!NoRender, built' = built PROVE PieceHolds'
  BY <1>1, <1>4 DEF PieceTyped, SignedFor, HandsSeen, Piece!SignedPagesWereSigned, Piece!ReceiptsWereSigned
<1>5. ASSUME render # Piece!NoRender
      PROVE  render \in Render /\ \A a \in render.approvals : a.by = "human" => <<a.form, a.digest>> \in signed
  BY <1>5 DEF PieceTyped, SignedFor
<1>51. ASSUME NEW step \in {"words", "approvals", "look", "page", "cards"}, render.at = step
       PROVE  render # Piece!NoRender /\ render \in Render /\ \A a \in render.approvals : a.by = "human" => <<a.form, a.digest>> \in signed
  <2>1. render # Piece!NoRender
    BY <1>51 DEF Piece!NoRender
  <2> QED
    BY <1>5, <2>1
<1>6. CASE Piece!RenderBegin
  <2>1. PICK force \in BOOLEAN :
          render' = [at |-> "words", force |-> force, path |-> manifest.canonical, revision |-> manifest.revision,
                     words |-> Nil, approvals |-> {}, seen |-> built]
    BY <1>6 DEF Piece!RenderBegin
  <2>2. manifest.canonical \in Paths /\ manifest.revision \in Nat /\ built \in Built /\ built' = built
    BY <1>6, CandidatesAre DEF PieceTyped, Piece!RenderBegin, Piece!disk
  <2>3. PICK r \in Render : r = render' /\ r.approvals = {} /\ r.at = "words"
    BY <2>1, <2>2 DEF Render
  <2> QED
    BY <1>3, <2>2, <2>3
<1>7. CASE Piece!RenderWords
  <2>1. render.at = "words" /\ built' = built
        /\ render' \in {Piece!NoRender, [render EXCEPT !.at = "approvals", !.words = text[render.path]]}
    BY <1>7 DEF Piece!RenderWords, Piece!Rendering, Piece!disk
  <2>2. render \in Render /\ \A a \in render.approvals : a.by = "human" => <<a.form, a.digest>> \in signed
    BY <1>51, <2>1
  <2>3. text[render.path] \in Texts \cup {Nil}
    BY <2>2 DEF PieceTyped, Render
  <2>4. PICK r : r = [render EXCEPT !.at = "approvals", !.words = text[render.path]]
    OBVIOUS
  <2>5. r \in Render /\ r.approvals = render.approvals /\ r.at = "approvals"
    BY <2>2, <2>3, <2>4 DEF Render
  <2> QED
    BY <1>3, <1>4, <2>1, <2>2, <2>4, <2>5
<1>8. CASE Piece!RenderApprovals
  <2>1. PICK A : A = {[form |-> k, by |-> approvals[k].by, digest |-> approvals[k].digest] :
                        k \in {j \in Piece!Keys : approvals[j] # Nil}}
    OBVIOUS
  <2>2. render.at = "approvals" /\ built' = built /\ render' = [render EXCEPT !.at = "look", !.approvals = A]
    BY <1>8, <2>1 DEF Piece!RenderApprovals, Piece!Rendering, Piece!disk
  <2>3. A \subseteq [form : Piece!Keys, by : {"human", "agent"}, digest : Texts \cup {Nil}]
        /\ \A a \in A : a.by = "human" => <<a.form, a.digest>> \in signed
    <3> SUFFICES ASSUME NEW k \in Piece!Keys, approvals[k] # Nil,
                        NEW a, a = [form |-> k, by |-> approvals[k].by, digest |-> approvals[k].digest]
                 PROVE  /\ a \in [form : Piece!Keys, by : {"human", "agent"}, digest : Texts \cup {Nil}]
                        /\ a.by = "human" => <<a.form, a.digest>> \in signed
      BY <2>1
    <3>1. approvals[k] \in Approval
      BY DEF PieceTyped
    <3>2. a.form = k /\ a.by = approvals[k].by /\ a.digest = approvals[k].digest
      OBVIOUS
    <3> QED
      BY <3>1, <3>2 DEF Approval, SignedFor
  <2>4. render \in Render
    BY <1>51, <2>2
  <2>5. PICK r : r = [render EXCEPT !.at = "look", !.approvals = A]
    OBVIOUS
  <2>6. r \in Render /\ r.approvals = A /\ r.at = "look"
    BY <2>3, <2>4, <2>5 DEF Render
  <2> QED
    BY <1>3, <2>2, <2>3, <2>5, <2>6
<1>9. CASE Piece!RenderLook
  <2>1. /\ render.at = "look" /\ built' = built
        /\ \/ render' = Piece!NoRender
           \/ /\ render' = [render EXCEPT !.at = "page", !.seen = built]
              /\ render.force \/ \A t \in Piece!Targets : built[t] = Nil \/ built[t].by = "house"
    BY <1>9 DEF Piece!RenderLook, Piece!Rendering, Piece!disk, Piece!Ours
  <2>2. render \in Render /\ \A a \in render.approvals : a.by = "human" => <<a.form, a.digest>> \in signed
    BY <1>51, <2>1
  <2>3. PICK r : r = [render EXCEPT !.at = "page", !.seen = built]
    OBVIOUS
  <2>4. r \in Render /\ r.approvals = render.approvals /\ r.force = render.force /\ r.seen = built
    BY <2>2, <2>3 DEF Render, PieceTyped
  <2> QED
    BY <1>3, <1>4, <2>1, <2>2, <2>3, <2>4
<1>10. ASSUME NEW t \in Piece!Targets, NEW flag \in BOOLEAN, render \in Render, render.at \in {"page", "cards"},
              built' = [built EXCEPT ![t] = Piece!House(flag)], flag => <<"web", render.words>> \in signed,
              render' = Piece!NoRender \/ render' = [render EXCEPT !.at = "cards"]
       PROVE  PieceHolds'
  <2>1. PICK h : h = [by |-> "house", words |-> render.words, signed |-> flag, revision |-> render.revision]
    OBVIOUS
  <2>2. h \in Thing /\ h.by = "house" /\ h.words = render.words /\ h.signed = flag
    BY <1>10, <2>1 DEF Render, Thing
  <2>3. built' = [built EXCEPT ![t] = h]
    BY <1>10, <2>1 DEF Piece!House
  <2>4. built \in Built
    BY DEF PieceTyped
  <2>5. built' \in Built /\ built'[t] = h /\ \A u \in Piece!Targets \ {t} : built'[u] = built[u]
    BY <2>2, <2>3, <2>4 DEF Built
  <2>6. PICK r : r = [render EXCEPT !.at = "cards"]
    OBVIOUS
  <2>7. r \in Render /\ r.approvals = render.approvals /\ r.force = render.force /\ r.seen = render.seen
    BY <1>10, <2>6 DEF Render
  <2>8. PieceTyped'
    BY <1>1, <1>10, <2>5, <2>6, <2>7 DEF PieceTyped
  <2>9. SignedFor'
    BY <1>1, <1>51, <1>10, <2>6, <2>7 DEF SignedFor
  <2>10. HandsSeen'
    <3>1. \A u \in Piece!Targets : built'[u] # Nil /\ built'[u].by = "hand" => built'[u] = Hand
      BY <2>2, <2>5 DEF HandsSeen
    <3>2. ~render.force => \A u \in Piece!Targets : render.seen[u] = Nil \/ render.seen[u].by = "house"
      BY <1>51, <1>10 DEF HandsSeen
    <3>3. CASE render' = Piece!NoRender
      BY <3>1, <3>3 DEF HandsSeen
    <3>4. CASE render' = r
      BY <2>7, <3>1, <3>2, <3>4 DEF HandsSeen
    <3> QED
      BY <1>10, <2>6, <3>3, <3>4
  <2>11. Piece!SignedPagesWereSigned'
    BY <1>1, <1>10, <2>2, <2>5 DEF Piece!SignedPagesWereSigned
  <2> QED
    BY <1>1, <2>8, <2>9, <2>10, <2>11 DEF Piece!ReceiptsWereSigned
<1>11. CASE Piece!RenderPage
  <2>1. render.at = "page" /\ built' = [built EXCEPT !["page"] = Piece!House(Piece!WebApproval)] /\ render' = [render EXCEPT !.at = "cards"]
    BY <1>11 DEF Piece!RenderPage
  <2>2. render \in Render /\ \A a \in render.approvals : a.by = "human" => <<a.form, a.digest>> \in signed
    BY <1>51, <2>1
  <2>3. Piece!WebApproval \in BOOLEAN /\ (Piece!WebApproval => <<"web", render.words>> \in signed)
    BY <2>2 DEF Piece!WebApproval
  <2>4. "page" \in Piece!Targets
    BY DEF Piece!Targets
  <2>5. PICK flag \in BOOLEAN : flag = Piece!WebApproval
    BY <2>3
  <2> QED
    BY <1>10, <2>1, <2>2, <2>3, <2>4, <2>5
<1>12. CASE Piece!RenderCards
  <2>1. render.at = "cards" /\ built' = [built EXCEPT !["cards"] = Piece!House(FALSE)] /\ render' = Piece!NoRender
    BY <1>12 DEF Piece!RenderCards
  <2>2. render \in Render /\ "cards" \in Piece!Targets
    BY <1>51, <2>1 DEF Piece!Targets
  <2> QED
    BY <1>10, <2>1, <2>2
<1> QED
  BY <1>6, <1>7, <1>8, <1>9, <1>11, <1>12

\* The person's marks go by what the app has read, and it reads again.
LEMMA MarkStep ==
  ASSUME Piece!PieceAssumption, PieceHolds,
         \/ Piece!Refresh
         \/ \E k \in Piece!Keys : Piece!Sign(k) \/ Piece!Withdraw(k) \/ Piece!RecordPublication(k)
  PROVE  PieceHolds'
<1> USE DEF PieceHolds
<1>1. UNCHANGED <<text, manifest, built, render>> /\ app' = Piece!Read'
  <2>1. CASE Piece!Refresh
    <3>1. UNCHANGED <<text, manifest, approvals, receipts, built, render>> /\ app' = Piece!Read
      BY <2>1 DEF Piece!Refresh, Piece!disk
    <3>2. \A k, digest : Piece!State(k, digest)' = Piece!State(k, digest)
      BY <3>1 DEF Piece!State
    <3>3. Piece!Candidates' = Piece!Candidates /\ \A i : Piece!AppKey(i)' = Piece!AppKey(i)
      BY <3>1 DEF Piece!Candidates, Piece!AppKey
    <3>4. \A k, C : Piece!FirstPost(k, C)' = Piece!FirstPost(k, C)
      BY <3>3 DEF Piece!FirstPost
    <3>5. Piece!AppForms' = Piece!AppForms
      BY <3>1, <3>2, <3>3, <3>4 DEF Piece!AppForms
    <3> QED
      BY <3>1, <3>5 DEF Piece!Read
  <2>2. CASE ~Piece!Refresh
    BY <2>2 DEF Piece!Sign, Piece!Withdraw, Piece!RecordPublication, Piece!Mark
  <2> QED
    BY <2>1, <2>2
<1>2. ASSUME approvals' \in [Piece!Keys -> Approval \cup {Nil}], DOMAIN receipts' = Piece!Keys, signed \subseteq signed',
             \A k \in Piece!Keys : approvals'[k] # Nil /\ approvals'[k].by = "human" => <<k, approvals'[k].digest>> \in signed',
             \A k \in Piece!Keys : receipts'[k] # Nil => <<k, receipts'[k]>> \in signed'
      PROVE  PieceHolds'
  <2>1. PieceTyped'
    BY <1>1, <1>2 DEF PieceTyped
  <2>2. SignedFor'
    BY <1>1, <1>2 DEF SignedFor
  <2>3. (PieceTyped /\ SignedFor => GoesBy(Piece!Read))'
    BY ReadIs, PTL
  <2>4. GoesBy(app)'
    BY <1>1, <2>1, <2>2, <2>3 DEF GoesBy
  <2> QED
    BY <1>1, <1>2, <2>1, <2>2, <2>4 DEF HandsSeen, Piece!SignedPagesWereSigned, Piece!ReceiptsWereSigned
<1>3. CASE Piece!Refresh
  <2>1. UNCHANGED <<approvals, receipts, signed>>
    BY <1>3 DEF Piece!Refresh, Piece!disk
  <2> QED
    BY <1>2, <2>1 DEF PieceTyped, SignedFor, Piece!ReceiptsWereSigned
<1>4. ASSUME NEW k \in Piece!Keys, Piece!Sign(k) PROVE PieceHolds'
  <2>1. PICK digest : digest = text[app.forms[k].path]
    OBVIOUS
  <2>2. PICK a : a = [by |-> "human", digest |-> digest, revision |-> app.revision]
    OBVIOUS
  <2>3. /\ k \in DOMAIN app.forms /\ receipts' = receipts
        /\ \/ UNCHANGED <<approvals, signed>>
           \/ approvals' = [approvals EXCEPT ![k] = a] /\ signed' = signed \cup {<<k, digest>>}
    BY <1>4, <2>1, <2>2 DEF Piece!Sign, Piece!Listed
  <2>4. a \in Approval /\ a.digest = digest
    <3>1. app.revision \in Nat /\ digest \in Texts \cup {Nil}
      BY <2>1, <2>3 DEF GoesBy, PieceTyped
    <3> QED
      BY <2>2, <3>1 DEF Approval
  <2> QED
    BY <1>2, <2>3, <2>4 DEF PieceTyped, SignedFor, Piece!ReceiptsWereSigned
<1>5. ASSUME NEW k \in Piece!Keys, Piece!Withdraw(k) PROVE PieceHolds'
  <2>1. UNCHANGED <<receipts, signed>> /\ approvals' \in {approvals, [approvals EXCEPT ![k] = Nil]}
    BY <1>5 DEF Piece!Withdraw
  <2> QED
    BY <1>2, <2>1 DEF PieceTyped, SignedFor, Piece!ReceiptsWereSigned
<1>6. ASSUME NEW k \in Piece!Keys, Piece!RecordPublication(k) PROVE PieceHolds'
  <2>1. /\ UNCHANGED <<approvals, signed>> /\ k \in DOMAIN app.forms
        /\ \/ receipts' = receipts
           \/ app.forms[k].state = "signed" /\ receipts' = [receipts EXCEPT ![k] = app.forms[k].digest]
    BY <1>6 DEF Piece!RecordPublication, Piece!Listed, Piece!Receipt
  <2> QED
    BY <1>2, <2>1 DEF PieceTyped, SignedFor, GoesBy, Piece!ReceiptsWereSigned
<1> QED
  BY <1>3, <1>4, <1>5, <1>6

\* The loose pages have no part in it.
LEMMA DeskStep ==
  ASSUME PieceHolds,
         \/ UNCHANGED Piece!vars
         \/ \E w \in Words : Piece!Capture(w)
         \/ \E n \in 1 .. Slots : Piece!SetAsideRead(n) \/ Piece!EditPage(n)
         \/ Piece!SetAsideWrite
  PROVE  PieceHolds'
<1>1. UNCHANGED <<text, manifest, approvals, receipts, built, render, app, signed>>
  BY DEF Piece!vars, Piece!disk, Piece!Capture, Piece!SetAsideRead, Piece!EditPage, Piece!SetAsideWrite, Piece!Desk
<1> QED
  BY <1>1 DEF PieceHolds, PieceTyped, SignedFor, GoesBy, HandsSeen, Piece!SignedPagesWereSigned, Piece!ReceiptsWereSigned

LEMMA PieceAlways == ASSUME Piece!PieceAssumption PROVE Piece!Spec => []PieceHolds
<1>1. ASSUME Piece!Init PROVE PieceHolds
  <2> USE <1>1 DEF Piece!Init
  <2>1. PieceTyped
    BY DEF PieceTyped, Piece!PieceAssumption, Built
  <2>2. SignedFor
    BY DEF SignedFor
  <2>3. GoesBy(app)
    BY <2>1, <2>2, ReadIs
  <2> QED
    BY <2>1, <2>2, <2>3 DEF PieceHolds, HandsSeen, Piece!SignedPagesWereSigned, Piece!ReceiptsWereSigned
<1>2. PieceHolds /\ [Piece!Next]_Piece!vars => PieceHolds'
  BY AgentStep, RenderStep, MarkStep, DeskStep DEF Piece!Next
<1> QED
  BY <1>1, <1>2, PTL DEF Piece!Spec

\* A page that carries the signature shows words the person signed for the web,
\* and a public link is kept for signed words only, whatever the agent edits
\* between the runner's three readings, or between the app's reading and its mark.
THEOREM PieceShowsSignedWords ==
  ASSUME Piece!PieceAssumption PROVE Piece!Spec => [](Piece!SignedPagesWereSigned /\ Piece!ReceiptsWereSigned)
<1>1. PieceHolds => Piece!SignedPagesWereSigned /\ Piece!ReceiptsWereSigned
  BY DEF PieceHolds
<1> QED
  BY <1>1, PieceAlways, PTL

\* The app and the runner say the same of the essay, and of every form the app
\* lists that both file alike, although each derives it on its own from files it
\* reads on its own.
THEOREM PieceReadersAgree ==
  ASSUME Piece!PieceAssumption PROVE Piece!Spec => []Piece!ReadersAgree
<1>1. PieceHolds => Piece!ReadersAgree
  BY StatesAgree DEF PieceHolds, PieceTyped
<1> QED
  BY <1>1, PieceAlways, PTL

\* A set-aside holds a page that it has read, of the slot it will write.
Page == [words : Words, status : {"loose", "set_aside"}]
PagesHold ==
  /\ edits \in Nat /\ pages \in [1 .. Slots -> Page \cup {Nil}]
  /\ aside # Piece!NoRead => aside.slot \in 1 .. Slots /\ aside.page \in Page

LEMMA PagesAlways == Piece!Spec => []PagesHold
<1>1. Piece!Init => PagesHold
  BY DEF Piece!Init, PagesHold
<1>2. ASSUME PagesHold, [Piece!Next]_Piece!vars PROVE PagesHold'
  <2>1. CASE UNCHANGED <<pages, aside>> /\ edits' \in {edits, edits + 1}
    BY <1>2, <2>1 DEF PagesHold
  <2>2. ASSUME NEW w \in Words, Piece!Capture(w) PROVE PagesHold'
    <3>1. [words |-> w, status |-> "loose"] \in Page
      BY DEF Page
    <3> QED
      BY <1>2, <2>2, <3>1 DEF Piece!Capture, Piece!Desk, PagesHold
  <2>3. ASSUME NEW n \in 1 .. Slots, Piece!SetAsideRead(n) PROVE PagesHold'
    <3>1. aside' = [slot |-> n, page |-> pages[n]] /\ pages' = pages /\ pages[n] \in Page /\ edits' = edits
      BY <1>2, <2>3 DEF Piece!SetAsideRead, PagesHold
    <3> QED
      BY <1>2, <3>1 DEF PagesHold
  <2>4. ASSUME NEW n \in 1 .. Slots, Piece!EditPage(n) PROVE PagesHold'
    <3>1. PICK w \in Words : pages' = [pages EXCEPT ![n].words = w]
      BY <2>4 DEF Piece!EditPage
    <3>2. pages[n] \in Page /\ aside' = aside /\ edits' = edits + 1
      BY <1>2, <2>4 DEF Piece!EditPage, PagesHold
    <3>3. PICK p : p = [pages[n] EXCEPT !.words = w]
      OBVIOUS
    <3>4. p \in Page /\ pages' = [pages EXCEPT ![n] = p]
      BY <3>1, <3>2, <3>3 DEF Page
    <3> QED
      BY <1>2, <3>2, <3>4 DEF PagesHold
  <2>5. CASE Piece!SetAsideWrite
    <3>1. aside # Piece!NoRead /\ edits' = edits /\ aside' = Piece!NoRead
          /\ pages' = [pages EXCEPT ![aside.slot] = [aside.page EXCEPT !.status = "set_aside"]]
      BY <2>5 DEF Piece!SetAsideWrite
    <3>2. PICK p : p = [aside.page EXCEPT !.status = "set_aside"]
      OBVIOUS
    <3>3. p \in Page
      BY <1>2, <3>1, <3>2 DEF PagesHold, Page
    <3> QED
      BY <1>2, <3>1, <3>2, <3>3 DEF PagesHold
  <2>6. \/ UNCHANGED <<pages, aside>> /\ edits' \in {edits, edits + 1}
        \/ \E w \in Words : Piece!Capture(w)
        \/ \E n \in 1 .. Slots : Piece!SetAsideRead(n) \/ Piece!EditPage(n)
        \/ Piece!SetAsideWrite
    BY <1>2 DEF Piece!Next, Piece!vars, Piece!EditText, Piece!EditManifest, Piece!AgentApproves, Piece!BuildByHand, Piece!Edits,
       Piece!Sign, Piece!Withdraw, Piece!RecordPublication, Piece!Mark, Piece!RenderBegin, Piece!RenderWords, Piece!RenderApprovals,
       Piece!RenderLook, Piece!RenderPage, Piece!RenderCards, Piece!Rendering, Piece!Refresh, Piece!Desk
  <2> QED
    BY <2>1, <2>2, <2>3, <2>4, <2>5, <2>6
<1> QED
  BY <1>1, <1>2, PTL DEF Piece!Spec

\* What a person made is replaced by the person alone, by a forced render, or by
\* one that looked, or a set-aside that read, before it was there.
THEOREM PieceKeepsPages ==
  ASSUME Piece!PieceAssumption PROVE Piece!Spec => Piece!NothingHandmadeIsReplaced
<1>1. ASSUME PieceHolds, PagesHold, [Piece!Next]_Piece!vars PROVE [Piece!HandsKept]_Piece!vars
  <2> SUFFICES ASSUME Piece!Next PROVE Piece!HandsKept
    BY <1>1
  <2> USE <1>1 DEF PieceHolds
  <2>1. ASSUME NEW t \in Piece!Targets, built[t] # Nil, built[t].by = "hand", built'[t] # built[t]
        PROVE  render.force \/ render.seen[t] # built[t]
    <3>1. built[t] = Hand /\ built \in Built
      BY <2>1 DEF HandsSeen, PieceTyped
    <3>2. ASSUME NEW u \in Piece!Targets, Piece!BuildByHand(u) PROVE FALSE
      BY <2>1, <3>1, <3>2 DEF Piece!BuildByHand, Hand, Built
    <3>3. Piece!RenderPage \/ Piece!RenderCards
      BY <2>1, <3>2 DEF Piece!Next, Piece!EditText, Piece!EditManifest, Piece!AgentApproves, Piece!Sign, Piece!Withdraw,
         Piece!RecordPublication, Piece!Mark, Piece!RenderBegin, Piece!RenderWords, Piece!RenderApprovals, Piece!RenderLook,
         Piece!Rendering, Piece!Refresh, Piece!Capture, Piece!SetAsideRead, Piece!EditPage, Piece!SetAsideWrite, Piece!Desk, Piece!disk
    <3>4. render.at \in {"page", "cards"}
      BY <3>3 DEF Piece!RenderPage, Piece!RenderCards
    <3>5. render # Piece!NoRender
      BY <3>4 DEF Piece!NoRender
    <3>6. ~render.force => render.seen[t] = Nil \/ render.seen[t].by = "house"
      BY <3>4, <3>5 DEF HandsSeen
    <3> QED
      BY <2>1, <3>6
  <2>2. ASSUME NEW n \in 1 .. Slots, pages[n] # Nil, pages'[n] # pages[n], edits' = edits
        PROVE  aside.slot = n /\ (aside.page = pages[n] => pages'[n].words = pages[n].words)
    <3>1. ASSUME NEW w \in Words, Piece!Capture(w) PROVE FALSE
      BY <1>1, <2>2, <3>1 DEF Piece!Capture, Piece!Free, PagesHold
    <3>2. ASSUME NEW m \in 1 .. Slots, Piece!EditPage(m) PROVE FALSE
      BY <1>1, <2>2, <3>2 DEF Piece!EditPage, PagesHold
    <3>3. Piece!SetAsideWrite
      BY <2>2, <3>1, <3>2 DEF Piece!Next, Piece!EditText, Piece!EditManifest, Piece!AgentApproves, Piece!BuildByHand, Piece!Edits,
         Piece!Sign, Piece!Withdraw, Piece!RecordPublication, Piece!Mark, Piece!RenderBegin, Piece!RenderWords, Piece!RenderApprovals,
         Piece!RenderLook, Piece!RenderPage, Piece!RenderCards, Piece!Rendering, Piece!Refresh, Piece!SetAsideRead
    <3>4. /\ aside.slot \in 1 .. Slots /\ aside.page \in Page
          /\ pages' = [pages EXCEPT ![aside.slot] = [aside.page EXCEPT !.status = "set_aside"]]
      BY <1>1, <3>3 DEF Piece!SetAsideWrite, PagesHold
    <3>5. [aside.page EXCEPT !.status = "set_aside"].words = aside.page.words
      BY <3>4 DEF Page
    <3> QED
      BY <1>1, <2>2, <3>4, <3>5 DEF PagesHold
  <2> QED
    BY <2>1, <2>2 DEF Piece!HandsKept
<1> QED
  BY <1>1, PieceAlways, PagesAlways, PTL DEF Piece!Spec, Piece!NothingHandmadeIsReplaced

-----------------------------------------------------------------------------
(* FeedState: every receipt and cue on disk was checked, however late it    *)
(* was written, and the clock only makes older what was not too new         *)

Plan == [rev : Int, rows : Rows]
Receipt == [id : ReceiptIds, feed : Feeds, rev : Int, rows : Rows, who : {"", "@me", "@other"}, at : Int, until : Int,
            passed : BOOLEAN, status : {"verified", "partial"}, of : Nat]
Cue == [id : CueIds, feed : Feeds, rev : Int, rows : Rows, receipt : ReceiptIds, at : Int, seen : Int, until : Int, now : Int]
Mac == [doc : Plan \cup {Nil}, rows : Rows, prefs : Rows, receipts : SUBSET Receipt, cues : SUBSET Cue]
Doing == {"receipt", "fill receipt", "cue", "fill cue"}

\* feedReceipts[i] and cues[i] are in the file named for their own id.
FeedTyped ==
  /\ plan \in Plan \cup {Nil, Torn} /\ clock \in Nat /\ saves \in Nat /\ spoils \in Nat
  /\ mac \in Mac
  /\ \A i \in DOMAIN feedReceipts : feedReceipts[i] # Torn => feedReceipts[i] \in Receipt /\ feedReceipts[i].id = i
  /\ \A i \in DOMAIN cues : cues[i] # Torn => cues[i] \in Cue

\* A receipt stands for its own rows, and for the save that it names.
SoundReceipt(r) ==
  /\ r.rows[r.feed] # Feed!Off /\ (r.feed = "x" => r.who = r.rows[r.feed])
  /\ r.at <= clock + Tolerance /\ r.at < r.until /\ r.until - r.at <= TTL[r.feed]
  /\ r.status = "verified" => r.passed
  /\ spoils = 0 => r.of = r.rev

\* A cue's receipt was good when the cue was checked.
Backs(r, c) == r.id = c.receipt /\ r.feed = c.feed /\ r.status = "verified" /\ r.until > c.now
SoundCue(c) ==
  /\ c.until <= c.now + CueTTL + Tolerance
  /\ \E r \in Feed!Readable(feedReceipts) : Backs(r, c)

FeedSound ==
  /\ \A r \in Feed!Readable(feedReceipts) : SoundReceipt(r)
  /\ \A c \in Feed!Readable(cues) \cup mac.cues : SoundCue(c)

\* What the agent is about to write was checked, and its torn file is its own.
Working ==
  /\ feedAgent = Feed!Idle \/ feedAgent \in [doing : Doing, what : Receipt \cup Cue]
  /\ feedAgent.doing \in {"receipt", "fill receipt"} => feedAgent.what \in Receipt /\ SoundReceipt(feedAgent.what)
  /\ feedAgent.doing \in {"cue", "fill cue"} => feedAgent.what \in Cue /\ SoundCue(feedAgent.what)
  /\ feedAgent.doing = "fill receipt" => feedAgent.what.id \in DOMAIN feedReceipts /\ feedReceipts[feedAgent.what.id] = Torn
  /\ feedAgent.doing = "fill cue" => feedAgent.what.id \in DOMAIN cues /\ cues[feedAgent.what.id] = Torn

\* While nothing was done to the plan file, the app holds the plan, each save is
\* the next revision, and what the app shows is of it.
PlanKnown ==
  spoils = 0 =>
    /\ plan = mac.doc /\ IF plan = Nil THEN saves = 0 ELSE plan.rev = saves
    /\ \A c \in mac.cues : \E r \in Feed!Readable(feedReceipts) : r.id = c.receipt /\ r.rev = saves

FeedHolds == FeedTyped /\ FeedSound /\ Working /\ PlanKnown

LEMMA ReadableAre ==
  ASSUME FeedTyped
  PROVE  /\ Feed!Readable(feedReceipts) \subseteq Receipt /\ Feed!Readable(cues) \subseteq Cue
         /\ \A r, s \in Feed!Readable(feedReceipts) : r.id = s.id => r = s
<1>1. \A f \in Feed!Readable(feedReceipts) : f \in Receipt /\ feedReceipts[f.id] = f
  <2>1. ASSUME NEW f \in Feed!Readable(feedReceipts)
        PROVE  f \in Receipt /\ feedReceipts[f.id] = f
    <3>1. PICK i \in DOMAIN feedReceipts : f = feedReceipts[i] /\ feedReceipts[i] # Torn
      BY DEF Feed!Readable
    <3> QED
      BY <3>1 DEF FeedTyped
  <2> QED
    BY <2>1
<1>2. Feed!Readable(cues) \subseteq Cue
  BY DEF FeedTyped, Feed!Readable
<1> QED
  BY <1>1, <1>2

\* The app and the agents' server say the same.
LEMMA FeedReaders ==
  ASSUME Feed!PlanAssumption, FeedTyped, FeedSound
  PROVE  Feed!FeedReadersAgree
<1> DEFINE Alike == Feed!PlanStands(plan) /\ plan = mac.doc /\ mac.rows = plan.rows
<1>1. ASSUME Alike, NEW r \in Feed!Readable(feedReceipts)
      PROVE  /\ r.rev = plan.rev /\ r.rows = plan.rows /\ r.feed \in Feeds /\ plan.rows[r.feed] # Feed!Off =>
                  Feed!ReceiptMatches(r, plan, clock) /\ Feed!MacMatches(r, mac.rows, mac.doc, clock)
  <2>1. r \in Receipt /\ SoundReceipt(r)
    BY ReadableAre DEF FeedSound
  <2> QED
    BY <1>1, <2>1 DEF SoundReceipt, Receipt, Feed!ReceiptMatches, Feed!MacMatches
<1>2. ASSUME Alike, mac.receipts = Feed!Readable(feedReceipts), NEW f \in Feeds, plan.rows[f] # Feed!Off
      PROVE  Feed!Shown(f) = Feed!Listed(f)
  <2>1. PICK mine : mine = {r \in mac.receipts : r.feed = f /\ r.rev = mac.doc.rev /\ r.rows = mac.doc.rows}
    OBVIOUS
  <2>2. \A r \in mine : Feed!MacMatches(r, mac.rows, mac.doc, clock)
    BY <1>1, <1>2, <2>1
  <2>3. mine = {r \in Feed!Readable(feedReceipts) : r.feed = f /\ Feed!ReceiptMatches(r, plan, clock)}
    BY <1>1, <1>2, <2>1 DEF Feed!ReceiptMatches
  <2>4. Feed!Newest(mine) \subseteq mine /\ Feed!ListedReceipts(f) = Feed!Newest(mine)
    BY <2>3 DEF Feed!Newest, Feed!ListedReceipts
  <2>5. Feed!Listed(f) = IF Feed!Newest(mine) = {} THEN {"awaiting"} ELSE {Feed!PhaseOf(r) : r \in Feed!Newest(mine)}
    BY <2>4 DEF Feed!Listed
  <2>6. Feed!Shown(f) = IF Feed!Newest(mine) = {} THEN {"awaiting"}
          ELSE {IF Feed!MacMatches(r, mac.rows, mac.doc, clock) THEN Feed!PhaseOf(r) ELSE "partial" : r \in Feed!Newest(mine)}
    BY <1>2, <2>1 DEF Feed!Shown, Feed!PlanStands
  <2> QED
    BY <2>2, <2>4, <2>5, <2>6
<1>3. ASSUME NEW c \in Feed!Readable(cues), NEW r \in Feed!Readable(feedReceipts)
      PROVE  Feed!CueMatches(c, plan, r, clock) <=> Feed!MacCueMatches(c, plan, r, clock)
  <2>1. r \in Receipt /\ c \in Cue
    BY ReadableAre
  <2> QED
    BY <2>1 DEF Receipt, Cue, Feed!CueMatches, Feed!MacCueMatches, Feed!ReceiptMatches, Feed!MacMatches
<1>4. ASSUME Alike
      PROVE  Feed!MacCues(plan) = Feed!ListedCues
  BY <1>3, <1>4 DEF Feed!MacCues, Feed!ListedCues, Feed!PlanStands
<1> QED
  BY <1>2, <1>4 DEF Feed!FeedReadersAgree

\* What the app shows is on disk, of the plan it was read for.
LEMMA MacCuesAre ==
  ASSUME FeedTyped, FeedSound, NEW p
  PROVE  /\ Feed!MacCues(p) \in SUBSET Cue
         /\ \A c \in Feed!MacCues(p) :
              SoundCue(c) /\ \E r \in Feed!Readable(feedReceipts) : r.id = c.receipt /\ r.rev = p.rev
<1>1. Feed!MacCues(p) \subseteq Feed!Readable(cues)
  BY DEF Feed!MacCues
<1>2. ASSUME NEW c \in Feed!MacCues(p)
      PROVE  \E r \in Feed!Readable(feedReceipts) : r.id = c.receipt /\ r.rev = p.rev
  <2>1. PICK r \in Feed!Readable(feedReceipts) : Feed!MacCueMatches(c, p, r, clock)
    BY <1>2 DEF Feed!MacCues
  <2> QED
    BY <2>1 DEF Feed!MacCueMatches, Feed!MacMatches
<1> QED
  BY <1>1, <1>2, ReadableAre DEF FeedSound

\* What was sound stays so while receipts are only added and the clock goes on.
LEMMA SoundKept ==
  ASSUME Feed!PlanAssumption, FeedTyped, clock' \in Nat, clock' >= clock, spoils' = 0 => spoils = 0,
         Feed!Readable(feedReceipts) \subseteq Feed!Readable(feedReceipts')
  PROVE  /\ \A r \in Receipt : SoundReceipt(r) => SoundReceipt(r)'
         /\ \A c : SoundCue(c) => SoundCue(c)'
<1>1. ASSUME NEW r \in Receipt, SoundReceipt(r)
      PROVE  SoundReceipt(r)'
  <2>1. r.at \in Int /\ clock \in Nat /\ Tolerance \in Nat
    BY DEF Receipt, FeedTyped, Feed!PlanAssumption
  <2>2. r.at <= clock' + Tolerance
    BY <1>1, <2>1 DEF SoundReceipt
  <2> QED
    BY <1>1, <2>2 DEF SoundReceipt, Feed!Off
<1>2. ASSUME NEW c, SoundCue(c)
      PROVE  SoundCue(c)'
  BY <1>2 DEF SoundCue, Backs
<1> QED
  BY <1>1, <1>2

\* The plan known, spelled out.
LEMMA PlanIs ==
  ASSUME Feed!PlanAssumption, FeedHolds, spoils = 0
  PROVE  /\ plan = mac.doc /\ plan # Torn
         /\ plan = Nil => saves = 0
         /\ plan # Nil => plan \in Plan /\ plan.rev = saves
BY DEF FeedHolds, FeedTyped, PlanKnown, Feed!PlanAssumption, Plan, Mac

LEMMA FeedFirst ==
  ASSUME Feed!PlanAssumption, Feed!Init
  PROVE  FeedHolds
<1>1. PICK rows \in Rows : mac = [doc |-> Nil, rows |-> rows, prefs |-> rows, receipts |-> {}, cues |-> {}]
  BY DEF Feed!Init
<1>2. DOMAIN feedReceipts = {} /\ DOMAIN cues = {} /\ Feed!Readable(feedReceipts) = {} /\ Feed!Readable(cues) = {}
  BY DEF Feed!Init, Feed!Readable
<1>3. feedAgent = Feed!Idle /\ feedAgent.doing = "idle" /\ plan = Nil /\ clock = 1 /\ saves = 0 /\ spoils = 0
  BY DEF Feed!Init, Feed!Idle
<1>4. FeedTyped
  BY <1>1, <1>2, <1>3 DEF FeedTyped, Mac
<1>5. FeedSound
  BY <1>1, <1>2, <1>3 DEF FeedSound
<1>6. Working
  BY <1>3 DEF Working
<1>7. PlanKnown
  BY <1>1, <1>3 DEF PlanKnown
<1> QED
  BY <1>4, <1>5, <1>6, <1>7 DEF FeedHolds

\* The app's own steps that write no receipt: the disk is read again or left.
LEMMA AppReads ==
  ASSUME Feed!PlanAssumption, FeedHolds, UNCHANGED <<feedReceipts, cues, feedAgent, clock>>,
         spoils' \in Nat, saves' \in Nat, spoils' = 0 => spoils = 0,
         plan' \in Plan \cup {Nil, Torn}, 
         mac' \in Mac,
         \A c \in mac'.cues : SoundCue(c)
  PROVE  FeedTyped' /\ FeedSound' /\ Working'
<1>1. FeedTyped'
  <2>1. clock' \in Nat
    BY DEF FeedHolds, FeedTyped
  <2>2. /\ \A i \in DOMAIN feedReceipts' : feedReceipts'[i] # Torn => feedReceipts'[i] \in Receipt /\ feedReceipts'[i].id = i
        /\ \A i \in DOMAIN cues' : cues'[i] # Torn => cues'[i] \in Cue
    BY DEF FeedHolds, FeedTyped
  <2> QED
    BY <2>1, <2>2 DEF FeedTyped
<1>2. Feed!Readable(feedReceipts') = Feed!Readable(feedReceipts) /\ Feed!Readable(cues') = Feed!Readable(cues)
  OBVIOUS
<1>3. clock' \in Nat /\ clock' >= clock
  <2>1. clock' = clock /\ clock \in Nat
    BY DEF FeedHolds, FeedTyped
  <2> QED
    BY ONLY <2>1
<1>4. (\A r \in Receipt : SoundReceipt(r) => SoundReceipt(r)') /\ (\A c : SoundCue(c) => SoundCue(c)')
  BY <1>2, <1>3, SoundKept DEF FeedHolds
<1>5. FeedSound'
  BY <1>2, <1>4, ReadableAre DEF FeedHolds, FeedTyped, FeedSound
<1>6. Working'
  <2>1. Working
    BY DEF FeedHolds
  <2>2. /\ feedAgent'.doing \in {"receipt", "fill receipt"} => feedAgent'.what \in Receipt /\ SoundReceipt(feedAgent.what)'
        /\ feedAgent'.doing \in {"cue", "fill cue"} => feedAgent'.what \in Cue /\ SoundCue(feedAgent.what)'
    BY <1>4, <2>1 DEF Working, SoundReceipt, SoundCue
  <2> QED
    BY <2>1, <2>2 DEF Working, Feed!Idle
<1> QED
  BY <1>1, <1>5, <1>6

LEMMA FeedSaves ==
  ASSUME Feed!PlanAssumption, FeedHolds, NEW rows \in Rows, Feed!SavePlan(rows)
  PROVE  FeedHolds'
<1>1. PICK p : p = plan' /\ p = Feed!Revised(rows, mac.doc)
  BY DEF Feed!SavePlan
<1>2. p \in Plan /\ (mac.doc = Nil => p.rev = 1) /\ (mac.doc # Nil => p.rev = mac.doc.rev + 1) /\ p # Nil
  <2>1. mac.doc = Nil \/ mac.doc \in Plan
    BY DEF FeedHolds, FeedTyped, Mac
  <2>2. p \in Plan /\ (mac.doc = Nil => p.rev = 1) /\ (mac.doc # Nil => p.rev = mac.doc.rev + 1)
    BY <1>1, <2>1 DEF Feed!Revised, Feed!Doc, Plan
  <2> QED
    BY <2>2 DEF Feed!PlanAssumption, Plan
<1>3. /\ mac' = [doc |-> p, rows |-> rows, prefs |-> rows,
                 receipts |-> Feed!Readable(feedReceipts), cues |-> Feed!MacCues(p)]
      /\ saves' = saves + 1 /\ UNCHANGED <<feedReceipts, cues, feedAgent, clock, spoils>>
  BY <1>1 DEF Feed!SavePlan
<1>4. FeedTyped' /\ FeedSound' /\ Working'
  <2>1. mac' \in Mac
    BY <1>2, <1>3, MacCuesAre, ReadableAre DEF FeedHolds, Mac
  <2>2. \A c \in mac'.cues : SoundCue(c)
    BY <1>3, MacCuesAre DEF FeedHolds
  <2>3. plan' \in Plan \cup {Nil, Torn} /\ saves' \in Nat /\ spoils' \in Nat
    <3>1. saves \in Nat /\ spoils \in Nat
      BY DEF FeedHolds, FeedTyped
    <3> QED
      BY <1>1, <1>2, <1>3, <3>1
  <2> QED
    BY <1>3, <2>1, <2>2, <2>3, AppReads
<1>5. PlanKnown'
  <2>1. spoils = 0 => p.rev = saves'
    <3>1. spoils = 0 => (mac.doc = Nil => saves = 0) /\ (mac.doc # Nil => mac.doc.rev = saves)
      BY PlanIs
    <3> QED
      BY <1>2, <1>3, <3>1
  <2>2. \A c \in mac'.cues : \E r \in Feed!Readable(feedReceipts') : r.id = c.receipt /\ r.rev = p.rev
    BY <1>3, MacCuesAre DEF FeedHolds
  <2> QED
    BY <1>1, <1>2, <1>3, <2>1, <2>2 DEF PlanKnown
<1> QED
  BY <1>4, <1>5 DEF FeedHolds

LEMMA FeedLaunches ==
  ASSUME Feed!PlanAssumption, FeedHolds, Feed!Launch
  PROVE  FeedHolds'
<1>1. PICK doc : /\ doc = IF Feed!PlanStands(plan) THEN plan
                          ELSE IF \E f \in Feeds : mac.prefs[f] # Feed!Off THEN Feed!Revised(mac.prefs, Nil) ELSE Nil
                 /\ plan' = IF doc = Nil THEN plan ELSE doc
                 /\ mac' = [doc |-> doc, rows |-> IF doc = Nil THEN mac.prefs ELSE doc.rows, prefs |-> mac.prefs,
                            receipts |-> Feed!Readable(feedReceipts), cues |-> Feed!MacCues(doc)]
                 /\ saves' = (IF plan' = plan THEN saves ELSE saves + 1)
                 /\ UNCHANGED <<feedReceipts, cues, feedAgent, clock, spoils>>
  BY DEF Feed!Launch
<1>2. mac.prefs \in Rows /\ saves \in Nat /\ spoils \in Nat /\ plan \in Plan \cup {Nil, Torn}
  BY DEF FeedHolds, FeedTyped, Mac
<1>3. /\ doc \in Plan \cup {Nil}
      /\ Feed!PlanStands(plan) => doc = plan
      /\ ~Feed!PlanStands(plan) /\ doc # Nil => doc.rev = 1 /\ doc \in Plan
  BY <1>1, <1>2 DEF Feed!Revised, Feed!Doc, Plan, Feed!PlanStands
<1>4. FeedTyped' /\ FeedSound' /\ Working'
  <2>1. mac' \in Mac
    BY <1>1, <1>2, <1>3, MacCuesAre, ReadableAre DEF FeedHolds, Plan, Mac
  <2>2. \A c \in mac'.cues : SoundCue(c)
    BY <1>1, MacCuesAre DEF FeedHolds
  <2>3. plan' \in Plan \cup {Nil, Torn} /\ saves' \in Nat
    BY <1>1, <1>2, <1>3
  <2> QED
    BY <1>1, <1>2, <2>1, <2>2, <2>3, AppReads
<1>5. ASSUME spoils = 0 
      PROVE  plan' = doc /\ IF doc = Nil THEN saves' = 0 ELSE doc.rev = saves'
  BY <1>1, <1>2, <1>3, <1>5, PlanIs DEF Feed!PlanStands
<1>6. \A c \in mac'.cues : \E r \in Feed!Readable(feedReceipts') : r.id = c.receipt /\ r.rev = doc.rev
  BY <1>1, MacCuesAre DEF FeedHolds
<1>7. doc = Nil => mac'.cues = {}
  BY <1>1 DEF Feed!MacCues
<1>8. PlanKnown'
  BY <1>1, <1>5, <1>6, <1>7 DEF PlanKnown
<1> QED
  BY <1>4, <1>8 DEF FeedHolds

LEMMA FeedRefreshes ==
  ASSUME Feed!PlanAssumption, FeedHolds, Feed!Refresh
  PROVE  FeedHolds'
<1>1. /\ mac' = [mac EXCEPT !.receipts = Feed!Readable(feedReceipts),
                            !.cues = IF plan = Torn THEN @ ELSE Feed!MacCues(plan)]
      /\ UNCHANGED <<plan, feedReceipts, cues, feedAgent, clock, saves, spoils>>
  BY DEF Feed!Refresh
<1>2. mac' \in Mac
  BY <1>1, MacCuesAre, ReadableAre DEF FeedHolds, FeedTyped, Mac
<1>3. mac'.doc = mac.doc /\ mac'.cues = IF plan = Torn THEN mac.cues ELSE Feed!MacCues(plan)
  BY <1>1 DEF FeedHolds, FeedTyped, Mac
<1>4. \A c \in mac'.cues : SoundCue(c)
  BY <1>3, MacCuesAre DEF FeedHolds, FeedSound
<1>5. FeedTyped' /\ FeedSound' /\ Working'
  BY <1>1, <1>2, <1>4, AppReads DEF FeedHolds, FeedTyped
<1>6. PlanKnown'
  <2>1. ASSUME spoils = 0, NEW c \in mac'.cues
        PROVE  \E r \in Feed!Readable(feedReceipts) : r.id = c.receipt /\ r.rev = saves
    <3>1. plan # Torn /\ plan # Nil /\ plan.rev = saves
      BY <1>3, <2>1, PlanIs DEF Feed!MacCues
    <3> QED
      BY <1>3, <2>1, <3>1, MacCuesAre DEF FeedHolds
  <2> QED
    BY <1>1, <1>3, <2>1 DEF FeedHolds, PlanKnown
<1> QED
  BY <1>5, <1>6 DEF FeedHolds

\* A plan that was not written, deleted or spoiled: nothing is known of it.
LEMMA FeedSpoils ==
  ASSUME Feed!PlanAssumption, FeedHolds,
         \/ \E rows \in Rows : Feed!SaveFails(rows)
         \/ \E to \in {Nil, Torn} : Feed!Spoil(to)
  PROVE  FeedHolds'
<1>0. spoils' = spoils + 1 /\ UNCHANGED <<feedReceipts, cues, feedAgent, clock, saves>>
  BY DEF Feed!SaveFails, Feed!Spoil
<1>5. spoils' \in Nat /\ spoils' # 0
  <2>1. spoils \in Nat
    BY DEF FeedHolds, FeedTyped
  <2> QED
    BY ONLY <1>0, <2>1
<1>1. /\ plan' \in {plan, Nil, Torn}
      /\ mac' = mac \/ \E rows \in Rows : mac' = [mac EXCEPT !.rows = rows, !.prefs = rows]
  BY DEF Feed!SaveFails, Feed!Spoil
<1>2. /\ mac' \in Mac
      /\ mac'.cues = mac.cues
  BY <1>1 DEF FeedHolds, FeedTyped, Mac
<1>3. FeedTyped' /\ FeedSound' /\ Working'
  <2>1. \A c \in mac'.cues : SoundCue(c)
    BY <1>2 DEF FeedHolds, FeedSound
  <2>2. plan' \in Plan \cup {Nil, Torn} /\ saves' \in Nat
    BY <1>0, <1>1 DEF FeedHolds, FeedTyped
  <2> QED
    BY <1>0, <1>2, <1>5, <2>1, <2>2, AppReads
<1>4. PlanKnown'
  BY <1>5 DEF PlanKnown
<1> QED
  BY <1>3, <1>4 DEF FeedHolds

\* What the agent's server writes: its own torn file is opened, and then filled.
LEMMA CreatedIs ==
  ASSUME NEW files, NEW id, NEW file, NEW new, new = Feed!Created(files, id, file), id \in DOMAIN files => files[id] = Torn
  PROVE  /\ Feed!Readable(files) \subseteq Feed!Readable(new)
         /\ \A f \in Feed!Readable(new) : f \in Feed!Readable(files) \/ f = file
<1>2. DOMAIN new = DOMAIN files \cup {id} /\ \A i \in DOMAIN new : new[i] = IF i = id THEN file ELSE files[i]
  BY DEF Feed!Created
<1>3. ASSUME NEW i \in DOMAIN files, files[i] # Torn
      PROVE  files[i] \in Feed!Readable(new)
  BY <1>2, <1>3 DEF Feed!Readable
<1>4. ASSUME NEW i \in DOMAIN new, new[i] # Torn
      PROVE  new[i] \in Feed!Readable(files) \/ new[i] = file
  BY <1>2, <1>4 DEF Feed!Readable
<1>5. Feed!Readable(files) \subseteq Feed!Readable(new)
  BY <1>3 DEF Feed!Readable
<1>6. \A f \in Feed!Readable(new) : f \in Feed!Readable(files) \/ f = file
  BY <1>4 DEF Feed!Readable
<1> QED
  BY <1>5, <1>6

\* A step that leaves the plan alone and adds only what is sound.
LEMMA FilesGrow ==
  ASSUME Feed!PlanAssumption, FeedHolds, UNCHANGED <<plan, saves, spoils>>,
         clock' \in Nat, clock' >= clock, mac' \in Mac, mac'.doc = mac.doc,
         Feed!Readable(feedReceipts) \subseteq Feed!Readable(feedReceipts'),
         \A i \in DOMAIN feedReceipts' : feedReceipts'[i] # Torn => feedReceipts'[i] \in Receipt /\ feedReceipts'[i].id = i,
         \A i \in DOMAIN cues' : cues'[i] # Torn => cues'[i] \in Cue,
         \A r \in Feed!Readable(feedReceipts') : r \in Feed!Readable(feedReceipts) \/ SoundReceipt(r)',
         \A c \in Feed!Readable(cues') : c \in Feed!Readable(cues) \/ SoundCue(c)',
         \A c \in mac'.cues : c \in mac.cues \/ SoundCue(c)',
         spoils = 0 => \A c \in mac'.cues :
           c \in mac.cues \/ \E r \in Feed!Readable(feedReceipts') : r.id = c.receipt /\ r.rev = saves
  PROVE  /\ FeedTyped' /\ FeedSound' /\ PlanKnown'
         /\ \A r \in Receipt : SoundReceipt(r) => SoundReceipt(r)'
         /\ \A c : SoundCue(c) => SoundCue(c)'
<1>1. FeedTyped'
  BY DEF FeedHolds, FeedTyped
<1>2. (\A r \in Receipt : SoundReceipt(r) => SoundReceipt(r)') /\ (\A c : SoundCue(c) => SoundCue(c)')
  BY SoundKept DEF FeedHolds
<1>3. FeedSound'
  <2>1. \A r \in Feed!Readable(feedReceipts) : SoundReceipt(r)'
    BY <1>2, ReadableAre DEF FeedHolds, FeedSound
  <2>2. \A c \in Feed!Readable(cues) \cup mac.cues : SoundCue(c)'
    BY <1>2 DEF FeedHolds, FeedSound
  <2> QED
    BY <2>1, <2>2 DEF FeedSound
<1>4. PlanKnown'
  <2>1. spoils = 0 => \A c \in mac'.cues : \E r \in Feed!Readable(feedReceipts') : r.id = c.receipt /\ r.rev = saves
    BY DEF FeedHolds, PlanKnown
  <2>2. PlanKnown
    BY DEF FeedHolds
  <2> QED
    BY <2>1, <2>2 DEF PlanKnown
<1> QED
  BY <1>1, <1>2, <1>3, <1>4

\* Steps that write no file: the clock, the agent's checks and its death.
LEMMA FilesStay ==
  ASSUME Feed!PlanAssumption, FeedHolds, UNCHANGED <<plan, feedReceipts, cues, mac, saves, spoils>>,
         clock' \in Nat, clock' >= clock
  PROVE  /\ FeedTyped' /\ FeedSound' /\ PlanKnown'
         /\ \A r \in Receipt : SoundReceipt(r) => SoundReceipt(r)'
         /\ \A c : SoundCue(c) => SoundCue(c)'
<1>1. mac' \in Mac /\ mac'.doc = mac.doc
  BY DEF FeedHolds, FeedTyped
<1>2. /\ \A i \in DOMAIN feedReceipts' : feedReceipts'[i] # Torn => feedReceipts'[i] \in Receipt /\ feedReceipts'[i].id = i
      /\ \A i \in DOMAIN cues' : cues'[i] # Torn => cues'[i] \in Cue
  BY DEF FeedHolds, FeedTyped
<1>3. Feed!Readable(feedReceipts') = Feed!Readable(feedReceipts) /\ Feed!Readable(cues') = Feed!Readable(cues)
  OBVIOUS
<1> QED
  BY <1>1, <1>2, <1>3, FilesGrow

LEMMA FeedTicks ==
  ASSUME Feed!PlanAssumption, FeedHolds, Feed!Tick \/ Feed!AgentDies \/ UNCHANGED Feed!feedVars
  PROVE  FeedHolds'
<1>1. clock' \in Nat /\ clock' >= clock
  <2>1. clock \in Nat /\ clock' \in {clock, clock + 1}
    BY DEF FeedHolds, FeedTyped, Feed!Tick, Feed!AgentDies, Feed!feedVars
  <2> QED
    BY ONLY <2>1
<1>2. UNCHANGED <<plan, feedReceipts, cues, mac, saves, spoils>> /\ feedAgent' \in {feedAgent, Feed!Idle}
  BY DEF Feed!Tick, Feed!AgentDies, Feed!feedVars
<1>3. /\ FeedTyped' /\ FeedSound' /\ PlanKnown'
      /\ \A r \in Receipt : SoundReceipt(r) => SoundReceipt(r)'
      /\ \A c : SoundCue(c) => SoundCue(c)'
  BY <1>1, <1>2, FilesStay
<1>4. Working'
  <2>1. CASE feedAgent' = Feed!Idle
    BY <2>1 DEF Working, Feed!Idle
  <2>2. CASE feedAgent' = feedAgent
    <3>1. Working
      BY DEF FeedHolds
    <3>2. /\ feedAgent.doing \in {"receipt", "fill receipt"} => SoundReceipt(feedAgent.what)'
          /\ feedAgent.doing \in {"cue", "fill cue"} => SoundCue(feedAgent.what)'
      BY <1>3, <2>2, <3>1 DEF Working, SoundReceipt, SoundCue
    <3> QED
      BY <1>2, <2>2, <3>1, <3>2 DEF Working, Feed!Idle
  <2> QED
    BY <1>2, <2>1, <2>2
<1> QED
  BY <1>3, <1>4 DEF FeedHolds

LEMMA FeedChecksReceipt ==
  ASSUME Feed!PlanAssumption, FeedHolds, Feed!CheckReceipt
  PROVE  FeedHolds'
<1>1. PICK input \in Feed!ReceiptInputs :
        Feed!ReceiptMatches(input, plan, clock) /\ feedAgent' = [doing |-> "receipt", what |-> input]
  BY DEF Feed!CheckReceipt
<1>a. PICK id \in ReceiptIds, f \in Feeds, p \in Feed!AgentsPlans, who \in {"@me", "@other"},
           at \in clock .. clock + 2, more \in {0, 1}, v \in Feed!Verdicts :
        input = [id |-> id, feed |-> f, rev |-> p.rev, rows |-> p.rows, who |-> who, at |-> at,
                 until |-> at + TTL[f] + more, passed |-> v.passed, status |-> v.status, of |-> saves]
  BY DEF Feed!ReceiptInputs
<1>2. Feed!PlanStands(plan) /\ UNCHANGED <<plan, feedReceipts, cues, mac, clock, saves, spoils>>
  BY DEF Feed!CheckReceipt
<1>3. plan \in Plan /\ clock \in Nat /\ saves \in Nat
  BY <1>2 DEF FeedHolds, FeedTyped, Feed!PlanStands
<1>4. input \in Receipt
  <2>1. p.rev \in Int /\ p.rows \in Rows
    BY <1>3 DEF Feed!AgentsPlans, Feed!Doc, Plan
  <2>2. v.passed \in BOOLEAN /\ v.status \in {"verified", "partial"}
    BY DEF Feed!Verdicts
  <2>3. at \in Int /\ at + TTL[f] + more \in Int
    BY <1>3 DEF Feed!PlanAssumption
  <2> QED
    BY <1>a, <1>3, <2>1, <2>2, <2>3 DEF Receipt
<1>5. SoundReceipt(input)
  <2>1. spoils = 0 => input.of = input.rev
    BY <1>1, <1>a, <1>2, PlanIs DEF Feed!ReceiptMatches, Feed!PlanStands
  <2> QED
    BY <1>1, <2>1 DEF SoundReceipt, Feed!ReceiptMatches
<1>6. /\ FeedTyped' /\ FeedSound' /\ PlanKnown'
      /\ \A r \in Receipt : SoundReceipt(r) => SoundReceipt(r)'
  BY <1>2, <1>3, FilesStay
<1>7. Working'
  <2>1. SoundReceipt(input)'
    BY <1>4, <1>5, <1>6
  <2>2. SoundReceipt(feedAgent.what)'
    BY <1>1, <2>1 DEF SoundReceipt
  <2> QED
    BY <1>1, <1>4, <2>2 DEF Working, Doing
<1> QED
  BY <1>6, <1>7 DEF FeedHolds

LEMMA FeedChecksCue ==
  ASSUME Feed!PlanAssumption, FeedHolds, Feed!CheckCue
  PROVE  FeedHolds'
<1>1. PICK input \in Feed!CueInputs, r \in Feed!Readable(feedReceipts) :
        /\ input.receipt = r.id /\ Feed!CueMatches(input, plan, r, clock) /\ Feed!Fresh(r, clock)
        /\ feedAgent' = [doing |-> "cue", what |-> input]
  BY DEF Feed!CheckCue
<1>2. PICK id \in CueIds, s \in Feed!Readable(feedReceipts), p \in Feed!AgentsPlans, at \in clock .. clock + 2,
           saw \in {clock - 4, clock}, more \in {CueTTL, CueTTL + 1} :
        input = [id |-> id, feed |-> s.feed, rev |-> p.rev, rows |-> p.rows, receipt |-> s.id, at |-> at, seen |-> saw,
                 until |-> at + more, now |-> clock]
  BY DEF Feed!CueInputs
<1>3. Feed!PlanStands(plan) /\ UNCHANGED <<plan, feedReceipts, cues, mac, clock, saves, spoils>>
  BY DEF Feed!CheckCue
<1>4. plan \in Plan /\ clock \in Nat /\ saves \in Nat /\ r \in Receipt /\ s \in Receipt
  BY <1>3, ReadableAre DEF FeedHolds, FeedTyped, Feed!PlanStands
<1>5. input \in Cue
  <2>1. p.rev \in Int /\ p.rows \in Rows
    BY <1>4 DEF Feed!AgentsPlans, Feed!Doc, Plan
  <2>2. at \in Int /\ saw \in Int /\ at + more \in Int
    BY <1>4 DEF Feed!PlanAssumption
  <2> QED
    <3>1. s.feed \in Feeds /\ s.id \in ReceiptIds
      BY <1>4 DEF Receipt
    <3> QED
      BY <1>2, <1>4, <2>1, <2>2, <3>1 DEF Cue
<1>6. SoundCue(input)
  <2>1. Backs(r, input)
    BY <1>1, <1>2 DEF Backs, Feed!CueMatches, Feed!Fresh
  <2>2. input.now = clock /\ input.at \in Int /\ input.until \in Int /\ CueTTL \in Nat /\ Tolerance \in Nat
    BY <1>2, <1>5 DEF Cue, Feed!PlanAssumption
  <2>3. input.until - input.at <= CueTTL /\ input.at <= clock + Tolerance
    BY <1>1 DEF Feed!CueMatches
  <2>4. input.until <= input.now + CueTTL + Tolerance
    BY <1>4, <2>2, <2>3
  <2> QED
    BY <2>1, <2>4 DEF SoundCue
<1>7. /\ FeedTyped' /\ FeedSound' /\ PlanKnown'
      /\ \A c : SoundCue(c) => SoundCue(c)'
  BY <1>3, <1>4, FilesStay
<1>8. Working'
  <2>1. SoundCue(feedAgent.what)'
    BY <1>1, <1>6, <1>7 DEF SoundCue
  <2> QED
    BY <1>1, <1>5, <2>1 DEF Working, Doing
<1> QED
  BY <1>7, <1>8 DEF FeedHolds

\* The agent's file, when it is a receipt: opened, or filled.
LEMMA ReceiptWritten ==
  ASSUME Feed!PlanAssumption, FeedHolds, NEW r \in Receipt, SoundReceipt(r), NEW file \in {r, Torn},
         r.id \in DOMAIN feedReceipts => feedReceipts[r.id] = Torn,
         feedReceipts' = Feed!Created(feedReceipts, r.id, file),
         UNCHANGED <<plan, cues, mac, clock, saves, spoils>>
  PROVE  /\ FeedTyped' /\ FeedSound' /\ PlanKnown' /\ SoundReceipt(r)'
         /\ r.id \in DOMAIN feedReceipts' /\ feedReceipts'[r.id] = file
<1>1. /\ Feed!Readable(feedReceipts) \subseteq Feed!Readable(feedReceipts')
      /\ \A f \in Feed!Readable(feedReceipts') : f \in Feed!Readable(feedReceipts) \/ f = r
      /\ DOMAIN feedReceipts' = DOMAIN feedReceipts \cup {r.id}
      /\ \A i \in DOMAIN feedReceipts \cup {r.id} : feedReceipts'[i] = IF i = r.id THEN file ELSE feedReceipts[i]
  <2>1. /\ Feed!Readable(feedReceipts) \subseteq Feed!Readable(feedReceipts')
        /\ \A f \in Feed!Readable(feedReceipts') : f \in Feed!Readable(feedReceipts) \/ f = file
    BY CreatedIs
  <2>2. /\ DOMAIN feedReceipts' = DOMAIN feedReceipts \cup {r.id}
        /\ \A i \in DOMAIN feedReceipts \cup {r.id} : feedReceipts'[i] = IF i = r.id THEN file ELSE feedReceipts[i]
    BY DEF Feed!Created
  <2>3. \A f \in Feed!Readable(feedReceipts') : f # Torn
    BY DEF Feed!Readable
  <2> QED
    BY <2>1, <2>2, <2>3
<1>2. clock' = clock /\ clock \in Nat /\ mac' \in Mac /\ mac'.doc = mac.doc
  BY DEF FeedHolds, FeedTyped
<1>3. clock' \in Nat /\ clock' >= clock
  BY ONLY <1>2
<1>4. /\ \A i \in DOMAIN feedReceipts' : feedReceipts'[i] # Torn => feedReceipts'[i] \in Receipt /\ feedReceipts'[i].id = i
      /\ \A i \in DOMAIN cues' : cues'[i] # Torn => cues'[i] \in Cue
  BY <1>1 DEF FeedHolds, FeedTyped
<1>5. SoundReceipt(r)'
  BY <1>1, <1>3, SoundKept DEF FeedHolds
<1>6. Feed!Readable(cues') = Feed!Readable(cues)
  OBVIOUS
<1> QED
  BY <1>1, <1>2, <1>3, <1>4, <1>5, <1>6, FilesGrow

\* And when it is a cue.
LEMMA CueWritten ==
  ASSUME Feed!PlanAssumption, FeedHolds, NEW c \in Cue, SoundCue(c), NEW file \in {c, Torn},
         c.id \in DOMAIN cues => cues[c.id] = Torn,
         cues' = Feed!Created(cues, c.id, file),
         UNCHANGED <<plan, feedReceipts, mac, clock, saves, spoils>>
  PROVE  /\ FeedTyped' /\ FeedSound' /\ PlanKnown' /\ SoundCue(c)'
         /\ c.id \in DOMAIN cues' /\ cues'[c.id] = file
<1>1. /\ \A f \in Feed!Readable(cues') : f \in Feed!Readable(cues) \/ f = c
      /\ DOMAIN cues' = DOMAIN cues \cup {c.id}
      /\ \A i \in DOMAIN cues \cup {c.id} : cues'[i] = IF i = c.id THEN file ELSE cues[i]
  <2>1. /\ Feed!Readable(cues) \subseteq Feed!Readable(cues')
        /\ \A f \in Feed!Readable(cues') : f \in Feed!Readable(cues) \/ f = file
    BY CreatedIs
  <2>2. /\ DOMAIN cues' = DOMAIN cues \cup {c.id}
        /\ \A i \in DOMAIN cues \cup {c.id} : cues'[i] = IF i = c.id THEN file ELSE cues[i]
    BY DEF Feed!Created
  <2>3. \A f \in Feed!Readable(cues') : f # Torn
    BY DEF Feed!Readable
  <2> QED
    BY <2>1, <2>2, <2>3
<1>2. clock' = clock /\ clock \in Nat /\ mac' \in Mac /\ mac'.doc = mac.doc
  BY DEF FeedHolds, FeedTyped
<1>3. clock' \in Nat /\ clock' >= clock
  BY ONLY <1>2
<1>4. /\ \A i \in DOMAIN feedReceipts' : feedReceipts'[i] # Torn => feedReceipts'[i] \in Receipt /\ feedReceipts'[i].id = i
      /\ \A i \in DOMAIN cues' : cues'[i] # Torn => cues'[i] \in Cue
  BY <1>1 DEF FeedHolds, FeedTyped
<1>5. Feed!Readable(feedReceipts') = Feed!Readable(feedReceipts)
  OBVIOUS
<1>6. SoundCue(c)'
  BY <1>3, <1>5, SoundKept DEF FeedHolds
<1> QED
  BY <1>1, <1>2, <1>3, <1>4, <1>5, <1>6, FilesGrow

LEMMA FeedOpens ==
  ASSUME Feed!PlanAssumption, FeedHolds, Feed!OpenFile
  PROVE  FeedHolds'
<1>1. UNCHANGED <<plan, mac, clock, saves, spoils>> /\ Working
  BY DEF Feed!OpenFile, FeedHolds
<1>2. feedAgent \in [doing : Doing, what : Receipt \cup Cue]
  <2>1. feedAgent.doing \in {"receipt", "cue"}
    BY DEF Feed!OpenFile
  <2>2. feedAgent # Feed!Idle
    BY <2>1 DEF Feed!Idle
  <2> QED
    BY <1>1, <2>2 DEF Working
<1>3. CASE feedAgent' = Feed!Idle /\ UNCHANGED <<feedReceipts, cues>>
  <2>1. clock' = clock /\ clock \in Nat
    BY <1>1 DEF FeedHolds, FeedTyped
  <2>2. clock' \in Nat /\ clock' >= clock
    BY ONLY <2>1
  <2>3. FeedTyped' /\ FeedSound' /\ PlanKnown'
    BY <1>1, <1>3, <2>2, FilesStay
  <2>4. Working'
    BY <1>3 DEF Working, Feed!Idle
  <2> QED
    BY <2>3, <2>4 DEF FeedHolds
<1>4. CASE /\ feedAgent.doing = "receipt" /\ feedAgent.what.id \notin DOMAIN feedReceipts
           /\ feedAgent' = [feedAgent EXCEPT !.doing = "fill receipt"]
           /\ feedReceipts' = Feed!Created(feedReceipts, feedAgent.what.id, Torn) /\ UNCHANGED cues
  <2>1. PICK r : r = feedAgent.what
    OBVIOUS
  <2>2. r \in Receipt /\ SoundReceipt(r)
    BY <1>1, <1>4, <2>1 DEF Working
  <2>3. /\ FeedTyped' /\ FeedSound' /\ PlanKnown' /\ SoundReceipt(r)'
        /\ r.id \in DOMAIN feedReceipts' /\ feedReceipts'[r.id] = Torn
    BY <1>1, <1>4, <2>1, <2>2, ReceiptWritten
  <2>4. feedAgent' = [doing |-> "fill receipt", what |-> r]
    BY <1>2, <1>4, <2>1
  <2>5. Working'
    <3>1. feedAgent'.what = r /\ feedAgent'.doing = "fill receipt"
      BY <2>4
    <3>2. SoundReceipt(feedAgent.what)'
      BY <2>3, <3>1 DEF SoundReceipt
    <3> QED
      BY <2>2, <2>3, <2>4, <3>1, <3>2 DEF Working, Doing
  <2> QED
    BY <2>3, <2>5 DEF FeedHolds
<1>5. CASE /\ feedAgent.doing = "cue" /\ feedAgent.what.id \notin DOMAIN cues
           /\ feedAgent' = [feedAgent EXCEPT !.doing = "fill cue"]
           /\ cues' = Feed!Created(cues, feedAgent.what.id, Torn) /\ UNCHANGED feedReceipts
  <2>1. PICK c : c = feedAgent.what
    OBVIOUS
  <2>2. c \in Cue /\ SoundCue(c)
    BY <1>1, <1>5, <2>1 DEF Working
  <2>3. /\ FeedTyped' /\ FeedSound' /\ PlanKnown' /\ SoundCue(c)'
        /\ c.id \in DOMAIN cues' /\ cues'[c.id] = Torn
    BY <1>1, <1>5, <2>1, <2>2, CueWritten
  <2>4. feedAgent' = [doing |-> "fill cue", what |-> c]
    BY <1>2, <1>5, <2>1
  <2>5. Working'
    <3>1. feedAgent'.what = c /\ feedAgent'.doing = "fill cue"
      BY <2>4
    <3>2. SoundCue(feedAgent.what)'
      BY <2>3, <3>1 DEF SoundCue
    <3> QED
      BY <2>2, <2>3, <2>4, <3>1, <3>2 DEF Working, Doing
  <2> QED
    BY <2>3, <2>5 DEF FeedHolds
<1> QED
  BY <1>3, <1>4, <1>5 DEF Feed!OpenFile

LEMMA FeedFills ==
  ASSUME Feed!PlanAssumption, FeedHolds, Feed!FillFile
  PROVE  FeedHolds'
<1>1. /\ UNCHANGED <<plan, mac, clock, saves, spoils>> /\ Working /\ feedAgent' = Feed!Idle
      /\ \/ feedAgent.doing = "fill receipt" /\ feedReceipts' = Feed!Created(feedReceipts, feedAgent.what.id, feedAgent.what) /\ UNCHANGED cues
         \/ feedAgent.doing = "fill cue" /\ cues' = Feed!Created(cues, feedAgent.what.id, feedAgent.what) /\ UNCHANGED feedReceipts
  BY DEF Feed!FillFile, FeedHolds
<1>2. CASE feedAgent.doing = "fill receipt" /\ feedReceipts' = Feed!Created(feedReceipts, feedAgent.what.id, feedAgent.what) /\ UNCHANGED cues
  <2>1. PICK r : r = feedAgent.what
    OBVIOUS
  <2>2. r \in Receipt /\ SoundReceipt(r) /\ feedReceipts[r.id] = Torn
    BY <1>1, <1>2, <2>1 DEF Working
  <2> QED
    BY <1>1, <1>2, <2>1, <2>2, ReceiptWritten DEF FeedHolds, Working, Feed!Idle
<1>3. CASE feedAgent.doing = "fill cue" /\ cues' = Feed!Created(cues, feedAgent.what.id, feedAgent.what) /\ UNCHANGED feedReceipts
  <2>1. PICK c : c = feedAgent.what
    OBVIOUS
  <2>2. c \in Cue /\ SoundCue(c) /\ cues[c.id] = Torn
    BY <1>1, <1>3, <2>1 DEF Working
  <2> QED
    BY <1>1, <1>3, <2>1, <2>2, CueWritten DEF FeedHolds, Working, Feed!Idle
<1> QED
  BY <1>1, <1>2, <1>3

\* The app's own receipt is of the plan it holds, and good from now on.
LEMMA FeedVerifies ==
  ASSUME Feed!PlanAssumption, FeedHolds, NEW id \in ReceiptIds, NEW recent \in BOOLEAN, Feed!VerifyHistory(id, recent)
  PROVE  FeedHolds'
<1>a. PICK r :
        r = [id |-> id, feed |-> "history", rev |-> mac.doc.rev, rows |-> mac.doc.rows, who |-> "",
             at |-> clock, until |-> clock + TTL["history"], passed |-> recent,
             status |-> IF recent THEN "verified" ELSE "partial", of |-> saves]
  OBVIOUS
<1>b. PICK all : all = [i \in DOMAIN feedReceipts \cup {id} |-> IF i = id THEN r ELSE feedReceipts[i]]
  OBVIOUS
<1>c. PICK more : more = {c \in Feed!Readable(cues) : plan # Nil /\ c.until > clock
                            /\ \E s \in Feed!Readable(all) : Feed!MacCueMatches(c, plan, s, clock)}
  OBVIOUS
<1>1. feedReceipts' = all /\ mac' = [mac EXCEPT !.receipts = @ \cup {r}, !.cues = IF plan = Torn THEN @ ELSE more]
  BY <1>a, <1>b, <1>c DEF Feed!VerifyHistory
<1>2. /\ "history" \in Feeds /\ mac.doc # Nil /\ mac.doc.rows["history"] # Feed!Off /\ id \notin DOMAIN feedReceipts
      /\ UNCHANGED <<plan, cues, feedAgent, clock, saves, spoils>>
  BY DEF Feed!VerifyHistory
<1>3. clock \in Nat /\ saves \in Nat /\ mac \in Mac /\ mac.doc \in Plan /\ TTL["history"] \in Nat \ {0} /\ Tolerance \in Nat
  BY <1>2 DEF FeedHolds, FeedTyped, Mac, Feed!PlanAssumption
<1>4. r \in Receipt /\ r.id = id
  <2>1. mac.doc.rev \in Int /\ mac.doc.rows \in Rows
    BY <1>3 DEF Plan
  <2>2. clock \in Int /\ clock + TTL["history"] \in Int
    BY <1>3
  <2> QED
    BY <1>a, <1>2, <1>3, <2>1, <2>2 DEF Receipt
<1>5. SoundReceipt(r)
  <2>1. clock <= clock + Tolerance /\ clock < clock + TTL["history"] /\ clock + TTL["history"] - clock <= TTL["history"]
    BY <1>3
  <2>2. spoils = 0 => saves = mac.doc.rev
    BY <1>2, PlanIs
  <2>3. r.feed = "history" /\ r.rows = mac.doc.rows /\ r.at = clock /\ r.until = clock + TTL["history"]
        /\ (r.status = "verified" => r.passed) /\ r.of = saves /\ r.rev = mac.doc.rev
    BY <1>a
  <2> QED
    <3>1. r.rows[r.feed] # Feed!Off /\ r.feed # "x"
      BY <1>2, <2>3
    <3>2. r.at <= clock + Tolerance /\ r.at < r.until /\ r.until - r.at <= TTL[r.feed]
      <4>1. r.at = clock /\ r.until = clock + TTL["history"] /\ TTL[r.feed] = TTL["history"]
        BY <2>3
      <4> QED
        BY ONLY <1>3, <4>1
    <3> QED
      BY <2>2, <2>3, <3>1, <3>2 DEF SoundReceipt
<1>6. all = Feed!Created(feedReceipts, r.id, r)
  BY <1>b, <1>4 DEF Feed!Created
<1>7. /\ Feed!Readable(feedReceipts) \subseteq Feed!Readable(feedReceipts')
      /\ \A f \in Feed!Readable(feedReceipts') : f \in Feed!Readable(feedReceipts) \/ f = r
      /\ DOMAIN feedReceipts' = DOMAIN feedReceipts \cup {r.id}
      /\ \A i \in DOMAIN feedReceipts \cup {r.id} : feedReceipts'[i] = IF i = r.id THEN r ELSE feedReceipts[i]
  <2>1. r.id \in DOMAIN feedReceipts => feedReceipts[r.id] = Torn
    BY <1>2, <1>4
  <2>2. feedReceipts' = Feed!Created(feedReceipts, r.id, r)
    BY <1>1, <1>6
  <2>3. /\ Feed!Readable(feedReceipts) \subseteq Feed!Readable(feedReceipts')
        /\ \A f \in Feed!Readable(feedReceipts') : f \in Feed!Readable(feedReceipts) \/ f = r
    BY <2>1, <2>2, CreatedIs
  <2> QED
    BY <1>b, <1>1, <1>4, <2>3
<1>8. clock' \in Nat /\ clock' >= clock
  <2>1. clock' = clock
    BY <1>2
  <2> QED
    BY ONLY <1>3, <2>1
<1>9. /\ \A x \in Receipt : SoundReceipt(x) => SoundReceipt(x)'
      /\ \A c : SoundCue(c) => SoundCue(c)'
  BY <1>2, <1>7, <1>8, SoundKept DEF FeedHolds
<1>10. /\ \A i \in DOMAIN feedReceipts' : feedReceipts'[i] # Torn => feedReceipts'[i] \in Receipt /\ feedReceipts'[i].id = i
       /\ \A i \in DOMAIN cues' : cues'[i] # Torn => cues'[i] \in Cue
  BY <1>2, <1>4, <1>7 DEF FeedHolds, FeedTyped
<1>11. /\ more \subseteq Feed!Readable(cues)
       /\ \A c \in more : plan # Nil /\ \E s \in Feed!Readable(feedReceipts') : Feed!MacCueMatches(c, plan, s, clock)
  BY <1>c, <1>1
<1>12. /\ mac'.doc = mac.doc /\ mac'.cues = (IF plan = Torn THEN mac.cues ELSE more)
       /\ mac' \in Mac
  <2>1. more \subseteq Cue
    BY <1>11, ReadableAre DEF FeedHolds
  <2> QED
    BY <1>1, <1>3, <1>4, <2>1 DEF Mac
<1>13. \A c \in mac'.cues : c \in mac.cues \/ SoundCue(c)'
  BY <1>9, <1>11, <1>12 DEF FeedHolds, FeedSound
<1>14. ASSUME spoils = 0, NEW c \in mac'.cues
       PROVE  c \in mac.cues \/ \E s \in Feed!Readable(feedReceipts') : s.id = c.receipt /\ s.rev = saves
  <2>1. CASE plan # Torn
    <3>1. PICK s \in Feed!Readable(feedReceipts') : plan # Nil /\ Feed!MacCueMatches(c, plan, s, clock)
      BY <1>11, <1>12, <1>14, <2>1
    <3>2. s.id = c.receipt /\ s.rev = plan.rev
      BY <3>1 DEF Feed!MacCueMatches, Feed!MacMatches
    <3> QED
      BY <1>14, <3>1, <3>2, PlanIs
  <2> QED
    BY <1>12, <1>14, <2>1
<1>15. \A f \in Feed!Readable(feedReceipts') : f \in Feed!Readable(feedReceipts) \/ SoundReceipt(f)'
  BY <1>4, <1>5, <1>7, <1>9
<1>16. Feed!Readable(cues') = Feed!Readable(cues)
  BY <1>2
<1>17. FeedTyped' /\ FeedSound' /\ PlanKnown'
  BY <1>2, <1>7, <1>8, <1>10, <1>12, <1>13, <1>14, <1>15, <1>16, FilesGrow
<1>18. Working'
  <2>1. Working
    BY DEF FeedHolds
  <2>2. /\ feedAgent.doing \in {"receipt", "fill receipt"} => SoundReceipt(feedAgent.what)'
        /\ feedAgent.doing \in {"cue", "fill cue"} => SoundCue(feedAgent.what)'
    BY <1>2, <1>9, <2>1 DEF Working, SoundReceipt, SoundCue
  <2>3. feedAgent.doing = "fill receipt" => feedAgent.what.id \in DOMAIN feedReceipts' /\ feedReceipts'[feedAgent.what.id] = Torn
    BY <1>2, <1>4, <1>7, <2>1 DEF Working
  <2> QED
    BY <1>2, <2>1, <2>2, <2>3 DEF Working, Feed!Idle
<1> QED
  BY <1>17, <1>18 DEF FeedHolds

LEMMA FeedStep ==
  ASSUME Feed!PlanAssumption, FeedHolds, [Feed!Next]_Feed!feedVars
  PROVE  FeedHolds'
<1> QED
  BY FeedSaves, FeedLaunches, FeedRefreshes, FeedSpoils, FeedTicks, FeedChecksReceipt, FeedChecksCue,
     FeedOpens, FeedFills, FeedVerifies DEF Feed!Next

LEMMA FeedAlways ==
  ASSUME Feed!PlanAssumption
  PROVE  Feed!Spec => []FeedHolds
<1>1. Feed!Init => FeedHolds
  BY FeedFirst
<1>2. FeedHolds /\ [Feed!Next]_Feed!feedVars => FeedHolds'
  BY FeedStep
<1> QED
  BY <1>1, <1>2, PTL DEF Feed!Spec

\* A cue that stands stands on the receipt it names.
LEMMA CuesStand ==
  ASSUME Feed!PlanAssumption
  PROVE  FeedHolds => Feed!CuesStandOnReceipts
<1> SUFFICES ASSUME FeedHolds PROVE Feed!CuesStandOnReceipts
  OBVIOUS
<1>1. ASSUME NEW c \in Feed!ListedCues \cup mac.cues
      PROVE  /\ c.until <= c.now + CueTTL + Tolerance
             /\ \E r \in Feed!Readable(feedReceipts) :
                  /\ r.id = c.receipt /\ r.feed = c.feed /\ r.status = "verified" /\ r.until > c.now
                  /\ spoils = 0 => r.of = saves
  <2>1. SoundCue(c)
    BY <1>1 DEF FeedHolds, FeedSound, Feed!ListedCues
  <2>2. PICK r \in Feed!Readable(feedReceipts) : Backs(r, c)
    BY <2>1 DEF SoundCue
  <2>3. ASSUME spoils = 0
        PROVE  \E s \in Feed!Readable(feedReceipts) : s.id = c.receipt /\ s.rev = saves
    <3>1. CASE c \in mac.cues
      BY <2>3, <3>1 DEF FeedHolds, PlanKnown
    <3>2. CASE c \in Feed!ListedCues
      <4>1. PICK s \in Feed!Readable(feedReceipts) : Feed!PlanStands(plan) /\ Feed!CueMatches(c, plan, s, clock)
        BY <3>2 DEF Feed!ListedCues
      <4>2. s.id = c.receipt /\ s.rev = plan.rev
        BY <4>1 DEF Feed!CueMatches, Feed!ReceiptMatches
      <4> QED
        BY <2>3, <4>1, <4>2, PlanIs DEF Feed!PlanStands
    <3> QED
      BY <1>1, <3>1, <3>2
  <2>4. ASSUME spoils = 0
        PROVE  r.of = saves
    <3>1. PICK s \in Feed!Readable(feedReceipts) : s.id = c.receipt /\ s.rev = saves
      BY <2>3, <2>4
    <3>2. r = s
      BY <2>2, <3>1, ReadableAre DEF Backs, FeedHolds
    <3> QED
      BY <2>4, <3>1, <3>2 DEF FeedHolds, FeedSound, SoundReceipt
  <2> QED
    BY <2>1, <2>2, <2>4 DEF SoundCue, Backs
<1> QED
  BY <1>1 DEF Feed!CuesStandOnReceipts

\* A cue that an agent lists or the app shows stands on a verified receipt on
\* disk that was good when the cue was checked, however late either was written
\* (feed-state.ts recordCue and listCues, FeedConnectionRuntime.swift loadCues).
THEOREM FeedCuesStand ==
  ASSUME Feed!PlanAssumption
  PROVE  Feed!Spec => []Feed!CuesStandOnReceipts
<1>1. FeedHolds => Feed!CuesStandOnReceipts
  BY CuesStand
<1> QED
  BY <1>1, FeedAlways, PTL

\* An agent and the app, of one plan and one directory, are told the same
\* (feed-state.ts listConnections, FeedConnectionRuntime.swift).
THEOREM FeedReadersAlike ==
  ASSUME Feed!PlanAssumption
  PROVE  Feed!Spec => []Feed!FeedReadersAgree
<1>1. FeedHolds => Feed!FeedReadersAgree
  BY FeedReaders DEF FeedHolds
<1> QED
  BY <1>1, FeedAlways, PTL

-----------------------------------------------------------------------------
(* CompanionSession: a marker, once it is in the session, stays there, and  *)
(* what a process found of a conversation stays true of it                  *)

Conversation == [id : Nat, first : Nat \cup {Nil}, here : BOOLEAN, turns : Nat \ {0}]
SessionSteps == {"idle", "look", "again", "create", "fill", "sync", "find", "bind", "turns", "keep", "answer"}
Command == [at : SessionSteps, op : {"open", "status", Nil}, mine : Session!Sessions \cup {Nil},
            own : Nat \cup {Nil}, turn : Nat]

SessionTyped ==
  /\ session \in Session!Sessions \cup {Nil, Torn}
  /\ threads \in Seq(Conversation) /\ desks \in [Processes -> Command] /\ runs \in Nat
  /\ \A p \in Processes : desks[p].at # "idle" => desks[p].own \in Nat
  /\ \A m \in messages : m[2] \in Nat

\* A conversation has an id of its own, and the next one has the next.
Numbered ==
  /\ \A n \in DOMAIN threads : threads[n].id < Len(threads)
  /\ \A m, n \in DOMAIN threads : threads[m].id = threads[n].id => m = n

\* The conversation began with this marker; it is here, and that many turns long.
Began(id, marker) == \E n \in DOMAIN threads : threads[n].id = id /\ threads[n].first = marker
Ours(id, marker, turn) ==
  \E n \in DOMAIN threads :
    threads[n].id = id /\ threads[n].first = marker /\ threads[n].here /\ turn <= threads[n].turns

\* What a process goes by: the marker of the session, and a conversation that
\* began with it.
CommandHolds(p) ==
  LET r == desks[p] IN
  /\ r.at = "fill" => session = Torn
  /\ r.op = "open" /\ r.at \in {"sync", "find", "bind", "turns", "keep", "answer"} =>
       session \in Session!Sessions /\ r.own = session.marker
  /\ r.at \in {"find", "bind", "turns", "keep"} =>
       session \in Session!Sessions /\ r.mine \in Session!Sessions /\ r.mine.marker = session.marker
  /\ r.at \in {"bind", "turns", "keep"} => Began(r.mine.thread, session.marker)
  /\ r.at = "keep" => r.turn # 0 /\ Ours(r.mine.thread, session.marker, r.turn)

\* At most one process is between creating the session and filling it.
OneFills == \A p, q \in Processes : desks[p].at = "fill" /\ desks[q].at = "fill" => p = q

Marked ==
  /\ session \in Session!Sessions /\ session.thread # Nil => Began(session.thread, session.marker)
  /\ \A m \in handed : session \in Session!Sessions /\ session.marker = m
  /\ \A m \in messages : session \in Session!Sessions /\ Ours(m[1], session.marker, m[2])

SessionHolds ==
  SessionTyped /\ Numbered /\ (\A p \in Processes : CommandHolds(p)) /\ OneFills /\ Marked

LEMMA SessionWhole ==
  ASSUME Session!SessionAssumption, SessionTyped
  PROVE  Session!Whole(session) <=> session \in Session!Sessions
  BY DEF Session!SessionAssumption, SessionTyped, Session!Whole

LEMMA ConversationOf ==
  ASSUME Numbered, NEW n \in DOMAIN threads
  PROVE  Session!ThreadOf(threads[n].id) = threads[n]
  BY DEF Numbered, Session!ThreadOf

LEMMA ConversationsAre ==
  ASSUME NEW s \in Seq(Conversation)
  PROVE  /\ DOMAIN s = 1 .. Len(s) /\ Len(s) \in Nat
         /\ \A n \in DOMAIN s : /\ s[n] \in Conversation /\ s[n].id \in Nat /\ s[n].turns \in Nat /\ s[n].turns # 0
                               /\ s[n].here \in BOOLEAN
<1>1. \A n \in DOMAIN s : s[n] \in Conversation
  OBVIOUS
<1>2. \A t \in Conversation : t.id \in Nat /\ t.turns \in Nat /\ t.turns # 0 /\ t.here \in BOOLEAN
  BY DEF Conversation
<1> QED
  BY <1>1, <1>2

\* What is known stays so while the session keeps its marker and conversations
\* only get longer.
Stays ==
  /\ session \in Session!Sessions => session' \in Session!Sessions /\ session'.marker = session.marker
  /\ \A n \in DOMAIN threads : \E m \in DOMAIN threads' :
       /\ threads'[m].id = threads[n].id /\ threads'[m].first = threads[n].first
       /\ threads'[m].here = threads[n].here /\ threads[n].turns <= threads'[m].turns

LEMMA KnownStays ==
  ASSUME SessionTyped, SessionTyped', Stays, session \in Session!Sessions
  PROVE  /\ \A id : Began(id, session.marker) => Began(id, session.marker)'
         /\ \A id : \A turn \in Nat : Ours(id, session.marker, turn) => Ours(id, session.marker, turn)'
<1>1. \A n \in DOMAIN threads : threads[n].turns \in Nat
  BY ConversationsAre DEF SessionTyped
<1>2. \A n \in DOMAIN threads' : threads'[n].turns \in Nat
  BY ConversationsAre DEF SessionTyped
<1>3. session'.marker = session.marker
  BY DEF Stays
<1>4. ASSUME NEW id, Began(id, session.marker) PROVE Began(id, session.marker)'
  BY <1>3, <1>4 DEF Began, Stays
<1>5. ASSUME NEW id, NEW turn \in Nat, Ours(id, session.marker, turn) PROVE Ours(id, session.marker, turn)'
  <2>1. PICK n \in DOMAIN threads : threads[n].id = id /\ threads[n].first = session.marker /\ threads[n].here /\ turn <= threads[n].turns
    BY <1>5 DEF Ours
  <2>2. PICK m \in DOMAIN threads' : threads'[m].id = threads[n].id /\ threads'[m].first = threads[n].first
           /\ threads'[m].here = threads[n].here /\ threads[n].turns <= threads'[m].turns
    BY DEF Stays
  <2>3. turn <= threads'[m].turns
    BY <1>1, <1>2, <2>1, <2>2
  <2> QED
    BY <1>3, <2>1, <2>2, <2>3 DEF Ours
<1> QED
  BY <1>4, <1>5

\* The desks of the others, and what is marked, hold on.
LEMMA OthersHold ==
  ASSUME SessionHolds, SessionTyped', Stays, NEW q \in Processes, desks'[q] = desks[q],
         desks[q].at = "fill" => session' = session
  PROVE  CommandHolds(q)'
<1>1. CommandHolds(q) /\ SessionTyped /\ desks[q] \in Command
  BY DEF SessionHolds, SessionTyped
<1>2. CASE session \in Session!Sessions
  <2>1. session' \in Session!Sessions /\ session'.marker = session.marker
    BY <1>2 DEF Stays
  <2>2. desks[q].turn \in Nat
    BY <1>1 DEF Command
  <2> QED
    BY <1>1, <1>2, <2>1, <2>2, KnownStays DEF CommandHolds
<1>3. CASE session \notin Session!Sessions
  BY <1>1, <1>3 DEF CommandHolds
<1> QED
  BY <1>2, <1>3

LEMMA StandStill ==
  ASSUME SessionTyped, UNCHANGED threads,
         session \in Session!Sessions => session' \in Session!Sessions /\ session'.marker = session.marker
  PROVE  Stays
<1>1. \A n \in DOMAIN threads : threads[n].turns \in Nat
  BY ConversationsAre DEF SessionTyped
<1> QED
  BY <1>1 DEF Stays

LEMMA MarkedHolds ==
  ASSUME SessionHolds, SessionTyped', Stays, handed' = handed, messages' = messages,
         session' = session \/ (session \notin Session!Sessions /\ (session' \in Session!Sessions => session'.thread = Nil))
  PROVE  Marked'
<1>1. \A m \in messages : m[2] \in Nat
  BY DEF SessionHolds, SessionTyped
<1> QED
  BY <1>1, KnownStays DEF SessionHolds, Marked

\* One process does something that leaves the session and the conversations alone.
LEMMA CommandStep ==
  ASSUME SessionHolds, NEW p \in Processes, NEW r \in Command, desks' = [desks EXCEPT ![p] = r],
         r.at # "idle" => r.own \in Nat, r.at # "fill", runs' \in Nat, UNCHANGED <<session, threads>>,
         \A m \in messages' : m[2] \in Nat, Marked', CommandHolds(p)'
  PROVE  SessionHolds'
<1>1. \A q \in Processes : desks'[q] = IF q = p THEN r ELSE desks[q]
  BY DEF SessionHolds, SessionTyped
<1>2. SessionTyped'
  BY <1>1 DEF SessionHolds, SessionTyped
<1>3. Stays
  BY StandStill DEF SessionHolds
<1>4. \A q \in Processes : CommandHolds(q)'
  BY <1>1, <1>2, <1>3, OthersHold
<1>5. OneFills'
  BY <1>1 DEF SessionHolds, OneFills
<1>6. Numbered'
  BY DEF SessionHolds, Numbered
<1> QED
  BY <1>2, <1>4, <1>5, <1>6 DEF SessionHolds

LEMMA MarkedStays ==
  ASSUME SessionHolds, UNCHANGED <<session, messages, threads, handed>>
  PROVE  Marked' /\ \A m \in messages' : m[2] \in Nat
  BY DEF SessionHolds, SessionTyped, Marked, Began, Ours

LEMMA EndsHold ==
  ASSUME SessionHolds, NEW p \in Processes, Session!Ends(p), runs' \in Nat, UNCHANGED <<session, messages, threads, handed>>
  PROVE  SessionHolds'
<1>1. PICK r : r = Session!NoCommand
  OBVIOUS
<1>2. r \in Command /\ r.at = "idle" /\ r.op = Nil
  BY <1>1 DEF Session!NoCommand, Command, SessionSteps
<1>3. desks' = [desks EXCEPT ![p] = r]
  BY <1>1 DEF Session!Ends
<1>4. desks'[p] = r
  BY <1>3 DEF SessionHolds, SessionTyped
<1>5. CommandHolds(p)'
  BY <1>2, <1>4 DEF CommandHolds
<1> QED
  BY <1>2, <1>3, <1>5, CommandStep, MarkedStays

LEMMA SessionStarts ==
  ASSUME SessionHolds, NEW p \in Processes, NEW op \in {"open", "status"}, Session!Start(p, op)
  PROVE  SessionHolds'
<1>1. PICK r : r = [Session!NoCommand EXCEPT !.at = IF op = "open" THEN "look" ELSE "sync", !.op = op, !.own = runs + 1]
  OBVIOUS
<1>2. /\ r = [at |-> IF op = "open" THEN "look" ELSE "sync", op |-> op, mine |-> Nil, own |-> runs + 1, turn |-> 0]
      /\ runs \in Nat
  BY <1>1 DEF Session!NoCommand, SessionHolds, SessionTyped
<1>3. r \in Command /\ r.at \in {"look", "sync"} /\ r.own \in Nat /\ (r.at = "sync" => r.op = "status")
  BY <1>2 DEF Command, SessionSteps
<1>4. desks' = [desks EXCEPT ![p] = r] /\ runs' \in Nat /\ UNCHANGED <<session, messages, threads, handed>>
  BY <1>1, <1>2 DEF Session!Start, Session!disk
<1>5. desks'[p] = r
  BY <1>4 DEF SessionHolds, SessionTyped
<1>6. CommandHolds(p)'
  BY <1>3, <1>5 DEF CommandHolds
<1> QED
  BY <1>3, <1>4, <1>6, CommandStep, MarkedStays

LEMMA SessionLooks ==
  ASSUME Session!SessionAssumption, SessionHolds, NEW p \in Processes, Session!Look(p)
  PROVE  SessionHolds'
<1>1. /\ desks[p] \in Command /\ desks[p].own \in Nat /\ runs' \in Nat /\ session \in Session!Sessions \cup {Nil, Torn}
      /\ UNCHANGED <<session, messages, threads, handed>>
  BY DEF Session!Look, Session!disk, SessionHolds, SessionTyped
<1>2. CASE Session!Ends(p)
  BY <1>1, <1>2, EndsHold
<1>3. CASE Session!Goes(p, "create")
  <2>1. PICK r : r = [desks[p] EXCEPT !.at = "create"]
    OBVIOUS
  <2>2. r \in Command /\ r.at = "create" /\ r.own \in Nat
    BY <1>1, <2>1 DEF Command, SessionSteps
  <2>3. desks' = [desks EXCEPT ![p] = r] /\ desks'[p] = r
    BY <1>3, <2>1 DEF Session!Goes, SessionHolds, SessionTyped
  <2>4. CommandHolds(p)'
    BY <2>2, <2>3 DEF CommandHolds
  <2> QED
    BY <1>1, <2>2, <2>3, <2>4, CommandStep, MarkedStays
<1>4. CASE session \in Session!Sessions /\ desks' = [desks EXCEPT ![p].at = "sync", ![p].own = session.marker]
  <2>1. PICK r : r = [desks[p] EXCEPT !.at = "sync", !.own = session.marker]
    OBVIOUS
  <2>2. session.marker \in Nat
    BY <1>4 DEF Session!Sessions
  <2>3. r \in Command /\ r.at = "sync" /\ r.own = session.marker
    BY <1>1, <2>1, <2>2 DEF Command, SessionSteps
  <2>4. desks' = [desks EXCEPT ![p] = r] /\ desks'[p] = r
    BY <1>4, <2>1 DEF SessionHolds, SessionTyped
  <2>5. CommandHolds(p)'
    BY <1>1, <1>4, <2>3, <2>4 DEF CommandHolds
  <2> QED
    BY <1>1, <2>2, <2>3, <2>4, <2>5, CommandStep, MarkedStays
<1>5. \/ Session!Ends(p) \/ Session!Goes(p, "create")
      \/ session \in Session!Sessions /\ desks' = [desks EXCEPT ![p].at = "sync", ![p].own = session.marker]
  BY <1>1 DEF Session!Look
<1> QED
  BY <1>2, <1>3, <1>4, <1>5

\* The file is there, empty, before it says anything.
LEMMA SessionCreates ==
  ASSUME Session!SessionAssumption, SessionHolds, NEW p \in Processes, Session!Create(p)
  PROVE  SessionHolds'
<1>1. /\ desks[p] \in Command /\ desks[p].own \in Nat /\ runs' \in Nat /\ session \in Session!Sessions \cup {Nil, Torn}
      /\ UNCHANGED <<messages, threads, handed>> /\ desks[p].at = "create"
  BY DEF Session!Create, SessionHolds, SessionTyped
<1>2. CASE Session!Goes(p, "again") /\ UNCHANGED session
  <2>1. PICK r : r = [desks[p] EXCEPT !.at = "again"]
    OBVIOUS
  <2>2. r \in Command /\ r.at = "again" /\ r.own \in Nat
    BY <1>1, <2>1 DEF Command, SessionSteps
  <2>3. desks' = [desks EXCEPT ![p] = r] /\ desks'[p] = r
    BY <1>2, <2>1 DEF Session!Goes, SessionHolds, SessionTyped
  <2>4. CommandHolds(p)'
    BY <2>2, <2>3 DEF CommandHolds
  <2> QED
    BY <1>1, <1>2, <2>2, <2>3, <2>4, CommandStep, MarkedStays
<1>3. CASE session = Nil /\ session' = Torn /\ Session!Goes(p, "fill")
  <2>1. PICK r : r = [desks[p] EXCEPT !.at = "fill"]
    OBVIOUS
  <2>2. r \in Command /\ r.at = "fill" /\ r.own \in Nat
    BY <1>1, <2>1 DEF Command, SessionSteps
  <2>3. \A q \in Processes : desks'[q] = IF q = p THEN r ELSE desks[q]
    BY <1>3, <2>1 DEF Session!Goes, SessionHolds, SessionTyped
  <2>4. session \notin Session!Sessions /\ session' \notin Session!Sessions
    BY <1>3 DEF Session!SessionAssumption
  <2>5. SessionTyped'
    <3>1. desks' = [desks EXCEPT ![p] = r]
      BY <1>3, <2>1 DEF Session!Goes, SessionHolds, SessionTyped
    <3> QED
      BY <1>1, <1>3, <2>2, <2>3, <3>1 DEF SessionHolds, SessionTyped
  <2>6. Stays
    BY <1>1, <2>4, StandStill DEF SessionHolds
  <2>7. \A q \in Processes : desks[q].at = "fill" => session = Torn
    BY DEF SessionHolds, CommandHolds
  <2>8. \A q \in Processes \ {p} : CommandHolds(q)'
    <3>1. \A q \in Processes : desks[q].at = "fill" => session' = session
      BY <1>3, <2>7
    <3> QED
      BY <2>3, <2>5, <2>6, <3>1, OthersHold
  <2>9. CommandHolds(p)'
    BY <1>3, <2>2, <2>3 DEF CommandHolds
  <2>10. OneFills'
    <3>1. \A q \in Processes : desks[q].at # "fill"
      BY <1>3, <2>7 DEF Session!SessionAssumption
    <3> QED
      BY <2>3, <3>1 DEF OneFills
  <2>12. Numbered'
    BY <1>1 DEF SessionHolds, Numbered
  <2>13. Marked'
    BY <1>1, <2>4, <2>5, <2>6, MarkedHolds
  <2> QED
    BY <2>5, <2>8, <2>9, <2>10, <2>12, <2>13 DEF SessionHolds
<1>4. \/ Session!Goes(p, "again") /\ UNCHANGED session
      \/ session = Nil /\ session' = Torn /\ Session!Goes(p, "fill")
  BY DEF Session!Create, Session!Opens
<1> QED
  BY <1>2, <1>3, <1>4

LEMMA SessionFills ==
  ASSUME Session!SessionAssumption, SessionHolds, NEW p \in Processes, Session!Fill(p)
  PROVE  SessionHolds'
<1>1. /\ desks[p] \in Command /\ desks[p].own \in Nat /\ runs' \in Nat /\ desks[p].at = "fill"
      /\ UNCHANGED <<messages, threads, handed>> /\ session = Torn
      /\ session' = [marker |-> desks[p].own, thread |-> Nil]
  BY DEF Session!Fill, SessionHolds, SessionTyped, CommandHolds
<1>2. PICK r : r = [desks[p] EXCEPT !.at = "sync"]
  OBVIOUS
<1>3. r \in Command /\ r.at = "sync" /\ r.own = desks[p].own
  BY <1>1, <1>2 DEF Command, SessionSteps
<1>4. desks' = [desks EXCEPT ![p] = r] /\ \A q \in Processes : desks'[q] = IF q = p THEN r ELSE desks[q]
  BY <1>2 DEF Session!Fill, Session!Goes, SessionHolds, SessionTyped
<1>5. session \notin Session!Sessions /\ session' \in Session!Sessions /\ session'.thread = Nil /\ session'.marker = r.own
  BY <1>1, <1>3 DEF Session!SessionAssumption, Session!Sessions
<1>6. SessionTyped'
  BY <1>1, <1>3, <1>4, <1>5 DEF SessionHolds, SessionTyped
<1>7. Stays
  BY <1>1, <1>5, StandStill DEF SessionHolds
<1>8. \A q \in Processes \ {p} : desks[q].at # "fill"
  BY <1>1 DEF SessionHolds, OneFills
<1>9. \A q \in Processes \ {p} : CommandHolds(q)'
  BY <1>4, <1>6, <1>7, <1>8, OthersHold
<1>10. CommandHolds(p)'
  BY <1>3, <1>4, <1>5 DEF CommandHolds
<1>11. OneFills'
  BY <1>3, <1>4, <1>8 DEF OneFills
<1>12. Numbered'
  BY <1>1 DEF SessionHolds, Numbered
<1>13. Marked'
  BY <1>1, <1>5, <1>6, <1>7, MarkedHolds
<1> QED
  BY <1>6, <1>9, <1>10, <1>11, <1>12, <1>13 DEF SessionHolds

LEMMA SessionReads ==
  ASSUME Session!SessionAssumption, SessionHolds, NEW p \in Processes, Session!SyncRead(p)
  PROVE  SessionHolds'
<1>1. /\ desks[p] \in Command /\ desks[p].own \in Nat /\ runs' \in Nat /\ desks[p].at = "sync"
      /\ UNCHANGED <<session, messages, threads, handed>>
  BY DEF Session!SyncRead, Session!disk, SessionHolds, SessionTyped
<1>2. CASE Session!Ends(p)
  BY <1>1, <1>2, EndsHold
<1>3. CASE /\ session \in Session!Sessions
           /\ desks' = [desks EXCEPT ![p].mine = session, ![p].at = IF session.thread = Nil THEN "find" ELSE "turns"]
  <2>1. PICK r : r = [desks[p] EXCEPT !.mine = session, !.at = IF session.thread = Nil THEN "find" ELSE "turns"]
    OBVIOUS
  <2>2. /\ r \in Command /\ r.mine = session /\ r.own = desks[p].own /\ r.op = desks[p].op
        /\ r.at \in {"find", "turns"} /\ (r.at = "turns" => session.thread # Nil)
    BY <1>1, <1>3, <2>1 DEF Command, SessionSteps
  <2>3. desks' = [desks EXCEPT ![p] = r] /\ desks'[p] = r
    BY <1>3, <2>1 DEF SessionHolds, SessionTyped
  <2>4. session.thread # Nil => Began(session.thread, session.marker)
    BY <1>3 DEF SessionHolds, Marked
  <2>5. r.op = "open" => r.own = session.marker
    BY <1>1, <2>2 DEF SessionHolds, CommandHolds
  <2>6. Began(session.thread, session.marker)' <=> Began(session.thread, session.marker)
    BY <1>1 DEF Began
  <2>7. CommandHolds(p)'
    BY <1>1, <1>3, <2>2, <2>3, <2>4, <2>5, <2>6 DEF CommandHolds
  <2> QED
    BY <1>1, <2>2, <2>3, <2>7, CommandStep, MarkedStays
<1>4. Session!Ends(p) \/
      /\ session \in Session!Sessions
      /\ desks' = [desks EXCEPT ![p].mine = session, ![p].at = IF session.thread = Nil THEN "find" ELSE "turns"]
  BY SessionWhole DEF Session!SyncRead, SessionHolds
<1> QED
  BY <1>2, <1>3, <1>4

LEMMA GreatestIs ==
  ASSUME NEW N \in Nat, NEW S \in SUBSET (1 .. N), S # {}
  PROVE  (CHOOSE n \in S : \A k \in S : k <= n) \in S
<1>1. PICK T : T = {N - k : k \in S}
  OBVIOUS
<1>2. T \in SUBSET Nat /\ T # {}
  <2>1. \A k \in S : N - k \in Nat
    OBVIOUS
  <2> QED
    BY <1>1, <2>1
<1>3. PICK m \in T : \A i \in T : m <= i
  BY <1>2, LeastIs
<1>4. PICK n \in S : m = N - n
  BY <1>1, <1>3
<1>5. ASSUME NEW k \in S PROVE k <= n
  <2>1. N - k \in T
    BY <1>1
  <2>2. N - n <= N - k
    BY <1>3, <1>4, <2>1
  <2>3. n \in Nat /\ k \in Nat
    OBVIOUS
  <2> QED
    BY <2>2, <2>3
<1>6. \E n1 \in S : \A k \in S : k <= n1
  BY <1>5
<1> QED
  BY <1>6

LEMMA SessionFinds ==
  ASSUME Session!SessionAssumption, SessionHolds, NEW p \in Processes, Session!Find(p)
  PROVE  SessionHolds'
<1>1. /\ desks[p] \in Command /\ desks[p].own \in Nat /\ runs' \in Nat /\ desks[p].at = "find"
      /\ UNCHANGED <<session, messages, threads, handed>>
  BY DEF Session!Find, Session!disk, SessionHolds, SessionTyped
<1>2. /\ session \in Session!Sessions /\ desks[p].mine \in Session!Sessions /\ desks[p].mine.marker = session.marker
      /\ desks[p].op = "open" => desks[p].own = session.marker
  BY <1>1 DEF SessionHolds, CommandHolds
<1>3. PICK found : found = Session!Found(desks[p].mine.marker)
  OBVIOUS
<1>4. CASE found = {} /\ Session!Goes(p, "answer")
  <2>1. PICK r : r = [desks[p] EXCEPT !.at = "answer"]
    OBVIOUS
  <2>2. r \in Command /\ r.at = "answer" /\ r.own = desks[p].own /\ r.op = desks[p].op
    BY <1>1, <2>1 DEF Command, SessionSteps
  <2>3. desks' = [desks EXCEPT ![p] = r] /\ desks'[p] = r
    BY <1>4, <2>1 DEF Session!Goes, SessionHolds, SessionTyped
  <2>4. CommandHolds(p)'
    BY <1>1, <1>2, <2>2, <2>3 DEF CommandHolds
  <2> QED
    BY <1>1, <2>2, <2>3, <2>4, CommandStep, MarkedStays
<1>5. CASE found # {}
  <2>1. PICK n : n = CHOOSE c \in found : \A k \in found : k <= c
    OBVIOUS
  <2>2. n \in found
    <3>1. found \in SUBSET (1 .. Len(threads)) /\ Len(threads) \in Nat
      BY <1>3, ConversationsAre DEF Session!Found, SessionHolds, SessionTyped
    <3> QED
      BY <1>5, <2>1, <3>1, GreatestIs
  <2>3. n \in DOMAIN threads /\ threads[n].first = session.marker /\ threads[n].id \in Nat
    BY <1>2, <1>3, <2>2, ConversationsAre DEF Session!Found, SessionHolds, SessionTyped
  <2>4. PICK r : r = [desks[p] EXCEPT !.at = "bind", !.mine.thread = threads[n].id]
    OBVIOUS
  <2>5. /\ r \in Command /\ r.at = "bind" /\ r.own = desks[p].own /\ r.op = desks[p].op
        /\ r.mine \in Session!Sessions /\ r.mine.marker = session.marker /\ r.mine.thread = threads[n].id
    BY <1>1, <1>2, <2>3, <2>4 DEF Command, SessionSteps, Session!Sessions
  <2>6. desks' = [desks EXCEPT ![p] = r] /\ desks'[p] = r
    <3>1. desks' = [desks EXCEPT ![p].at = "bind", ![p].mine.thread = threads[n].id]
      BY <1>3, <1>5, <2>1 DEF Session!Find
    <3> QED
      BY <2>4, <3>1 DEF SessionHolds, SessionTyped
  <2>7. Began(threads[n].id, session.marker)'
    BY <1>1, <2>3 DEF Began
  <2>8. CommandHolds(p)'
    BY <1>1, <1>2, <2>5, <2>6, <2>7 DEF CommandHolds
  <2> QED
    BY <1>1, <2>5, <2>6, <2>8, CommandStep, MarkedStays
<1> QED
  BY <1>3, <1>4, <1>5 DEF Session!Find

LEMMA SessionBinds ==
  ASSUME Session!SessionAssumption, SessionHolds, NEW p \in Processes, Session!Bind(p)
  PROVE  SessionHolds'
<1>1. /\ desks[p] \in Command /\ desks[p].own \in Nat /\ runs' \in Nat /\ desks[p].at = "bind"
      /\ UNCHANGED <<messages, threads, handed>> /\ session' = desks[p].mine
      /\ \A m \in messages : m[2] \in Nat
  BY DEF Session!Bind, SessionHolds, SessionTyped
<1>2. /\ session \in Session!Sessions /\ desks[p].mine \in Session!Sessions /\ desks[p].mine.marker = session.marker
      /\ desks[p].op = "open" => desks[p].own = session.marker
      /\ Began(desks[p].mine.thread, session.marker)
  BY <1>1 DEF SessionHolds, CommandHolds
<1>3. PICK r : r = [desks[p] EXCEPT !.at = "turns"]
  OBVIOUS
<1>4. r \in Command /\ r.at = "turns" /\ r.own = desks[p].own /\ r.op = desks[p].op /\ r.mine = desks[p].mine
  BY <1>1, <1>3 DEF Command, SessionSteps
<1>5. desks' = [desks EXCEPT ![p] = r] /\ \A q \in Processes : desks'[q] = IF q = p THEN r ELSE desks[q]
  BY <1>3 DEF Session!Bind, Session!Goes, SessionHolds, SessionTyped
<1>6. SessionTyped'
  BY <1>1, <1>2, <1>4, <1>5 DEF SessionHolds, SessionTyped
<1>7. Stays
  BY <1>1, <1>2, StandStill DEF SessionHolds
<1>8. \A q \in Processes : desks[q].at # "fill"
  BY <1>2 DEF SessionHolds, CommandHolds, Session!SessionAssumption
<1>9. \A q \in Processes \ {p} : CommandHolds(q)'
  BY <1>5, <1>6, <1>7, <1>8, OthersHold
<1>10. Began(r.mine.thread, session.marker)'
  BY <1>2, <1>4, <1>6, <1>7, KnownStays DEF SessionHolds, Began
<1>11. CommandHolds(p)'
  BY <1>1, <1>2, <1>4, <1>5, <1>10 DEF CommandHolds
<1>12. OneFills'
  BY <1>4, <1>5, <1>8 DEF OneFills
<1>13. Numbered'
  BY <1>1 DEF SessionHolds, Numbered
<1>14. Marked'
  BY <1>1, <1>2, <1>4, <1>6, <1>7, <1>10, KnownStays DEF SessionHolds, Marked
<1> QED
  BY <1>6, <1>9, <1>11, <1>12, <1>13, <1>14 DEF SessionHolds

LEMMA SessionReadsTurns ==
  ASSUME Session!SessionAssumption, SessionHolds, NEW p \in Processes, Session!ReadTurns(p)
  PROVE  SessionHolds'
<1>1. /\ desks[p] \in Command /\ desks[p].own \in Nat /\ runs' \in Nat /\ desks[p].at = "turns"
      /\ UNCHANGED <<session, messages, threads, handed>>
  BY DEF Session!ReadTurns, Session!disk, SessionHolds, SessionTyped
<1>2. /\ session \in Session!Sessions /\ desks[p].mine \in Session!Sessions /\ desks[p].mine.marker = session.marker
      /\ desks[p].op = "open" => desks[p].own = session.marker
      /\ Began(desks[p].mine.thread, session.marker)
  BY <1>1 DEF SessionHolds, CommandHolds
<1>3. PICK n \in DOMAIN threads : threads[n].id = desks[p].mine.thread /\ threads[n].first = session.marker
  BY <1>2 DEF Began
<1>4. Session!ThreadOf(desks[p].mine.thread) = threads[n]
  BY <1>3, ConversationOf DEF SessionHolds
<1>5. threads[n].turns \in Nat /\ threads[n].turns # 0
  BY ConversationsAre DEF SessionHolds, SessionTyped
<1>6. CASE Session!Ends(p)
  BY <1>1, <1>6, EndsHold
<1>7. CASE threads[n].here /\ desks' = [desks EXCEPT ![p].at = "keep", ![p].turn = threads[n].turns]
  <2>1. PICK r : r = [desks[p] EXCEPT !.at = "keep", !.turn = threads[n].turns]
    OBVIOUS
  <2>2. /\ r \in Command /\ r.at = "keep" /\ r.own = desks[p].own /\ r.op = desks[p].op
        /\ r.mine = desks[p].mine /\ r.turn = threads[n].turns
    BY <1>1, <1>5, <2>1 DEF Command, SessionSteps
  <2>3. desks' = [desks EXCEPT ![p] = r] /\ desks'[p] = r
    BY <1>7, <2>1 DEF SessionHolds, SessionTyped
  <2>4. Began(r.mine.thread, session.marker)' /\ Ours(r.mine.thread, session.marker, r.turn)
    BY <1>1, <1>3, <1>5, <1>7, <2>2 DEF Began, Ours
  <2>5. Ours(r.mine.thread, session.marker, r.turn)'
    BY <1>1, <1>3, <1>5, <1>7, <2>2 DEF Ours
  <2>6. CommandHolds(p)'
    BY <1>1, <1>2, <1>5, <2>2, <2>3, <2>4, <2>5 DEF CommandHolds
  <2> QED
    BY <1>1, <2>2, <2>3, <2>6, CommandStep, MarkedStays
<1> QED
  BY <1>4, <1>6, <1>7 DEF Session!ReadTurns, Session!Belongs

LEMMA SessionKeeps ==
  ASSUME Session!SessionAssumption, SessionHolds, NEW p \in Processes, Session!Keep(p)
  PROVE  SessionHolds'
<1>1. /\ desks[p] \in Command /\ desks[p].own \in Nat /\ runs' \in Nat /\ desks[p].at = "keep"
      /\ UNCHANGED <<session, threads, handed>> /\ messages' = messages \cup {<<desks[p].mine.thread, desks[p].turn>>}
      /\ \A m \in messages : m[2] \in Nat
  BY DEF Session!Keep, SessionHolds, SessionTyped
<1>2. /\ session \in Session!Sessions /\ desks[p].mine \in Session!Sessions /\ desks[p].mine.marker = session.marker
      /\ desks[p].op = "open" => desks[p].own = session.marker
      /\ Began(desks[p].mine.thread, session.marker) /\ desks[p].turn # 0
      /\ Ours(desks[p].mine.thread, session.marker, desks[p].turn)
  BY <1>1 DEF SessionHolds, CommandHolds
<1>3. PICK k, s, r : /\ k = desks[p].turn - 1 /\ s = (IF desks[p].turn = 1 THEN "answer" ELSE "keep")
                      /\ r = [desks[p] EXCEPT !.turn = k, !.at = s]
  OBVIOUS
<1>4. desks[p].turn \in Nat /\ k \in Nat /\ s \in {"answer", "keep"} /\ (s = "keep" => k # 0)
  BY <1>1, <1>2, <1>3 DEF Command
<1>5. /\ r \in Command /\ r.at \in {"answer", "keep"} /\ r.own = desks[p].own /\ r.op = desks[p].op
      /\ r.mine = desks[p].mine /\ r.turn = desks[p].turn - 1 /\ (r.at = "keep" => r.turn # 0)
  BY <1>1, <1>2, <1>3, <1>4 DEF Command, SessionSteps
<1>6. desks' = [desks EXCEPT ![p] = r] /\ desks'[p] = r
  BY <1>3 DEF Session!Keep, SessionHolds, SessionTyped
<1>7. Began(r.mine.thread, session.marker)'
  BY <1>1, <1>2, <1>5 DEF Began
<1>8. Ours(r.mine.thread, session.marker, r.turn)'
  <2>1. \A n \in DOMAIN threads : threads[n].turns \in Nat
    BY ConversationsAre DEF SessionHolds, SessionTyped
  <2>2. \A n \in DOMAIN threads : desks[p].turn <= threads[n].turns => r.turn <= threads[n].turns
    BY <1>4, <1>5, <2>1
  <2> QED
    BY <1>1, <1>2, <1>5, <2>2 DEF Ours
<1>9. CommandHolds(p)'
  BY <1>1, <1>2, <1>5, <1>6, <1>7, <1>8 DEF CommandHolds
<1>10. \A m \in messages' : m[2] \in Nat
  BY <1>1, <1>4
<1>11. Marked'
  <2>1. \A m \in messages' : Ours(m[1], session.marker, m[2])
    BY <1>1, <1>2 DEF SessionHolds, Marked
  <2> QED
    BY <1>1, <1>2, <2>1 DEF SessionHolds, Marked, Began, Ours
<1> QED
  BY <1>1, <1>5, <1>6, <1>9, <1>10, <1>11, CommandStep

LEMMA SessionAnswers ==
  ASSUME Session!SessionAssumption, SessionHolds, NEW p \in Processes, Session!Answer(p)
  PROVE  SessionHolds'
<1>1. /\ runs' \in Nat /\ desks[p].at = "answer" /\ UNCHANGED <<session, messages, threads>>
      /\ \A m \in messages : m[2] \in Nat /\ handed' = handed \cup Session!Prompts(p)
  BY DEF Session!Answer, Session!disk, SessionHolds, SessionTyped
<1>2. handed' = handed \cup Session!Prompts(p)
  BY DEF Session!Answer
<1>3. \A m \in Session!Prompts(p) : session \in Session!Sessions /\ session.marker = m
  BY <1>1, SessionWhole DEF SessionHolds, CommandHolds, Session!Prompts
<1>4. Marked'
  BY <1>1, <1>2, <1>3 DEF SessionHolds, Marked, Began, Ours
<1>5. PICK r : r = Session!NoCommand
  OBVIOUS
<1>6. r \in Command /\ r.at = "idle" /\ r.op = Nil
  BY <1>5 DEF Session!NoCommand, Command, SessionSteps
<1>7. desks' = [desks EXCEPT ![p] = r] /\ desks'[p] = r
  BY <1>5 DEF Session!Answer, Session!Ends, SessionHolds, SessionTyped
<1>8. CommandHolds(p)'
  BY <1>6, <1>7 DEF CommandHolds
<1> QED
  BY <1>1, <1>4, <1>6, <1>7, <1>8, CommandStep

LEMMA SessionFails ==
  ASSUME SessionHolds, NEW p \in Processes, Session!Fail(p)
  PROVE  SessionHolds'
  BY EndsHold DEF Session!Fail, Session!disk, SessionHolds, SessionTyped

\* The person only ever adds to the conversations.
LEMMA PersonStep ==
  ASSUME SessionHolds, threads' \in Seq(Conversation), Numbered', UNCHANGED <<session, messages, desks, handed, runs>>,
         \A n \in DOMAIN threads : \E m \in DOMAIN threads' :
           /\ threads'[m].id = threads[n].id /\ threads'[m].first = threads[n].first
           /\ threads'[m].here = threads[n].here /\ threads[n].turns <= threads'[m].turns
  PROVE  SessionHolds'
<1>1. SessionTyped'
  BY DEF SessionHolds, SessionTyped
<1>2. Stays
  BY DEF Stays
<1>3. \A q \in Processes : CommandHolds(q)'
  BY <1>1, <1>2, OthersHold
<1>4. OneFills'
  BY DEF SessionHolds, OneFills
<1>5. Marked'
  <2>1. session' = session /\ messages' = messages /\ handed' = handed /\ \A m \in messages : m[2] \in Nat
    BY DEF SessionHolds, SessionTyped
  <2>2. Marked /\ SessionTyped
    BY DEF SessionHolds
  <2>3. session \in Session!Sessions /\ session.thread # Nil => Began(session.thread, session.marker)'
    BY <1>1, <1>2, <2>2, KnownStays DEF Marked
  <2>4. \A m \in messages : session \in Session!Sessions /\ Ours(m[1], session.marker, m[2])'
    BY <1>1, <1>2, <2>1, <2>2, KnownStays DEF Marked
  <2> QED
    BY <2>1, <2>2, <2>3, <2>4 DEF Marked
<1> QED
  BY <1>1, <1>3, <1>4, <1>5 DEF SessionHolds

LEMMA PersonConverses ==
  ASSUME SessionHolds, NEW first \in handed \cup {Nil}, Session!Converse(first)
  PROVE  SessionHolds'
<1>1. PICK t : t = [id |-> Len(threads), first |-> first, here |-> TRUE, turns |-> 1]
  OBVIOUS
<1>2. threads' = Append(threads, t) /\ UNCHANGED <<session, messages, desks, handed, runs>>
  BY <1>1 DEF Session!Converse, Session!disk
<1>3. /\ DOMAIN threads = 1 .. Len(threads) /\ Len(threads) \in Nat
      /\ \A n \in DOMAIN threads : threads[n].id \in Nat /\ threads[n].turns \in Nat
  BY ConversationsAre DEF SessionHolds, SessionTyped
<1>4. first \in Nat \cup {Nil}
  BY DEF SessionHolds, Marked, Session!Sessions
<1>5. t \in Conversation /\ t.id = Len(threads)
  BY <1>1, <1>3, <1>4 DEF Conversation
<1>6. threads' \in Seq(Conversation) /\ Len(threads') = Len(threads) + 1
  BY <1>2, <1>5 DEF SessionHolds, SessionTyped
<1>7. DOMAIN threads' = 1 .. Len(threads) + 1 /\ threads'[Len(threads) + 1] = t
      /\ \A n \in DOMAIN threads : threads'[n] = threads[n]
  BY <1>2, <1>5, AppendProperties DEF SessionHolds, SessionTyped
<1>8. Numbered'
  <2>1. \A n \in DOMAIN threads : threads[n].id < Len(threads)
    BY DEF SessionHolds, Numbered
  <2>2. \A n \in DOMAIN threads' : n = Len(threads) + 1 \/ n \in DOMAIN threads
    BY <1>3, <1>7
  <2>3. \A n \in DOMAIN threads' : threads'[n].id < Len(threads')
    BY <1>3, <1>5, <1>6, <1>7, <2>1, <2>2
  <2>4. \A m, n \in DOMAIN threads' : threads'[m].id = threads'[n].id => m = n
    BY <1>3, <1>5, <1>7, <2>1, <2>2 DEF SessionHolds, Numbered
  <2> QED
    BY <2>3, <2>4 DEF Numbered
<1>9. \A n \in DOMAIN threads : n \in DOMAIN threads' /\ threads[n].turns <= threads'[n].turns
  BY <1>3, <1>7
<1> QED
  BY <1>2, <1>6, <1>7, <1>8, <1>9, PersonStep

LEMMA RemovedFrom ==
  ASSUME NEW S, NEW s \in Seq(S), NEW n \in 1 .. Len(s)
  PROVE  /\ Session!RemoveAt(s, n) \in Seq(S) /\ Len(Session!RemoveAt(s, n)) = Len(s) - 1
         /\ \A i \in 1 .. Len(s) - 1 : Session!RemoveAt(s, n)[i] = IF i < n THEN s[i] ELSE s[i + 1]
<1>1. PICK a, b : a = SubSeq(s, 1, n - 1) /\ b = SubSeq(s, n + 1, Len(s))
  OBVIOUS
<1>2. Len(s) \in Nat /\ n \in Nat /\ n >= 1 /\ n <= Len(s) /\ \A i \in 1 .. Len(s) : s[i] \in S
  OBVIOUS
<1>3. a \in Seq(S) /\ Len(a) = n - 1 /\ \A i \in 1 .. n - 1 : a[i] = s[i]
  <2>1. \A i \in 1 .. n - 1 : s[i] \in S
    BY <1>2
  <2> QED
    BY <1>1, <1>2, <2>1, SubSeqProperties
<1>4. b \in Seq(S) /\ Len(b) = Len(s) - n /\ \A i \in 1 .. Len(s) - n : b[i] = s[n + i]
  <2>1. \A i \in n + 1 .. Len(s) : s[i] \in S
    BY <1>2
  <2>2. b \in Seq(S) /\ Len(b) = (IF n + 1 <= Len(s) THEN Len(s) - (n + 1) + 1 ELSE 0)
        /\ \A i \in 1 .. Len(s) - (n + 1) + 1 : b[i] = s[n + 1 + i - 1]
    <3>1. n + 1 \in Int /\ Len(s) \in Int
      BY <1>2
    <3>2. PICK m : m = n + 1
      OBVIOUS
    <3>3. SubSeq(s, m, Len(s)) \in Seq(S) /\ Len(SubSeq(s, m, Len(s))) = (IF m <= Len(s) THEN Len(s) - m + 1 ELSE 0)
          /\ \A i \in 1 .. Len(s) - m + 1 : SubSeq(s, m, Len(s))[i] = s[m + i - 1]
      BY <2>1, <3>1, <3>2, SubSeqProperties
    <3> QED
      BY <1>1, <3>2, <3>3
  <2>3. Len(b) = Len(s) - n
    <3>1. PICK L \in Nat : L = Len(s)
      BY <1>2
    <3>2. Len(b) = IF n + 1 <= L THEN L - (n + 1) + 1 ELSE 0
      BY <2>2, <3>1
    <3>3. n \in Nat /\ n <= L
      BY <3>1
    <3> QED
      BY <3>1, <3>2, <3>3
  <2>4. ASSUME NEW i \in 1 .. Len(s) - n PROVE b[i] = s[n + i]
    <3>1. i \in 1 .. Len(s) - (n + 1) + 1 /\ n + 1 + i - 1 = n + i
      BY <1>2
    <3> QED
      BY <2>2, <3>1
  <2> QED
    BY <2>2, <2>3, <2>4
<1>5. Session!RemoveAt(s, n) = a \o b
  BY <1>1 DEF Session!RemoveAt
<1>6. /\ a \o b \in Seq(S) /\ Len(a \o b) = Len(s) - 1
      /\ \A i \in 1 .. Len(s) - 1 : (a \o b)[i] = IF i <= n - 1 THEN a[i] ELSE b[i - (n - 1)]
  BY <1>2, <1>3, <1>4, ConcatProperties
<1>7. ASSUME NEW i \in 1 .. Len(s) - 1 PROVE (a \o b)[i] = IF i < n THEN s[i] ELSE s[i + 1]
  <2>1. CASE i < n
    BY <1>2, <1>3, <1>6, <2>1
  <2>2. CASE ~(i < n)
    <3>1. i - (n - 1) \in 1 .. Len(s) - n /\ n + (i - (n - 1)) = i + 1 /\ ~(i <= n - 1)
      <4>1. PICK L \in Nat : L = Len(s)
        BY <1>2
      <4>2. i \in 1 .. L - 1 /\ n \in 1 .. L
        BY <4>1
      <4>3. i - (n - 1) \in 1 .. L - n /\ n + (i - (n - 1)) = i + 1 /\ ~(i <= n - 1)
        BY <2>2, <4>2
      <4> QED
        BY <4>1, <4>3
    <3> QED
      BY <1>4, <1>6, <2>2, <3>1
  <2> QED
    BY <2>1, <2>2
<1> QED
  BY <1>5, <1>6, <1>7

\* A conversation that goes on becomes the latest, its place in the list apart.
LEMMA PersonGoesOn ==
  ASSUME SessionHolds, NEW n \in DOMAIN threads, Session!GoOn(n)
  PROVE  SessionHolds'
<1>1. PICK s, t : s = Session!RemoveAt(threads, n) /\ t = [threads[n] EXCEPT !.turns = @ + 1]
  OBVIOUS
<1>2. threads' = Append(s, t) /\ UNCHANGED <<session, messages, desks, handed, runs>>
  BY <1>1 DEF Session!GoOn, Session!disk
<1>3. /\ threads \in Seq(Conversation) /\ DOMAIN threads = 1 .. Len(threads) /\ Len(threads) \in Nat /\ n \in 1 .. Len(threads)
      /\ \A i \in DOMAIN threads : threads[i] \in Conversation /\ threads[i].id \in Nat /\ threads[i].turns \in Nat
  BY ConversationsAre DEF SessionHolds, SessionTyped
<1>4. /\ t \in Conversation /\ t.id = threads[n].id /\ t.first = threads[n].first /\ t.here = threads[n].here
      /\ t.turns = threads[n].turns + 1
  <2>1. PICK c \in Conversation : c = threads[n]
    BY <1>3
  <2>2. PICK k : k = c.turns + 1 /\ t = [c EXCEPT !.turns = k]
    BY <1>1, <2>1
  <2>3. c.turns \in Nat /\ k \in Nat \ {0}
    BY <2>2 DEF Conversation
  <2> QED
    BY <2>1, <2>2, <2>3 DEF Conversation
<1>5. /\ s \in Seq(Conversation) /\ Len(s) = Len(threads) - 1
      /\ \A i \in 1 .. Len(threads) - 1 : s[i] = IF i < n THEN threads[i] ELSE threads[i + 1]
  BY <1>1, <1>3, RemovedFrom
<1>6. /\ threads' \in Seq(Conversation) /\ Len(threads') = Len(threads) /\ DOMAIN threads' = DOMAIN threads
      /\ threads'[Len(threads)] = t /\ \A i \in 1 .. Len(threads) - 1 : threads'[i] = s[i]
  <2>1. Append(s, t) \in Seq(Conversation) /\ Len(Append(s, t)) = Len(s) + 1
        /\ (\A i \in 1 .. Len(s) : Append(s, t)[i] = s[i]) /\ Append(s, t)[Len(s) + 1] = t
    BY <1>4, <1>5, AppendProperties
  <2>2. Len(s) + 1 = Len(threads) /\ Len(s) = Len(threads) - 1
    BY <1>3, <1>5
  <2>3. DOMAIN threads' = 1 .. Len(threads')
    BY <1>2, <2>1
  <2> QED
    BY <1>2, <1>3, <2>1, <2>2, <2>3
<1>7. PICK old : old = [i \in 1 .. Len(threads) |-> IF i = Len(threads) THEN n ELSE IF i < n THEN i ELSE i + 1]
  OBVIOUS
<1>8. \A i \in DOMAIN threads : old[i] \in DOMAIN threads /\ threads'[i].id = threads[old[i]].id
  <2> SUFFICES ASSUME NEW i \in 1 .. Len(threads)
               PROVE  old[i] \in DOMAIN threads /\ threads'[i].id = threads[old[i]].id
    BY <1>3
  <2>1. CASE i = Len(threads)
    BY <1>3, <1>4, <1>6, <1>7, <2>1
  <2>2. CASE i # Len(threads)
    <3>1. i \in 1 .. Len(threads) - 1
      <4>1. PICK L \in Nat : L = Len(threads)
        BY <1>3
      <4> QED
        BY <2>2, <4>1
    <3>2. threads'[i] = IF i < n THEN threads[i] ELSE threads[i + 1]
      BY <1>5, <1>6, <3>1
    <3>3. old[i] = IF i < n THEN i ELSE i + 1
      BY <1>7, <2>2
    <3> QED
      BY <1>3, <3>1, <3>2, <3>3
  <2> QED
    BY <2>1, <2>2
<1>9. \A i, j \in DOMAIN threads : old[i] = old[j] => i = j
  <2>1. PICK L \in Nat : L = Len(threads)
    BY <1>3
  <2>2. n \in 1 .. L /\ DOMAIN threads = 1 .. L
    BY <1>3, <2>1
  <2>3. \A i \in 1 .. L : old[i] = IF i = L THEN n ELSE IF i < n THEN i ELSE i + 1
    BY <1>7, <2>1
  <2>4. ASSUME NEW i \in 1 .. L, NEW j \in 1 .. L, old[i] = old[j] PROVE i = j
    BY <2>2, <2>3, <2>4
  <2> QED
    BY <2>2, <2>4
<1>10. Numbered'
  <2>1. \A i \in DOMAIN threads' : threads'[i].id < Len(threads')
    BY <1>6, <1>8 DEF SessionHolds, Numbered
  <2>2. \A i, j \in DOMAIN threads' : threads'[i].id = threads'[j].id => i = j
    BY <1>6, <1>8, <1>9 DEF SessionHolds, Numbered
  <2> QED
    BY <2>1, <2>2 DEF Numbered
<1>11. ASSUME NEW i \in DOMAIN threads
       PROVE  \E m \in DOMAIN threads' : /\ threads'[m].id = threads[i].id /\ threads'[m].first = threads[i].first
                /\ threads'[m].here = threads[i].here /\ threads[i].turns <= threads'[m].turns
  <2>1. CASE i = n
    <3>1. Len(threads) \in DOMAIN threads' /\ threads[i].turns <= t.turns
      BY <1>3, <1>4, <1>6, <2>1
    <3> QED
      BY <1>4, <1>6, <2>1, <3>1
  <2>2. CASE i < n
    <3>1. i \in 1 .. Len(threads) - 1 /\ i \in DOMAIN threads' /\ threads[i].turns <= threads[i].turns
      BY <1>3, <1>6, <2>2
    <3>2. threads'[i] = threads[i]
      BY <1>5, <1>6, <2>2, <3>1
    <3> QED
      BY <3>1, <3>2
  <2>3. CASE i > n
    <3>1. PICK m \in 1 .. Len(threads) - 1 : m + 1 = i /\ ~(m < n)
      <4>1. i - 1 \in 1 .. Len(threads) - 1 /\ (i - 1) + 1 = i /\ ~(i - 1 < n)
        BY <1>3, <2>3
      <4> QED
        BY <4>1
    <3>2. threads'[m] = threads[i] /\ m \in DOMAIN threads' /\ threads[i].turns <= threads[i].turns
      BY <1>3, <1>5, <1>6, <3>1
    <3> QED
      BY <3>2
  <2> QED
    BY <1>3, <2>1, <2>2, <2>3
<1> QED
  BY <1>2, <1>6, <1>10, <1>11, PersonStep

LEMMA SessionAlways ==
  ASSUME Session!SessionAssumption PROVE Session!Spec => []SessionHolds
<1>1. Session!Init => SessionHolds
  <2> SUFFICES ASSUME Session!Init PROVE SessionHolds
    OBVIOUS
  <2>1. PICK t : t = Session!Elsewhere
    OBVIOUS
  <2>2. t \in Conversation /\ t.id = 0 /\ t.first = 0
    BY <2>1 DEF Session!Elsewhere, Session!Copied, Conversation
  <2>3. threads = <<t>> /\ threads \in Seq(Conversation) /\ Len(threads) = 1 /\ DOMAIN threads = {1} /\ threads[1] = t
    BY <2>1, <2>2 DEF Session!Init
  <2>4. \A p \in Processes : desks[p] = Session!NoCommand
    BY DEF Session!Init
  <2>5. Session!NoCommand \in Command /\ Session!NoCommand.at = "idle" /\ Session!NoCommand.op = Nil
    BY DEF Session!NoCommand, Command, SessionSteps
  <2>6. messages = {} /\ handed = {} /\ runs \in Nat /\ desks \in [Processes -> Command]
    BY <2>5 DEF Session!Init
  <2>7. /\ session \in Session!Sessions \cup {Nil, Torn}
        /\ session \in Session!Sessions /\ session.thread # Nil => session.thread = 0 /\ session.marker = 0
    BY <2>1, <2>2 DEF Session!Init, Session!Sessions, Session!Copied, Session!SessionAssumption
  <2>8. SessionTyped
    BY <2>3, <2>4, <2>5, <2>6, <2>7 DEF SessionTyped
  <2>9. Numbered
    BY <2>2, <2>3 DEF Numbered
  <2>10. OneFills /\ \A p \in Processes : CommandHolds(p)
    BY <2>4, <2>5 DEF OneFills, CommandHolds
  <2>11. Marked
    BY <2>2, <2>3, <2>6, <2>7 DEF Marked, Began
  <2> QED
    BY <2>8, <2>9, <2>10, <2>11 DEF SessionHolds
<1>2. SessionHolds /\ [Session!Next]_Session!vars => SessionHolds'
  <2> SUFFICES ASSUME SessionHolds, [Session!Next]_Session!vars PROVE SessionHolds'
    OBVIOUS
  <2>1. CASE UNCHANGED Session!vars
    BY <2>1 DEF Session!vars, SessionHolds, SessionTyped, Numbered, OneFills, CommandHolds, Marked, Began, Ours
  <2>2. ASSUME NEW p \in Processes,
               \/ \E op \in {"open", "status"} : Session!Start(p, op)
               \/ Session!Look(p) \/ Session!Create(p) \/ Session!Fill(p) \/ Session!SyncRead(p) \/ Session!Find(p)
               \/ Session!Bind(p) \/ Session!ReadTurns(p) \/ Session!Keep(p) \/ Session!Answer(p) \/ Session!Fail(p)
        PROVE  SessionHolds'
    BY <2>2, SessionStarts, SessionLooks, SessionCreates, SessionFills, SessionReads, SessionFinds, SessionBinds,
       SessionReadsTurns, SessionKeeps, SessionAnswers, SessionFails
  <2> QED
    BY <2>1, <2>2, PersonConverses, PersonGoesOn DEF Session!Next
<1> QED
  BY <1>1, <1>2, PTL DEF Session!Spec

\* Whichever of several opens made the session, a prompt that was handed out carries
\* the marker the Desk looks for, its conversation began with it, and only what was
\* said in that conversation, in this directory, is kept as evidence (setupCompanion,
\* syncCompanion and openCompanion, with other processes and deaths between).
THEOREM SessionLeadsBack ==
  ASSUME Session!SessionAssumption
  PROVE  Session!Spec => [](Session!HandoffsLeadBack /\ Session!MessagesAreOurs)
<1>1. SessionHolds => Session!HandoffsLeadBack
  <2> SUFFICES ASSUME SessionHolds PROVE Session!HandoffsLeadBack
    OBVIOUS
  <2>1. Session!Whole(session) <=> session \in Session!Sessions
    BY SessionWhole DEF SessionHolds
  <2>2. ASSUME session \in Session!Sessions, session.thread # Nil
        PROVE  Session!ThreadOf(session.thread).first = session.marker
    <3>1. PICK n \in DOMAIN threads : threads[n].id = session.thread /\ threads[n].first = session.marker
      BY <2>2 DEF SessionHolds, Marked, Began
    <3> QED
      BY <3>1, ConversationOf DEF SessionHolds
  <2> QED
    BY <2>1, <2>2 DEF SessionHolds, Marked, Session!HandoffsLeadBack
<1>2. SessionHolds => Session!MessagesAreOurs
  <2> SUFFICES ASSUME SessionHolds, NEW m \in messages
               PROVE  /\ Session!ThreadOf(m[1]).here /\ m[2] <= Session!ThreadOf(m[1]).turns
                      /\ Session!Whole(session) /\ Session!ThreadOf(m[1]).first = session.marker
    BY DEF Session!MessagesAreOurs
  <2>1. session \in Session!Sessions /\ Ours(m[1], session.marker, m[2])
    BY DEF SessionHolds, Marked
  <2>2. PICK n \in DOMAIN threads :
          threads[n].id = m[1] /\ threads[n].first = session.marker /\ threads[n].here /\ m[2] <= threads[n].turns
    BY <2>1 DEF Ours
  <2>3. Session!ThreadOf(m[1]) = threads[n]
    BY <2>2, ConversationOf DEF SessionHolds
  <2> QED
    BY <2>1, <2>2, <2>3, SessionWhole DEF SessionHolds
<1> QED
  BY <1>1, <1>2, SessionAlways, PTL

-----------------------------------------------------------------------------
(* HubFeed: taking the last out of a finite set, again and again             *)

\* Counting up from 0 reaches every number.
LEMMA CountingUp ==
  ASSUME NEW S, 0 \in S, \A n \in Nat : n \in S => n + 1 \in S
  PROVE  Nat \subseteq S
<1> DEFINE T == Nat \ S
<1> SUFFICES ASSUME T # {} PROVE FALSE
  OBVIOUS
<1>1. T \subseteq Nat
  OBVIOUS
<1>2. \E t \in T : \A u \in T : ~(<<u, t>> \in OpToRel(<, Nat))
  <2> HIDE DEF T
  <2> QED
    BY <1>1, WFMin, NatLessThanWellFounded, Zenon
<1>3. PICK t \in T : \A u \in T : ~(u \in Nat /\ t \in Nat /\ u < t)
  <2> HIDE DEF T
  <2> QED
    BY <1>2, Zenon DEF OpToRel
<1>4. t \in Nat /\ t # 0 /\ t - 1 \in Nat /\ t - 1 < t
  OBVIOUS
<1>5. t - 1 \in S
  BY <1>3, <1>4
<1> QED
  BY <1>4, <1>5

\* Which row each of the subsets would give up.
Yields(rows, latest) == \A S \in SUBSET rows : S # {} => latest[S] \in S

LEMMA Sized ==
  ASSUME NEW rows, IsFiniteSet(rows), NEW S \in SUBSET rows
  PROVE  /\ IsFiniteSet(S) /\ Cardinality(S) \in Nat /\ Cardinality(S) <= Cardinality(rows)
         /\ Cardinality(S) <= 0 => S = {}
<1>1. IsFiniteSet(S) /\ Cardinality(S) <= Cardinality(rows)
  BY FS_Subset
<1>2. Cardinality(S) \in Nat /\ (Cardinality(S) = 0 <=> S = {})
  BY <1>1, FS_CardinalityType, FS_EmptySet
<1> QED
  BY <1>1, <1>2

LEMMA Smaller ==
  ASSUME NEW rows, IsFiniteSet(rows), NEW latest, Yields(rows, latest), NEW S \in SUBSET rows, S # {}
  PROVE  /\ latest[S] \in rows /\ S \ {latest[S]} \in SUBSET rows
         /\ Cardinality(S \ {latest[S]}) = Cardinality(S) - 1
<1>1. IsFiniteSet(S)
  BY Sized
<1> QED
  BY <1>1, FS_RemoveElement DEF Yields

\* What holds of no rows, and of rows if it holds without the one they give up,
\* holds of all.
LEMMA GivingUp ==
  ASSUME NEW rows, IsFiniteSet(rows), NEW latest, Yields(rows, latest), NEW Q, {} \in Q,
         \A S \in SUBSET rows : S # {} /\ S \ {latest[S]} \in Q => S \in Q
  PROVE  SUBSET rows \subseteq Q
<1> DEFINE K == {k \in Nat : \A S \in SUBSET rows : Cardinality(S) = k => S \in Q}
<1>1. 0 \in K
  <2> SUFFICES ASSUME NEW S \in SUBSET rows, Cardinality(S) = 0 PROVE S \in Q
    OBVIOUS
  <2>1. S = {}
    BY Sized
  <2> QED
    BY <2>1
<1>2. ASSUME NEW k \in Nat, k \in K PROVE k + 1 \in K
  <2> SUFFICES ASSUME NEW S \in SUBSET rows, Cardinality(S) = k + 1 PROVE S \in Q
    OBVIOUS
  <2>2. S # {}
    BY FS_EmptySet
  <2>1. S \ {latest[S]} \in SUBSET rows /\ Cardinality(S \ {latest[S]}) = k
    BY <2>2, Smaller
  <2> QED
    BY <1>2, <2>1, <2>2
<1>3. Nat \subseteq K
  <2> HIDE DEF K
  <2> QED
    BY <1>1, <1>2, CountingUp
<1> QED
  BY <1>3, Sized

\* A finite set that is ordered has a last element.
LEMMA LastExists ==
  ASSUME NEW rows, IsFiniteSet(rows), rows # {}, NEW order,
         \A i, j \in rows : i # j => <<i, j>> \in order \/ <<j, i>> \in order,
         \A i, j, k \in rows : <<i, j>> \in order /\ <<j, k>> \in order => <<i, k>> \in order
  PROVE  \E i \in rows : \A j \in rows \ {i} : <<j, i>> \in order
<1> DEFINE latest == [S \in SUBSET rows |-> CHOOSE i : i \in S]
           Q == {S \in SUBSET rows : S # {} => \E i \in S : \A j \in S \ {i} : <<j, i>> \in order}
<1>1. Yields(rows, latest)
  BY DEF Yields
<1>2. ASSUME NEW S \in SUBSET rows, S # {}, S \ {latest[S]} \in Q PROVE S \in Q
  <2> DEFINE x == latest[S]
  <2>1. x \in S
    BY <1>1, <1>2 DEF Yields
  <2> HIDE DEF latest
  <2>2. CASE S \ {x} = {}
    BY <2>1, <2>2
  <2>3. CASE S \ {x} # {}
    <3>1. PICK m \in S \ {x} : \A j \in (S \ {x}) \ {m} : <<j, m>> \in order
      BY <1>2, <2>3
    <3>2. CASE <<x, m>> \in order
      BY <3>1, <3>2
    <3>3. CASE <<m, x>> \in order
      <4>1. \A j \in S \ {x} : <<j, x>> \in order
        BY <2>1, <3>1, <3>3
      <4> QED
        BY <2>1, <4>1
    <3> QED
      BY <2>1, <3>1, <3>2, <3>3
  <2> QED
    BY <2>2, <2>3
<1>3. SUBSET rows \subseteq Q
  <2>1. {} \in Q
    OBVIOUS
  <2> HIDE DEF Q, latest
  <2> QED
    BY <1>1, <1>2, <2>1, GivingUp
<1> QED
  BY <1>3

\* A reduction of rows, from what each of them makes of a value.
Reduces(rows, start, step, latest, u) ==
  \A S \in SUBSET rows : u[S] = IF S = {} THEN start ELSE step[<<u[S \ {latest[S]}], latest[S]>>]

LEMMA ReductionExists ==
  ASSUME NEW rows, IsFiniteSet(rows), NEW V, NEW start \in V, NEW step \in [V \X rows -> V],
         NEW latest, Yields(rows, latest)
  PROVE  \E u \in [SUBSET rows -> V] : Reduces(rows, start, step, latest, u)
<1> DEFINE Made(u, S) == IF S = {} THEN start ELSE step[<<u[S \ {latest[S]}], latest[S]>>]
           K == {k \in Nat : \E u \in [SUBSET rows -> V] :
                   \A S \in SUBSET rows : Cardinality(S) <= k => u[S] = Made(u, S)}
<1>1. 0 \in K
  <2> DEFINE u == [S \in SUBSET rows |-> start]
  <2>1. ASSUME NEW S \in SUBSET rows, Cardinality(S) <= 0 PROVE u[S] = Made(u, S)
    <3>1. S = {}
      BY <2>1, Sized
    <3> QED
      BY <3>1
  <2>2. u \in [SUBSET rows -> V]
    OBVIOUS
  <2> HIDE DEF u, Made
  <2> QED
    BY <2>1, <2>2
<1>2. ASSUME NEW k \in Nat, k \in K PROVE k + 1 \in K
  <2>1. PICK u \in [SUBSET rows -> V] : \A S \in SUBSET rows : Cardinality(S) <= k => u[S] = Made(u, S)
    BY <1>2
  <2> DEFINE v == [S \in SUBSET rows |-> IF Cardinality(S) <= k THEN u[S] ELSE Made(u, S)]
  <2>2. ASSUME NEW S \in SUBSET rows PROVE Made(u, S) \in V
    <3>1. CASE S = {}
      BY <3>1
    <3>2. CASE S # {}
      <4>1. u[S \ {latest[S]}] \in V /\ latest[S] \in rows
        BY <2>1, <3>2, Smaller DEF Yields
      <4> QED
        BY <3>2, <4>1
    <3> QED
      BY <3>1, <3>2
  <2>3. v \in [SUBSET rows -> V]
    <3> HIDE DEF Made
    <3> QED
      BY <2>1, <2>2
  <2>4. ASSUME NEW S \in SUBSET rows, Cardinality(S) <= k + 1 PROVE v[S] = Made(v, S)
    <3>1. v[S] = Made(u, S)
      <4> HIDE DEF Made
      <4> QED
        BY <2>1
    <3>2. S # {} => v[S \ {latest[S]}] = u[S \ {latest[S]}]
      <4> SUFFICES ASSUME S # {} PROVE v[S \ {latest[S]}] = u[S \ {latest[S]}]
        OBVIOUS
      <4>1. S \ {latest[S]} \in SUBSET rows /\ Cardinality(S) \in Nat /\ Cardinality(S \ {latest[S]}) = Cardinality(S) - 1
        BY Sized, Smaller
      <4>2. Cardinality(S \ {latest[S]}) <= k
        BY <2>4, <4>1
      <4> HIDE DEF Made
      <4> QED
        BY <4>1, <4>2
    <3> HIDE DEF v
    <3> QED
      BY <3>1, <3>2
  <2> HIDE DEF v, Made
  <2> QED
    BY <2>3, <2>4
<1>3. Nat \subseteq K
  <2> HIDE DEF K
  <2> QED
    BY <1>1, <1>2, CountingUp
<1>4. Cardinality(rows) \in K
  BY <1>3, FS_CardinalityType
<1>5. PICK u \in [SUBSET rows -> V] : \A S \in SUBSET rows : Cardinality(S) <= Cardinality(rows) => u[S] = Made(u, S)
  BY <1>4
<1> QED
  BY <1>5, Sized DEF Reduces

-----------------------------------------------------------------------------
(* HubFeed: its events, and their orders                                     *)

HubEvents ==
  [id : Nat, run : Run, sequence : Nat, time : Times, kind : Hub!FeedKind \cup Hub!RunKind,
   item : SUBSET Item, revision : Nat, sources : SUBSET Source]

\* An update is of a revision after the first, which is the published one, and
\* takes a number no smaller than what it revises.  k events were sent.
Sensible(e, k) ==
  /\ e.id <= k /\ e.revision <= e.id
  /\ e.kind = "feed.item.published" => e.revision = 1
  /\ e.kind = "feed.item.updated" => e.revision >= 2

\* An event has an id of its own, wherever it is.
HubKept ==
  /\ sent \in Nat /\ sent <= MaxSent /\ last \in [Run -> Nat]
  /\ seen \in [Run -> [Item -> Nat]] /\ \A r \in Run, f \in Item : seen[r][f] <= sent
  /\ log \in Seq(HubEvents) /\ flight \subseteq HubEvents
  /\ \A i \in DOMAIN log : Sensible(log[i], sent)
  /\ \A e \in flight : Sensible(e, sent)
  /\ \A i, j \in DOMAIN log : log[i].id = log[j].id => i = j
  /\ \A d, e \in flight : d.id = e.id => d = e
  /\ \A i \in DOMAIN log : \A e \in flight : log[i].id # e.id

\* compareEventOrder, and the revisions before it, tell any two events apart.
LEMMA BeforeOrders ==
  ASSUME Hub!FeedAssumption
  PROVE  /\ \A d, e \in HubEvents : Hub!Before(d, e) => ~Hub!Before(e, d)
         /\ \A d, e \in HubEvents : d.id # e.id => Hub!Before(d, e) \/ Hub!Before(e, d)
         /\ \A c, d, e \in HubEvents : Hub!Before(c, d) /\ Hub!Before(d, e) => Hub!Before(c, e)
<1>1. \A e \in HubEvents : e.id \in Nat /\ e.sequence \in Nat /\ e.time \in Nat
  BY DEF HubEvents, Hub!FeedAssumption
<1> QED
  BY <1>1 DEF Hub!Before

LEMMA RevisionBeforeOrders ==
  ASSUME Hub!FeedAssumption
  PROVE  /\ \A d, e \in HubEvents : Hub!RevisionBefore(d, e) => ~Hub!RevisionBefore(e, d)
         /\ \A d, e \in HubEvents : d.id # e.id => Hub!RevisionBefore(d, e) \/ Hub!RevisionBefore(e, d)
         /\ \A c, d, e \in HubEvents :
              Hub!RevisionBefore(c, d) /\ Hub!RevisionBefore(d, e) => Hub!RevisionBefore(c, e)
<1>1. \A e \in HubEvents : e.revision \in Nat
  BY DEF HubEvents
<1> QED
  BY <1>1, BeforeOrders DEF Hub!RevisionBefore

LEMMA RowsAre ==
  ASSUME HubKept
  PROVE  /\ IsFiniteSet(DOMAIN log) /\ Hub!Table = DOMAIN log /\ DOMAIN log \subseteq Nat
         /\ Cardinality(DOMAIN log) = Len(log) /\ Len(log) \in Nat
         /\ \A i \in DOMAIN log : log[i] \in HubEvents
<1>1. Len(log) \in Nat /\ DOMAIN log = 1 .. Len(log) /\ \A i \in DOMAIN log : log[i] \in HubEvents
  BY DEF HubKept
<1>2. IsFiniteSet(1 .. Len(log)) /\ Cardinality(1 .. Len(log)) = Len(log)
  BY <1>1, FS_Interval
<1> QED
  BY <1>1, <1>2 DEF Hub!Table

LEMMA RowOrder ==
  ASSUME Hub!FeedAssumption, HubKept, NEW i \in DOMAIN log, NEW j \in DOMAIN log, i # j
  PROVE  /\ Hub!Ahead(i, j) <=> Hub!Before(log[i], log[j])
         /\ Hub!RevisionAhead(i, j) <=> Hub!RevisionBefore(log[i], log[j])
<1>1. log[i] \in HubEvents /\ log[j] \in HubEvents /\ log[i].id # log[j].id
  BY RowsAre DEF HubKept
<1> QED
  BY <1>1, BeforeOrders, RevisionBeforeOrders DEF Hub!Ahead, Hub!RevisionAhead

\* The last and the first of some rows.
LEMMA LatestIs ==
  ASSUME Hub!FeedAssumption, HubKept, NEW S \in SUBSET DOMAIN log, S # {}
  PROVE  /\ Hub!Latest(S) \in S
         /\ \A j \in S \ {Hub!Latest(S)} : Hub!Before(log[j], log[Hub!Latest(S)])
<1> DEFINE order == {p \in S \X S : Hub!Before(log[p[1]], log[p[2]])}
<1>1. IsFiniteSet(S) /\ \A i \in S : log[i] \in HubEvents
  BY RowsAre, FS_Subset
<1>2. \A i, j \in S : <<i, j>> \in order <=> Hub!Before(log[i], log[j])
  OBVIOUS
<1> HIDE DEF order
<1>3. \A i, j \in S : i # j => <<i, j>> \in order \/ <<j, i>> \in order
  BY <1>1, <1>2, BeforeOrders DEF HubKept
<1>4. \A i, j, k \in S : <<i, j>> \in order /\ <<j, k>> \in order => <<i, k>> \in order
  BY <1>1, <1>2, BeforeOrders
<1>5. \E i \in S : \A j \in S \ {i} : <<j, i>> \in order
  BY <1>1, <1>3, <1>4, LastExists
<1>6. \A i, j \in S : i # j => (Hub!Ahead(i, j) <=> Hub!Before(log[i], log[j]))
  BY RowOrder
<1>7. \E i \in S : \A j \in S \ {i} : Hub!Ahead(j, i)
  BY <1>2, <1>5, <1>6
<1>8. Hub!Latest(S) \in S /\ \A j \in S \ {Hub!Latest(S)} : Hub!Ahead(j, Hub!Latest(S))
  BY <1>7, Zenon DEF Hub!Latest
<1> QED
  BY <1>6, <1>8

LEMMA LatestRevisionIs ==
  ASSUME Hub!FeedAssumption, HubKept, NEW S \in SUBSET DOMAIN log, S # {}
  PROVE  /\ Hub!LatestRevision(S) \in S
         /\ \A j \in S \ {Hub!LatestRevision(S)} : Hub!RevisionBefore(log[j], log[Hub!LatestRevision(S)])
<1> DEFINE order == {p \in S \X S : Hub!RevisionBefore(log[p[1]], log[p[2]])}
<1>1. IsFiniteSet(S) /\ \A i \in S : log[i] \in HubEvents
  BY RowsAre, FS_Subset
<1>2. \A i, j \in S : <<i, j>> \in order <=> Hub!RevisionBefore(log[i], log[j])
  OBVIOUS
<1> HIDE DEF order
<1>3. \A i, j \in S : i # j => <<i, j>> \in order \/ <<j, i>> \in order
  BY <1>1, <1>2, RevisionBeforeOrders DEF HubKept
<1>4. \A i, j, k \in S : <<i, j>> \in order /\ <<j, k>> \in order => <<i, k>> \in order
  BY <1>1, <1>2, RevisionBeforeOrders
<1>5. \E i \in S : \A j \in S \ {i} : <<j, i>> \in order
  BY <1>1, <1>3, <1>4, LastExists
<1>6. \A i, j \in S : i # j => (Hub!RevisionAhead(i, j) <=> Hub!RevisionBefore(log[i], log[j]))
  BY RowOrder
<1>7. \E i \in S : \A j \in S \ {i} : Hub!RevisionAhead(j, i)
  BY <1>2, <1>5, <1>6
<1>8. /\ Hub!LatestRevision(S) \in S
      /\ \A j \in S \ {Hub!LatestRevision(S)} : Hub!RevisionAhead(j, Hub!LatestRevision(S))
  BY <1>7, Zenon DEF Hub!LatestRevision
<1> QED
  BY <1>6, <1>8

LEMMA EarliestRevisionIs ==
  ASSUME Hub!FeedAssumption, HubKept, NEW S \in SUBSET DOMAIN log, S # {}
  PROVE  /\ Hub!EarliestRevision(S) \in S
         /\ \A j \in S \ {Hub!EarliestRevision(S)} : Hub!RevisionBefore(log[Hub!EarliestRevision(S)], log[j])
<1> DEFINE order == {p \in S \X S : Hub!RevisionBefore(log[p[2]], log[p[1]])}
<1>1. IsFiniteSet(S) /\ \A i \in S : log[i] \in HubEvents
  BY RowsAre, FS_Subset
<1>2. \A i, j \in S : <<i, j>> \in order <=> Hub!RevisionBefore(log[j], log[i])
  OBVIOUS
<1> HIDE DEF order
<1>3. \A i, j \in S : i # j => <<i, j>> \in order \/ <<j, i>> \in order
  BY <1>1, <1>2, RevisionBeforeOrders DEF HubKept
<1>4. \A i, j, k \in S : <<i, j>> \in order /\ <<j, k>> \in order => <<i, k>> \in order
  BY <1>1, <1>2, RevisionBeforeOrders
<1>5. \E i \in S : \A j \in S \ {i} : <<j, i>> \in order
  BY <1>1, <1>3, <1>4, LastExists
<1>6. \A i, j \in S : i # j => (Hub!RevisionAhead(i, j) <=> Hub!RevisionBefore(log[i], log[j]))
  BY RowOrder
<1>7. \E i \in S : \A j \in S \ {i} : Hub!RevisionAhead(i, j)
  BY <1>2, <1>5, <1>6
<1>8. /\ Hub!EarliestRevision(S) \in S
      /\ \A j \in S \ {Hub!EarliestRevision(S)} : Hub!RevisionAhead(Hub!EarliestRevision(S), j)
  BY <1>7, Zenon DEF Hub!EarliestRevision
<1> QED
  BY <1>6, <1>8

LEMMA HubCardinality == \A S : Hub!Cardinality(S) = Cardinality(S)
  BY DEF Hub!Cardinality, Cardinality

\* A list that fits a read is not cut.
LEMMA ListedWhole ==
  ASSUME Hub!FeedAssumption, HubKept, Len(log) <= MaxRead, NEW rows \in SUBSET DOMAIN log
  PROVE  Hub!Listed(rows) = rows
<1> SUFFICES ASSUME NEW i \in rows
             PROVE  Hub!Cardinality({j \in rows \ {i} : Hub!Ahead(j, i)}) < MaxRead
  BY DEF Hub!Listed
<1> DEFINE above == {j \in rows \ {i} : Hub!Ahead(j, i)}
           others == DOMAIN log \ {i}
<1>1. IsFiniteSet(DOMAIN log) /\ Cardinality(DOMAIN log) = Len(log) /\ Len(log) \in Nat /\ MaxRead \in Nat
  BY RowsAre DEF Hub!FeedAssumption
<1>2. IsFiniteSet(others) /\ Cardinality(others) = Len(log) - 1
  BY <1>1, FS_RemoveElement
<1>3. above \subseteq others
  OBVIOUS
<1> HIDE DEF above, others
<1>4. Cardinality(above) <= Len(log) - 1 /\ Cardinality(above) \in Nat
  BY <1>2, <1>3, FS_Subset, FS_CardinalityType
<1>5. Hub!Cardinality(above) < MaxRead
  BY <1>1, <1>4, HubCardinality
<1> QED
  BY <1>5 DEF above

LEMMA LatestYields ==
  ASSUME Hub!FeedAssumption, HubKept, NEW rows \in SUBSET DOMAIN log
  PROVE  Yields(rows, [S \in SUBSET rows |-> Hub!Latest(S)])
  BY LatestIs DEF Yields

LEMMA LatestRevisionYields ==
  ASSUME Hub!FeedAssumption, HubKept, NEW rows \in SUBSET DOMAIN log
  PROVE  Yields(rows, [S \in SUBSET rows |-> Hub!LatestRevision(S)])
  BY LatestRevisionIs DEF Yields

-----------------------------------------------------------------------------
(* HubFeed: the status of a run                                              *)

StatusUpto(rows) ==
  CHOOSE u : u = [S \in SUBSET rows |->
                    IF S = {} THEN "pending"
                    ELSE Hub!StatusAfter(u[S \ {Hub!Latest(S)}], log[Hub!Latest(S)])]

LEMMA RunStatusIsUpto ==
  ASSUME NEW r PROVE Hub!RunStatus(r) = StatusUpto(Hub!OfRun(r))[Hub!OfRun(r)]
  BY DEF Hub!RunStatus, StatusUpto

LEMMA StatusUptoIs ==
  ASSUME Hub!FeedAssumption, HubKept, NEW rows \in SUBSET DOMAIN log
  PROVE  /\ StatusUpto(rows)[{}] = "pending"
         /\ \A S \in SUBSET rows : S # {} =>
              StatusUpto(rows)[S] = Hub!StatusAfter(StatusUpto(rows)[S \ {Hub!Latest(S)}], log[Hub!Latest(S)])
<1> DEFINE V == {"pending", "running", "awaiting_approval", "partial", "completed", "failed"}
           step == [p \in V \X rows |-> Hub!StatusAfter(p[1], log[p[2]])]
           latest == [S \in SUBSET rows |-> Hub!Latest(S)]
           Made(u, S) == IF S = {} THEN "pending"
                         ELSE Hub!StatusAfter(u[S \ {Hub!Latest(S)}], log[Hub!Latest(S)])
<1>1. step \in [V \X rows -> V]
  <2>1. \A s \in V : \A e : Hub!StatusAfter(s, e) \in V
    BY DEF Hub!StatusAfter
  <2> HIDE DEF V
  <2> QED
    BY <2>1
<1>2. IsFiniteSet(rows) /\ Yields(rows, latest) /\ "pending" \in V
  BY LatestYields, RowsAre, FS_Subset
<1>3. PICK u \in [SUBSET rows -> V] : Reduces(rows, "pending", step, latest, u)
  <2> HIDE DEF V, step, latest
  <2> QED
    BY <1>1, <1>2, ReductionExists
<1>4. \A S \in SUBSET rows : u[S] = Made(u, S)
  <2> TAKE S \in SUBSET rows
  <2>1. S # {} => Hub!Latest(S) \in rows /\ u[S \ {Hub!Latest(S)}] \in V /\ latest[S] = Hub!Latest(S)
    BY <1>2, <1>3 DEF Yields
  <2>2. u[S] = IF S = {} THEN "pending" ELSE step[<<u[S \ {latest[S]}], latest[S]>>]
    BY <1>3 DEF Reduces
  <2> HIDE DEF V, latest
  <2> QED
    BY <2>1, <2>2
<1>5. u = [S \in SUBSET rows |-> Made(u, S)]
  <2> HIDE DEF V, Made
  <2> QED
    BY <1>4
<1> DEFINE x == StatusUpto(rows)
<1>6. x = [S \in SUBSET rows |-> Made(x, S)]
  BY <1>5, Zenon DEF StatusUpto
<1> HIDE DEF x
<1>7. \A S \in SUBSET rows : x[S] = Made(x, S)
  <2> HIDE DEF Made
  <2> QED
    BY <1>6
<1> QED
  BY <1>7 DEF x

\* A run is where its last known event put it.
LEMMA StatusComesTo ==
  ASSUME Hub!FeedAssumption, HubKept, NEW rows \in SUBSET DOMAIN log
  PROVE  StatusUpto(rows)[rows] = Hub!StatusOf({log[i] : i \in rows})
<1> DEFINE u == StatusUpto(rows)
           latest == [S \in SUBSET rows |-> Hub!Latest(S)]
           Known(S) == {i \in S : log[i].kind # "unknown"}
           Good(S) == \/ Known(S) = {} /\ u[S] = "pending"
                      \/ \E i \in Known(S) : /\ \A j \in Known(S) \ {i} : Hub!Before(log[j], log[i])
                                             /\ u[S] = Hub!StatusAfter("pending", log[i])
           Q == {S \in SUBSET rows : Good(S)}
<1>1. IsFiniteSet(rows) /\ Yields(rows, latest) /\ \A i \in rows : log[i] \in HubEvents
  BY LatestYields, RowsAre, FS_Subset
<1>2. /\ u[{}] = "pending"
      /\ \A S \in SUBSET rows : S # {} => u[S] = Hub!StatusAfter(u[S \ {Hub!Latest(S)}], log[Hub!Latest(S)])
  BY StatusUptoIs
<1>3. \A s, e : e.kind = "unknown" => Hub!StatusAfter(s, e) = s
  BY DEF Hub!StatusAfter, Hub!FeedKind
<1>4. \A s, t : \A e \in HubEvents : e.kind # "unknown" => Hub!StatusAfter(s, e) = Hub!StatusAfter(t, e)
  BY DEF Hub!StatusAfter, Hub!FeedKind, Hub!RunKind, HubEvents
<1> HIDE DEF u
<1>5. {} \in Q
  BY <1>2
<1>6. ASSUME NEW S \in SUBSET rows, S # {}, S \ {latest[S]} \in Q PROVE S \in Q
  <2> DEFINE i == Hub!Latest(S)
             T == S \ {i}
  <2>1. i \in S /\ \A j \in T : Hub!Before(log[j], log[i])
    BY <1>6, LatestIs
  <2>2. latest[S] = i /\ u[S] = Hub!StatusAfter(u[T], log[i])
    BY <1>2, <1>6
  <2> HIDE DEF i
  <2>3. Good(T)
    BY <1>6, <2>2
  <2>4. CASE log[i].kind = "unknown"
    <3>1. u[S] = u[T] /\ Known(S) = Known(T)
      BY <1>3, <2>1, <2>2, <2>4
    <3> QED
      BY <2>3, <3>1
  <2>5. CASE log[i].kind # "unknown"
    <3>1. i \in Known(S) /\ \A j \in Known(S) \ {i} : Hub!Before(log[j], log[i])
      BY <2>1, <2>5
    <3>2. u[S] = Hub!StatusAfter("pending", log[i])
      BY <1>1, <1>4, <2>1, <2>2, <2>5
    <3> QED
      BY <3>1, <3>2
  <2> QED
    BY <2>4, <2>5
<1>7. Good(rows)
  <2>1. SUBSET rows \subseteq Q
    <3> HIDE DEF Q, latest
    <3> QED
      BY <1>1, <1>5, <1>6, GivingUp
  <2> QED
    BY <2>1
<1> DEFINE known == {e \in {log[i] : i \in rows} : e.kind # "unknown"}
<1>8. known = {log[i] : i \in Known(rows)}
  OBVIOUS
<1>9. CASE Known(rows) = {} /\ u[rows] = "pending"
  BY <1>8, <1>9 DEF Hub!StatusOf, u
<1>10. ASSUME NEW i \in Known(rows), \A j \in Known(rows) \ {i} : Hub!Before(log[j], log[i]),
              u[rows] = Hub!StatusAfter("pending", log[i])
       PROVE  u[rows] = Hub!StatusOf({log[j] : j \in rows})
  <2>1. log[i] \in known /\ \A e \in known \ {log[i]} : Hub!Before(e, log[i]) /\ ~Hub!Before(log[i], e)
    BY <1>1, <1>8, <1>10, BeforeOrders
  <2> HIDE DEF known
  <2>2. Hub!Final(known) = {log[i]}
    BY <2>1 DEF Hub!Final
  <2>3. known # {} /\ (CHOOSE e \in Hub!Final(known) : TRUE) = log[i]
    BY <2>1, <2>2
  <2> QED
    BY <1>10, <2>3 DEF Hub!StatusOf, known
<1> QED
  BY <1>7, <1>9, <1>10 DEF u

-----------------------------------------------------------------------------
(* HubFeed: the sources                                                      *)

NoSources == [s \in Source |-> [last |-> {}, events |-> {}, runs |-> {}]]

SourcesUpto(rows) ==
  CHOOSE u : u = [S \in SUBSET rows |->
                    IF S = {} THEN NoSources
                    ELSE Hub!Describe(u[S \ {Hub!Latest(S)}], log[Hub!Latest(S)])]

LEMMA SourceItemsIsUpto ==
  ASSUME NEW rows PROVE Hub!SourceItems(rows) = SourcesUpto(rows)[rows]
  BY DEF Hub!SourceItems, SourcesUpto, NoSources

LEMMA SourcesUptoIs ==
  ASSUME Hub!FeedAssumption, HubKept, NEW rows \in SUBSET DOMAIN log
  PROVE  /\ SourcesUpto(rows)[{}] = NoSources
         /\ \A S \in SUBSET rows : S # {} =>
              SourcesUpto(rows)[S] = Hub!Describe(SourcesUpto(rows)[S \ {Hub!Latest(S)}], log[Hub!Latest(S)])
<1> DEFINE V == [Source -> [last : SUBSET Nat, events : SUBSET Nat, runs : SUBSET Run]]
           step == [p \in V \X rows |-> Hub!Describe(p[1], log[p[2]])]
           latest == [S \in SUBSET rows |-> Hub!Latest(S)]
           Made(u, S) == IF S = {} THEN NoSources
                         ELSE Hub!Describe(u[S \ {Hub!Latest(S)}], log[Hub!Latest(S)])
<1>1. step \in [V \X rows -> V]
  <2>1. \A i \in rows : log[i] \in HubEvents
    BY RowsAre
  <2>2. ASSUME NEW v \in V, NEW e \in HubEvents PROVE Hub!Describe(v, e) \in V
    BY DEF Hub!Describe, HubEvents
  <2> HIDE DEF V
  <2> QED
    BY <2>1, <2>2
<1>2. IsFiniteSet(rows) /\ Yields(rows, latest) /\ NoSources \in V
  BY LatestYields, RowsAre, FS_Subset DEF NoSources
<1>3. PICK u \in [SUBSET rows -> V] : Reduces(rows, NoSources, step, latest, u)
  <2> HIDE DEF V, step, latest
  <2> QED
    BY <1>1, <1>2, ReductionExists
<1>4. \A S \in SUBSET rows : u[S] = Made(u, S)
  <2> TAKE S \in SUBSET rows
  <2>1. S # {} => Hub!Latest(S) \in rows /\ u[S \ {Hub!Latest(S)}] \in V /\ latest[S] = Hub!Latest(S)
    <3> HIDE DEF V
    <3> QED
      BY <1>2, <1>3 DEF Yields
  <2>2. u[S] = IF S = {} THEN NoSources ELSE step[<<u[S \ {latest[S]}], latest[S]>>]
    <3> HIDE DEF V, step, latest
    <3> QED
      BY <1>3 DEF Reduces
  <2> HIDE DEF V, latest
  <2> QED
    BY <2>1, <2>2
<1>5. u = [S \in SUBSET rows |-> Made(u, S)]
  <2> HIDE DEF V, Made
  <2> QED
    BY <1>4
<1> DEFINE x == SourcesUpto(rows)
<1>6. x = [S \in SUBSET rows |-> Made(x, S)]
  BY <1>5, Zenon DEF SourcesUpto
<1> HIDE DEF x
<1>7. \A S \in SUBSET rows : x[S] = Made(x, S)
  <2> HIDE DEF Made
  <2> QED
    BY <1>6
<1> QED
  BY <1>7 DEF x

\* A source is as its last citer described it.
LEMMA SourcesComeTo ==
  ASSUME Hub!FeedAssumption, HubKept, NEW rows \in SUBSET DOMAIN log, NEW s \in Source
  PROVE  SourcesUpto(rows)[rows][s].last
           = {e.id : e \in Hub!Final({d \in {log[i] : i \in rows} : s \in d.sources})}
<1> DEFINE u == SourcesUpto(rows)
           latest == [S \in SUBSET rows |-> Hub!Latest(S)]
           Citing(S) == {i \in S : s \in log[i].sources}
           Good(S) == \/ Citing(S) = {} /\ u[S][s].last = {}
                      \/ \E i \in Citing(S) : /\ \A j \in Citing(S) \ {i} : Hub!Before(log[j], log[i])
                                              /\ u[S][s].last = {log[i].id}
           Q == {S \in SUBSET rows : Good(S)}
<1>1. IsFiniteSet(rows) /\ Yields(rows, latest) /\ \A i \in rows : log[i] \in HubEvents
  BY LatestYields, RowsAre, FS_Subset
<1>2. /\ u[{}] = NoSources
      /\ \A S \in SUBSET rows : S # {} => u[S] = Hub!Describe(u[S \ {Hub!Latest(S)}], log[Hub!Latest(S)])
  BY SourcesUptoIs
<1>3. \A v, e : /\ s \notin e.sources => Hub!Describe(v, e)[s] = v[s]
                /\ s \in e.sources => Hub!Describe(v, e)[s].last = {e.id}
  BY DEF Hub!Describe
<1> HIDE DEF u
<1>5. {} \in Q
  BY <1>2 DEF NoSources
<1>6. ASSUME NEW S \in SUBSET rows, S # {}, S \ {latest[S]} \in Q PROVE S \in Q
  <2> DEFINE i == Hub!Latest(S)
             T == S \ {i}
  <2>1. i \in S /\ \A j \in T : Hub!Before(log[j], log[i])
    BY <1>6, LatestIs
  <2>2. latest[S] = i /\ u[S] = Hub!Describe(u[T], log[i])
    BY <1>2, <1>6
  <2> HIDE DEF i
  <2>3. Good(T)
    BY <1>6, <2>2
  <2>4. CASE s \notin log[i].sources
    <3>1. u[S][s] = u[T][s] /\ Citing(S) = Citing(T)
      BY <1>3, <2>1, <2>2, <2>4
    <3> QED
      BY <2>3, <3>1
  <2>5. CASE s \in log[i].sources
    <3>1. i \in Citing(S) /\ \A j \in Citing(S) \ {i} : Hub!Before(log[j], log[i])
      BY <2>1, <2>5
    <3>2. u[S][s].last = {log[i].id}
      BY <1>3, <2>2, <2>5
    <3> QED
      BY <3>1, <3>2
  <2> QED
    BY <2>4, <2>5
<1>7. Good(rows)
  <2>1. SUBSET rows \subseteq Q
    <3> HIDE DEF Q, latest
    <3> QED
      BY <1>1, <1>5, <1>6, GivingUp
  <2> QED
    BY <2>1
<1> DEFINE citing == {d \in {log[i] : i \in rows} : s \in d.sources}
<1>8. citing = {log[i] : i \in Citing(rows)}
  OBVIOUS
<1>9. CASE Citing(rows) = {} /\ u[rows][s].last = {}
  <2>1. citing = {}
    BY <1>8, <1>9
  <2> HIDE DEF citing
  <2>2. Hub!Final(citing) = {}
    BY <2>1 DEF Hub!Final
  <2> QED
    BY <1>9, <2>2 DEF citing, u
<1>10. ASSUME NEW i \in Citing(rows), \A j \in Citing(rows) \ {i} : Hub!Before(log[j], log[i]),
              u[rows][s].last = {log[i].id}
       PROVE  u[rows][s].last = {e.id : e \in Hub!Final(citing)}
  <2>1. log[i] \in citing /\ \A e \in citing \ {log[i]} : Hub!Before(e, log[i]) /\ ~Hub!Before(log[i], e)
    BY <1>1, <1>8, <1>10, BeforeOrders
  <2> HIDE DEF citing
  <2>2. Hub!Final(citing) = {log[i]}
    BY <2>1 DEF Hub!Final
  <2> QED
    BY <1>10, <2>2
<1> QED
  BY <1>7, <1>9, <1>10 DEF u

-----------------------------------------------------------------------------
(* HubFeed: the items                                                        *)

EventsOf(rows) == {log[i] : i \in rows}

\* The events that put an item at its n-th revision.
RevisionTo(events, f, n) ==
  {e \in events : /\ f \in e.item /\ e.revision = n
                  /\ e.kind = IF n = 1 THEN "feed.item.published" ELSE "feed.item.updated"}

FirstPayload(rows, f) == log[Hub!EarliestRevision(Hub!Publications(rows, f))]

PayloadUpto(rows, f) ==
  CHOOSE u : u = [S \in SUBSET Hub!Revisions(rows, f) |->
                    IF S = {} THEN FirstPayload(rows, f)
                    ELSE Hub!Apply(u[S \ {Hub!LatestRevision(S)}], log[Hub!LatestRevision(S)])]

LEMMA CurrentIsUpto ==
  ASSUME NEW rows, NEW f
  PROVE  Hub!Current(rows, f) = IF Hub!Publications(rows, f) = {} THEN {}
                                ELSE {PayloadUpto(rows, f)[Hub!Revisions(rows, f)]}
  BY DEF Hub!Current, PayloadUpto, FirstPayload

\* An item starts with the first event that published it.
LEMMA FirstPayloadIs ==
  ASSUME Hub!FeedAssumption, HubKept, NEW rows \in SUBSET DOMAIN log, NEW f, Hub!Publications(rows, f) # {}
  PROVE  LET p == FirstPayload(rows, f) IN
         /\ p \in {log[i] : i \in Hub!Revisions(rows, f)}
         /\ p \in RevisionTo(EventsOf(rows), f, 1)
         /\ \A e \in RevisionTo(EventsOf(rows), f, 1) \ {p} : Hub!Before(p, e)
<1> DEFINE P == Hub!Publications(rows, f)
           i == Hub!EarliestRevision(P)
<1>1. P \in SUBSET DOMAIN log /\ P \subseteq Hub!Revisions(rows, f) /\ P # {}
  BY DEF Hub!Publications, Hub!Revisions
<1>2. i \in P /\ \A j \in P \ {i} : Hub!RevisionBefore(log[i], log[j])
  <2> HIDE DEF P
  <2> QED
    BY <1>1, EarliestRevisionIs
<1>3. \A j \in rows : log[j].kind = "feed.item.published" => log[j].revision = 1
  BY DEF HubKept, Sensible
<1>4. RevisionTo(EventsOf(rows), f, 1) = {log[j] : j \in P}
  BY <1>3 DEF RevisionTo, EventsOf, Hub!Publications, Hub!Revisions
<1>5. \A j \in P : log[j].revision = 1
  BY <1>3 DEF Hub!Publications, Hub!Revisions
<1>6. FirstPayload(rows, f) = log[i]
  BY DEF FirstPayload
<1> HIDE DEF P, i
<1>7. \A j \in P \ {i} : Hub!Before(log[i], log[j])
  BY <1>2, <1>5 DEF Hub!RevisionBefore
<1> QED
  BY <1>1, <1>2, <1>4, <1>6, <1>7

LEMMA PayloadUptoIs ==
  ASSUME Hub!FeedAssumption, HubKept, NEW rows \in SUBSET DOMAIN log, NEW f, Hub!Publications(rows, f) # {}
  PROVE  LET R == Hub!Revisions(rows, f)
             u == PayloadUpto(rows, f)
         IN  /\ u[{}] = FirstPayload(rows, f) /\ u \in [SUBSET R -> {log[i] : i \in R}]
             /\ \A S \in SUBSET R : S # {} =>
                  u[S] = Hub!Apply(u[S \ {Hub!LatestRevision(S)}], log[Hub!LatestRevision(S)])
<1> DEFINE R == Hub!Revisions(rows, f)
           V == {log[i] : i \in R}
           start == FirstPayload(rows, f)
           step == [p \in V \X R |-> Hub!Apply(p[1], log[p[2]])]
           latest == [S \in SUBSET R |-> Hub!LatestRevision(S)]
           Made(u, S) == IF S = {} THEN start
                         ELSE Hub!Apply(u[S \ {Hub!LatestRevision(S)}], log[Hub!LatestRevision(S)])
<1>1. step \in [V \X R -> V]
  <2>1. \A p, e : Hub!Apply(p, e) \in {p, e}
    BY DEF Hub!Apply
  <2> HIDE DEF R
  <2> QED
    BY <2>1
<1>2. IsFiniteSet(R) /\ Yields(R, latest) /\ start \in V
  <2>1. R \in SUBSET DOMAIN log
    BY DEF Hub!Revisions
  <2>2. start \in V
    BY FirstPayloadIs
  <2>3. IsFiniteSet(R)
    <3> HIDE DEF R
    <3> QED
      BY <2>1, RowsAre, FS_Subset
  <2> HIDE DEF R, start
  <2> QED
    BY <2>1, <2>2, <2>3, LatestRevisionYields
<1> HIDE DEF R, start
<1>3. PICK u \in [SUBSET R -> V] : Reduces(R, start, step, latest, u)
  <2> HIDE DEF V, step, latest
  <2> QED
    BY <1>1, <1>2, ReductionExists
<1>4. \A S \in SUBSET R : u[S] = Made(u, S)
  <2> TAKE S \in SUBSET R
  <2>1. S # {} => Hub!LatestRevision(S) \in R /\ u[S \ {Hub!LatestRevision(S)}] \in V /\ latest[S] = Hub!LatestRevision(S)
    <3> HIDE DEF V
    <3> QED
      BY <1>2, <1>3 DEF Yields
  <2>2. u[S] = IF S = {} THEN start ELSE step[<<u[S \ {latest[S]}], latest[S]>>]
    <3> HIDE DEF V, step, latest
    <3> QED
      BY <1>3 DEF Reduces
  <2> HIDE DEF V, latest
  <2> QED
    BY <2>1, <2>2
<1>5. u = [S \in SUBSET R |-> Made(u, S)]
  <2> HIDE DEF V, Made
  <2> QED
    BY <1>4
<1> DEFINE x == PayloadUpto(rows, f)
<1>6. x = [S \in SUBSET R |-> Made(x, S)]
  BY <1>5, Zenon DEF PayloadUpto, R, start
<1> HIDE DEF x
<1>7. \A S \in SUBSET R : x[S] = Made(x, S)
  <2> HIDE DEF Made
  <2> QED
    BY <1>6
<1>8. x \in [SUBSET R -> V]
  <2> DEFINE Q == {S \in SUBSET R : x[S] \in V}
  <2>1. {} \in Q
    BY <1>2, <1>7
  <2>2. ASSUME NEW S \in SUBSET R, S # {}, S \ {latest[S]} \in Q PROVE S \in Q
    <3>1. latest[S] = Hub!LatestRevision(S) /\ latest[S] \in R
      BY <1>2, <2>2 DEF Yields
    <3>2. x[S] \in {x[S \ {latest[S]}], log[latest[S]]}
      BY <1>7, <2>2, <3>1 DEF Hub!Apply
    <3> HIDE DEF latest
    <3> QED
      BY <2>2, <3>1, <3>2
  <2>3. SUBSET R \subseteq Q
    <3> HIDE DEF Q, latest, V
    <3> QED
      BY <1>2, <2>1, <2>2, GivingUp
  <2> HIDE DEF V, Made
  <2> QED
    BY <1>6, <2>3
<1> QED
  BY <1>7, <1>8 DEF x, R, start

\* An update in a list of rows, and an item's end: the first of the updates to its
\* revision, with one to every revision between, and none to the next.
Updates(S, n) == {i \in S : log[i].kind = "feed.item.updated" /\ log[i].revision = n}

LEMMA PayloadComesTo ==
  ASSUME Hub!FeedAssumption, HubKept, NEW rows \in SUBSET DOMAIN log, NEW f, Hub!Publications(rows, f) # {}
  PROVE  LET R == Hub!Revisions(rows, f)
             p == PayloadUpto(rows, f)[R]
         IN  /\ p \in {log[i] : i \in R} /\ p.revision >= 1
             /\ p.revision = 1 => p = FirstPayload(rows, f)
             /\ p.revision > 1 => \E i \in Updates(R, p.revision) :
                  p = log[i] /\ \A j \in Updates(R, p.revision) \ {i} : Hub!Before(p, log[j])
             /\ \A n \in 2 .. p.revision : Updates(R, n) # {}
             /\ Updates(R, p.revision + 1) = {}
<1> DEFINE R == Hub!Revisions(rows, f)
           u == PayloadUpto(rows, f)
           start == FirstPayload(rows, f)
           latest == [S \in SUBSET R |-> Hub!LatestRevision(S)]
           Ends(S, p) ==
             /\ p.revision >= 1
             /\ p.revision = 1 => p = start
             /\ p.revision > 1 => \E i \in Updates(S, p.revision) :
                  p = log[i] /\ \A j \in Updates(S, p.revision) \ {i} : Hub!Before(p, log[j])
             /\ \A n \in 2 .. p.revision : Updates(S, n) # {}
             /\ Updates(S, p.revision + 1) = {}
           Q == {S \in SUBSET R : Ends(S, u[S])}
<1>1. R \in SUBSET DOMAIN log /\ IsFiniteSet(R)
  <2>1. R \in SUBSET DOMAIN log
    BY DEF Hub!Revisions
  <2> HIDE DEF R
  <2> QED
    BY <2>1, RowsAre, FS_Subset
<1>2. /\ u[{}] = start /\ u \in [SUBSET R -> {log[i] : i \in R}]
      /\ \A S \in SUBSET R : S # {} =>
           u[S] = Hub!Apply(u[S \ {Hub!LatestRevision(S)}], log[Hub!LatestRevision(S)])
  BY PayloadUptoIs
<1>3. start.revision = 1
  BY FirstPayloadIs DEF RevisionTo
<1> HIDE DEF R, u, start
<1>4. Yields(R, latest)
  BY <1>1, LatestRevisionYields
<1>5. /\ \A i \in R : log[i].revision \in Nat /\ (log[i].kind = "feed.item.updated" => log[i].revision >= 2)
      /\ \A S \in SUBSET R : u[S].revision \in Nat
  <2>1. \A i \in R : log[i].revision \in Nat /\ (log[i].kind = "feed.item.updated" => log[i].revision >= 2)
    BY <1>1, RowsAre DEF HubKept, Sensible, HubEvents
  <2> QED
    BY <1>2, <2>1
<1>6. {} \in Q
  BY <1>2, <1>3 DEF Updates
<1>7. ASSUME NEW S \in SUBSET R, S # {}, S \ {latest[S]} \in Q PROVE S \in Q
  <2> DEFINE k == Hub!LatestRevision(S)
             T == S \ {k}
             e == log[k]
             p == u[T]
             m == p.revision
  <2>1. k \in S /\ \A j \in T : Hub!RevisionBefore(log[j], e)
    BY <1>1, <1>7, LatestRevisionIs
  <2>2. u[S] = Hub!Apply(p, e) /\ latest[S] = k
    BY <1>2, <1>7
  <2> HIDE DEF k
  <2>3. Ends(T, p)
    BY <1>7, <2>2
  <2>4. m \in Nat /\ m >= 1 /\ e.revision \in Nat /\ \A j \in T : log[j].revision \in Nat /\ log[j].revision <= e.revision
    BY <1>5, <2>1, <2>3 DEF Hub!RevisionBefore
  <2>5. /\ \A n : Updates(T, n) \subseteq Updates(S, n) /\ Updates(S, n) \subseteq Updates(T, n) \cup {k}
        /\ \A n : k \in Updates(S, n) <=> e.kind = "feed.item.updated" /\ e.revision = n
    BY <2>1 DEF Updates
  <2>6. CASE e.kind = "feed.item.updated" /\ e.revision = m + 1
    <3>1. u[S] = e
      BY <2>2, <2>6 DEF Hub!Apply
    <3>2. Updates(S, m + 1) = {k}
      BY <2>3, <2>5, <2>6
    <3>3. \A n \in 2 .. m + 1 : Updates(S, n) # {}
      <4> TAKE n \in 2 .. m + 1
      <4>1. n \in 2 .. m \/ n = m + 1
        BY <2>4
      <4> QED
        BY <2>3, <2>5, <3>2, <4>1
    <3>4. Updates(S, m + 1 + 1) = {}
      <4> SUFFICES ASSUME NEW i \in Updates(S, m + 1 + 1) PROVE FALSE
        OBVIOUS
      <4>1. i \in T \/ i = k
        BY <2>5 DEF Updates
      <4>2. log[i].revision = m + 1 + 1
        BY DEF Updates
      <4>3. log[i].revision <= e.revision
        BY <2>4, <4>1
      <4> HIDE DEF m, e
      <4> QED
        BY <2>4, <2>6, <4>2, <4>3
    <3>5. m + 1 > 1 /\ m + 1 # 1 /\ m + 1 >= 1
      BY <2>4
    <3>6. Ends(S, e)
      BY <2>6, <3>2, <3>3, <3>4, <3>5
    <3> QED
      BY <3>1, <3>6
  <2>7. CASE ~(e.kind = "feed.item.updated" /\ e.revision = m + 1)
    <3>1. u[S] = p
      BY <2>2, <2>7 DEF Hub!Apply
    <3>2. Updates(S, m + 1) = {} /\ \A n \in 2 .. m : Updates(S, n) # {}
      BY <2>3, <2>5, <2>7
    <3>3. m > 1 => \E i \in Updates(S, m) :
                     p = log[i] /\ \A j \in Updates(S, m) \ {i} : Hub!Before(p, log[j])
      <4> SUFFICES ASSUME m > 1
                   PROVE  \E i \in Updates(S, m) :
                            p = log[i] /\ \A j \in Updates(S, m) \ {i} : Hub!Before(p, log[j])
        OBVIOUS
      <4>1. PICK i \in Updates(T, m) : p = log[i] /\ \A j \in Updates(T, m) \ {i} : Hub!Before(p, log[j])
        BY <2>3
      <4>2. k \in Updates(S, m) => Hub!Before(p, e)
        <5> SUFFICES ASSUME e.revision = m PROVE Hub!Before(p, e)
          BY <2>5
        <5>1. Hub!RevisionBefore(p, e) /\ p.revision = m
          BY <2>1, <4>1 DEF Updates
        <5> QED
          BY <2>4, <5>1 DEF Hub!RevisionBefore
      <4>3. i \in Updates(S, m) /\ \A j \in Updates(S, m) \ {i} : j \in Updates(T, m) \ {i} \/ j = k
        BY <2>5, <4>1
      <4>4. \A j \in Updates(S, m) \ {i} : Hub!Before(p, log[j])
        BY <4>1, <4>2, <4>3
      <4> QED
        BY <4>1, <4>3, <4>4
    <3>4. Ends(S, p)
      BY <2>3, <3>2, <3>3
    <3> QED
      BY <3>1, <3>4
  <2> QED
    BY <2>6, <2>7
<1>8. Ends(R, u[R])
  <2>1. SUBSET R \subseteq Q
    <3> HIDE DEF Q, latest
    <3> QED
      BY <1>1, <1>4, <1>6, <1>7, GivingUp
  <2> QED
    BY <2>1
<1>9. u[R] \in {log[i] : i \in R}
  BY <1>2
<1> QED
  BY <1>8, <1>9 DEF R, u, start

\* What an item has come to, of the stored events alone: nothing without a
\* publication, else the first of the updates to the highest revision that each
\* revision before leads to.
Comes(events, f, p) ==
  /\ p \in events /\ p.revision \in 1 .. MaxSent
  /\ p \in RevisionTo(events, f, p.revision)
  /\ \A e \in RevisionTo(events, f, p.revision) \ {p} : Hub!Before(p, e)
  /\ \A n \in 1 .. p.revision : RevisionTo(events, f, n) # {}
  /\ RevisionTo(events, f, p.revision + 1) = {}

CurrentIs(events, f, current) ==
  \/ RevisionTo(events, f, 1) = {} /\ current = {}
  \/ \E p \in events : Comes(events, f, p) /\ current = {p}

LEMMA CurrentComesTo ==
  ASSUME Hub!FeedAssumption, HubKept, NEW rows \in SUBSET DOMAIN log, NEW f
  PROVE  CurrentIs(EventsOf(rows), f, Hub!Current(rows, f))
<1> DEFINE R == Hub!Revisions(rows, f)
           P == Hub!Publications(rows, f)
           E == EventsOf(rows)
           p == PayloadUpto(rows, f)[R]
           start == FirstPayload(rows, f)
<1>1. \A i \in rows : /\ log[i] \in HubEvents /\ Sensible(log[i], sent)
                      /\ log[i].id \in Nat /\ log[i].revision \in Nat
  BY RowsAre DEF HubKept, HubEvents
<1>2. \A n \in Nat : n >= 2 => RevisionTo(E, f, n) = {log[i] : i \in Updates(R, n)}
  BY DEF RevisionTo, EventsOf, Updates, Hub!Revisions
<1>3. CASE P = {}
  <2>1. RevisionTo(E, f, 1) = {}
    BY <1>3 DEF RevisionTo, EventsOf, Hub!Publications, Hub!Revisions
  <2>2. Hub!Current(rows, f) = {}
    BY <1>3, CurrentIsUpto
  <2> QED
    BY <2>1, <2>2 DEF CurrentIs
<1>4. CASE P # {}
  <2>1. Hub!Current(rows, f) = {p}
    BY <1>4, CurrentIsUpto
  <2>2. /\ p \in {log[i] : i \in R} /\ p.revision >= 1
        /\ p.revision = 1 => p = start
        /\ p.revision > 1 => \E i \in Updates(R, p.revision) :
             p = log[i] /\ \A j \in Updates(R, p.revision) \ {i} : Hub!Before(p, log[j])
        /\ \A n \in 2 .. p.revision : Updates(R, n) # {}
        /\ Updates(R, p.revision + 1) = {}
    BY <1>4, PayloadComesTo
  <2>3. /\ start \in RevisionTo(E, f, 1)
        /\ \A e \in RevisionTo(E, f, 1) \ {start} : Hub!Before(start, e)
    BY <1>4, FirstPayloadIs
  <2>4. R \subseteq rows /\ E = {log[i] : i \in rows}
    BY DEF EventsOf, Hub!Revisions
  <2> HIDE DEF p, start, E, R
  <2>5. p \in E /\ p.revision \in Nat /\ p.revision \in 1 .. MaxSent
    <3>1. PICK i \in rows : p = log[i]
      BY <2>2, <2>4
    <3> QED
      BY <1>1, <2>2, <2>4, <3>1 DEF HubKept, Sensible, Hub!FeedAssumption
  <2>6. /\ p \in RevisionTo(E, f, p.revision)
        /\ \A e \in RevisionTo(E, f, p.revision) \ {p} : Hub!Before(p, e)
    <3>1. CASE p.revision = 1
      BY <2>2, <2>3, <3>1
    <3>2. CASE p.revision > 1
      <4>1. RevisionTo(E, f, p.revision) = {log[i] : i \in Updates(R, p.revision)}
        BY <1>2, <2>5, <3>2
      <4> QED
        BY <2>2, <3>2, <4>1
    <3> QED
      BY <2>5, <3>1, <3>2
  <2>7. \A n \in 1 .. p.revision : RevisionTo(E, f, n) # {}
    <3> TAKE n \in 1 .. p.revision
    <3>1. CASE n = 1
      BY <2>3, <3>1
    <3>2. CASE n >= 2
      <4>1. n \in 2 .. p.revision /\ n \in Nat
        BY <2>5, <3>2
      <4> QED
        BY <1>2, <2>2, <3>2, <4>1
    <3> QED
      BY <2>5, <3>1, <3>2
  <2>8. RevisionTo(E, f, p.revision + 1) = {}
    <3>1. p.revision + 1 \in Nat /\ p.revision + 1 >= 2
      BY <2>2, <2>5
    <3> QED
      BY <1>2, <2>2, <3>1
  <2>9. Comes(E, f, p)
    BY <2>5, <2>6, <2>7, <2>8 DEF Comes
  <2> QED
    BY <2>1, <2>5, <2>9 DEF CurrentIs, E
<1> QED
  BY <1>3, <1>4

\* The specification's words for it.
LEMMA ItemIs ==
  ASSUME Hub!FeedAssumption, HubKept, NEW rows \in SUBSET DOMAIN log, NEW f \in Item
  PROVE  {i.shown : i \in {j \in Hub!Feed(rows) : j.item = f}} = Hub!ItemOf(EventsOf(rows), f)
<1> DEFINE E == EventsOf(rows)
           current == Hub!Current(rows, f)
           shown == {q \in current : ~Hub!Withdrawn(rows, f, q.revision)}
           reached == {n \in Hub!Numbers : \A m \in 1 .. n : RevisionTo(E, f, m) # {}}
           top == {n \in reached : n + 1 \notin reached}
           withdrawn == {n \in top : \E e \in E : /\ e.kind = "feed.item.withdrawn"
                                                  /\ f \in e.item /\ e.revision = n}
<1>1. {i.shown : i \in {j \in Hub!Feed(rows) : j.item = f}} = shown
  <2>1. \A i \in Hub!Feed(rows) : i.item = f => i.shown \in shown
    BY DEF Hub!Feed
  <2>2. ASSUME NEW q \in shown PROVE \E i \in Hub!Feed(rows) : i.item = f /\ i.shown = q
    <3>1. [item |-> f, shown |-> q] \in Hub!Feed(rows)
      BY <2>2 DEF Hub!Feed
    <3> QED
      BY <3>1
  <2> HIDE DEF shown
  <2> QED
    BY <2>1, <2>2
<1>2. Hub!ItemOf(E, f) = UNION {Hub!First(RevisionTo(E, f, n)) : n \in top \ withdrawn}
  BY DEF Hub!ItemOf, RevisionTo
<1>3. CurrentIs(E, f, current)
  BY CurrentComesTo
<1>4. \A q : Hub!Withdrawn(rows, f, q) <=> \E e \in E : /\ e.kind = "feed.item.withdrawn"
                                                        /\ f \in e.item /\ e.revision = q
  BY DEF Hub!Withdrawn, EventsOf
<1>5. Hub!Numbers = 1 .. MaxSent /\ MaxSent \in Nat
  BY DEF Hub!Numbers, Hub!FeedAssumption
<1>6. \A e \in E : e \in HubEvents
  BY RowsAre DEF EventsOf
<1> HIDE DEF E, current
<1>7. CASE RevisionTo(E, f, 1) = {} /\ current = {}
  <2>1. reached = {}
    BY <1>5, <1>7
  <2>2. top \ withdrawn = {} /\ shown = {}
    BY <1>7, <2>1
  <2> HIDE DEF top, withdrawn, shown
  <2> QED
    BY <1>1, <1>2, <2>2 DEF E
<1>8. ASSUME NEW p \in E, Comes(E, f, p), current = {p}
      PROVE  shown = Hub!ItemOf(E, f)
  <2> DEFINE m == p.revision
  <2>1. m \in 1 .. MaxSent /\ m \in Nat
    BY <1>5, <1>8 DEF Comes
  <2>2. reached = 1 .. m
    <3>1. \A n \in 1 .. m : n \in reached
      BY <1>5, <1>8, <2>1 DEF Comes
    <3>2. \A n \in reached : n \in 1 .. m
      <4> TAKE n \in reached
      <4>1. n \in Nat /\ n >= 1 /\ m + 1 \notin 1 .. n
        BY <1>5, <1>8 DEF Comes
      <4> QED
        BY <2>1, <4>1
    <3> QED
      BY <3>1, <3>2
  <2> HIDE DEF reached
  <2>3. top = {m}
    BY <2>1, <2>2
  <2>4. Hub!First(RevisionTo(E, f, m)) = {p}
    <3>1. /\ p \in RevisionTo(E, f, m)
          /\ \A e \in RevisionTo(E, f, m) \ {p} : Hub!Before(p, e) /\ ~Hub!Before(e, p)
      BY <1>6, <1>8, BeforeOrders DEF Comes, RevisionTo
    <3> QED
      BY <3>1 DEF Hub!First
  <2> HIDE DEF top
  <2>5. CASE \E e \in E : e.kind = "feed.item.withdrawn" /\ f \in e.item /\ e.revision = m
    <3>1. top \ withdrawn = {} /\ shown = {}
      BY <1>4, <1>8, <2>3, <2>5
    <3> HIDE DEF withdrawn, shown
    <3> QED
      BY <1>2, <3>1
  <2>6. CASE ~\E e \in E : e.kind = "feed.item.withdrawn" /\ f \in e.item /\ e.revision = m
    <3>1. top \ withdrawn = {m} /\ shown = {p}
      BY <1>4, <1>8, <2>3, <2>6
    <3> HIDE DEF withdrawn, shown, m
    <3> QED
      BY <1>2, <2>4, <3>1
  <2> QED
    BY <2>5, <2>6
<1> QED
  BY <1>1, <1>3, <1>7, <1>8 DEF CurrentIs, E

-----------------------------------------------------------------------------
(* HubFeed: what it keeps                                                    *)

LEMMA HubKeptInit == ASSUME Hub!FeedAssumption, Hub!Init PROVE HubKept
<1>1. log = <<>> /\ DOMAIN log = {} /\ log \in Seq(HubEvents) /\ flight = {}
  BY DEF Hub!Init
<1> QED
  BY <1>1 DEF HubKept, Hub!Init, Hub!FeedAssumption

\* An event sent has the next id, and revises what was read.
LEMMA HubKeptSend ==
  ASSUME Hub!FeedAssumption, HubKept, NEW r \in Run, NEW kind \in Hub!FeedKind \cup Hub!RunKind,
         NEW item \in SUBSET Item, NEW revision \in Nat, NEW sources \in SUBSET Source,
         revision <= sent + 1,
         kind = "feed.item.published" => revision = 1,
         kind = "feed.item.updated" => revision >= 2,
         Hub!Send(r, kind, item, revision, sources)
  PROVE  HubKept'
<1>1. PICK t \in Times :
        flight' = flight \cup {[id |-> sent + 1, run |-> r, sequence |-> last[r] + 1, time |-> t,
                                kind |-> kind, item |-> item, revision |-> revision, sources |-> sources]}
  BY DEF Hub!Send
<1> DEFINE e == [id |-> sent + 1, run |-> r, sequence |-> last[r] + 1, time |-> t,
                 kind |-> kind, item |-> item, revision |-> revision, sources |-> sources]
<1>2. /\ sent < MaxSent /\ sent' = sent + 1 /\ last' = [last EXCEPT ![r] = @ + 1]
      /\ log' = log /\ seen' = seen /\ sent \in Nat /\ MaxSent \in Nat
  BY DEF Hub!Send, HubKept, Hub!FeedAssumption
<1>3. e \in HubEvents /\ Sensible(e, sent')
  BY <1>2 DEF HubEvents, HubKept, Sensible
<1>4. e.id = sent + 1
  OBVIOUS
<1>5. flight' = flight \cup {e}
  BY <1>1
<1> HIDE DEF e
<1>6. ASSUME NEW d \in HubEvents, Sensible(d, sent) PROVE Sensible(d, sent') /\ d.id # e.id
  BY <1>2, <1>4, <1>6 DEF Sensible, HubEvents
<1>7. \A i \in DOMAIN log : log[i] \in HubEvents
  BY RowsAre
<1>8. \A d \in flight : Sensible(d, sent') /\ d.id # e.id
  BY <1>6 DEF HubKept
<1>9. \A i \in DOMAIN log : Sensible(log[i], sent') /\ log[i].id # e.id
  BY <1>6, <1>7 DEF HubKept
<1>10. /\ sent' \in Nat /\ sent' <= MaxSent /\ last' \in [Run -> Nat]
       /\ seen' \in [Run -> [Item -> Nat]] /\ \A q \in Run, f \in Item : seen'[q][f] <= sent'
  BY <1>2 DEF HubKept
<1>11. log' \in Seq(HubEvents) /\ flight' \subseteq HubEvents
  BY <1>2, <1>3, <1>5 DEF HubKept
<1>12. /\ \A i \in DOMAIN log' : Sensible(log'[i], sent')
       /\ \A d \in flight' : Sensible(d, sent')
  BY <1>2, <1>3, <1>5, <1>8, <1>9 DEF Sensible
<1>13. /\ \A i, j \in DOMAIN log' : log'[i].id = log'[j].id => i = j
       /\ \A c, d \in flight' : c.id = d.id => c = d
       /\ \A i \in DOMAIN log' : \A d \in flight' : log'[i].id # d.id
  BY <1>2, <1>5, <1>8, <1>9 DEF HubKept
<1> QED
  BY <1>10, <1>11, <1>12, <1>13 DEF HubKept

\* What is read is of a revision that was stored.
LEMMA HubKeptRead ==
  ASSUME Hub!FeedAssumption, HubKept, NEW r \in Run, Hub!Read(r) PROVE HubKept'
<1> DEFINE rows == Hub!Listed(Hub!Table)
           shown == Hub!Feed(rows)
           new(f) == IF \E i \in shown : i.item = f
                     THEN (CHOOSE i \in shown : i.item = f).shown.revision ELSE 0
<1>1. /\ seen' = [seen EXCEPT ![r] = [f \in Item |-> new(f)]]
      /\ log' = log /\ flight' = flight /\ sent' = sent /\ last' = last
  BY DEF Hub!Read
<1>2. rows \in SUBSET DOMAIN log
  BY RowsAre DEF Hub!Listed
<1>3. ASSUME NEW i \in shown PROVE i.shown.revision \in Nat /\ i.shown.revision <= sent
  <2>1. PICK f \in Item : i.shown \in Hub!Current(rows, f)
    BY <1>3 DEF Hub!Feed
  <2>2. CurrentIs(EventsOf(rows), f, Hub!Current(rows, f))
    BY <1>2, CurrentComesTo
  <2>3. PICK j \in rows : i.shown = log[j]
    BY <2>1, <2>2 DEF CurrentIs, EventsOf
  <2>4. log[j] \in HubEvents /\ Sensible(log[j], sent)
    BY <1>2, RowsAre DEF HubKept
  <2> QED
    BY <2>3, <2>4 DEF HubEvents, Sensible, HubKept
<1>4. \A f \in Item : new(f) \in Nat /\ new(f) <= sent
  <2> TAKE f \in Item
  <2>1. CASE \E i \in shown : i.item = f
    <3>1. (CHOOSE i \in shown : i.item = f) \in shown
      BY <2>1
    <3> HIDE DEF shown
    <3> QED
      BY <1>3, <2>1, <3>1
  <2>2. CASE ~\E i \in shown : i.item = f
    BY <2>2 DEF HubKept
  <2> QED
    BY <2>1, <2>2
<1> HIDE DEF new
<1>5. seen' \in [Run -> [Item -> Nat]] /\ \A q \in Run, f \in Item : seen'[q][f] <= sent
  BY <1>1, <1>4 DEF HubKept
<1> QED
  BY <1>1, <1>5 DEF HubKept, Sensible

LEMMA HubKeptStore ==
  ASSUME Hub!FeedAssumption, HubKept, NEW e \in flight, Hub!Store(e) PROVE HubKept'
<1>1. /\ flight' = flight \ {e} /\ log' = Append(log, e)
      /\ sent' = sent /\ last' = last /\ seen' = seen
  BY DEF Hub!Store
<1>2. e \in HubEvents /\ Sensible(e, sent) /\ log \in Seq(HubEvents) /\ Len(log) \in Nat
  BY DEF HubKept
<1>3. /\ log' \in Seq(HubEvents) /\ DOMAIN log' = DOMAIN log \cup {Len(log) + 1}
      /\ log'[Len(log) + 1] = e /\ \A i \in DOMAIN log : log'[i] = log[i]
      /\ Len(log) + 1 \notin DOMAIN log
  BY <1>1, <1>2
<1>4. /\ \A i \in DOMAIN log : Sensible(log[i], sent) /\ log[i].id # e.id
      /\ \A i, j \in DOMAIN log : log[i].id = log[j].id => i = j
  BY DEF HubKept
<1>5. \A i \in DOMAIN log' : Sensible(log'[i], sent)
  BY <1>2, <1>3, <1>4
<1>7. \A i \in DOMAIN log' : Sensible(log'[i], sent')
  BY <1>1, <1>5 DEF Sensible
<1>8. \A i, j \in DOMAIN log' : log'[i].id = log'[j].id => i = j
  <2> HIDE DEF HubKept
  <2> QED
    BY <1>3, <1>4
<1>9. \A d \in flight' : Sensible(d, sent')
  BY <1>1 DEF HubKept, Sensible
<1>10. \A i \in DOMAIN log' : \A d \in flight' : log'[i].id # d.id
  <2>1. \A d \in flight' : d.id # e.id /\ \A i \in DOMAIN log : log[i].id # d.id
    BY <1>1 DEF HubKept
  <2> QED
    BY <1>3, <2>1
<1> QED
  BY <1>1, <1>3, <1>7, <1>8, <1>9, <1>10 DEF HubKept

LEMMA HubKeptNext ==
  ASSUME Hub!FeedAssumption, HubKept, [Hub!Next]_Hub!vars PROVE HubKept'
<1>1. ASSUME NEW r \in Run, Hub!Report(r) PROVE HubKept'
  <2>1. PICK k \in Kind : Hub!Send(r, k, {}, 0, {})
    BY <1>1 DEF Hub!Report
  <2>2. k \in Hub!RunKind /\ k # "feed.item.published" /\ k # "feed.item.updated"
    BY DEF Hub!FeedAssumption, Hub!RunKind
  <2>3. k \in Hub!FeedKind \cup Hub!RunKind /\ 0 <= sent + 1
    BY <2>2 DEF HubKept
  <2> QED
    BY <2>1, <2>2, <2>3, HubKeptSend
<1>2. ASSUME NEW r \in Run, Hub!Read(r) PROVE HubKept'
  BY <1>2, HubKeptRead
<1>3. ASSUME NEW r \in Run, NEW f \in Item, Hub!Publish(r, f) PROVE HubKept'
  <2>1. PICK S \in SUBSET Source : Hub!Send(r, "feed.item.published", {f}, 1, S)
    BY <1>3 DEF Hub!Publish
  <2>2. "feed.item.published" \in Hub!FeedKind \cup Hub!RunKind /\ {f} \in SUBSET Item /\ 1 \in Nat /\ 1 <= sent + 1
    BY DEF Hub!FeedKind, HubKept
  <2> QED
    BY <2>1, <2>2, HubKeptSend
<1>4. ASSUME NEW r \in Run, NEW f \in Item, Hub!Update(r, f) PROVE HubKept'
  <2>1. PICK S \in SUBSET Source : Hub!Send(r, "feed.item.updated", {f}, seen[r][f] + 1, S)
    BY <1>4 DEF Hub!Update
  <2>2. seen[r][f] > 0 /\ seen[r][f] \in Nat /\ seen[r][f] <= sent /\ sent \in Nat
    BY <1>4 DEF Hub!Update, HubKept
  <2>3. /\ "feed.item.updated" \in Hub!FeedKind \cup Hub!RunKind /\ {f} \in SUBSET Item
        /\ seen[r][f] + 1 \in Nat /\ seen[r][f] + 1 <= sent + 1 /\ seen[r][f] + 1 >= 2
    BY <2>2 DEF Hub!FeedKind
  <2> QED
    BY <2>1, <2>3, HubKeptSend
<1>5. ASSUME NEW r \in Run, NEW f \in Item, Hub!Withdraw(r, f) PROVE HubKept'
  <2>1. Hub!Send(r, "feed.item.withdrawn", {f}, seen[r][f], {}) /\ seen[r][f] \in Nat /\ seen[r][f] <= sent + 1
    BY <1>5 DEF Hub!Withdraw, HubKept
  <2>2. "feed.item.withdrawn" \in Hub!FeedKind \cup Hub!RunKind /\ {f} \in SUBSET Item
    BY DEF Hub!FeedKind
  <2> QED
    BY <2>1, <2>2, HubKeptSend
<1>6. ASSUME NEW e \in flight, Hub!Store(e) PROVE HubKept'
  BY <1>6, HubKeptStore
<1>7. CASE UNCHANGED Hub!vars
  BY <1>7 DEF Hub!vars, HubKept, Sensible
<1> QED
  BY <1>1, <1>2, <1>3, <1>4, <1>5, <1>6, <1>7 DEF Hub!Next

-----------------------------------------------------------------------------
(* HubFeed: its theorems                                                     *)

LEMMA ArrivedAre == ASSUME HubKept PROVE Hub!Arrived = EventsOf(Hub!Table) /\ Hub!Table \in SUBSET DOMAIN log
  BY DEF Hub!Arrived, EventsOf, Hub!Table

LEMMA ReadersForgetArrival ==
  ASSUME Hub!FeedAssumption, HubKept PROVE Hub!ArrivalOrderIsIrrelevant
<1> SUFFICES ASSUME Len(log) <= MaxRead
             PROVE  /\ \A r \in Run : Hub!RunStatus(r) = Hub!StatusOf({e \in Hub!Arrived : e.run = r})
                    /\ \A f \in Item : {i.shown : i \in {j \in Hub!Feed(Hub!Listed(Hub!Table)) : j.item = f}}
                                       = Hub!ItemOf(Hub!Arrived, f)
                    /\ \A s \in Source :
                         Hub!SourceItems(Hub!Listed(Hub!Table))[s].last
                         = {e.id : e \in Hub!Final({d \in Hub!Arrived : s \in d.sources})}
  BY DEF Hub!ArrivalOrderIsIrrelevant
<1>1. Hub!Listed(Hub!Table) = Hub!Table /\ Hub!Table = DOMAIN log /\ Hub!Arrived = EventsOf(Hub!Table)
  BY ArrivedAre, ListedWhole, RowsAre
<1>2. ASSUME NEW r \in Run PROVE Hub!RunStatus(r) = Hub!StatusOf({e \in Hub!Arrived : e.run = r})
  <2> DEFINE rows == {i \in Hub!Table : log[i].run = r}
  <2>1. Hub!OfRun(r) = rows
    BY <1>1, ListedWhole DEF Hub!OfRun
  <2>2. {e \in Hub!Arrived : e.run = r} = {log[i] : i \in rows}
    BY <1>1 DEF EventsOf
  <2>3. rows \in SUBSET DOMAIN log
    BY <1>1
  <2> HIDE DEF rows
  <2> QED
    BY <2>1, <2>2, <2>3, RunStatusIsUpto, StatusComesTo
<1>3. \A f \in Item : {i.shown : i \in {j \in Hub!Feed(Hub!Listed(Hub!Table)) : j.item = f}}
                      = Hub!ItemOf(Hub!Arrived, f)
  BY <1>1, ItemIs
<1>4. \A s \in Source : Hub!SourceItems(Hub!Listed(Hub!Table))[s].last
                        = {e.id : e \in Hub!Final({d \in Hub!Arrived : s \in d.sources})}
  BY <1>1, SourceItemsIsUpto, SourcesComeTo DEF EventsOf
<1> QED
  BY <1>2, <1>3, <1>4

\* What the readers see is a function of the set of stored events, whatever the
\* order they arrived in, as long as the log fits a read (hub/src/d1-store.ts
\* listEvents, projector.ts).
THEOREM HubForgetsArrival ==
  ASSUME Hub!FeedAssumption PROVE Hub!Spec => []Hub!ArrivalOrderIsIrrelevant
<1>1. Hub!Init => HubKept
  BY HubKeptInit
<1>2. HubKept /\ [Hub!Next]_Hub!vars => HubKept'
  BY HubKeptNext
<1>3. HubKept => Hub!ArrivalOrderIsIrrelevant
  BY ReadersForgetArrival
<1> QED
  BY <1>1, <1>2, <1>3, PTL DEF Hub!Spec

\* What each item has come to, in every state.
HubShown ==
  Len(log) <= MaxRead =>
    \A f \in Item : CurrentIs(Hub!Arrived, f, Hub!Current(Hub!Listed(Hub!Table), f))

LEMMA KeptShown == ASSUME Hub!FeedAssumption, HubKept PROVE HubShown
  BY ArrivedAre, ListedWhole, CurrentComesTo DEF HubShown

LEMMA ChainsGrow ==
  ASSUME Hub!FeedAssumption, HubKept, HubShown, HubShown', [Hub!Next]_Hub!vars PROVE ~Hub!Regressed
<1> SUFFICES ASSUME log' # log, Len(log') <= MaxRead, NEW f \in Item,
                    NEW p \in Hub!Current(Hub!Listed(Hub!Table), f),
                    \A q \in Hub!Current(Hub!Listed(Hub!Table), f)' : q.revision < p.revision
             PROVE  FALSE
  BY DEF Hub!Regressed
<1>1. PICK e \in flight : log' = Append(log, e)
  BY DEF Hub!Next, Hub!vars, Hub!Report, Hub!Publish, Hub!Update, Hub!Withdraw, Hub!Send, Hub!Read, Hub!Store
<1>2. Len(log) <= MaxRead /\ Hub!Arrived \subseteq Hub!Arrived'
  <2>1. log \in Seq(HubEvents) /\ e \in HubEvents /\ MaxRead \in Nat
    BY DEF HubKept, Hub!FeedAssumption
  <2>2. /\ Len(log) \in Nat /\ Len(log') = Len(log) + 1
        /\ \A i \in DOMAIN log : i \in DOMAIN log' /\ log'[i] = log[i]
    BY <1>1, <2>1
  <2> QED
    BY <2>1, <2>2 DEF Hub!Arrived, Hub!Table
<1>3. /\ CurrentIs(Hub!Arrived, f, Hub!Current(Hub!Listed(Hub!Table), f))
      /\ CurrentIs(Hub!Arrived, f, Hub!Current(Hub!Listed(Hub!Table), f))'
  BY <1>2 DEF HubShown
<1>4. Comes(Hub!Arrived, f, p)
  BY <1>3 DEF CurrentIs
<1>5. \A n \in 1 .. p.revision : RevisionTo(Hub!Arrived', f, n) # {}
  BY <1>2, <1>4 DEF Comes, RevisionTo
<1>6. p.revision \in Nat /\ p.revision >= 1
  BY <1>4 DEF Comes
<1>7. \E q : Comes(Hub!Arrived', f, q) /\ q \in Hub!Current(Hub!Listed(Hub!Table), f)'
  <2>1. RevisionTo(Hub!Arrived', f, 1) # {}
    BY <1>5, <1>6
  <2> QED
    BY <1>3, <2>1 DEF CurrentIs
<1>8. PICK q : Comes(Hub!Arrived', f, q) /\ q.revision < p.revision
  BY <1>7
<1>9. q.revision + 1 \in 1 .. p.revision
  BY <1>6, <1>8 DEF Comes
<1> QED
  BY <1>5, <1>8, <1>9 DEF Comes

\* No step takes an item back to an earlier revision, whichever event arrives late
\* (hub/src/projector.ts projectCanonicalFeedItems).
THEOREM HubNeverRegresses ==
  ASSUME Hub!FeedAssumption PROVE Hub!Spec => Hub!RevisionsNeverRegress
<1>1. Hub!Init => HubKept
  BY HubKeptInit
<1>2. HubKept /\ [Hub!Next]_Hub!vars => HubKept'
  BY HubKeptNext
<1>3. HubKept => HubShown
  BY KeptShown
<1>4. HubKept /\ HubShown /\ HubShown' /\ [Hub!Next]_Hub!vars => ~Hub!Regressed
  BY ChainsGrow
<1> QED
  BY <1>1, <1>2, <1>3, <1>4, PTL DEF Hub!Spec, Hub!RevisionsNeverRegress

-----------------------------------------------------------------------------
(* Readers: what a machine keeps, the part that is it keeps, since a behaviour *)
(* never changes its part                                                      *)

LEMMA PieceIsPart ==
  /\ Init /\ part \in PieceParts => Piece!Init
  /\ part \in PieceParts /\ [Next]_vars => (part \in PieceParts)' /\ [Piece!Next]_Piece!vars
  /\ ~(part \in PieceParts) /\ [Next]_vars => (~(part \in PieceParts))'
  BY DEF Init, Next, vars, PieceVars, Piece!vars, Piece!disk, PieceParts, FeedParts

LEMMA FeedIsPart ==
  /\ Init /\ part \in FeedParts => Feed!Init
  /\ part \in FeedParts /\ [Next]_vars => (part \in FeedParts)' /\ [Feed!Next]_Feed!feedVars
  /\ ~(part \in FeedParts) /\ [Next]_vars => (~(part \in FeedParts))'
  BY DEF Init, Next, vars, FeedVars, Feed!feedVars, PieceParts, FeedParts

LEMMA CompanionIsPart ==
  /\ Init /\ part = "companion" => Companion!Init
  /\ part = "companion" /\ [Next]_vars => (part = "companion")' /\ [Companion!Next]_Companion!vars
  /\ ~(part = "companion") /\ [Next]_vars => (~(part = "companion"))'
  BY DEF Init, Next, vars, LogVars, Companion!vars, PieceParts, FeedParts

LEMMA SessionIsPart ==
  /\ Init /\ part = "session" => Session!Init
  /\ part = "session" /\ [Next]_vars => (part = "session")' /\ [Session!Next]_Session!vars
  /\ ~(part = "session") /\ [Next]_vars => (~(part = "session"))'
  BY DEF Init, Next, vars, SessionVars, Session!vars, PieceParts, FeedParts

LEMMA HubIsPart ==
  /\ Init /\ part = "hub" => Hub!Init
  /\ part = "hub" /\ [Next]_vars => (part = "hub")' /\ [Hub!Next]_Hub!vars
  /\ ~(part = "hub") /\ [Next]_vars => (~(part = "hub"))'
  BY DEF Init, Next, vars, HubVars, Hub!vars, PieceParts, FeedParts

LEMMA MailIsPart ==
  /\ Init /\ part = "mail" => Mail!Init
  /\ part = "mail" /\ [Next]_vars => (part = "mail")' /\ [Mail!Next]_Mail!vars
  /\ ~(part = "mail") /\ [Next]_vars => (~(part = "mail"))'
  BY DEF Init, Next, vars, MailVars, Mail!vars, PieceParts, FeedParts

LEMMA HomeIsPart ==
  /\ Init /\ part = "workspace" => Home!Init
  /\ part = "workspace" /\ [Next]_vars => (part = "workspace")' /\ [Home!Next]_Home!vars
  /\ ~(part = "workspace") /\ [Next]_vars => (~(part = "workspace"))'
  BY DEF Init, Next, vars, HomeVars, Home!vars, PieceParts, FeedParts

\* One key reads all that was ever sealed, as HomeKeepsOneKey has it
\* (workspace.ts initializeWorkspace and openWorkspace).
THEOREM OneKeyAlways == Spec => []OneKey
<1>1. Home!Spec => []Home!OneKey
  BY PartsAssumption, HomeKeepsOneKey
<1>2. (Home!OneKey => OneKey) /\ (~(part = "workspace") => OneKey)
  BY DEF OneKey
<1> QED
  BY <1>1, <1>2, HomeIsPart, PTL DEF Spec, Home!Spec

\* A form's success is true and a window keeps to its limit, as MailKeepsItsWord
\* has it (the site's two form handlers).
THEOREM ListAlwaysKeepsItsWord == Spec => []ListKeepsItsWord
<1>1. Mail!Spec => []Mail!ListKeepsItsWord
  BY PartsAssumption, MailKeepsItsWord
<1>2. (Mail!ListKeepsItsWord => ListKeepsItsWord) /\ (~(part = "mail") => ListKeepsItsWord)
  BY DEF ListKeepsItsWord
<1> QED
  BY <1>1, <1>2, MailIsPart, PTL DEF Spec, Mail!Spec

\* Pages and receipts carry words that were signed, as PieceShowsSignedWords has it
\* (piece.mjs and the app's approvals).
THEOREM OnlySignedWordsAlways == Spec => []OnlySignedWords
<1>1. Piece!Spec => [](Piece!SignedPagesWereSigned /\ Piece!ReceiptsWereSigned)
  BY PartsAssumption, PieceShowsSignedWords
<1>2. /\ Piece!SignedPagesWereSigned /\ Piece!ReceiptsWereSigned => OnlySignedWords
      /\ ~(part \in PieceParts) => OnlySignedWords
  BY DEF OnlySignedWords
<1> QED
  BY <1>1, <1>2, PieceIsPart, PTL DEF Spec, Piece!Spec

\* Two programs that each derive the state of the same files say the same: of a
\* piece's forms the app and the runner, of the feeds the app and the server.
THEOREM ReadersAlwaysAgree == Spec => []ReadersAgree
<1>1. Piece!Spec => []Piece!ReadersAgree
  BY PartsAssumption, PieceReadersAgree
<1>2. Feed!Spec => []Feed!FeedReadersAgree
  BY PartsAssumption, FeedReadersAlike
<1>3. (Piece!ReadersAgree \/ ~(part \in PieceParts)) /\ (Feed!FeedReadersAgree \/ ~(part \in FeedParts)) => ReadersAgree
  BY DEF ReadersAgree
<1> QED
  BY <1>1, <1>2, <1>3, PieceIsPart, FeedIsPart, PTL DEF Spec, Piece!Spec, Feed!Spec

\* A checkpoint follows what its agent read, what was said to be saved is there and
\* its decision on the shelf; a prompt leads back to its Desk, and only its
\* conversation is evidence (companion.mjs, two processes or more at any moment).
THEOREM SavedInOrderAlways == Spec => []SavedInOrder
<1>1. Companion!Spec => [](Companion!CommitsFollowReads /\ Companion!SavedIsKept)
  BY PartsAssumption, CompanionSavesInOrder
<1>2. Companion!Spec => []Companion!DecisionOnShelf
  BY PartsAssumption, CompanionShelvesDecisions
<1>3. Session!Spec => [](Session!HandoffsLeadBack /\ Session!MessagesAreOurs)
  BY PartsAssumption, SessionLeadsBack
<1>4. /\ (Companion!CommitsFollowReads /\ Companion!SavedIsKept /\ Companion!DecisionOnShelf) \/ ~(part = "companion")
      /\ (Session!HandoffsLeadBack /\ Session!MessagesAreOurs) \/ ~(part = "session")
      => SavedInOrder
  BY DEF SavedInOrder
<1> QED
  BY <1>1, <1>2, <1>3, <1>4, CompanionIsPart, SessionIsPart, PTL DEF Spec, Companion!Spec, Session!Spec

\* A cue that shows stands on a good receipt of the plan in force, as FeedCuesStand
\* has it (feed-state.ts, FeedConnectionRuntime.swift).
THEOREM CuesAlwaysStandOnReceipts == Spec => []CuesStandOnReceipts
<1>1. Feed!Spec => []Feed!CuesStandOnReceipts
  BY PartsAssumption, FeedCuesStand
<1>2. (Feed!CuesStandOnReceipts => CuesStandOnReceipts) /\ (~(part \in FeedParts) => CuesStandOnReceipts)
  BY DEF CuesStandOnReceipts
<1> QED
  BY <1>1, <1>2, FeedIsPart, PTL DEF Spec, Feed!Spec

\* No step replaces or loses what a human hand wrote, as PieceKeepsPages has it
\* (piece.mjs renderPiece, the app's loose pages).
THEOREM PagesAlwaysKept == Spec => PagesKept
<1>1. Piece!Spec => [][Piece!HandsKept]_Piece!vars
  BY PartsAssumption, PieceKeepsPages DEF Piece!NothingHandmadeIsReplaced
<1>2. part \in PieceParts /\ [Next]_vars /\ [Piece!HandsKept]_Piece!vars => [(part \in PieceParts) => Piece!HandsKept]_vars
  BY DEF Piece!HandsKept, Piece!vars, Piece!disk
<1>3. ~(part \in PieceParts) => [(part \in PieceParts) => Piece!HandsKept]_vars
  OBVIOUS
<1> QED
  BY <1>1, <1>2, <1>3, PieceIsPart, PTL DEF Spec, Piece!Spec, PagesKept

\* What the readers see does not depend on the order of arrival, as HubForgetsArrival
\* has it (hub/src/d1-store.ts, projector.ts).
THEOREM ArrivalOrderNeverMatters == Spec => []ArrivalOrderIsIrrelevant
<1>1. Hub!Spec => []Hub!ArrivalOrderIsIrrelevant
  BY PartsAssumption, HubForgetsArrival
<1>2. (Hub!ArrivalOrderIsIrrelevant => ArrivalOrderIsIrrelevant) /\ (~(part = "hub") => ArrivalOrderIsIrrelevant)
  BY DEF ArrivalOrderIsIrrelevant
<1> QED
  BY <1>1, <1>2, HubIsPart, PTL DEF Spec, Hub!Spec

\* An item never goes back to an earlier revision, as HubNeverRegresses has it
\* (hub/src/projector.ts projectCanonicalFeedItems).
THEOREM RevisionsNeverGoBack == Spec => RevisionsNeverRegress
<1>1. Hub!Spec => [][~Hub!Regressed]_Hub!vars
  BY PartsAssumption, HubNeverRegresses DEF Hub!RevisionsNeverRegress
<1>2. part = "hub" /\ [Next]_vars /\ [~Hub!Regressed]_Hub!vars => [part = "hub" => ~Hub!Regressed]_vars
  BY DEF Hub!Regressed, Hub!vars
<1>3. ~(part = "hub") => [part = "hub" => ~Hub!Regressed]_vars
  OBVIOUS
<1> QED
  BY <1>1, <1>2, <1>3, HubIsPart, PTL DEF Spec, Hub!Spec, RevisionsNeverRegress
=============================================================================
