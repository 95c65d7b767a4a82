--------------------------- MODULE ProtocolLedger ---------------------------
(***************************************************************************)
(* Ledgers of afi.ledger_event.v1 written through packages/protocol:       *)
(* buildLedgerMutationEvent, buildLedgerTombstoneEvent and, before an      *)
(* append, the replay of projectLedgerEvents.  Copies of one ledger are    *)
(* written independently and restored from each other; a slow writer's     *)
(* event is built on one state of a copy and arrives at another, or at     *)
(* another copy, and may arrive twice.                                     *)
(***************************************************************************)
EXTENDS Naturals, Sequences, FiniteSets, TLC

CONSTANTS
  Owner, Absent,
  Copies,       \* copies of the ledger
  Intents,      \* what writers want to record, see Build
  MaxEvents,    \* bound: events in a copy
  MaxBuilt,     \* bound: events built
  MaxRestores   \* bound: copies restored from another one

INSTANCE ProtocolRules

VARIABLES
  copies,     \* [Copies -> the events appended to each]
  slow,       \* the event a slow writer has built and not given up on
  built,      \* events built so far; the last one's id
  restores

vars == <<copies, slow, built, restores>>

Init ==
  /\ copies = [c \in Copies |-> <<>>]
  /\ slow = Absent
  /\ built = 0 /\ restores = 0

-----------------------------------------------------------------------------
(* Building *)

\* An intent is [op, entity (its revision still open), actor, auth, producer,
\* cites, at, follows]: `cites` is the record of the decision cited, as far as
\* the writer can find it; `follows` asks for a causation_event_id.
Cited(l, i) ==
  IF i.cites = Absent THEN Absent ELSE Held(l, i.cites)

Authority(l, i) == [mode |-> i.mode, by |-> i.by, ref |-> Cited(l, i)]

\* What both builders put in an envelope.
Envelope(l, i) ==
  [ledger |-> "ledger", id |-> built + 1, key |-> built + 1, owner |-> Owner,
   seq |-> Len(l) + 1, prev |-> HashBefore(l),
   at |-> i.at, recorded |-> i.at, op |-> i.op, target |-> KeyOf(i.entity),
   actor |-> i.actor, auth |-> Authority(l, i), producer |-> i.producer,
   cause |-> IF i.follows /\ l # <<>> THEN l[1].id ELSE Absent, sealed |-> TRUE]

\* The builders' own tests: a created record is a first revision and every
\* other operation is given the snapshot before it.
Buildable(l, i) == (i.op = "created") \/ (Held(l, KeyOf(i.entity)) # Absent)

Chained(previous) ==
  [prevRev |-> previous.rev, prevHash |-> previous, rev |-> previous.rev + 1]

Mutation(l, i) ==
  LET key == KeyOf(i.entity)
      chain == IF i.op = "created" THEN [prevRev |-> Absent, prevHash |-> Absent, rev |-> 1]
               ELSE Chained(Held(l, key))
      corrects == i.op = "corrected"
  IN Envelope(l, i) @@ chain @@
     [entity |-> [i.entity EXCEPT !.rev = chain.rev],
      sup |-> IF corrects THEN l[LastAbout(l, key)].id ELSE Absent,
      reason |-> IF corrects THEN "reason" ELSE Absent]

Tombstone(l, i) ==
  Envelope(l, i) @@ Chained(Held(l, KeyOf(i.entity))) @@
  [entity |-> Absent, sup |-> Absent, reason |-> Absent]

Event(l, i) == IF i.op = "tombstoned" THEN Tombstone(l, i) ELSE Mutation(l, i)

-----------------------------------------------------------------------------
(* Writing *)

CanBuild(c, i) == built < MaxBuilt /\ Buildable(copies[c], i)

\* Appending an event the replay would refuse throws and changes nothing.
Append1(c, e) ==
  /\ Len(copies[c]) < MaxEvents
  /\ Accepts(copies[c], e)
  /\ copies' = [copies EXCEPT ![c] = Append(@, e)]

Write(c, i) ==
  /\ CanBuild(c, i)
  /\ Append1(c, Event(copies[c], i))
  /\ built' = built + 1
  /\ UNCHANGED <<slow, restores>>

Prepare(c, i) ==
  /\ CanBuild(c, i)
  /\ slow' = Event(copies[c], i)
  /\ built' = built + 1
  /\ UNCHANGED <<copies, restores>>

\* The slow writer's event arrives; it may be sent again, and to any copy.
Submit(c) ==
  /\ slow # Absent
  /\ Append1(c, slow)
  /\ UNCHANGED <<slow, built, restores>>

\* A copy is put back to what another one had held.
Restore(c, d, n) ==
  /\ c # d /\ restores < MaxRestores
  /\ copies' = [copies EXCEPT ![c] = SubSeq(copies[d], 1, n)]
  /\ restores' = restores + 1
  /\ UNCHANGED <<slow, built>>

Next ==
  \E c \in Copies :
    \/ \E i \in Intents : Write(c, i) \/ Prepare(c, i)
    \/ Submit(c)
    \/ \E d \in Copies : \E n \in 0 .. Len(copies[d]) : Restore(c, d, n)

Spec == Init /\ [][Next]_vars

-----------------------------------------------------------------------------
(* What ought to hold *)

\* What only the owner may bring about: an explicit statement, a decision, an
\* approved draft, or a private record that stops being private.
NeedsOwner(l, i) ==
  LET e == l[i].entity IN
  /\ e # Absent
  /\ \/ e.type = "context_statement" /\ e.about.basis = "explicit"
     \/ e.type = "decision"
     \/ e.type = "draft" /\ e.about.status = "approved"
     \/ ~User(l[i].actor) /\ l[i].prevHash # Absent /\ Broadens(l[i].prevHash, e)

OwnersAct(l, i) == l[i].actor = Owner /\ l[i].auth.mode = "user_originated"

\* At event i, the decision event j made still stood, named i's record, and
\* had been active when it was made.
StoodFor(l, j, i) ==
  /\ l[j].target.type = "decision" /\ l[j].entity # Absent
  /\ l[j].entity.about.status = "active" /\ l[j].entity.about.by = Owner
  /\ \A k \in j + 1 .. i - 1 : l[k].target # l[j].target
  /\ \E t \in l[j].entity.about.targets : KeyOf(t) = l[i].target

\* Through whatever chain of confirmations, every such event goes back to an
\* act of the owner that had not been superseded or deleted when it was used.
\* (projectLedgerEvents, validateUserConfirmationForEvent.)
OwnersWordBehindIt ==
  \A c \in Copies :
    LET l == copies[c] IN
    \A i \in DOMAIN l : NeedsOwner(l, i) =>
      \/ OwnersAct(l, i)
      \/ \E j \in 1 .. i - 1 : StoodFor(l, j, i)

\* However two copies of a ledger have parted, no history put together from
\* the events of both replays unless it is a beginning of one of them.
\* (context-ledger.ts: the sequence and the chain of hashes.)
OnlyOwnHistoriesReplay ==
  \A c, d \in Copies : \A n \in 1 .. Len(copies[c]) :
    n <= Len(copies[d]) =>
      \A from \in [1 .. n -> {c, d}] :
        LET spliced == [i \in 1 .. n |-> copies[from[i]][i]] IN
        Replays(spliced) => spliced \in {SubSeq(copies[c], 1, n), SubSeq(copies[d], 1, n)}
=============================================================================
