--------------------------- MODULE ProtocolExport ---------------------------
(***************************************************************************)
(* services/context-kernel/src/protocol-adapter.ts: the boundary every     *)
(* record of a protocol type crosses on its way into the kernel's ledger   *)
(* (assertCanonicalProtocolEntityBody), and the export of that ledger as   *)
(* afi.ledger_event.v1 (toProtocolLedgerEvents), which local-context-      *)
(* gateway.ts runs over everything the kernel holds.                       *)
(*                                                                         *)
(* A commit is one step here; ContextLedger has its interleavings.  The    *)
(* gateway's export is not: it reads the events page by page and then each *)
(* body, while the kernel goes on.                                         *)
(***************************************************************************)
EXTENDS Naturals, Sequences, FiniteSets

CONSTANTS
  Owner, Absent,
  Requests,    \* ChangeInputs and DeleteInputs, see Change and Delete
  MaxEvents,   \* bound: events in the kernel's ledger
  PageSize,    \* events per call of kernel.changes: 1000
  MaxExports   \* bound: exports begun

P == INSTANCE ProtocolRules

\* The sequence numbers, revisions and times callers give are numbers, and a body
\* is a record with its dates.
ExportAssumption ==
  /\ Absent \notin Nat /\ Absent # "corrected"
  /\ P!User(Owner) /\ PageSize \in Nat
  /\ \A r \in Requests :
       /\ r.expected \in Nat /\ r.at \in Nat
       /\ r.body # Absent =>
            r.body = [f \in DOMAIN r.body |-> r.body[f]] /\ {r.body.created, r.body.updated} \subseteq Nat

VARIABLES
  log,      \* the kernel's ledger
  export    \* the gateway's export: where it is, events read, bodies read, exports begun

vars == <<log, export>>

Init == log = <<>> /\ export = [pc |-> "idle", read |-> 0, bodies |-> <<>>, begun |-> 0]

-----------------------------------------------------------------------------
(* The kernel *)

About(l, key) == {i \in DOMAIN l : l[i].target = key}
Revision(l, key) == Cardinality(About(l, key))
CurrentEvent(l, key) == CHOOSE i \in About(l, key) : \A j \in About(l, key) : j <= i
Deleted(l, key) == \E i \in About(l, key) : l[i].tomb

\* protocolAuthorityFor
AuthorityFor(actor) ==
  [mode |-> CASE actor.kind = "user" -> "user_originated"
              [] actor.kind = "agent" -> "agent_proposal"
              [] actor.kind = "provider" -> "connector_observation"
              [] OTHER -> "system_derived",
   by |-> IF actor.kind = "user" THEN actor ELSE Absent,
   ref |-> Absent]

ExpectedBasis(r) == IF r.basis = "system" THEN "derived" ELSE r.basis

\* The bindings between the snapshot and the change that carries it.
Bound(r) ==
  LET e == r.body IN
  /\ P!KeyOf(e) = r.target /\ e.rev = r.expected + 1 /\ e.owner = Owner
  /\ e.prov.basis = ExpectedBasis(r)
  /\ e.editor = r.actor
  /\ r.expected = 0 => e.creator = r.actor
  /\ e.type = "context_statement" => e.about.basis = ExpectedBasis(r)

\* assertCanonicalProtocolEntityBody
CanonicalBody(r) ==
  r.target.type \in P!EntityTypes =>
    /\ r.body # Absent
    /\ P!EntityOK(r.body)
    /\ P!EntityAuthority(r.body, r.actor, AuthorityFor(r.actor), Absent)
    /\ Bound(r)

\* appendChange, as far as it decides by the actor, the basis and the record.
Permitted(l, r) ==
  /\ r.actor.kind = "user" => r.actor = Owner
  /\ r.basis = "explicit" => r.actor = Owner
  /\ r.actor.kind = "agent" => r.basis \in {"observed", "inferred"}
  /\ ~Deleted(l, r.target)
  /\ r.expected = 0 => \A i \in DOMAIN l : l[i].target.id # r.target.id
  /\ Revision(l, r.target) = r.expected
  /\ About(l, r.target) # {} /\ l[CurrentEvent(l, r.target)].basis = "explicit" => r.actor = Owner

KernelEvent(r, tomb) ==
  [target |-> r.target, rev |-> r.expected + 1, id |-> Len(log) + 1, actor |-> r.actor,
   basis |-> r.basis, at |-> r.at, body |-> r.body, tomb |-> tomb,
   sup |-> IF (r.corrects \/ tomb) /\ r.expected > 0 THEN CurrentEvent(log, r.target) ELSE Absent]

\* change, and correct, which supersedes the record's current event.
Change(r) ==
  /\ Len(log) < MaxEvents /\ ~r.deletes
  /\ CanonicalBody(r)
  /\ r.corrects => r.expected > 0
  /\ Permitted(log, r)
  /\ log' = Append(log, KernelEvent(r, FALSE))
  /\ UNCHANGED export

\* delete: the bodies of every revision of the record are erased.
Delete(r) ==
  /\ Len(log) < MaxEvents /\ r.deletes
  /\ Permitted(log, r) /\ About(log, r.target) # {}
  /\ log' = [i \in 1 .. Len(log) + 1 |->
               IF i > Len(log) THEN KernelEvent(r, TRUE)
               ELSE IF log[i].target = r.target THEN [log[i] EXCEPT !.body = Absent] ELSE log[i]]
  /\ UNCHANGED export

-----------------------------------------------------------------------------
(* The export *)

PortableLagging(l) ==    \* mutant: a type the protocol has is not in the adapter's list
  {i \in DOMAIN l : l[i].target.type \in P!EntityTypes \ {"feedback_signal"} /\ ~Deleted(l, l[i].target)}

PortableCurrent(l) ==    \* mutant: the current snapshots alone
  {i \in DOMAIN l : l[i].target.type \in P!EntityTypes /\ ~Deleted(l, l[i].target) /\ i = CurrentEvent(l, l[i].target)}

\* The events it keeps: nothing of a deleted record, nothing of the harness's own types.
Portable(l) ==
  {i \in DOMAIN l : l[i].target.type \in P!EntityTypes /\ ~Deleted(l, l[i].target)}

Operation(e) ==
  IF e.rev = 1 THEN "created" ELSE IF e.sup # Absent THEN "corrected" ELSE "revised"

\* sealAndBindEntity: the envelope's identity is written over the body's.
Sealed(e) ==
  [e.body EXCEPT !.type = e.target.type, !.id = e.target.id, !.owner = Owner, !.rev = e.rev, !.sealed = TRUE]

\* The portable form of event i of the kernel's, to follow `before`.
\* An event is never a tombstone here: Portable left those out.
Adapted(e, before) ==
  LET op == Operation(e) IN
  [ledger |-> "workspace", id |-> e.id, key |-> e.id, owner |-> Owner,
   seq |-> Len(before) + 1, prev |-> P!HashBefore(before),
   at |-> e.at, recorded |-> e.at, op |-> op, target |-> e.target,
   actor |-> e.actor, auth |-> AuthorityFor(e.actor), producer |-> Absent, cause |-> Absent, sealed |-> TRUE,
   rev |-> e.rev, entity |-> Sealed(e),
   prevRev |-> IF e.rev > 1 THEN e.rev - 1 ELSE Absent,
   prevHash |-> IF e.rev > 1 THEN P!Held(before, e.target) ELSE Absent,
   sup |-> IF op = "corrected" THEN e.sup ELSE Absent,
   reason |-> IF op = "corrected" THEN "corrected" ELSE Absent]

\* toProtocolLedgerEvents: in sequence order, each event hashed over the one before it.
Exported(l) ==
  LET Upto[n \in 0 .. Len(l)] ==
        IF n = 0 THEN <<>>
        ELSE IF n \in Portable(l) THEN Append(Upto[n - 1], Adapted(l[n], Upto[n - 1])) ELSE Upto[n - 1]
  IN Upto[Len(l)]

\* It does not throw.
Exports(l) == P!Replays(Exported(l))

-----------------------------------------------------------------------------
(* The gateway's export: pages first, then the bodies they point to *)

Begin ==
  /\ export.pc \in {"idle", "done", "refused"} /\ export.begun < MaxExports
  /\ export' = [pc |-> "pages", read |-> 0, bodies |-> <<>>, begun |-> export.begun + 1]
  /\ UNCHANGED log

ReadPage ==
  /\ export.pc = "pages"
  /\ LET rest == Len(log) - export.read IN
       export' = [export EXCEPT !.read = @ + (IF rest < PageSize THEN rest ELSE PageSize),
                                !.pc = IF rest < PageSize THEN "bodies" ELSE "pages"]
  /\ UNCHANGED log

\* The events it has read, with the bodies it has read.
Gathered ==
  [i \in 1 .. export.read |->
     [log[i] EXCEPT !.body = IF i \in DOMAIN export.bodies THEN export.bodies[i] ELSE Absent]]

Skipped(i) == log[i].target.type = "run" \/ Deleted(Gathered, log[i].target)

\* A body that is gone, or of a type the protocol has not, ends the export.
ReadBody ==
  /\ export.pc = "bodies" /\ Len(export.bodies) < export.read
  /\ LET i == Len(export.bodies) + 1
         body == log[i].body
     IN export' =
          IF Skipped(i) THEN [export EXCEPT !.bodies = Append(@, Absent)]
          ELSE IF body # Absent /\ log[i].target.type \in P!EntityTypes /\ P!EntityOK(body)
          THEN [export EXCEPT !.bodies = Append(@, body)]
          ELSE [export EXCEPT !.pc = "refused"]
  /\ UNCHANGED log

Finish ==
  /\ export.pc = "bodies" /\ Len(export.bodies) = export.read
  /\ export' = [export EXCEPT !.pc = IF Exports(Gathered) THEN "done" ELSE "refused"]
  /\ UNCHANGED log

Next ==
  \/ \E r \in Requests : Change(r) \/ Delete(r)
  \/ Begin \/ ReadPage \/ ReadBody \/ Finish

Spec == Init /\ [][Next]_vars

-----------------------------------------------------------------------------
(* What ought to hold *)

\* A revision the boundary lets through and the replay does not: the kernel
\* compares a snapshot with the change that carries it, never with the
\* revision before it.
Unportable(l, i, j) ==
  LET before == l[i].body  next == l[j].body IN
  /\ l[j].target = l[i].target /\ l[j].rev = l[i].rev + 1
  /\ \/ next.created # before.created
     \/ next.updated < before.updated
     \/ P!Broadens(before, next) /\ l[j].actor # Owner

\* The export of what the kernel holds is refused for those revisions and for
\* no other reason; until the record is deleted it is refused for ever.
\* (toProtocolLedgerEvents throws; protocolLedgerEvents of the gateway with it.)
RefusedOnlyForDates ==
  ~Exports(log) <=> \E i, j \in Portable(log) : Unportable(log, i, j)

\* What replaying an export gives is what the kernel holds: the last snapshot
\* of each record of a protocol type that has not been deleted.
ExportIsWhatIsHeld ==
  Exports(log) =>
    P!Entities(Exported(log)) =
      {log[CurrentEvent(log, log[i].target)].body :
         i \in {j \in DOMAIN log : log[j].target.type \in P!EntityTypes
                                   /\ ~log[CurrentEvent(log, log[j].target)].tomb}}

\* What the gateway's export gives is the ledger as it was when the last page
\* was read: every event of a record not deleted by then, with the body it was
\* committed with, whatever was appended or erased since.  It is refused only
\* when a record was erased behind it, or for a record of a type the protocol
\* has not, or for the revisions named above.
ExportIsOfOneMoment ==
  LET then == SubSeq(log, 1, export.read)
      out == Exported(Gathered)
  IN /\ export.pc = "done" =>
          /\ {out[n].id : n \in DOMAIN out} = Portable(then)
          /\ \A n \in DOMAIN out : log[out[n].id].body # Absent => out[n].entity = Sealed(log[out[n].id])
     /\ export.pc = "refused" =>
          \/ \E i \in DOMAIN log : log[i].tomb /\ i > export.read
          \/ \E i \in DOMAIN log : log[i].target.type \notin P!EntityTypes \cup {"run"}
          \/ \E i, j \in Portable(then) : Unportable(log, i, j)

\* As long as nothing is deleted, a later export continues an earlier one,
\* event for event and hash for hash; a deletion starts another history.
ExportsContinue ==
  [][(\A i \in DOMAIN log' : ~log'[i].tomb)
       => SubSeq(Exported(log'), 1, Len(Exported(log))) = Exported(log)]_vars
=============================================================================
