------------------------------ MODULE Protocol ------------------------------
(***************************************************************************)
(* The portable ledger's machines, one at a time: a behaviour is of the    *)
(* one part that Init picked, and the variables of the others are Absent.  *)
(* "words" and "forks" are ProtocolLedger, "export" and "gateway"          *)
(* ProtocolExport, "replay" and "bridge" RunReplay, each twice for the     *)
(* settings of MCProtocol, and "proof" is ActionProof.                     *)
(***************************************************************************)
EXTENDS ProtocolLedger

CONSTANTS
  Requests, MaxHeld, PageSize, MaxExports,                     \* ProtocolExport
  Posts, Me, MaxPosts, MaxSlips,                               \* RunReplay
  Proposer, Asked, Answers, Reports, MaxNow, MaxReceipts       \* ActionProof
VARIABLES part,
  log,                                            \* ProtocolExport, RunReplay
  export,                                         \* ProtocolExport
  flight, used, saved,                            \* RunReplay
  now, proposals, decisions, receipts, shown      \* ActionProof

Export == INSTANCE ProtocolExport WITH MaxEvents <- MaxHeld
Runs == INSTANCE RunReplay WITH MaxEvents <- MaxPosts
Proof == INSTANCE ActionProof WITH Owner <- Owner.id

ASSUME PartsAssumption == Export!ExportAssumption /\ Runs!RunAssumption /\ Proof!ActionAssumption

-----------------------------------------------------------------------------
LedgerParts == {"words", "forks"}
ExportParts == {"export", "gateway"}
RunParts == {"replay", "bridge"}
Parts == LedgerParts \cup ExportParts \cup RunParts \cup {"proof"}

runVars == <<flight, used, saved>>
actionVars == <<now, proposals, decisions, receipts, shown>>
partsVars == <<part, vars, log, export, runVars, actionVars>>

NoRun == flight = Absent /\ used = Absent /\ saved = Absent
NoAction == now = Absent /\ proposals = Absent /\ decisions = Absent /\ receipts = Absent /\ shown = Absent

PartsInit ==
  /\ part \in Parts /\ Init
  /\ IF part \in ExportParts THEN Export!Init ELSE export = Absent
  /\ IF part \in RunParts THEN Runs!Init ELSE NoRun
  /\ part \notin ExportParts \cup RunParts => log = Absent
  /\ IF part = "proof" THEN Proof!Init ELSE NoAction

PartsNext ==
  /\ UNCHANGED part
  /\ \/ part \in LedgerParts /\ Next /\ UNCHANGED <<log, export, runVars, actionVars>>
     \/ part \in ExportParts /\ Export!Next /\ UNCHANGED <<vars, runVars, actionVars>>
     \/ part \in RunParts /\ Runs!Next /\ UNCHANGED <<export, vars, actionVars>>
     \/ part = "proof" /\ Proof!Next /\ UNCHANGED <<vars, log, export, runVars>>

PartsSpec == PartsInit /\ [][PartsNext]_partsVars

-----------------------------------------------------------------------------
\* ProtocolExport's: an export is refused for dates and retention only,
\* replaying one gives what the kernel holds, and one read while the kernel
\* goes on is of one moment.
ExportsHold ==
  part \in ExportParts => Export!RefusedOnlyForDates /\ Export!ExportIsWhatIsHeld /\ Export!ExportIsOfOneMoment

\* ProtocolExport's: without a deletion, exports continue each other.
ExportsContinue ==
  [][(part \in ExportParts) /\ (\A i \in DOMAIN log' : ~log'[i].tomb)
       => SubSeq(Export!Exported(log'), 1, Len(Export!Exported(log))) = Export!Exported(log)]_partsVars

\* RunReplay's: a log that replays gives one run, and the hub's status of it.
ReplaysAgree == part \in RunParts => Runs!ReplaysAgree

\* ActionProof's: what is shown of an action stands on the owner's approval.
ProofsStand == part = "proof" => Proof!ProofsStand
=============================================================================
