----------------------------- MODULE Workspace ------------------------------
(***************************************************************************)
(* A context workspace's manifest and its encryption key                   *)
(* (services/context-kernel/src/workspace.ts, io.ts, private-objects.ts,   *)
(* receipt-auth.ts).  Processes initialize the workspace at the same time, *)
(* open it, seal bodies and sign receipts with its key, die between any    *)
(* two steps, and start again.  The owner may lose the key or the manifest *)
(* (a backup without .secrets, say), not both.                             *)
(*                                                                         *)
(* Not modelled: the directories (ensureLayout only ever adds them), and   *)
(* the temporary files that a death leaves beside their target.            *)
(***************************************************************************)
EXTENDS Naturals, FiniteSets

CONSTANTS
  Procs,
  OwnerOf,     \* whose workspace a process asks for
  MaxDeaths, MaxSealed, MaxLosses,
  Absent

\* What an instance must give; the module that instantiates assumes it.
WorkspaceAssumption ==
  /\ Absent \notin Procs /\ \A p, q \in Procs : [owner |-> OwnerOf[p], by |-> q] # Absent
  /\ MaxLosses \in {0, 1}

VARIABLES
  manifest,  \* [owner, by], by the process whose write it was, or Absent
  key,       \* the process that made it, or Absent
  sealed,    \* bodies and receipts: the keys they were made with, numbered
  procs,     \* [at, manifest, created]
  deaths, losses

vars == <<manifest, key, sealed, procs, deaths, losses>>

Idle == [at |-> "idle", manifest |-> Absent, created |-> FALSE]
Init ==
  /\ manifest = Absent /\ key = Absent /\ sealed = {} /\ deaths = 0 /\ losses = 0
  /\ procs = [p \in Procs |-> Idle]

Moves(p, at) == procs' = [procs EXCEPT ![p].at = at]
Has(p, created) == procs' = [procs EXCEPT ![p] = [at |-> "open", manifest |-> manifest', created |-> created]]

-----------------------------------------------------------------------------
(* initializeWorkspace                                                      *)

\* An existing workspace is returned to its owner, whether its key is there or not.
Find(p) ==
  /\ procs[p].at = "idle" /\ UNCHANGED <<manifest, key, sealed, deaths, losses>>
  /\ CASE manifest = Absent -> Moves(p, "key")
       [] manifest # Absent /\ manifest.owner = OwnerOf[p] -> Has(p, FALSE)
       [] OTHER -> Moves(p, "OWNER_MISMATCH")

\* mutant: the key is written like a derived file, over what is there
CreatedOver(old, new) == new

\* writeCreateOnly: link refuses a name that exists.
Created(old, new) == IF old = Absent THEN new ELSE old

\* ALREADY_EXISTS is no failure of the key's write, and is one of the manifest's.
WriteKey(p) ==
  /\ procs[p].at = "key" /\ Moves(p, "manifest")
  /\ key' = Created(key, p)
  /\ UNCHANGED <<manifest, sealed, deaths, losses>>
WriteManifest(p) ==
  /\ procs[p].at = "manifest"
  /\ manifest' = Created(manifest, [owner |-> OwnerOf[p], by |-> p])
  /\ IF manifest = Absent THEN Has(p, TRUE) ELSE Moves(p, "ALREADY_EXISTS")
  /\ UNCHANGED <<key, sealed, deaths, losses>>

-----------------------------------------------------------------------------
(* openWorkspace: the manifest is read, then the key.                       *)

Open(p) ==
  /\ procs[p].at = "idle" /\ manifest # Absent
  /\ procs' = [procs EXCEPT ![p] = [at |-> "opening", manifest |-> manifest, created |-> FALSE]]
  /\ UNCHANGED <<manifest, key, sealed, deaths, losses>>
Opened(p) ==
  /\ procs[p].at = "opening"
  /\ Moves(p, IF key = Absent THEN "ENCRYPTION_KEY_MISSING" ELSE "open")
  /\ UNCHANGED <<manifest, key, sealed, deaths, losses>>

\* storePrivateBody and signContextPackPayload read the key every time.
Seal(p) ==
  /\ procs[p].at = "open" /\ key # Absent /\ Cardinality(sealed) < MaxSealed
  /\ sealed' = sealed \cup {[no |-> Cardinality(sealed) + 1, key |-> key]}
  /\ UNCHANGED <<manifest, key, procs, deaths, losses>>

\* readPrivateBody and verifyContextPackPayload: with another key the body cannot be
\* authenticated, and the receipt is not one.
Reads(s) == s.key = key

-----------------------------------------------------------------------------

\* A process dies, or ends with its error, and another starts.
Restart(p) ==
  /\ procs[p].at # "idle" /\ deaths < MaxDeaths
  /\ procs' = [procs EXCEPT ![p] = Idle] /\ deaths' = deaths + 1
  /\ UNCHANGED <<manifest, key, sealed, losses>>

\* Between sessions: nobody is initializing.
Settled == \A p \in Procs : procs[p].at \notin {"key", "manifest"}
LoseKey ==
  /\ Settled /\ key # Absent /\ losses < MaxLosses
  /\ key' = Absent /\ losses' = losses + 1
  /\ UNCHANGED <<manifest, sealed, procs, deaths>>
LoseManifest ==
  /\ Settled /\ manifest # Absent /\ losses < MaxLosses
  /\ manifest' = Absent /\ losses' = losses + 1
  /\ UNCHANGED <<key, sealed, procs, deaths>>

Next ==
  \/ \E p \in Procs :
       Find(p) \/ WriteKey(p) \/ WriteManifest(p) \/ Open(p) \/ Opened(p) \/ Seal(p) \/ Restart(p)
  \/ LoseKey \/ LoseManifest

Spec == Init /\ [][Next]_vars

-----------------------------------------------------------------------------
(* Properties.                                                              *)

\* One workspace, one key: whatever was sealed or signed can be read and verified
\* for as long as there is a key, whoever initializes at the same time or again, and
\* a key that was lost is never replaced by one that reads nothing; while nothing
\* has been lost, a workspace with a manifest has its key, and every process that
\* has it open has that manifest, one of them at most having created it.
OneKey ==
  /\ key # Absent => \A s \in sealed : Reads(s)
  /\ losses = 0 =>
       /\ manifest # Absent => key # Absent
       /\ \A p \in Procs : procs[p].at = "open" => procs[p].manifest = manifest
       /\ \A p, q \in Procs : procs[p].created /\ procs[q].created => p = q
=============================================================================
