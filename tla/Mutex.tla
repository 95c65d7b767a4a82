------------------------------- MODULE Mutex --------------------------------
(***************************************************************************)
(* What a caller of withFileLock(path, options, work) may rely on: `work`  *)
(* runs for one caller at a time, and a caller that does not get the lock  *)
(* gives up with the busy error.  FileLock implements this; ContextLedger  *)
(* and DerivedState take the lock to be this.                              *)
(***************************************************************************)
CONSTANTS Proc, NoProc

VARIABLES holder,   \* the caller whose `work` is running, or NoProc
          waiting   \* the callers inside withFileLock that are not running `work`

mutexVars == <<holder, waiting>>

MutexInit == holder = NoProc /\ waiting = {}

\* A caller enters withFileLock.
Ask(p) ==
  /\ p \notin waiting /\ p # holder
  /\ waiting' = waiting \cup {p}
  /\ UNCHANGED holder

\* Its `work` starts: only while nobody else's runs.
Take(p) ==
  /\ p \in waiting /\ holder = NoProc
  /\ holder' = p
  /\ waiting' = waiting \ {p}

\* Its `work` ends, or it dies inside it.
Leave(p) ==
  /\ holder = p
  /\ holder' = NoProc
  /\ UNCHANGED waiting

\* The busy error, an I/O error, or death before `work` started.
GiveUp(p) ==
  /\ p \in waiting
  /\ waiting' = waiting \ {p}
  /\ UNCHANGED holder

MutexNext == \E p \in Proc : Ask(p) \/ Take(p) \/ Leave(p) \/ GiveUp(p)

MutexSpec == MutexInit /\ [][MutexNext]_mutexVars
=============================================================================
