------------------------------ MODULE FileLock ------------------------------
(***************************************************************************)
(* services/context-kernel/src/file-lock.ts: the cross-process lock file,  *)
(* one file-system call per step.                                          *)
(*                                                                         *)
(* A lock is a file at one pathname.  `path` is the inode linked there and *)
(* `record` the contents of each inode: the random token of the attempt    *)
(* that wrote it, or Empty between open(..., "wx") and the write of the    *)
(* record.  A token is the pair of the attempt's process and its number,   *)
(* so the pid in a record is token[1].  An inode number is free again once *)
(* no pathname and no open handle refers to it, as on a real file system.  *)
(***************************************************************************)
EXTENDS Naturals, FiniteSets

CONSTANTS
  Proc,         \* operating-system processes (one call of withFileLock at a time each)
  Ino,          \* inode numbers
  NoIno,        \* "no file at the pathname" (ENOENT); also "no process"
  MaxAttempts,  \* bound: lock files each process may create
  Mortal,       \* the processes that may die
  SlowOwners,   \* may a live owner take longer than stale_ms to write its record?
  Faults        \* which calls on its new lock file may fail for a process: <<p, "stat">>, <<p, "write">>

ASSUME LockAssumption ==
  /\ NoIno \notin Ino \cup Proc
  /\ MaxAttempts \in [Proc -> Nat]
  /\ Mortal \subseteq Proc
  /\ SlowOwners \in BOOLEAN
  /\ Faults \subseteq Proc \X {"stat", "write"}

Token == Proc \X Nat
Empty == <<>>                       \* record === null: no parsable record in the file
NoFile == [ino |-> NoIno, rec |-> Empty]

VARIABLES
  path,      \* inode at lockPath, or NoIno
  record,    \* [Ino -> Token or Empty]
  stale,     \* the inodes whose mtime is more than stale_ms ago
  pc,        \* where each process is in withFileLock
  token,     \* its current attempt
  mine,      \* inode it created (identity.ino), or NoIno
  seen       \* what its last inspectLock in recoverAbandonedLock returned

vars == <<path, record, stale, pc, token, mine, seen>>

Idle == "idle"
Alive(p) == pc[p] # "dead"

HasHandle(p) == pc[p] \in {"created", "work"}
InUse(i) == path = i \/ \E p \in Proc : HasHandle(p) /\ mine[p] = i

Go(p, where) == pc' = [pc EXCEPT ![p] = where]

Init ==
  /\ path = NoIno
  /\ record = [i \in Ino |-> Empty]
  /\ stale = {}
  /\ pc = [p \in Proc |-> Idle]
  /\ token = [p \in Proc |-> <<p, 0>>]
  /\ mine = [p \in Proc |-> NoIno]
  /\ seen = [p \in Proc |-> NoFile]

-----------------------------------------------------------------------------
(* withFileLock *)

Enter(p) ==
  /\ pc[p] = Idle /\ token[p][2] < MaxAttempts[p]
  /\ Go(p, "open")
  /\ UNCHANGED <<path, record, stale, token, mine, seen>>

CreateShared(p) ==                   \* mutant: flag "w" instead of "wx"
  /\ pc[p] = "open"
  /\ \E i \in {j \in Ino : ~InUse(j)} :
       /\ path' = i
       /\ record' = [record EXCEPT ![i] = Empty]
       /\ stale' = stale \ {i}
       /\ mine' = [mine EXCEPT ![p] = i]
  /\ token' = [token EXCEPT ![p] = <<p, @[2] + 1>>]
  /\ Go(p, "created")
  /\ UNCHANGED seen

\* open(lockPath, "wx") succeeds: a fresh inode, empty and just modified.
Create(p) ==
  /\ pc[p] = "open" /\ path = NoIno
  /\ \E i \in {j \in Ino : ~InUse(j)} :
       /\ path' = i
       /\ record' = [record EXCEPT ![i] = Empty]
       /\ stale' = stale \ {i}
       /\ mine' = [mine EXCEPT ![p] = i]
  /\ token' = [token EXCEPT ![p] = <<p, @[2] + 1>>]
  /\ Go(p, "created")
  /\ UNCHANGED seen

\* open(lockPath, "wx") fails with EEXIST.
CreateRefused(p) ==
  /\ pc[p] = "open" /\ path # NoIno
  /\ Go(p, "inspect")
  /\ UNCHANGED <<path, record, stale, token, mine, seen>>

WriteRecordBare(p) ==                \* mutant: the record has no token
  /\ pc[p] = "created"
  /\ record' = [record EXCEPT ![mine[p]] = <<p>>]
  /\ stale' = stale \ {mine[p]}
  /\ Go(p, "work")
  /\ UNCHANGED <<path, token, mine, seen>>

\* stat, writeFile(record), sync: `work` may start.
WriteRecord(p) ==
  /\ pc[p] = "created"
  /\ record' = [record EXCEPT ![mine[p]] = token[p]]
  /\ stale' = stale \ {mine[p]}
  /\ Go(p, "work")
  /\ UNCHANGED <<path, token, mine, seen>>

\* stat fails: no identity, so the finally block closes and releases nothing.
StatFails(p) ==
  /\ <<p, "stat">> \in Faults /\ pc[p] = "created"
  /\ mine' = [mine EXCEPT ![p] = NoIno]
  /\ Go(p, Idle)
  /\ UNCHANGED <<path, record, stale, token, seen>>

\* writeFile fails: identity is set, so the empty file is released.
WriteFails(p) ==
  /\ <<p, "write">> \in Faults /\ pc[p] = "created"
  /\ Go(p, "release")
  /\ UNCHANGED <<path, record, stale, token, mine, seen>>

\* work() settles and the handle is closed.
Finish(p) ==
  /\ pc[p] = "work"
  /\ Go(p, "release")
  /\ UNCHANGED <<path, record, stale, token, mine, seen>>

\* releaseOwnedLock, up to its unlink: same inode, and our token or no record.
LooksOwn(p) ==
  /\ path = mine[p]
  /\ record[path] \in {Empty, token[p]}

ReleaseInspect(p) ==
  /\ pc[p] = "release"
  /\ IF path # NoIno /\ LooksOwn(p)
       THEN Go(p, "unlinkOwn") /\ UNCHANGED mine
       ELSE Go(p, Idle) /\ mine' = [mine EXCEPT ![p] = NoIno]
  /\ UNCHANGED <<path, record, stale, token, seen>>

\* unlink(lockPath): removes whatever file is there now; ENOENT is ignored.
UnlinkOwn(p) ==
  /\ pc[p] = "unlinkOwn"
  /\ path' = NoIno
  /\ mine' = [mine EXCEPT ![p] = NoIno]
  /\ Go(p, Idle)
  /\ UNCHANGED <<record, stale, token, seen>>

-----------------------------------------------------------------------------
(* recoverAbandonedLock *)

Look == IF path = NoIno THEN NoFile ELSE [ino |-> path, rec |-> record[path]]

AbandonedUnprobed == TRUE            \* mutant: no pid probe, no age test
AbandonedByAge == record[path] = Empty /\ path \in stale   \* mutant: records never expire

\* A recorded owner counts as gone when its pid is dead, an unrecorded one
\* when the file is older than stale_ms.
Abandoned ==
  IF record[path] # Empty THEN ~Alive(record[path][1]) ELSE path \in stale

\* First inspectLock.  It is one step with the liveness test that follows it:
\* a pid that dies in between leaves no other file with its token.
Inspect(p) ==
  /\ pc[p] = "inspect"
  /\ seen' = [seen EXCEPT ![p] = Look]
  /\ \/ path = NoIno /\ Go(p, "open")
     \/ path # NoIno /\ Abandoned /\ Go(p, "recheck")
     \/ path # NoIno /\ ~Abandoned /\ Go(p, "wait")
  /\ UNCHANGED <<path, record, stale, token, mine>>

\* Second inspectLock: the same inode with the same token, or leave it alone.
Recheck(p) ==
  /\ pc[p] = "recheck"
  /\ \/ path = NoIno /\ Go(p, "open")
     \/ path # NoIno /\ Look # seen[p] /\ Go(p, "wait")
     \/ path # NoIno /\ Look = seen[p] /\ Go(p, "unlinkStale")
  /\ UNCHANGED <<path, record, stale, token, mine, seen>>

\* unlink(lockPath): again whatever file is there now.
UnlinkStale(p) ==
  /\ pc[p] = "unlinkStale"
  /\ path' = NoIno
  /\ Go(p, "open")
  /\ UNCHANGED <<record, stale, token, mine, seen>>

\* Not recovered: poll again, or throw busy_code once timeout_ms has passed.
Poll(p) ==
  /\ pc[p] = "wait"
  /\ Go(p, "open")
  /\ UNCHANGED <<path, record, stale, token, mine, seen>>

Busy(p) ==
  /\ pc[p] = "wait"
  /\ Go(p, Idle)
  /\ UNCHANGED <<path, record, stale, token, mine, seen>>

-----------------------------------------------------------------------------
(* The environment: time and death. *)

\* An unrecorded file gets older than stale_ms.  Unless owners may be slow,
\* its creator is no longer on its way to writing the record.
Age(i) ==
  /\ path = i /\ record[i] = Empty /\ i \notin stale
  /\ SlowOwners \/ \A p \in Proc : mine[p] = i => pc[p] \notin {"created", "release", "unlinkOwn"}
  /\ stale' = stale \cup {i}
  /\ UNCHANGED <<path, record, pc, token, mine, seen>>

Die(p) ==
  /\ p \in Mortal /\ Alive(p)
  /\ Go(p, "dead")
  /\ UNCHANGED <<path, record, stale, token, mine, seen>>

Step(p) ==
  \/ Create(p) \/ CreateRefused(p) \/ WriteRecord(p) \/ Finish(p)
  \/ StatFails(p) \/ WriteFails(p)
  \/ ReleaseInspect(p) \/ UnlinkOwn(p)
  \/ Inspect(p) \/ Recheck(p) \/ UnlinkStale(p)
  \/ Poll(p)

Next ==
  \/ \E p \in Proc : Enter(p) \/ Step(p) \/ Busy(p) \/ Die(p)
  \/ \E i \in Ino : Age(i)

Spec == Init /\ [][Next]_vars

\* Every process that is inside withFileLock keeps running (its event loop
\* runs the next callback), and time passes.  Entering, timing out, failing
\* and dying are never forced.
FairSpec ==
  /\ Spec
  /\ \A p \in Proc : WF_vars(Step(p))
  /\ \A i \in Ino : WF_vars(Age(i))

-----------------------------------------------------------------------------
PC == {Idle, "open", "created", "work", "release", "unlinkOwn", "inspect",
       "recheck", "unlinkStale", "wait", "dead"}

\* Type invariant of the lock file and of the processes' local state.
TypeOK ==
  /\ path \in Ino \cup {NoIno}
  /\ record \in [Ino -> Token \cup {Empty}]
  /\ stale \subseteq Ino
  /\ pc \in [Proc -> PC]
  /\ token \in [Proc -> Token]
  /\ mine \in [Proc -> Ino \cup {NoIno}]
  /\ seen \in [Proc -> [ino : Ino \cup {NoIno}, rec : Token \cup {Empty}]]

\* Two callers never run `work` at once: what appendChange, reconcilePrivateBodies,
\* replayLedger and rebuildSqliteIndex are written on top of.
MutualExclusion ==
  \A p, q \in Proc : pc[p] = "work" /\ pc[q] = "work" => p = q

\* Stale recovery removes a lock file only when no live process is inside
\* `work` on that very file (file-lock.ts, "never steals from a live PID").
RecoverySparesLiveOwners ==
  [][\A p \in Proc : UnlinkStale(p) =>
       ~\E q \in Proc : pc[q] = "work" /\ mine[q] = path]_vars

\* A lock file left by a dead or failed owner does not stay: some later
\* caller that keeps trying removes it, so the ledger is not locked for ever.
Left(i) == path = i /\ \A p \in Proc : Alive(p) => mine[p] # i
Trying(p) == pc[p] \in {"open", "inspect", "recheck", "unlinkStale", "wait"}
AbandonedLockIsRecovered ==
  \A i \in Ino, p \in Proc : (Left(i) /\ Trying(p)) ~> (path # i \/ ~Trying(p))

\* The refinement: the lock as its callers see it.
NoProc == NoIno
Working == {p \in Proc : pc[p] = "work"}
Holder == IF Working = {} THEN NoProc ELSE CHOOSE p \in Working : TRUE
Waiting == {p \in Proc : Trying(p) \/ pc[p] = "created"}
Abstract == INSTANCE Mutex WITH holder <- Holder, waiting <- Waiting

\* Every step of the lock file protocol is a step of the abstract mutex.
ImplementsMutex == Abstract!MutexSpec
=============================================================================
