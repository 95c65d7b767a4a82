---------------------------- MODULE DerivedState ----------------------------
(***************************************************************************)
(* The plaintext a context workspace derives from its ledger: the          *)
(* projections under projections/ (projector.ts), the SQLite index under   *)
(* cache/ (sqlite-index.ts), and the calls of ContextKernel (kernel.ts)    *)
(* that rebuild and remove them while other processes append, delete, die  *)
(* and search.                                                             *)
(*                                                                         *)
(* An actor is one chain of calls.  A call runs through the phases of its  *)
(* plan: "reconcile", "append" and "erase" are the ledger's operations,    *)
(* one step each here (ContextLedger has their detail); "project" and      *)
(* "reindex" replay the ledger under the projection and the index lock,    *)
(* file by file and body by body; "clear" removes both at once, as the     *)
(* two promises of one Promise.all; "survey" replays without writing.      *)
(* The locks are exclusive, and given up by a holder that dies (FileLock). *)
(***************************************************************************)
EXTENDS Naturals, FiniteSets, Sequences

CONSTANTS
  Actors,      \* call chains, each in a process of its own
  Entities,    \* positive numbers; their order is that of the records' names
  Expiring,    \* entities whose payload carries an expires_at that has passed
  Ops,         \* the calls each actor makes: open, change, delete, prune, search, replay
  Faults,      \* what may go wrong: "death", "busy", "write", "sqlite", "receipt"
  MaxFaults,   \* bound on the number of faults
  MaxLog,      \* bound on the length of the ledger
  Orphans,     \* whether a sqlite3 child outlives the process that spawned it
  Nobody       \* the holder of a free lock

ASSUME DerivedAssumption ==
  /\ IsFiniteSet(Actors) /\ Nobody \notin Actors
  /\ Entities \subseteq Nat \ {0} /\ IsFiniteSet(Entities) /\ Expiring \subseteq Entities
  /\ Ops \in [Actors -> SUBSET {"open", "change", "delete", "prune", "search", "replay"}]
  /\ Faults \subseteq {"death", "busy", "write", "sqlite", "receipt"}
  /\ MaxFaults \in Nat /\ MaxLog \in Nat /\ Orphans \in BOOLEAN

VARIABLES
  log,       \* the events: [of |-> entity, tombstone |-> BOOLEAN]
  objects,   \* the private bodies on disk: <<entity, revision>>
  docs,      \* the files under projections/: name -> set of records shown
  litter,    \* what abandoned temporary files under projections/ show
  index,     \* the SQLite database: rows and the child that created it
  children,  \* sqlite3 processes building a database
  lock,      \* holder of the projection lock and of the index lock
  call,      \* what each actor is doing
  cleared,   \* history: deleted entities whose derived text has been removed
  shown,     \* history: ledger length some finished projection had to show
  faults     \* number of faults so far

vars == <<log, objects, docs, litter, index, children, lock, call, cleared, shown, faults>>
derived == <<docs, litter, index, children, cleared, shown>>
ledger == <<log, objects>>

-----------------------------------------------------------------------------
(* The ledger, read up to its n-th event *)

Now == Len(log)
Rev(e, n) == Cardinality({i \in 1..n : log[i].of = e})
Gone(e, n) == \E i \in 1..n : log[i].of = e /\ log[i].tombstone
Known(n) == {log[i].of : i \in 1..n}
FirstAt(e) == CHOOSE i \in 1..Now : log[i].of = e /\ \A j \in 1..(i - 1) : log[j].of # e


\* A ProjectedRecord: its status is "deleted" exactly if its body_state is.
Record(e, n, body) == [of |-> e, rev |-> Rev(e, n), body |-> body]
Text(records) == {r.of : r \in {x \in records : x.body = "present"}}

\* 0 stands for the two collection files, an entity for its own two files.
FilesOf(n) == ({0} \cup Known(n)) \X {"json", "md"}
Content(f, records) == IF f[1] = 0 THEN records ELSE {r \in records : r.of = f[1]}

-----------------------------------------------------------------------------
(* Calls and their plans *)

Idle == [op |-> "none", plan |-> <<>>, at |-> "start", since |-> 0, targets |-> {},
         failed |-> FALSE, view |-> 0, recs |-> {}, todo |-> {}, files |-> {},
         clr |-> [docs |-> "wait", index |-> "wait"], hits |-> {}]

NoIndex == [by |-> <<>>, rows |-> {}]

PlanOf(op) ==
  CASE op = "open"   -> <<"reconcile", "clear", "project">>
    [] op = "change" -> <<"append", "project">>
    [] op = "delete" -> <<"append", "erase", "clear", "project", "reindex">>
    [] op = "prune"  -> <<"survey", "clear", "project", "reindex">>
    [] op = "search" -> <<"reindex">>
    [] op = "replay" -> <<"project">>

Phase(p) == IF call[p].plan = <<>> THEN "none" ELSE Head(call[p].plan)
Rest(c, plan) ==
  IF plan = <<>> THEN Idle
  ELSE [Idle EXCEPT !.op = c.op, !.plan = plan, !.since = c.since, !.targets = c.targets, !.failed = c.failed]
After(c) == Rest(c, Tail(c.plan))

\* What comes next, of a set that is worked through in an order (one element,
\* where the order is strict): the entities to read, in the order of their first
\* events; the records to expire and the files to write, in the order of names.
NextRead(p) == {e \in call[p].todo : \A d \in call[p].todo : FirstAt(e) <= FirstAt(d)}
NextTarget(p) == {t \in call[p].targets : \A u \in call[p].targets : t.of <= u.of}
NextFile(p) ==
  {f \in call[p].files : \A g \in call[p].files :
     f[1] < g[1] \/ (f[1] = g[1] /\ (f[2] = "json" \/ g[2] = "md"))}

Freed(p) == [l \in DOMAIN lock |-> IF lock[l] = p THEN Nobody ELSE lock[l]]
\* An exception that leaves the call; withFileLock has released its lock.
Throw(p) == call' = [call EXCEPT ![p] = Idle] /\ lock' = Freed(p)
Fault(kind) == kind \in Faults /\ faults < MaxFaults /\ faults' = faults + 1

Init ==
  /\ log = <<>> /\ objects = {} /\ docs = <<>> /\ litter = {} /\ cleared = {}
  /\ index = NoIndex /\ children = {}
  /\ lock = [docs |-> Nobody, index |-> Nobody]
  /\ call = [p \in Actors |-> Idle] /\ shown = 0 /\ faults = 0

\* A method of ContextKernel is called.  change and delete name the revision
\* their caller has read; it may be superseded by the time they append.
Begin(p, op, e) ==
  /\ call[p].op = "none" /\ op \in Ops[p]
  /\ e \in IF op \in {"change", "delete"} THEN Entities ELSE {0}
  /\ call' = [call EXCEPT ![p] = [Idle EXCEPT !.op = op, !.plan = PlanOf(op), !.since = Now,
       !.targets = IF e = 0 THEN {} ELSE {[of |-> e, rev |-> Rev(e, Now)]}]]
  /\ UNCHANGED <<ledger, derived, lock, faults>>

-----------------------------------------------------------------------------
(* The ledger's phases *)

\* mutant: an interrupted deletion's bodies are erased, its derived text is not
ReconcileQuietly(p) ==
  /\ Phase(p) = "reconcile"
  /\ objects' = {b \in objects : ~Gone(b[1], Now)}
  /\ call' = [call EXCEPT ![p] = [Rest(@, Tail(Tail(@.plan))) EXCEPT !.since = Now]]
  /\ UNCHANGED <<log, derived, lock, faults>>

\* reconcilePrivateBodies, under the append lock; open clears the derived
\* state only if some entity is tombstoned.
Reconcile(p) ==
  LET plan == IF \E e \in Known(Now) : Gone(e, Now)
              THEN Tail(call[p].plan) ELSE Tail(Tail(call[p].plan))
  IN /\ Phase(p) = "reconcile"
     /\ objects' = {b \in objects : ~Gone(b[1], Now)}
     /\ call' = [call EXCEPT ![p] = [Rest(@, plan) EXCEPT !.since = Now]]
     /\ UNCHANGED <<log, derived, lock, faults>>

\* What appendChange asks of a request that reaches the end of its checks.
Current(p, t) ==
  /\ Rev(t.of, Now) = t.rev /\ ~Gone(t.of, Now)
  /\ call[p].op = "change" \/ t.rev > 0
  /\ Now < MaxLog   \* bound: a full ledger stands for any other refusal

Write(p) == \E t \in NextTarget(p) :
  /\ Phase(p) = "append" /\ Current(p, t)
  /\ log' = Append(log, [of |-> t.of, tombstone |-> call[p].op # "change"])
  /\ objects' = IF call[p].op = "change" THEN objects \cup {<<t.of, t.rev + 1>>} ELSE objects

\* The rest of a deletion that throws: its finally block, then the error.
Unwind(c) == [Rest(c, <<"clear">>) EXCEPT !.failed = TRUE]

Commit(p) ==
  /\ Write(p)
  /\ call' = [call EXCEPT ![p] = [After(@) EXCEPT !.since = Now + 1]]
  /\ UNCHANGED <<derived, lock, faults>>

\* The event is linked, but a later step of the append throws.
CommitThrows(p) ==
  /\ Write(p) /\ Fault("receipt")
  /\ call' = [call EXCEPT ![p] =
       IF @.op = "change" THEN Idle ELSE [Unwind(@) EXCEPT !.since = Now + 1]]
  /\ UNCHANGED <<derived, lock>>

CommitRefused(p) ==
  /\ Phase(p) = "append" /\ \E t \in NextTarget(p) : ~Current(p, t)
  /\ call' = [call EXCEPT ![p] = IF @.op = "change" THEN Idle ELSE Unwind(@)]
  /\ UNCHANGED <<ledger, derived, lock, faults>>

\* eraseEntityBodies, after the append lock has been given back; then the next
\* of the records that expire, if there is one.
Erase(p) == \E t \in NextTarget(p) :
  LET others == call[p].targets \ {t} IN
  /\ Phase(p) = "erase"
  /\ objects' = {b \in objects : b[1] # t.of}
  /\ call' = [call EXCEPT ![p] =
       IF others = {} THEN After(@)
       ELSE [Rest(@, PlanOf("delete")) EXCEPT !.targets = others]]
  /\ UNCHANGED <<log, derived, lock, faults>>

-----------------------------------------------------------------------------
(* Clearing: invalidateSqliteIndex and invalidateProjections together *)

TakeClear(p, l) ==
  /\ Phase(p) = "clear" /\ call[p].clr[l] = "wait" /\ lock[l] = Nobody
  /\ lock' = [lock EXCEPT ![l] = p]
  /\ call' = [call EXCEPT ![p].clr[l] = "held"]
  /\ UNCHANGED <<ledger, derived, faults>>

ClearBusy(p, l) ==
  /\ Phase(p) = "clear" /\ call[p].clr[l] = "wait" /\ lock[l] \notin {Nobody, p} /\ Fault("busy")
  /\ call' = [call EXCEPT ![p].clr[l] = "busy"]
  /\ UNCHANGED <<ledger, derived, lock>>

DropIndex(p) ==
  /\ Phase(p) = "clear" /\ call[p].clr.index = "held"
  /\ index' = NoIndex
  /\ lock' = [lock EXCEPT !.index = Nobody]
  /\ call' = [call EXCEPT ![p].clr.index = "done"]
  /\ UNCHANGED <<ledger, docs, litter, children, cleared, shown, faults>>

\* rm -r of the directory, one entry at a time.
DropFile(p) ==
  /\ Phase(p) = "clear" /\ call[p].clr.docs = "held"
  /\ \/ \E f \in DOMAIN docs :
          /\ docs' = [g \in DOMAIN docs \ {f} |-> docs[g]]
          /\ UNCHANGED litter
     \/ \E x \in litter : litter' = litter \ {x} /\ UNCHANGED docs
  /\ UNCHANGED <<ledger, index, children, cleared, shown, lock, call, faults>>

DropEnd(p) ==
  /\ Phase(p) = "clear" /\ call[p].clr.docs = "held"
  /\ DOMAIN docs = {} /\ litter = {}
  /\ lock' = [lock EXCEPT !.docs = Nobody]
  /\ call' = [call EXCEPT ![p].clr.docs = "done"]
  /\ UNCHANGED <<ledger, derived, faults>>

\* mutant: Promise.allSettled for Promise.all
ClearEndSettled(p) ==
  /\ Phase(p) = "clear" /\ {call[p].clr.docs, call[p].clr.index} \subseteq {"done", "busy"}
  /\ cleared' = cleared \cup {e \in Entities : Gone(e, call[p].since)}
  /\ call' = [call EXCEPT ![p] = IF @.failed THEN Idle ELSE After(@)]
  /\ UNCHANGED <<ledger, docs, litter, index, children, shown, lock, faults>>

\* Both promises are settled: the call goes on, or its error is thrown.
ClearEnd(p) ==
  LET clr == call[p].clr IN
  /\ Phase(p) = "clear" /\ {clr.docs, clr.index} \subseteq {"done", "busy"}
  /\ cleared' = IF "busy" \in {clr.docs, clr.index} THEN cleared
                ELSE cleared \cup {e \in Entities : Gone(e, call[p].since)}
  /\ call' = [call EXCEPT ![p] =
       IF @.failed \/ "busy" \in {clr.docs, clr.index} THEN Idle ELSE After(@)]
  /\ UNCHANGED <<ledger, docs, litter, index, children, shown, lock, faults>>

-----------------------------------------------------------------------------
(* replayLedger: read the events, then the body of each current record *)

LockOf(phase) == IF phase = "project" THEN "docs" ELSE "index"

\* mutant: a replay that writes does not wait for the lock
TakeLockShared(p) ==
  /\ Phase(p) \in {"project", "reindex"} /\ call[p].at = "start"
  /\ lock' = [lock EXCEPT ![LockOf(Phase(p))] = p]
  /\ call' = [call EXCEPT ![p].at = "read"]
  /\ UNCHANGED <<ledger, derived, faults>>

TakeLock(p) ==
  /\ Phase(p) \in {"project", "reindex"} /\ call[p].at = "start" /\ lock[LockOf(Phase(p))] = Nobody
  /\ lock' = [lock EXCEPT ![LockOf(Phase(p))] = p]
  /\ call' = [call EXCEPT ![p].at = "read"]
  /\ UNCHANGED <<ledger, derived, faults>>

LockBusy(p) ==
  /\ Phase(p) \in {"project", "reindex"} /\ call[p].at = "start"
  /\ lock[LockOf(Phase(p))] # Nobody /\ Fault("busy")
  /\ call' = [call EXCEPT ![p] = Idle]
  /\ UNCHANGED <<ledger, derived, lock>>

ReadEvents(p) ==
  /\ \/ Phase(p) = "survey" /\ call[p].at = "start"
     \/ Phase(p) \in {"project", "reindex"} /\ call[p].at = "read"
  /\ call' = [call EXCEPT ![p].at = "bodies", ![p].view = Now,
       ![p].recs = {Record(e, Now, "deleted") : e \in {x \in Known(Now) : Gone(x, Now)}},
       ![p].todo = {x \in Known(Now) : ~Gone(x, Now)},
       ![p].files = FilesOf(Now)]
  /\ UNCHANGED <<ledger, derived, lock, faults>>

BodyOf(p, e) == <<e, Rev(e, call[p].view)>>

\* readPrivateBody asks whether the file exists and then opens it.
CheckBody(p) == \E e \in NextRead(p) :
  /\ call[p].at = "bodies"
  /\ call' = [call EXCEPT ![p] =
       IF BodyOf(p, e) \in objects THEN [@ EXCEPT !.at = "fetch"]
       ELSE [@ EXCEPT !.recs = call[p].recs \cup {Record(e, call[p].view, "erased")}, !.todo = call[p].todo \ {e}]]
  /\ UNCHANGED <<ledger, derived, lock, faults>>

FetchBody(p) == \E e \in NextRead(p) :
  /\ call[p].at = "fetch" /\ BodyOf(p, e) \in objects
  /\ call' = [call EXCEPT ![p].at = "bodies", ![p].todo = @ \ {e},
       ![p].recs = @ \cup {Record(e, call[p].view, "present")}]
  /\ UNCHANGED <<ledger, derived, lock, faults>>

\* It has been erased in between: OBJECT_INTEGRITY_ERROR.
BodyVanished(p) ==
  /\ call[p].at = "fetch" /\ \E e \in NextRead(p) : BodyOf(p, e) \notin objects
  /\ Throw(p)
  /\ UNCHANGED <<ledger, derived, faults>>

Replayed(p) == call[p].at = "bodies" /\ call[p].todo = {}

\* pruneExpiredEntities: expire what the replay shows as active and past its
\* time, one entity after the other, and then go on as a deletion does.
Survey(p) ==
  LET expired == {r.of : r \in {x \in call[p].recs : x.body # "deleted"}} \cap Expiring IN
  /\ Phase(p) = "survey" /\ Replayed(p)
  /\ call' = [call EXCEPT ![p] =
       IF expired = {} THEN Idle
       ELSE [Rest(@, PlanOf("delete")) EXCEPT
               !.targets = {[of |-> e, rev |-> Rev(e, call[p].view)] : e \in expired}]]
  /\ UNCHANGED <<ledger, derived, lock, faults>>

-----------------------------------------------------------------------------
(* writeProjections: each file through a temporary file and a rename *)

Draft(p) ==
  /\ Phase(p) = "project" /\ Replayed(p) /\ call[p].files # {}
  /\ call' = [call EXCEPT ![p].at = "drafted"]
  /\ UNCHANGED <<ledger, derived, lock, faults>>

Drafted(p, f) == Content(f, call[p].recs)

Rename(p) == \E f \in NextFile(p) :
  /\ call[p].at = "drafted"
  /\ docs' = [g \in DOMAIN docs \cup {f} |-> IF g = f THEN Drafted(p, f) ELSE docs[g]]
  /\ call' = [call EXCEPT ![p].at = "bodies", ![p].files = @ \ {f}]
  /\ UNCHANGED <<ledger, litter, index, children, cleared, shown, lock, faults>>

\* writeDerivedAtomic does not remove its temporary file when it throws.
DraftFails(p) ==
  /\ call[p].at = "drafted" /\ Fault("write")
  /\ \E f \in NextFile(p) : litter' = litter \cup {Drafted(p, f)}
  /\ Throw(p)
  /\ UNCHANGED <<ledger, docs, index, children, cleared, shown>>

ProjectEnd(p) ==
  /\ Phase(p) = "project" /\ Replayed(p) /\ call[p].files = {}
  /\ shown' = IF call[p].since > shown THEN call[p].since ELSE shown
  /\ lock' = Freed(p)
  /\ call' = [call EXCEPT ![p] = After(@)]
  /\ UNCHANGED <<ledger, docs, litter, index, children, cleared, faults>>

-----------------------------------------------------------------------------
(* rebuildSqliteIndex and rebuildAndSearchSqlite: a sqlite3 child builds   *)
(* the new database; its id tells databases apart that had the same path   *)

RemoveOld(p) ==
  /\ Phase(p) = "reindex" /\ Replayed(p)
  /\ index' = NoIndex
  /\ call' = [call EXCEPT ![p].at = "spawn"]
  /\ UNCHANGED <<ledger, docs, litter, children, cleared, shown, lock, faults>>

Spawn(p) ==
  /\ call[p].at = "spawn"
  /\ children' = children \cup
       {[id |-> <<p, faults>>, parent |-> p, rows |-> call[p].recs, step |-> "spawned"]}
  /\ call' = [call EXCEPT ![p].at = "wait"]
  /\ UNCHANGED <<ledger, docs, litter, index, cleared, shown, lock, faults>>

\* An orphan is gone when it is done; a child is reaped by its parent.
Became(c, step) ==
  children' = (children \ {c}) \cup
    IF c.parent = Nobody /\ step \in {"done", "failed"} THEN {} ELSE {[c EXCEPT !.step = step]}

\* The database is opened or created, and then its tables.
CreateTables(c) ==
  /\ c.step = "spawned" /\ index = NoIndex
  /\ index' = [by |-> c.id, rows |-> {}]
  /\ Became(c, "created")
  /\ UNCHANGED <<ledger, docs, litter, cleared, shown, lock, call, faults>>

\* .bail on: the tables exist, or SQLite reports an error of its own.
ChildFails(c) ==
  /\ \/ c.step = "spawned" /\ index # NoIndex /\ UNCHANGED faults
     \/ c.step \in {"spawned", "created"} /\ Fault("sqlite")
  /\ Became(c, "failed")
  /\ UNCHANGED <<ledger, docs, litter, index, cleared, shown, lock, call>>

\* COMMIT; into a file that has no name any more if it was removed meanwhile.
CommitRows(c) ==
  /\ c.step = "created"
  /\ index' = IF index.by = c.id THEN [index EXCEPT !.rows = c.rows] ELSE index
  /\ Became(c, "done")
  /\ UNCHANGED <<ledger, docs, litter, cleared, shown, lock, call, faults>>

Reap(p) ==
  /\ call[p].at = "wait"
  /\ \E c \in children :
       /\ c.parent = p /\ c.step \in {"done", "failed"}
       /\ children' = children \ {c}
       /\ IF c.step = "failed" THEN Throw(p)
          ELSE /\ call' = [call EXCEPT ![p].at = "built"]
               /\ UNCHANGED lock
  /\ UNCHANGED <<ledger, docs, litter, index, cleared, shown, faults>>

\* search reads the rows before it gives the lock back.
Query(p) ==
  /\ call[p].at = "built" /\ call[p].op = "search"
  /\ call' = [call EXCEPT ![p].at = "answered", ![p].hits = index.rows]
  /\ UNCHANGED <<ledger, derived, lock, faults>>

ReindexEnd(p) ==
  /\ call[p].at = IF call[p].op = "search" THEN "answered" ELSE "built"
  /\ lock' = Freed(p)
  /\ call' = [call EXCEPT ![p] = After(@)]
  /\ UNCHANGED <<ledger, derived, faults>>

\* The process dies: its locks are taken over, its temporary file stays, and
\* a sqlite3 child that has its input lives on if Orphans.
Die(p) ==
  /\ call[p].op # "none" /\ Fault("death")
  /\ litter' = litter \cup (IF call[p].at = "drafted" THEN {Drafted(p, f) : f \in NextFile(p)} ELSE {})
  /\ children' = {c \in children : c.parent # p} \cup
       IF Orphans THEN {[c EXCEPT !.parent = Nobody] :
                          c \in {x \in children : x.parent = p /\ x.step \in {"spawned", "created"}}}
       ELSE {}
  /\ Throw(p)
  /\ UNCHANGED <<ledger, docs, index, cleared, shown>>

-----------------------------------------------------------------------------
\* What a call does by itself once it has been made.
Proceed(p) ==
  \/ Reconcile(p) \/ Commit(p) \/ CommitRefused(p) \/ Erase(p)
  \/ \E l \in DOMAIN lock : TakeClear(p, l)
  \/ DropIndex(p) \/ DropFile(p) \/ DropEnd(p) \/ ClearEnd(p)
  \/ TakeLock(p) \/ ReadEvents(p) \/ CheckBody(p) \/ FetchBody(p) \/ BodyVanished(p) \/ Survey(p)
  \/ Draft(p) \/ Rename(p) \/ ProjectEnd(p)
  \/ RemoveOld(p) \/ Spawn(p) \/ Reap(p) \/ Query(p) \/ ReindexEnd(p)

Child(c) == CreateTables(c) \/ ChildFails(c) \/ CommitRows(c)

Next ==
  \/ \E p \in Actors : \E op \in Ops[p], e \in Entities \cup {0} : Begin(p, op, e)
  \/ \E p \in Actors : Proceed(p)
  \/ \E p \in Actors : CommitThrows(p) \/ DraftFails(p) \/ LockBusy(p) \/ Die(p)
  \/ \E p \in Actors, l \in DOMAIN lock : ClearBusy(p, l)
  \/ \E c \in children : Child(c)

Spec == Init /\ [][Next]_vars

\* Calls and children run on, a free lock is got in the end (withFileLock polls
\* it), and somebody opens the workspace again and again.
FairSpec ==
  /\ Spec
  /\ \A p \in Actors : SF_vars(Proceed(p))
  /\ WF_vars(\E c \in children : Child(c))
  /\ SF_vars(\E p \in Actors : Begin(p, "open", 0))

-----------------------------------------------------------------------------
\* Entities some derived file or the index shows the text of.
Exposed ==
  (UNION {Text(docs[f]) : f \in DOMAIN docs}) \cup (UNION {Text(x) : x \in litter}) \cup Text(index.rows)

(* Once the derived state has been cleared after a tombstone, the deleted      *)
(* entity's text never comes back: not from a replay that had read the ledger  *)
(* before, nor from a rebuild, a death or a file left behind (README.md:12,    *)
(* kernel.ts:117).                                                             *)
ClearedStaysClear == cleared \cap Exposed = {}

(* A projection file is never older than the events any finished projection    *)
(* had to show: overlapping replays cannot put an older view over a newer one  *)
(* (kernel.ts:66 "locked from ledger read through final file").                *)
ShownStaysShown ==
  \A f \in DOMAIN docs : \A e \in Known(shown) :
    f[1] \in {0, e} => \E r \in docs[f] : r.of = e /\ r.rev >= Rev(e, shown)

(* A body is found missing only when its entity is tombstoned: no active       *)
(* record is shown as erased, and OBJECT_INTEGRITY_ERROR means a deletion in   *)
(* progress (projector.ts:49, private-objects.ts:43).                          *)
MissingMeansDeleted ==
  LET erased(records) == {r.of : r \in {x \in records : x.body = "erased"}} IN
  /\ \A f \in DOMAIN docs : \A e \in erased(docs[f]) : Gone(e, Now)
  /\ \A e \in erased(index.rows) : Gone(e, Now)
  /\ \A p \in Actors : call[p].at = "fetch" =>
       \A e \in NextRead(p) : BodyOf(p, e) \notin objects => Gone(e, Now)

(* A search answers with every event committed before it was called, and never *)
(* with text of an entity deleted by then, whatever rebuilds and clearings run *)
(* beside it (README.md:15).                                                   *)
SearchIsCurrent ==
  \A p \in Actors : call[p].at = "answered" =>
    \A e \in Known(call[p].since) :
      \E r \in call[p].hits :
        /\ r.of = e /\ r.rev >= Rev(e, call[p].since)
        /\ Gone(e, call[p].since) => r.body = "deleted"

(* Neither kind of view goes back, the files or the answers of a search, and    *)
(* neither shows an active record as erased.                                    *)
ViewsAreCurrent == ShownStaysShown /\ SearchIsCurrent /\ MissingMeansDeleted

(* After an open has cleared and rebuilt, and whatever failed before, a        *)
(* deleted entity's text is eventually gone from every derived file, provided  *)
(* the workspace is opened again (kernel.ts:59).                               *)
DeletedTextGoes == \A e \in Entities : Gone(e, Now) ~> e \notin Exposed

=============================================================================
