--------------------------- MODULE ContextGateway ---------------------------
(***************************************************************************)
(* services/mcp/src/local-context-gateway.ts: the port through which       *)
(* agents use a workspace's ledger.  Every call is a chain of awaited      *)
(* kernel calls; other agents and the owner move between any two of them.  *)
(*                                                                         *)
(* The ledger is what ContextLedger shows it to be: appends are atomic,    *)
(* a key names one request, revisions count up.  Here `log` is the         *)
(* sequence of its events and the index of an event stands for its id,     *)
(* its hash and the hash of the record it carries; the body of a record is *)
(* readable as long as its entity is not tombstoned.                       *)
(***************************************************************************)
EXTENDS PackReceipt

CONSTANTS
  Agents, Owner, System,
  Runs, Entities,    \* disjoint sets of positive numbers
  Roles, NoRole,
  RolesOf,           \* [Agents -> SUBSET Roles]: config.roles
  Plans,             \* what may happen: [log, cues, calls, acts], see Init
  MinBatch, MaxBatch,        \* 50 and 1000 in the code
  MaxTtl, MaxSkew,           \* 24 hours and 5 minutes
  RawLimit,                  \* [items, size]: 200 and MAX_CONTEXT_CHARS
  FewestItems, MostItems, TokensPerItem, CharsPerToken   \* 6, 40, 384, 4

ASSUME GatewayAssumption ==
  /\ Runs \cap Entities = {} /\ Runs \cup Entities \subseteq Nat \ {0}
  /\ NoRole \notin Roles
  /\ RolesOf \in [Agents -> SUBSET Roles] /\ Owner \notin Agents /\ System \notin Agents
  /\ MaxTtl \in Nat \ {0} /\ MaxSkew \in Nat
  /\ MinBatch \in Nat \ {0} /\ MaxBatch \in Nat /\ MinBatch <= MaxBatch

NoRun == 0
Key == "here"      \* the workspace's key
NoCall == [op |-> "none"]
Ref(e, r, h) == [ent |-> e, rev |-> r, hash |-> h]

\* An event of the ledger, as much of it as the gateway decides on: `by` wrote
\* it, `maker` is the created_by of the body, `origin` its contextOriginRunId,
\* `run` the run it was sent from, `deps` the references its body holds,
\* `seeds` those recorded as human seeds, `at` occurred_at.
Blank ==
  [ent |-> 0, rev |-> 1, kind |-> "proposed", basis |-> "inferred", by |-> Owner,
   maker |-> Owner, global |-> FALSE, origin |-> NoRun, run |-> NoRun, deps |-> <<>>,
   seeds |-> {}, key |-> <<"none", 0>>, mat |-> 0, role |-> NoRole, phase |-> "none",
   goal |-> 0, bound |-> 0, tomb |-> FALSE, words |-> 1, size |-> 1, at |-> 0]

VARIABLES
  log,      \* the ledger
  cues,     \* the scratch files: [ent, run, at, recorded, expires, mat, words, size]
  now,      \* the clock the scratch files are judged by
  todo,     \* [Agents -> requests it will still send, in order]
  acts,     \* what the owner will still do, in order
  call,     \* [Agents -> the call in progress]
  reply,    \* [Agents -> the last answer]
  pack,     \* [Agents -> the last Context Pack it was given, with its receipt]
  inbox     \* [Agents -> [Roles -> the cursor it holds and the pages of changes it was sent]]

vars == <<log, cues, now, todo, acts, call, reply, pack, inbox>>

Smaller(m, n) == IF m < n THEN m ELSE n
NoDraft == [mark |-> 0]
NoReply == [code |-> "none", req |-> NoCall, event |-> 0]
NoPack == [mark |-> 0]

Init ==
  /\ \E plan \in Plans :
       log = plan.log /\ cues = plan.cues /\ todo = plan.calls /\ acts = plan.acts
  /\ now = 1
  /\ call = [a \in Agents |-> NoCall]
  /\ reply = [a \in Agents |-> NoReply]
  /\ pack = [a \in Agents |-> NoPack]
  /\ inbox = [a \in Agents |-> [role \in Roles |-> [cursor |-> 0, got |-> <<>>]]]

-----------------------------------------------------------------------------
(* Reading the ledger *)

\* kernel.get: the index of the current event of a run or an entity, 0 if there is none.
Rows(l, e) == {i \in DOMAIN l : l[i].ent = e}
Current(l, e) == IF Rows(l, e) = {} THEN 0 ELSE Max(Rows(l, e))
Alive(l, e) == Current(l, e) # 0 /\ ~l[Current(l, e)].tomb
HasBody(l, i) == Alive(l, l[i].ent)

\* A deletion's payload has no role, and neither has kernel.checkpointRun's.
RunRole(l, r) == IF r \in Runs /\ Current(l, r) # 0 THEN l[Current(l, r)].role ELSE NoRole

OriginRoleForEntity(l, e) ==
  LET rows == {i \in Rows(l, e) : RunRole(l, l[i].origin) # NoRole} IN
    IF rows = {} THEN NoRole ELSE RunRole(l, l[Min(rows)].origin)

TrustedBody(l, i) == HasBody(l, i)   \* mutant: whoever made it

TrustedCrossRole(l, i) ==
  /\ HasBody(l, i)
  /\ \/ l[i].basis = "explicit" /\ l[i].maker = Owner
     \/ l[i].global /\ l[i].maker \in {Owner, System}

OriginRole(l, i) ==
  IF RunRole(l, l[i].origin) # NoRole THEN RunRole(l, l[i].origin)
  ELSE OriginRoleForEntity(l, l[i].ent)

\* isRecordVisibleToRole and isEventVisibleToRole.
Visible(l, i, role) ==
  /\ l[i].ent \in Entities
  /\ \/ TrustedCrossRole(l, i)
     \/ OriginRole(l, i) = role
     \/ OriginRole(l, i) = NoRole /\ l[i].basis = "explicit" /\ l[i].by = Owner

\* The event a reference names: the current one, or requireHistoricalEntityVersion's; 0 if none.
Named(l, ref) ==
  LET rows == {i \in Rows(l, ref.ent) : ref.rev \in {NoPin, l[i].rev}} IN
    IF rows = {} \/ ~Alive(l, ref.ent) THEN 0 ELSE Max(rows)

\* requireEntityRefs, of one reference.
Holds(l, ref, role) ==
  LET i == Named(l, ref) IN
    i # 0 /\ Visible(l, i, role) /\ ref.hash \in {NoPin, i}

HoldsNow(l, ref, role) == Holds(l, ref, role) /\ Named(l, ref) = Current(l, ref.ent)

\* requireSemanticRefs: the current record of a human seed is the owner's own.
SeedHolds(l, ref) ==
  /\ Alive(l, ref.ent)
  /\ l[Current(l, ref.ent)].basis = "explicit" /\ TrustedCrossRole(l, Current(l, ref.ent))

-----------------------------------------------------------------------------
(* Whose a record is *)

\* An entity's first event, the role a run was opened with, and the role an
\* entity was first written in.
Home(l, e) == l[Min(Rows(l, e))]
OpenedAs(l, r) == Home(l, r).role
HomeRole(l, e) == IF Home(l, e).run = NoRun THEN NoRole ELSE OpenedAs(l, Home(l, e).run)

\* What runRole answered when the ledger had k events.
RoleAt(l, r, k) ==
  LET rows == {i \in Rows(l, r) : i <= k} IN
    IF r \in Runs /\ rows # {} THEN l[Max(rows)].role ELSE NoRole

\* Event j was the owner's, or of this role, by the time the ledger had `upto`
\* events.  What an agent made is the owner's from when the owner restates it
\* while the run it came from is not known to have a role.
MayUse(l, j, role, upto) ==
  \/ Home(l, l[j].ent).maker \in {Owner, System}
  \/ HomeRole(l, l[j].ent) = role
  \/ /\ l[j].basis = "explicit" /\ l[j].by = Owner
     /\ \E k \in j..upto : RoleAt(l, Home(l, l[j].ent).run, k) = NoRole

\* A reference of an event, when the ledger had `upto` events.
Cited(l, ref, role, upto) ==
  \E j \in 1..upto :
    /\ l[j].ent = ref.ent /\ ref.ent \in Entities /\ ~l[j].tomb
    /\ ref.rev \in {NoPin, l[j].rev} /\ ref.hash \in {NoPin, j}
    /\ MayUse(l, j, role, upto)

Separate(l) ==
  \A i \in DOMAIN l :
    l[i].ent \in Entities /\ l[i].by \in Agents =>
      /\ Home(l, l[i].ent).maker = System \/ HomeRole(l, l[i].ent) = OpenedAs(l, l[i].run)
      /\ \A n \in DOMAIN l[i].deps : Cited(l, l[i].deps[n], OpenedAs(l, l[i].run), i - 1)

-----------------------------------------------------------------------------
(* What the plans start from: ledgers this program can have left, requests of
   the port's shapes, and acts of the owner on records of the right kind *)

\* A row and the rows of its entity after it.
RowHolds(l, i) ==
  LET x == l[i] IN
    /\ x.rev \in Nat \ {0} /\ x.tomb \in BOOLEAN /\ x.ent \in Runs \cup Entities
    /\ x.tomb => x.phase # "complete" /\ i # Min(Rows(l, x.ent))
    /\ x.basis = "explicit" => x.by = Owner
    /\ \A j \in Rows(l, x.ent) : i < j =>
         /\ ~x.tomb
         /\ x.phase = "complete" => l[j].tomb
         /\ x.ent \in Entities /\ x.basis = "explicit" => l[j].basis = "explicit"
    /\ x.ent \in Runs => x.role \in {OpenedAs(l, x.ent), NoRole}

\* A row of a record: whoever made it stays its maker, and an agent's comes
\* from the run it was first sent from, or from none that is known.
RecordHolds(l, i) ==
  LET x == l[i]
      home == Home(l, x.ent)
  IN x.ent \in Entities =>
       /\ ~x.tomb => x.maker = home.maker
       /\ home.maker = Owner => x.basis = "explicit"
       /\ x.by \in Agents => x.run \in Runs /\ Rows(l, x.run) # {}
       /\ home.maker \notin {Owner, System} =>
            /\ home.run \in Runs /\ Rows(l, home.run) # {} /\ home.origin = home.run
            /\ x.origin \in {NoRun, home.run}
            /\ x.basis # "explicit" => x.origin = home.run

IsSeq(s) == s \in Seq({s[n] : n \in DOMAIN s})

LedgerHolds(l) ==
  /\ IsSeq(l) /\ \A i \in DOMAIN l : RowHolds(l, i) /\ RecordHolds(l, i)
  /\ Separate(l)

FieldsOf(op) ==
  CASE op \in {"append", "evidence"} -> {"ent", "expected", "human", "key", "mat", "at"}
    [] op = "checkpoint" -> {"expected", "key", "mat"}
    [] op = "complete" -> {"key", "mat"}
    [] op = "open" -> {"role", "tokens", "key", "mat"}
    [] op = "assemble" -> {"role", "goal", "tokens"}
    [] op = "refresh" -> {"from", "as", "tokens"}
    [] op = "cue" -> {"cue"}
    [] op = "changes" -> {"limit", "count"}
    [] op \in {"search", "get"} -> {}

Ops == {"append", "evidence", "checkpoint", "complete", "open", "assemble", "refresh",
        "cue", "changes", "search", "get"}

WellFormed(r) ==
  /\ r.op \in Ops /\ DOMAIN r = {"op", "run", "refs"} \cup FieldsOf(r.op)
  /\ r.op \in {"append", "evidence"} =>
       /\ IsSeq(r.refs) /\ r.ent \in Entities /\ r.expected \in Nat
       /\ r.op = "evidence" => r.expected = 0
  /\ r.op = "checkpoint" => r.expected \in Nat
  /\ r.op = "open" => r.run \in Runs
  /\ r.op = "changes" => r.limit \in Nat \ {0} /\ r.count = 0

Proper(act) ==
  \/ act.op = "tick"
  \/ act.op \in {"state", "correct", "restate"} /\ act.ent \in Entities
  \/ act.op = "checkpoint" /\ act.ent \in Runs
  \/ act.op = "delete" /\ act.ent \in Runs \cup Entities

ASSUME PlanAssumption ==
  /\ \A l \in {plan.log : plan \in Plans} : LedgerHolds(l)
  /\ \A plan \in Plans :
       /\ plan.calls \in [Agents -> {plan.calls[a] : a \in Agents}]
       /\ \A a \in Agents : IsSeq(plan.calls[a]) /\ \A n \in DOMAIN plan.calls[a] : WellFormed(plan.calls[a][n])
       /\ IsSeq(plan.acts) /\ \A n \in DOMAIN plan.acts : Proper(plan.acts[n])

-----------------------------------------------------------------------------
(* A call's beginning *)

Answer(a, code, event) ==
  /\ reply' = [reply EXCEPT ![a] = [code |-> code, req |-> call[a], event |-> event, time |-> now]]
  /\ call' = [call EXCEPT ![a] = NoCall]

Go(a, where) == call' = [call EXCEPT ![a].pc = where]

Writes == {"append", "evidence", "checkpoint", "cue"}

\* requireRun, and requireRunWritable for a write.
RunUsable(a, r) ==
  /\ Alive(log, r.run) /\ RunRole(log, r.run) \in RolesOf[a]
  /\ r.op \in Writes => log[Current(log, r.run)].phase # "complete"

\* assembleContext: the role is the run's, the goal is the one it was opened
\* with, and the tokens are within the bound it was opened with.
Suits(r) ==
  LET run == log[Current(log, r.run)] IN
    r.role = run.role /\ r.goal = run.goal /\ r.tokens <= run.bound

\* A request, and what the call keeps beside it.
Keeping(r, own) ==
  [f \in DOMAIN r \cup DOMAIN own |-> IF f \in DOMAIN r THEN r[f] ELSE own[f]]

\* What a call remembers of its first read: the run's role and revision.  A
\* search has all types of records to go through, one of each in the model.
Started(r, where) ==
  Keeping(r, [pc |-> where, next |-> 1, role |-> RunRole(log, r.run),
              runAt |-> Current(log, r.run), seeds |-> {}, origin |-> r.run,
              types |-> Entities, hits |-> {}, found |-> {}, draft |-> NoDraft])

\* The caller pins a reference marked `exact` by reading its record first.
Pinned(refs) ==
  [n \in DOMAIN refs |->
     IF refs[n].exact THEN Ref(refs[n].ent, refs[n].rev, Named(log, refs[n]))
     ELSE Ref(refs[n].ent, refs[n].rev, NoPin)]

First(r) ==
  CASE r.op \in {"append", "evidence", "assemble"} -> "refs"
    [] r.op = "complete" /\ log[Current(log, r.run)].phase = "complete" -> "terminal"
    [] r.op = "complete" /\ log[Current(log, r.run)].phase # "complete" -> "refs"
    [] r.op = "checkpoint" -> "commit"
    [] r.op = "cue" -> "list"
    [] r.op = "search" -> "find"
    [] r.op \in {"get", "changes"} -> "read"

Next1(a) == [todo EXCEPT ![a] = Tail(@)]

Enter(a) ==
  /\ call[a] = NoCall /\ todo[a] # <<>>
  /\ LET r == Head(todo[a]) IN
       /\ r.op \notin {"open", "refresh"} /\ RunUsable(a, r)
       /\ r.op = "assemble" => Suits(r)
       /\ call' = [call EXCEPT ![a] = Started([r EXCEPT !.refs = Pinned(r.refs)], First(r))]
  /\ todo' = Next1(a)
  /\ UNCHANGED <<log, cues, now, acts, reply, pack, inbox>>

\* openRun has no run to read; the kernel mints the run's id.
EnterOpen(a) ==
  /\ call[a] = NoCall /\ todo[a] # <<>>
  /\ Head(todo[a]).op = "open" /\ Head(todo[a]).role \in RolesOf[a]
  /\ call' = [call EXCEPT ![a] = Keeping(Head(todo[a]), [pc |-> "commit", runAt |-> 0])]
  /\ todo' = Next1(a)
  /\ UNCHANGED <<log, cues, now, acts, reply, pack, inbox>>

\* The receipt a refresh brings: that of the pack someone was given last, as it
\* was (`as` is "given"), or spoilt: with other references, resealed but signed
\* as before, or signed with another workspace's key.
Brought(r) ==
  LET given == pack[r.from].receipt
      asking == [given.pack.content EXCEPT !.whom.asked = Append(@, Ref(3, NoPin, NoPin))]
  IN CASE r.as = "rewritten" -> [given EXCEPT !.pack = Seal(asking)]
       [] r.as = "foreign" -> Receipt("another", given.pack)
       [] OTHER -> given

\* refreshContext: a receipt of this workspace, of the pack the caller names,
\* for this run, its role and its goal; its watermark is an event of the
\* ledger, and the tokens are within the run's bound.
Authentic(r) ==
  /\ pack[r.from].mark # 0
  /\ LET receipt == Brought(r)
         whom == receipt.pack.content.whom
         id == IF r.as = "misnamed" THEN <<>> ELSE receipt.pack.hash
     IN /\ Genuine(Key, receipt) /\ BoundTo(receipt, id, r.run, RunRole(log, r.run))
        /\ whom.purpose = log[Current(log, r.run)].goal
        /\ receipt.pack.content.mark \in DOMAIN log
        /\ r.tokens <= log[Current(log, r.run)].bound

\* Its references are asked for again as they were.
EnterRefresh(a) ==
  /\ call[a] = NoCall /\ todo[a] # <<>>
  /\ LET r == Head(todo[a]) IN
       /\ r.op = "refresh" /\ RunUsable(a, r) /\ Authentic(r)
       /\ call' = [call EXCEPT ![a] =
            Started([r EXCEPT !.refs = Brought(r).pack.content.whom.asked], "refs")]
  /\ todo' = Next1(a)
  /\ UNCHANGED <<log, cues, now, acts, reply, pack, inbox>>

Refusable(a, r) ==
  \/ r.op = "open" /\ r.role \notin RolesOf[a]
  \/ r.op # "open" /\ ~RunUsable(a, r)
  \/ r.op = "assemble" /\ ~Suits(r)
  \/ r.op = "refresh" /\ ~Authentic(r)

Turned(a) ==
  /\ call[a] = NoCall /\ todo[a] # <<>> /\ Refusable(a, Head(todo[a]))
  /\ reply' = [reply EXCEPT ![a] = [code |-> "refused", req |-> Head(todo[a]), event |-> 0]]
  /\ todo' = Next1(a)
  /\ UNCHANGED <<log, cues, now, acts, call, pack, inbox>>

-----------------------------------------------------------------------------
(* References, one at a time, each against the ledger of its moment *)

RefHolds(a, ref) ==
  LET c == call[a] IN
    /\ IF c.op \in {"assemble", "refresh"} THEN HoldsNow(log, ref, c.role) ELSE Holds(log, ref, c.role)
    /\ c.op = "append" /\ ref.ent \in c.human => SeedHolds(log, ref)
    /\ c.op = "complete" => ref.rev # NoPin /\ ref.hash # NoPin      \* requireExactRefs

AfterRefs(c) ==
  CASE c.op = "append" /\ c.expected > 0 -> "target"
    [] c.op \in {"append", "evidence"} /\ ~(c.op = "append" /\ c.expected > 0) -> "build"
    [] c.op = "complete" -> "commit"
    [] c.op \in {"assemble", "refresh"} -> "pack"

CheckRef(a) ==
  /\ call[a] # NoCall /\ call[a].pc = "refs"
  /\ IF call[a].next > Len(call[a].refs)
       THEN Go(a, AfterRefs(call[a])) /\ UNCHANGED reply
       ELSE IF RefHolds(a, call[a].refs[call[a].next])
              THEN call' = [call EXCEPT ![a].next = @ + 1] /\ UNCHANGED reply
              ELSE Answer(a, "refused", 0)
  /\ UNCHANGED <<log, cues, now, todo, acts, pack, inbox>>

\* A revision: the target is visible, and its first run had this role.
Target(a) ==
  /\ call[a] # NoCall /\ call[a].pc = "target"
  /\ LET i == Current(log, call[a].ent)
         origin == IF log[i].origin = NoRun THEN call[a].run ELSE log[i].origin
     IN IF /\ Alive(log, call[a].ent) /\ Visible(log, i, call[a].role)
           /\ RunRole(log, origin) = call[a].role
        THEN /\ call' = [call EXCEPT ![a].pc = "build", ![a].origin = origin]
             /\ UNCHANGED reply
        ELSE Answer(a, "refused", 0)
  /\ UNCHANGED <<log, cues, now, todo, acts, pack, inbox>>

\* buildCanonicalEntity: read the revision to be superseded, and which of the
\* references are now explicit.
Build(a) ==
  /\ call[a] # NoCall /\ call[a].pc = "build"
  /\ LET c == call[a] IN
       IF c.expected > 0 /\ ~(Alive(log, c.ent) /\ log[Current(log, c.ent)].rev = c.expected)
       THEN Answer(a, "refused", 0)
       ELSE /\ call' = [call EXCEPT ![a].pc = "commit", ![a].seeds =
                 {n \in DOMAIN c.refs : /\ Current(log, c.refs[n].ent) # 0
                                        /\ log[Current(log, c.refs[n].ent)].basis = "explicit"}]
            /\ UNCHANGED reply
  /\ UNCHANGED <<log, cues, now, todo, acts, pack, inbox>>

-----------------------------------------------------------------------------
(* kernel.change, with the ContextEvent each operation asks for *)

Expected(c) ==
  CASE c.op \in {"append", "evidence"} -> c.expected
    [] c.op = "open" -> 0
    [] c.op = "checkpoint" /\ c.expected # 0 -> c.expected
    [] OTHER -> log[c.runAt].rev

\* A run's next event carries the run's payload along: role, bounds, goal.
RunEvent(a, c, phase) ==
  [Blank EXCEPT !.ent = c.run, !.rev = Expected(c) + 1, !.by = a, !.maker = a,
                !.kind = phase, !.phase = phase,
                !.role = IF c.op = "open" THEN c.role ELSE log[c.runAt].role,
                !.goal = IF c.op = "open" THEN c.mat ELSE log[c.runAt].goal,
                !.bound = IF c.op = "open" THEN c.tokens ELSE log[c.runAt].bound,
                !.mat = c.mat, !.deps = c.refs, !.key = <<c.op, c.key>>]

EntityEvent(a, c) ==
  [Blank EXCEPT !.ent = c.ent, !.rev = c.expected + 1, !.by = a,
                !.basis = IF c.op = "evidence" THEN "observed" ELSE "inferred",
                !.kind = IF c.op = "evidence" THEN "observed" ELSE "proposed",
                !.maker = IF c.expected > 0 /\ Current(log, c.ent) # 0
                            THEN log[Current(log, c.ent)].maker ELSE a,
                !.origin = c.origin, !.run = c.run, !.deps = c.refs, !.seeds = c.seeds,
                !.mat = c.mat, !.key = <<c.op, c.key>>, !.at = c.at]

Wish(a, c) ==
  CASE c.op \in {"append", "evidence"} -> EntityEvent(a, c)
    [] c.op = "open" -> RunEvent(a, c, "open")
    [] c.op = "checkpoint" -> RunEvent(a, c, "checkpoint")
    [] c.op = "complete" -> RunEvent(a, [c EXCEPT !.key = <<c.run, c.mat, c.refs>>], "complete")

KeyRows(l, k) == {i \in DOMAIN l : l[i].key = k}

\* appendChange's grounds for refusing a new event.
Acceptable(l, e) ==
  LET i == Current(l, e.ent) IN
    /\ i # 0 => /\ ~l[i].tomb
                /\ l[i].phase # "complete" \/ e.tomb
                /\ l[i].basis = "explicit" => e.by = Owner
    /\ e.rev = (IF i = 0 THEN 1 ELSE l[i].rev + 1)

Commit(a) ==
  /\ call[a] # NoCall /\ call[a].pc = "commit"
  /\ LET e == Wish(a, call[a])
         same == KeyRows(log, e.key)
     IN IF same # {}
        THEN /\ IF \A i \in same : log[i] = e THEN Answer(a, "duplicate", Min(same))
                ELSE IF call[a].op = "complete" THEN Go(a, "again") /\ UNCHANGED reply
                ELSE Answer(a, "conflict", 0)
             /\ UNCHANGED log
        ELSE IF Acceptable(log, e)
        THEN log' = Append(log, e) /\ Answer(a, "created", Len(log) + 1)
        ELSE /\ IF call[a].op = "complete" THEN Go(a, "again") /\ UNCHANGED reply
                ELSE Answer(a, "refused", 0)
             /\ UNCHANGED log
  /\ UNCHANGED <<cues, now, todo, acts, pack, inbox>>

\* completeContextRun's catch: another call may have completed the run since.
Again(a) ==
  /\ call[a] # NoCall /\ call[a].pc = "again"
  /\ IF RunUsable(a, call[a]) /\ log[Current(log, call[a].run)].phase = "complete"
       THEN /\ call' = [call EXCEPT ![a].pc = "terminal", ![a].runAt = Current(log, call[a].run)]
            /\ UNCHANGED reply
       ELSE Answer(a, "refused", 0)
  /\ UNCHANGED <<log, cues, now, todo, acts, pack, inbox>>

AnyTerminal(a) ==                    \* mutant: a completed run answers any completion
  /\ call[a] # NoCall /\ call[a].pc = "terminal"
  /\ Answer(a, "duplicate", Current(log, call[a].run))
  /\ UNCHANGED <<log, cues, now, todo, acts, pack, inbox>>

\* terminalCompletionRetry: only the same completion is a duplicate.
Terminal(a) ==
  /\ call[a] # NoCall /\ call[a].pc = "terminal"
  /\ LET done == log[call[a].runAt] IN
       IF done.kind = "complete" /\ done.mat = call[a].mat /\ done.deps = call[a].refs
       THEN Answer(a, "duplicate", call[a].runAt)
       ELSE Answer(a, "refused", 0)
  /\ UNCHANGED <<log, cues, now, todo, acts, pack, inbox>>

-----------------------------------------------------------------------------
(* Scratch cues: files created once, removed when a reader finds them expired *)

\* listScratchCues.
Unexpired(files) == {cue \in files : cue.expires > now}

\* assertScratchRetryMatches: the expiry on file may have been cut to MaxTtl.
SameCue(cue, want) ==
  cue.mat = want.mat /\ cue.at = want.at /\ cue.expires = want.expires /\ cue.run = want.run

FromFile(a, cue) == Answer(a, IF SameCue(cue, call[a].cue) THEN "duplicate" ELSE "conflict", 0)

\* recordScratchCue's first look, and its second when the file could not be created.
ListCues(a) ==
  /\ call[a] # NoCall /\ call[a].pc \in {"list", "relist"}
  /\ cues' = Unexpired(cues)
  /\ LET there == {cue \in Unexpired(cues) : cue.ent = call[a].cue.ent} IN
       CASE there # {} -> \E cue \in there : FromFile(a, cue)
         [] there = {} /\ call[a].pc = "list" -> Go(a, "create") /\ UNCHANGED reply
         [] OTHER -> Answer(a, "refused", 0)
  /\ UNCHANGED <<log, now, todo, acts, pack, inbox>>

NewFile(want) ==
  [ent |-> want.ent, run |-> want.run, at |-> want.at, recorded |-> now,
   expires |-> Smaller(want.expires, now + MaxTtl), mat |-> want.mat, words |-> 1, size |-> 1]

\* addScratchCue: within its time, and only where no file of that name is.
CreateCue(a) ==
  /\ call[a] # NoCall /\ call[a].pc = "create"
  /\ LET want == call[a].cue
         file == NewFile(want)
     IN IF /\ want.expires - want.at \in 1..MaxTtl /\ want.at <= now + MaxSkew
           /\ file.expires > now /\ \A cue \in cues : cue.ent # want.ent
        THEN cues' = cues \cup {file} /\ Answer(a, "created", 0)
        ELSE Go(a, "relist") /\ UNCHANGED <<cues, reply>>
  /\ UNCHANGED <<log, now, todo, acts, pack, inbox>>

-----------------------------------------------------------------------------
(* Context Packs *)

Unchained(deps, e) == SelectSeq(deps, LAMBDA ref : ref.ent # e)

\* A record is seen without a look at its run if whoever wrote it may be trusted.
Item(l, e, refs) ==
  LET i == Current(l, e) IN
    [ent |-> e, rev |-> l[i].rev, hash |-> i, basis |-> l[i].basis, at |-> l[i].at,
     present |-> ~l[i].tomb, run |-> l[i].origin, seen |-> TrustedCrossRole(l, i), own |-> FALSE,
     forced |-> \E n \in DOMAIN refs : refs[n].ent = e,
     words |-> l[i].words, size |-> l[i].size, deps |-> Unchained(l[i].deps, e)]

CueItem(cue) ==
  [ent |-> cue.ent, rev |-> 0, hash |-> 0, basis |-> "scratch", at |-> cue.at,
   present |-> TRUE, run |-> cue.run, seen |-> TRUE, own |-> FALSE, forced |-> FALSE,
   words |-> cue.words, size |-> cue.size, deps |-> <<>>]

PackLimit(tokens) ==
  [items |-> Smaller(MostItems, Max({FewestItems, tokens \div TokensPerItem})),
   size |-> Smaller(RawLimit.size, tokens * CharsPerToken)]

\* buildPack begins with one replay of the ledger, whose end is the watermark.
Replay(a) ==
  /\ call[a] # NoCall /\ call[a].pc = "pack"
  /\ call' = [call EXCEPT ![a].pc = "gather", ![a].draft = [mark |-> Len(log)]]
  /\ UNCHANGED <<log, cues, now, todo, acts, reply, pack, inbox>>

\* Which look-up item n takes: of its run's role to see it, and then again to
\* know whose it is; after the items come the omissions.
Turn(items, n) ==
  IF n > Len(items) THEN "tell" ELSE IF items[n].seen THEN "own" ELSE "look"

\* The scratch files are read after the replay; the kernel makes its cut of both.
Gather(a) ==
  /\ call[a] # NoCall /\ call[a].pc = "gather"
  /\ LET c == call[a]
         l == SubSeq(log, 1, c.draft.mark)
         cut == Cut({Item(l, e, c.refs) : e \in {x \in Entities : Current(l, x) # 0}},
                    {CueItem(cue) : cue \in Unexpired(cues)}, RawLimit)
         raw == [cut EXCEPT !.items = BySection(@)]
     IN call' = [call EXCEPT ![a].pc = Turn(raw.items, 1), ![a].next = 1,
          ![a].draft = [mark |-> c.draft.mark, time |-> now, files |-> cues, raw |-> raw,
                        asked |-> {}, mine |-> {}, told |-> {},
                        left |-> {o[1] : o \in raw.omitted} \cap Entities]]
  /\ cues' = Unexpired(cues)
  /\ UNCHANGED <<log, now, todo, acts, reply, pack, inbox>>

Drafting(a, draft, n) ==
  /\ call' = [call EXCEPT ![a].draft = draft, ![a].next = n, ![a].pc = Turn(draft.raw.items, n)]
  /\ UNCHANGED <<log, cues, now, todo, acts, reply, pack, inbox>>

\* isPackItemVisibleToRole: the origin run of the current event, and no other.
Look(a) ==
  /\ call[a] # NoCall /\ call[a].pc = "look"
  /\ LET n == call[a].next
         seen == RunRole(log, call[a].draft.raw.items[n].run) = call[a].role
     IN Drafting(a, [call[a].draft EXCEPT !.raw.items[n].seen = seen], IF seen THEN n ELSE n + 1)

\* roleForRun, which asks once of each run.
Own(a) ==
  /\ call[a] # NoCall /\ call[a].pc = "own"
  /\ LET n == call[a].next
         draft == call[a].draft
         run == draft.raw.items[n].run
         own == IF run \in draft.asked THEN run \in draft.mine ELSE RunRole(log, run) = call[a].role
     IN Drafting(a, [draft EXCEPT !.raw.items[n].own = own, !.asked = @ \cup {run},
                                  !.mine = IF own THEN @ \cup {run} ELSE @], n + 1)

\* Of what the kernel's cut left out, what the role may read by now.
Tell(a) ==
  /\ call[a] # NoCall /\ call[a].pc = "tell" /\ call[a].draft.left # {}
  /\ LET e == Min(call[a].draft.left)
         told == IF Visible(log, Current(log, e), call[a].role) THEN {e} ELSE {}
     IN Drafting(a, [call[a].draft EXCEPT !.left = @ \ {e}, !.told = @ \cup told], call[a].next)

\* focusPack's selection and packEnvelope: the portable pack, signed with the
\* workspace's key.  The event of the watermark is looked up again, and is there.
Issue(a) ==
  /\ call[a] # NoCall /\ call[a].pc = "tell" /\ call[a].draft.left = {}
  /\ LET c == call[a]
         draft == c.draft
         source == Focus(draft.raw, PackLimit(c.tokens), draft.told) @@ [mark |-> draft.mark]
         whom == [run |-> c.run, purpose |-> log[c.runAt].goal, role |-> c.role,
                  tokens |-> c.tokens, asked |-> c.refs]
     IN IF Issuable(source, whom)
        THEN /\ pack' = [pack EXCEPT ![a] =
                  source @@ whom @@ [time |-> draft.time, files |-> draft.files, until |-> Len(log),
                                     receipt |-> Receipt(Key, PortablePack(source, whom))]]
             /\ Answer(a, "packed", 0)
        ELSE Answer(a, "broken", 0) /\ UNCHANGED pack
  /\ UNCHANGED <<log, cues, now, todo, acts, inbox>>

-----------------------------------------------------------------------------
(* Reads *)

Get(a) ==
  /\ call[a] # NoCall /\ call[a].pc = "read" /\ call[a].op = "get"
  /\ LET ref == call[a].refs[1] IN
       IF Current(log, ref.ent) # 0 /\ Named(log, ref) = 0 /\ ref.rev \in {NoPin, log[Current(log, ref.ent)].rev}
            /\ Visible(log, Current(log, ref.ent), call[a].role) /\ ref.hash = NoPin
       THEN Answer(a, "read", Current(log, ref.ent))         \* a deleted record, without its body
       ELSE IF Holds(log, ref, call[a].role)
       THEN Answer(a, "read", Named(log, ref))
       ELSE Answer(a, "refused", 0)
  /\ UNCHANGED <<log, cues, now, todo, acts, pack, inbox>>

\* searchEntities asks the index for one type of record after the other, and
\* keeps each hit as the index has it: its revision, its words, its event.
\* Deleted records are hits too.
Find(a) ==
  /\ call[a] # NoCall /\ call[a].pc = "find"
  /\ LET e == Min(call[a].types) IN
       call' = [call EXCEPT ![a].types = @ \ {e},
                            ![a].hits = @ \cup ({Current(log, e)} \ {0}),
                            ![a].pc = IF call[a].types = {e} THEN "sift" ELSE "find"]
  /\ UNCHANGED <<log, cues, now, todo, acts, reply, pack, inbox>>

\* Then it looks each hit's record up: whether the role may see what the record
\* is by now decides of the hit as it was.
Sift(a) ==
  /\ call[a] # NoCall /\ call[a].pc = "sift" /\ call[a].hits # {}
  /\ LET i == Min(call[a].hits)
         shown == IF Visible(log, Current(log, log[i].ent), call[a].role) THEN {i} ELSE {}
     IN call' = [call EXCEPT ![a].hits = @ \ {i}, ![a].found = @ \cup shown]
  /\ UNCHANGED <<log, cues, now, todo, acts, reply, pack, inbox>>

Found(a) ==
  /\ call[a] # NoCall /\ call[a].pc = "sift" /\ call[a].hits = {}
  /\ reply' = [reply EXCEPT ![a] = [code |-> "found", req |-> call[a], event |-> 0, found |-> call[a].found]]
  /\ call' = [call EXCEPT ![a] = NoCall]
  /\ UNCHANGED <<log, cues, now, todo, acts, pack, inbox>>

BatchLimit(c) == Smaller(MaxBatch, Max({MinBatch, (c.limit - c.count) * 2}))

BatchEnd(c, from) == Smaller(Len(log), from + BatchLimit(c))

\* One kernel.changes of readVisibleChanges: scan the batch until the page is
\* full; the page ends with it, with a short batch, or with the next batch.
Shown(c, from) == {i \in (from + 1)..BatchEnd(c, from) : Visible(log, i, c.role)}

\* The first `quota` of what the batch shows.
Sent(shown, quota) == {i \in shown : Cardinality({j \in shown : j <= i}) <= quota}

ScanToBatchEnd(a) ==                 \* mutant: the cursor moves past what was read but not sent
  /\ call[a] # NoCall /\ call[a].pc = "read" /\ call[a].op = "changes"
  /\ LET c == call[a]
         from == inbox[a][c.role].cursor
         shown == Shown(c, from)
         sent == Sent(shown, c.limit - c.count)
     IN /\ inbox' = [inbox EXCEPT ![a][c.role] =
              [cursor |-> BatchEnd(c, from), got |-> Append(@.got, sent)]]
        /\ IF Cardinality(shown) >= c.limit - c.count \/ BatchEnd(c, from) < from + BatchLimit(c)
             THEN Answer(a, "read", 0)
             ELSE call' = [call EXCEPT ![a].count = @ + Cardinality(shown)] /\ UNCHANGED reply
  /\ UNCHANGED <<log, cues, now, todo, acts, pack>>

Scan(a) ==
  /\ call[a] # NoCall /\ call[a].pc = "read" /\ call[a].op = "changes"
  /\ LET c == call[a]
         from == inbox[a][c.role].cursor
         shown == Shown(c, from)
         full == Cardinality(shown) >= c.limit - c.count
         sent == Sent(shown, c.limit - c.count)
     IN /\ inbox' = [inbox EXCEPT ![a][c.role] =
              [cursor |-> IF full THEN Max(sent) ELSE BatchEnd(c, from),
               got |-> Append(inbox[a][c.role].got, sent)]]
        /\ IF full \/ BatchEnd(c, from) < from + BatchLimit(c)
             THEN Answer(a, "read", 0)
             ELSE call' = [call EXCEPT ![a].count = c.count + Cardinality(shown)] /\ UNCHANGED reply
  /\ UNCHANGED <<log, cues, now, todo, acts, pack>>

-----------------------------------------------------------------------------
(* The owner, through the kernel itself *)

OwnersEvent(act) ==
  LET i == Current(log, act.ent)
      e == [Blank EXCEPT !.ent = act.ent, !.basis = "explicit", !.kind = act.op,
                         !.key = <<"owner", Len(log)>>, !.at = Len(log)]
  IN CASE i = 0 -> e
       [] i # 0 /\ act.op = "delete" -> [e EXCEPT !.rev = log[i].rev + 1, !.tomb = TRUE]
       \* A correction of an agent's record; its payload may or may not keep the run.
       [] i # 0 /\ act.op \in {"correct", "restate"} ->
            [e EXCEPT !.rev = log[i].rev + 1, !.maker = log[i].maker,
                      !.origin = IF act.op = "correct" THEN log[i].origin ELSE NoRun]
       \* kernel.checkpointRun: the payload holds the phase and nothing else.
       [] i # 0 /\ act.op = "checkpoint" ->
            [e EXCEPT !.rev = log[i].rev + 1, !.basis = "system", !.phase = "checkpoint"]

Tick ==
  /\ acts # <<>> /\ Head(acts).op = "tick"
  /\ now' = now + 1 /\ acts' = Tail(acts)
  /\ UNCHANGED <<log, cues, todo, call, reply, pack, inbox>>

OwnerActs ==
  /\ acts # <<>> /\ Head(acts).op # "tick"
  /\ LET act == Head(acts)
         e == OwnersEvent(act)
     IN IF (act.op = "state" <=> Current(log, act.ent) = 0) /\ Acceptable(log, e)
        THEN log' = Append(log, e)
        ELSE UNCHANGED log
  /\ acts' = Tail(acts)
  /\ UNCHANGED <<cues, now, todo, call, reply, pack, inbox>>

Move(a) ==
  \/ Enter(a) \/ EnterOpen(a) \/ EnterRefresh(a) \/ Turned(a)
  \/ CheckRef(a) \/ Target(a) \/ Build(a) \/ Commit(a) \/ Again(a) \/ Terminal(a)
  \/ ListCues(a) \/ CreateCue(a)
  \/ Replay(a) \/ Gather(a) \/ Look(a) \/ Own(a) \/ Tell(a) \/ Issue(a)
  \/ Get(a) \/ Find(a) \/ Sift(a) \/ Found(a) \/ Scan(a)

Next == (\E a \in Agents : Move(a)) \/ OwnerActs \/ Tick

Spec == Init /\ [][Next]_vars

-----------------------------------------------------------------------------
(* Properties *)

\* An agent's record is written, revised and supported within one role: all
\* its agents' revisions come from runs of the role that made it, and every
\* reference it holds names a revision that was in the ledger before it and
\* is the owner's or of that role -- whatever happened between the checks of
\* appendContextEvent and its commit.
RolesStaySeparate == Separate(log)

\* A hit was the owner's or of this role, or a later revision of its record was.
MayFind(l, i, role) == \E j \in Rows(l, l[i].ent) : i <= j /\ MayUse(l, j, role, Len(l))

\* What an agent is given to read, whole or by page, is the owner's or of one of
\* its roles; a page holds what is of the role it was asked in.  What a search
\* finds is of a record that is by the time it is looked up: if the owner makes
\* another role's record the owner's own in the middle of a search, the agent is
\* shown the text from before (local-context-gateway.ts keeps the hit, and asks
\* whose the record is).
ReadsStayInRole ==
  \A a \in Agents :
    /\ reply[a].code = "read" /\ reply[a].event # 0 =>
         \E role \in RolesOf[a] : MayUse(log, reply[a].event, role, Len(log))
    /\ reply[a].code = "found" =>
         \A i \in reply[a].found : \E role \in RolesOf[a] : MayFind(log, i, role)
    /\ \A role \in Roles : \A n \in DOMAIN inbox[a][role].got : \A i \in inbox[a][role].got[n] :
         role \in RolesOf[a] /\ MayUse(log, i, role, Len(log))

\* No agent writes or reads across roles, except what is the owner's.
RolesHold == RolesStaySeparate /\ ReadsStayInRole

\* A set of entities that stands on its own in ledger l: every one active, and
\* every supporting reference met inside the set.
StandsAlone(l, ents) ==
  \A e \in ents :
    /\ Alive(l, e)
    /\ \A ref \in ToSet(l[Current(l, e)].deps) :
         \/ ref.ent = e
         \/ /\ ref.ent \in ents
            /\ ref.rev \in {NoPin, l[Current(l, ref.ent)].rev}
            /\ ref.hash \in {NoPin, Current(l, ref.ent)}

SizeIn(l, ents) == FoldSet(LAMBDA e, sum : sum + l[Current(l, e)].size, 0, ents)
PackedEnts(a) == {p.ent : p \in pack[a].picked} \cap Entities
Known(a) == SubSeq(log, 1, pack[a].mark)

\* Whether the role could see entity e of a pack, by what the run it came from
\* was known as when the ledger had k events: between the replay and the receipt
\* the owner may take a run's role away, and a late checkpoint give it back.
SeenAt(a, e, k) ==
  LET i == Current(Known(a), e) IN
    TrustedCrossRole(Known(a), i) \/ RoleAt(log, log[i].origin, k) = pack[a].role
Meanwhile(a) == pack[a].mark .. pack[a].until

\* Every pack is provenance-closed at its watermark: it holds current, active
\* records its role could see while the pack was made, with everything they lean
\* on at exactly the pinned revisions, and nothing of it exceeds the budget.
PackClosed ==
  \A a \in Agents : pack[a].mark # 0 =>
    /\ StandsAlone(Known(a), PackedEnts(a))
    /\ \A e \in PackedEnts(a) : \E k \in Meanwhile(a) : SeenAt(a, e, k)
    /\ \A p \in pack[a].picked : p.ent \in Entities => p.hash = Current(Known(a), p.ent)
    /\ Cardinality(pack[a].picked) <= PackLimit(pack[a].tokens).items
    /\ SizeIn(Known(a), PackedEnts(a)) <= PackLimit(pack[a].tokens).size

\* A record asked for by name is in the pack whenever some set of records that
\* holds it, stands on its own and could be seen all the while fits the budget,
\* and the kernel's own cut did not come first: nothing of lower rank crowds it
\* out.
RequestedIsPacked ==
  \A a \in Agents :
    (pack[a].mark # 0 /\ Len(pack[a].asked) = 1) =>
      LET e == pack[a].asked[1].ent
          there == {x \in Entities : Alive(Known(a), x)}
      IN (/\ Cardinality(there) <= RawLimit.items /\ SizeIn(Known(a), there) <= RawLimit.size
          /\ \E ents \in SUBSET there :
               /\ e \in ents /\ StandsAlone(Known(a), ents)
               /\ \A x \in ents : \A k \in Meanwhile(a) : SeenAt(a, x, k)
               /\ Cardinality(ents) <= PackLimit(pack[a].tokens).items
               /\ SizeIn(Known(a), ents) <= PackLimit(pack[a].tokens).size)
         => e \in PackedEnts(a)

\* A completion that was accepted, first or as a retry, is the one the ledger
\* holds: a run completes once, with one outcome, however many processes race
\* to complete it.
CompletionIsOnce ==
  \A a \in Agents :
    (reply[a].code \in {"created", "duplicate"} /\ reply[a].req.op = "complete") =>
      LET done == {i \in Rows(log, reply[a].req.run) : log[i].phase = "complete"} IN
        /\ done = {reply[a].event}
        /\ log[reply[a].event].mat = reply[a].req.mat
        /\ log[reply[a].event].deps = reply[a].req.refs

\* No cue outlives MaxTtl from its receipt whatever its sender's clock says, no
\* pack shows a cue that had expired or another role's, and a cue that was
\* accepted is the one on file for as long as it is on file.
CuesAreShortLived ==
  /\ \A cue \in cues : cue.expires <= cue.recorded + MaxTtl
  /\ \A a \in Agents :
       /\ pack[a].mark # 0 => \A p \in pack[a].picked : p.ent \in Entities \/
            \E cue \in pack[a].files :
              cue.ent = p.ent /\ cue.expires > pack[a].time /\ OpenedAs(log, cue.run) = pack[a].role
       /\ reply[a].code \in {"created", "duplicate"} /\ reply[a].req.op = "cue" =>
            \A cue \in cues : cue.ent = reply[a].req.cue.ent /\ cue.recorded <= reply[a].time =>
              cue.mat = reply[a].req.cue.mat

\* Whatever was selected makes a receipt, unless the request names one revision
\* of a record twice; the receipt names every durable record
\* of the pack, none else, each by the event that was its entity's current one
\* at the watermark; and no refresh starts from a receipt that is not one the
\* gateway gave.
ReceiptsHold ==
  \A a \in Agents :
    /\ reply[a].code = "broken" => ~Unique(reply[a].req.refs)
    /\ pack[a].mark # 0 =>
         LET c == pack[a].receipt.pack.content IN
           /\ {t.ref.ent : t \in c.trace} = PackedEnts(a)
           /\ \A t \in c.trace :
                /\ t.event = Current(Known(a), t.ref.ent) /\ t.ref.hash = t.event
                /\ log[t.event].rev = t.ref.rev /\ log[t.event].basis = t.basis
    /\ reply[a].code = "packed" /\ reply[a].req.op = "refresh" => reply[a].req.as = "given"

\* A pack holds what was asked for, on all that supports it, and no stale cue,
\* and its receipt says so.
PacksAreSound == PackClosed /\ RequestedIsPacked /\ CuesAreShortLived /\ ReceiptsHold

\* Paging through get_changes misses nothing and repeats nothing: each page is
\* after the one before, and the pages hold every event up to the cursor whose
\* run has been known to have the reader's role ever since.
ChangesComplete ==
  \A a \in Agents : \A role \in Roles :
    LET box == inbox[a][role] IN
      /\ \A m, n \in DOMAIN box.got : m < n =>
           \A i \in box.got[m], j \in box.got[n] : i < j
      /\ \A i \in 1..box.cursor :
           /\ log[i].ent \in Entities
           /\ \A k \in i..Len(log) : RoleAt(log, log[i].origin, k) = role
           => \E n \in DOMAIN box.got : i \in box.got[n]
=============================================================================
