# TLA+ models of the Agents for Introverts services

This directory holds TLA+ modules for the stateful parts of the repository, TLC
configurations that check them on small instances, and proofs that TLAPS checks for
every instance.  Paths such as `services/hub/src/app.ts` are paths of the repository.
`PROJECT.json` lists, in machine-readable form, the components, the runs, a mutant for
every checked property (a plausible bug in the code that the property catches), the
source lines behind every definition, the hazards, the findings and the theorems.

    tlc -workers 2 -config ContextLedger_note.cfg MCContextLedger   # one run
    tlapm ContextLedger_proofs.tla                                  # one proof module

## 1. Inventory

### Context kernel (`services/context-kernel`)

A library over a directory that several processes open at once: CLI calls, the MCP
gateway, other harnesses.  There is no server; the file system is the shared state.

| Part | State it keeps | Operations | What makes it hard |
|---|---|---|---|
| file lock (`file-lock.ts`) | `.locks/*.lock`: an inode with a JSON record of pid and token | acquire, poll, recover an abandoned file, release | every step is a separate system call on a shared path name; inode numbers are reused; owners die |
| ledger (`ledger.ts`, `private-objects.ts`, `io.ts`) | one file per event, one receipt per idempotency key, one encrypted object per body | append a change, correct, delete, expire; reconcile at open; read | no transaction spans the body, the event, the receipt and the erasure; calls are retried; lookups happen before the lock |
| projections and index (`projector.ts`, `sqlite-index.ts`, `kernel.ts`) | `projections/**`, `cache/context.sqlite3` | replay, invalidate, rebuild, search | plaintext that must not survive a deletion, rewritten file by file beside deletions and deaths, partly by a child process |
| runs, scratch, packs (`runs.ts`, `scratch.ts`, `context-pack.ts`) | run entities in the ledger, `scratch/*.json` | checkpoint, complete, add and prune cues, assemble | time to live, checks made before the append lock |
| workspace and keys (`workspace.ts`, `receipt-auth.ts`) | manifest and AES key | initialise, open, seal, sign | several processes initialise at once; half of it may be lost |
| protocol adapter (`protocol-adapter.ts`) | none: recomputed from the ledger | admit a canonical record, export a portable ledger | two sets of rules for one history; deletions take events out of it |
| CLI (`cli.ts`) | none | argument parsing | none |

Correct means: an exclusive lock that is always recovered; a ledger whose sequence and
hash chain, revisions, keys and receipts agree whatever dies; bodies that exist exactly
as long as their entity; retries that are answered like the first attempt; derived
plaintext that never outlives a deletion nor falls behind what it has already shown; one
key for everything that is sealed; an export that replays to what the kernel holds.

### Hub (`services/hub`)

A Cloudflare worker over D1; any number of isolates handle requests at a time.

| Part | State | Operations | What makes it hard |
|---|---|---|---|
| ingest (`app.ts`, `d1-store.ts`, `memory-store.ts`, `store-utils.ts`) | tables `ingest_nonces`, `events` | check the signature, claim the nonce, append once | separate statements, evicted isolates, lost results, redelivery, producers that retry with new envelopes |
| projections (`projector.ts`) | none: recomputed from the log at each read | feed, runs, sources | events arrive in any order and build on stale reads |
| subscriptions (`app.ts`, `d1-store.ts`, the site's form) | rate-limit and mailing-list rows | subscribe, show the result | counting, reading the count and inserting are separate; windows are swept meanwhile |
| request security, validation (`security.ts`, `validation.ts`) | none | HMAC, shape checks | the rules differ from the protocol package's |

Correct means: what is answered 202 is stored once and for good; a key names one record;
a conflict or error is never an artefact of concurrency; the projections depend on the
set of events and not on their arrival; a revision never regresses; a form says
"On the list" of addresses that are on it.

### MCP services (`services/mcp`)

| Part | State | Operations | What makes it hard |
|---|---|---|---|
| hub client (`hub-client.ts`) | none | turn tool calls into signed events | lost answers, run events numbered by the agent |
| context gateway (`local-context-gateway.ts`, `protocol-context-pack.ts`) | all of it in the kernel | open, assemble, refresh, read, search, append, evidence, cues, checkpoint, complete, get changes | chains of awaited kernel calls: what was checked may have changed when the append commits; roles must not see each other's records |
| feed state (`feed-state.ts`) | receipts and cues beside the plan that Quiet Desk writes | list, record a receipt, record a cue | no lock; the plan is saved again between check and write; two programs judge the same files |
| servers and schemas (`server.ts`, `context-server.ts`, `http.ts`) | a rate map in memory | transport | none |

### Runner (`services/runner`)

| Part | State | Operations | What makes it hard |
|---|---|---|---|
| companion (`companion.mjs`, `work-items.mjs`, `codex-rpc.mjs`) | numbered checkpoint files, `session.json`, `messages/` | setup, sync, open, read, checkpoint | compare-and-swap by exclusive links; several processes bind one conversation |
| daily conversation (`run-day.mjs`, `check-in.mjs`, `capture.mjs`, `collect.mjs`, `outside-research.mjs`, `export-public.mjs`, `status.mjs`) | the day's pages and JSON files | prepare, calibrate, collect, research, run, export, prune | processes without locks beside the person's editor; kills in the middle of a write |
| pieces (`piece.mjs`) | `piece.json`, approvals, built pages | render page and cards | words, approvals and page are read at three moments |
| providers (`providers/`) | a child process per answer | ask a model | none shared |

### Quiet Desk (`apps/quiet-desk`), protocol (`packages/protocol`), site (`src`)

Quiet Desk is a single-user macOS application: it writes the feed plan, judges receipts
and cues, signs and publishes pieces, captures loose pages and starts the runner's
commands.  The protocol package is pure functions: the rules an event and a record obey,
the replay of ledgers and runs, the projection of an action's proof.  The site is static
but for one form.

### How they interact

    agents --tool calls--> hub client --signed POST--> hub --SQL--> D1 --reads--> feed
       |                                                ^
       +----tool calls--> context gateway --calls--> context kernel <--calls-- CLI
       |                                                 | files, locks
       +--tool calls--> feed state --files--> Quiet Desk --starts--> runner --files-->
    site's form --POST--> hub                              person's editor --files-->

Shared state is always files or D1 rows; there are no in-process callbacks between
components.  That is why the modules model one system call, one call of the kernel or
one SQL statement per step.  Where a step stands for more than that, section 2 says so.

## 2. Modules

| Module | Models | Composes with |
|---|---|---|
| `Mutex` | what `withFileLock` promises: callers ask, one works, it leaves or gives up | abstract specification of `FileLock` |
| `FileLock` | `file-lock.ts`, one file-system call per step | implements `Mutex` |
| `AbstractLedger` | what the ledger promises: one atomic step per accepted request | abstract specification of `ContextLedger` |
| `ContextLedger` | `ledger.ts` with its bodies, receipts and reconciliation | implements `AbstractLedger`; uses the lock as an atomic mutex |
| `DerivedState` | `projector.ts`, `sqlite-index.ts` and the calls of `kernel.ts` | uses the ledger's operations as single steps, the locks as mutexes |
| `Workspace` | `workspace.ts`: one manifest, one key, several initialisers | stands alone |
| `ContextPack`, `PackReceipt` | selection of a Context Pack, its portable form and signature, as operators | used by `ContextGateway` |
| `ContextGateway` | `local-context-gateway.ts`, one look at the ledger or the scratch files per step | the ledger as `ContextLedger` shows it to be |
| `ProtocolRules` | which records, transitions and confirmations `packages/protocol` accepts | used by the next two |
| `ProtocolLedger` | ledgers written through the protocol package: slow writers, restored copies | instance of `ProtocolRules` |
| `ProtocolExport` | `protocol-adapter.ts`: the kernel's boundary and its export | replays with `ProtocolRules` |
| `ProtocolEvents` | the rules on envelopes, feed items, proposals and receipts, of the protocol and of the hub | used by the next two |
| `RunReplay` | one run from the bridge's tools to the protocol's run record and the hub's status | `HubFeed`'s `projectRun` beside the protocol's replay |
| `ActionProof` | `projectActionProof` over receipts in any order | stands alone |
| `Protocol` | `ProtocolLedger`, `ProtocolExport`, `RunReplay` and `ActionProof`, one at a time, with their properties | extends the first, instances of the others |
| `EventStore` | `MemoryEventStore`: append as one step | abstract specification of `HubIngest` |
| `HubIngest` | a post from `HubClient.publish` to the D1 statements and back | implements `EventStore` |
| `HubFeed` | what the bridge publishes after which reads, and `projector.ts` | the log of `HubIngest` as a sequence |
| `MailingList` | the site's form, `/v1/subscribe` and its two tables | stands alone |
| `FeedState` | `feed-state.ts` and the Mac application's side of the same files | both readers in one module |
| `CompanionLog` | `checkpointCompanion` and the work items it carries | stands alone |
| `CompanionSession` | `setupCompanion`, `syncCompanion`, `openCompanion` and the conversations in Codex | stands alone |
| `DailyDesk` | the runner's commands, the application's `ProviderStore` and `RunnerBridge`, a terminal, the person | stands alone |
| `PieceDesk` | `piece.mjs` and the application's `PieceLibrary` and loose pages | both readers in one module |
| `Readers` | `PieceDesk`, `CompanionLog`, `CompanionSession`, `FeedState`, `HubFeed`, `MailingList` and `Workspace`, one at a time, with their properties | instances of the seven |
| `*_proofs` | theorems about `FileLock`, `ContextLedger`, `DerivedState`, `ContextGateway`, `HubIngest`, `Protocol`, `DailyDesk` and `Readers` | extend their module and TLAPS |
| `MC*` | instances for TLC | extend or instantiate their modules |

Three modules hold several machines or settings, of which a behaviour has one: Init picks
it, no step changes it, and the variables of the machines that are not picked keep a fixed
value.  TLC so explores the sum of them, not their product.

* `Readers` has a part for each of its machines (`part`); its properties are conjunctions of
  `part = "..." => ...` and its theorems hold for all values of its constants.  `MCReaders`
  gives the values, and narrows two parts: `piece` and `loose` are both `PieceDesk`, one
  with words and renders, the other with loose pages; `x` and `history` are both
  `FeedState`, one with the feed an agent reads, the other with the app's own adapter.
* `MCDesk` is `DailyDesk` with a `day`: what there is in the morning, which commands are
  asked for, how many, and what a model answers.  `DailyDesk` itself would allow any of it;
  when a day has had its calls, what was to follow by itself waits.
* `Protocol` has a part for each of its machines and setting, as `Readers` has.  `MCProtocol`
  gives the values and narrows three parts: `words` and `forks` are both `ProtocolLedger` and
  differ in the copies and the intents; `export` is `ProtocolExport` without the gateway's
  reading, `gateway` with it; `replay` and `bridge` are both `RunReplay`, with other posts.

### FileLock

State: `path` is the inode at the lock path, `record` what each inode's file holds,
`stale` the files older than `stale_ms`, and per process a program counter, the inode its
handle keeps in use (`mine`), its token and what it saw in `inspectLock` (`seen`).
Every `await` of a file-system call ends a step: `Create` is `open(path, "wx")`,
`WriteRecord` the `stat`, `writeFile` and `sync` behind it, `Finish` the work and the
close, `ReleaseInspect`/`UnlinkOwn` the release, `Inspect`/`Recheck`/`UnlinkStale` the
recovery, `Poll` and `Busy` the loop.  `InUse` is the operating system's rule that an
inode number is free once no link and no handle refers to it, which is what makes
comparing inode numbers unsafe after a close.

### ContextLedger

State: `log` (event files), `markers` (receipts), `bodies` (private objects), `lock`, and
per process the request in hand.  A call is `Submit`, `Lookup` (corrections, deletions
and expiries read the current event before the lock), `Check`, `Acquire`, then under the
lock `Replay`, `Conflict`, `Heal`, `Refuse` or `Draft`, `StoreBody`, `Commit`, `Mark`,
`Unlock`, and for tombstones `EraseScan`, `RemoveOne`, `EraseEnd` after it.  `Refusals`
lists the checks of `appendChange` in the order of the code.  `Open` runs
`reconcilePrivateBodies`.  `Die` may strike between any two effects; `BodyFails`,
`CommitFails`, `MarkFails` are errors before or after the effect.  The hash chain is the
pair of sequence number and previous event id; encryption is the presence of an object;
a request's content is its identity, so the request hash is `SameRequest`.

### DerivedState

State: `docs` (projection files, each the set of records it shows), `litter` (temporary
files left in `projections/`), `index` (the database and the child that created it),
`children` (sqlite3 processes), two locks, and per call a plan of phases.  `open`,
`change`, `delete`, `prune`, `search` and `replay` are the methods of `ContextKernel`;
`checkpointRun` and `completeRun` have the shape of `change`, `rebuildIndex` that of a
`search` without the query, and read-only replays are the "survey" of `prune`.  Files
are written through a temporary file and a rename and removed one by one; bodies are
checked and read in two steps; the two invalidations of a deletion run side by side.

### Workspace

State: the manifest, the key (by the process that made it), what was sealed with which
key, and per process where it is in `initializeWorkspace` (`Find`, `WriteKey`,
`WriteManifest`) or `openWorkspace` (`Open`, `Opened`).  `Created` is `writeCreateOnly`,
which links a finished file and so never leaves a torn one.  `Restart` is a death or an
error; `LoseKey` and `LoseManifest` a partial restore, between sessions.

### ContextGateway, ContextPack, PackReceipt

State: the ledger `log`, the scratch files `cues`, a clock, and per agent its call, its
reply, its last pack and, for each role, its cursor and the pages `get_changes` gave it.
A call goes through program counters, one per look at the ledger or the scratch files:
`Enter` (the run is usable: `requireRun`, roles), `CheckRef` for each reference, `Target`,
`Build` (the human seeds of a record), `Commit` (the ledger's own checks under its lock,
`Acceptable`), `Again` and `Terminal` (the retried completion), `ListCues` and
`CreateCue`, `Get`, `Scan`.  A pack is made by `Replay` (the ledger at one moment, whose
end is the watermark), `Gather` (the scratch files, and the kernel's cut), then for each
item `Look` (may its run's role see it) and `Own` (whose is it, asked once for each run),
`Tell` for each record that the cut left out, and `Issue`; the ledger goes on all the
while.  A search is `Find` for each type of record, which keeps the hit as the index has
it, `Sift` for each hit, which looks its record up, and `Found`.  What is one step although
the code awaits more than once: the walk from a record to whose it is (`Visible`: the
record's run, and the revisions before it), the index of one search with the replay behind
it, and the check of one reference with the pages of events it goes through.
`OwnerActs` are statements, corrections, deletions and checkpoints made outside the
gateway.  The index of an event stands for its id and its hashes.  `Cut`, the kernel's
first selection, and the gateway's closure-preserving selection are operators of
`ContextPack`; `PortablePack` and its validation, of `PackReceipt`.  A refresh may bring
the receipt it was given, one that was rewritten, one of another run, or one under
another key.

A behaviour starts from one of `Plans`: a ledger, and what everyone will ask.
`PlanAssumption` says what those may be: ledgers whose runs and records follow each other
as the kernel lets them (the empty one is among them, lemma `EmptyLedger`, and every step
keeps the form), requests of the port's shapes, acts of the owner on records of the right
kind.  `MayUse` says whose an event is: the owner's or the system's if they made the
record, else the role's of the run it was first sent from; `RolesHold` and
`ChangesComplete` are stated with it, not with the gateway's own test `Visible`.  Of a
search `RolesHold` asks that a found revision, or a later one of the same record, is the
owner's or the role's (`MayFind`): the code decides by the record it looks up later, see
section 3.  A pack's records are those of its watermark, but the role that could see them
is asked for between watermark and receipt: `PackClosed` wants each record to have been
visible at some moment in between (`SeenAt`), `RequestedIsPacked` promises what was
visible at every one.

### ProtocolRules, ProtocolLedger, ProtocolExport

`ProtocolRules` translates `context-validation.ts` and `context-ledger.ts`: `EventOK`,
the rules per record type, authority and confirmations (`Confirms`), transitions between
revisions, and `Replays`, the replay that accepts a ledger or refuses it.  `shaped`
stands for checks of one field by itself.  In `ProtocolLedger` writers build an event on
one copy and append it at once (`Write`) or later and perhaps to another copy (`Prepare`,
`Submit`), which accepts it only if all of it still replays; copies are restored from
each other (`Restore`).  In `ProtocolExport` the kernel
commits what its boundary lets in (`Change`, `Delete`), the export is an operator over
its ledger (`Exported`), and the gateway reads page by page and body by body (`Begin`,
`ReadPage`, `ReadBody`, `Finish`) while the kernel goes on.

### ProtocolEvents, RunReplay, ActionProof

`ProtocolEvents` has the relations between fields that `validation.ts` of the protocol
and of the hub check.  In `RunReplay` agents send what the bridge's tools build (`Send`),
under numbers that may be skipped or used again, the hub stores it late or never
(`Store`), and a consumer resumes its record with
what is new (`Follow`); `Replay` is `projectRunRecord`, `HubStatus` is `projectRun`.  In
`ActionProof` an agent proposes, users decide, receipts come in any order and whoever
projects keeps what it was shown (`Project`).

### HubIngest and EventStore

State: the tables `nonces` and `rows`, one worker per request in progress with its step
(`claim`, `lookup`, `insert`, `relookup`), posts in the network, and what each producer
knows.  `Receive` reads the clock as `ingest` does, before the body; `ClaimRows` is the
nonce batch; `Insert` is INSERT OR IGNORE with the uniqueness constraints of the
migration (`Clashing`).  `StoreFails`, `Evict`, `Lose`, redelivery share one fault
budget.  Assumed: producers' clocks are not ahead of the hub's; everything
`sameStoredEvent` compares is in the event's `body` or `id`.

### HubFeed

State: the log in order of arrival, events in flight, and per run the last sequence
number and the revisions it has read.  `Publish`, `Update`, `Withdraw`, `Report` are the
bridge's tools; the projections are operators over the log (`RunStatus`, `Current`,
`Feed`, `SourceItems`).  A sort followed by a reduction is a recursive function over sets
of rows: what it makes of a set is what the last row of the set makes of the result for
the others (`Latest`, `LatestRevision`); rows that a sort does not tell apart stay as they
arrived.

### MailingList

State: the forms, the requests with their step, the two tables.  `Submit` has the form's
latch; `Claim` is the batch of `claimSubscribeSlot` (sweep and count in one transaction),
`Check` the SELECT after it, `Insert` and `Touch` the two statements of `addSubscriber`.
`Lost` and `Fail` lose answers and fail statements; `Remove` and `Unsubscribe` are the
owner of the list.

### FeedState

State: the plan file, receipts and cues by id (`Torn` while created and not filled), what
the Mac application holds in memory, and the agent's call in progress.  `CheckReceipt`
and `CheckCue` read the plan and judge; `OpenFile` and `FillFile` write later.
`SavePlan`, `SaveFails`, `Launch`, `Refresh`, `VerifyHistory` are the application.  Both
readers are there as operators: `Listed`/`ListedCues` of `feed-state.ts`,
`Shown`/`MacCues` of the Swift code.

### CompanionLog and CompanionSession

`CompanionLog`: the checkpoint files by slot, per agent what it read and wants to save and
how far its process is, temporary files.  `Read`, `Call`, `Load`, `Stage`, `Link`,
`Unlink` follow `checkpointCompanion`; `Fail` and `CallAgain` end and repeat a process.
`CompanionSession`: `session.json`, the kept messages and the conversations in Codex.
`Look`, `Create`, `Fill` are `setupCompanion`; `SyncRead`, `Find`, `Bind`, `ReadTurns`,
`Keep` are `syncCompanion`; `Answer` hands out the prompt.  The workspace may be a copy of
another with its session in it.

### DailyDesk

State: the files of the day, each whole, `Torn` or absent; one process of the application and one
of a terminal; the application's memory.  Each command reads and decides in steps of its
own and then performs a list of writes (`todo`), each of which empties the file (`Open`)
and fills it (`Fill`).  `RunBegin` ... `RunTalk` are `run-day.mjs`, gate by gate;
`PrepareBegin`/`PrepareAnswer`, `Calibrate`, `NewCapture` the check-in and the capture;
`CollectBegin` ... `PruneNext` the collector.  `Edit` is the person's hand, `Kill` a
cancel or a death, `Perform`/`AppReceives`/`AppNext` the application's `ProviderStore`.

### PieceDesk

State: the words, the manifest, approvals, receipts and built pages of one piece, loose
pages, a render in progress, and the application's last look.  `RenderBegin`,
`RenderWords`, `RenderApprovals`, `RenderLook`, `RenderPage`, `RenderCards` are the
moments at which `renderPiece` reads and writes; `Sign`, `Withdraw`,
`RecordPublication` and `Refresh` the application; `AppForms` and `RunnerForms` the two
derivations of where a form stands; `Capture`, `SetAsideRead`, `SetAsideWrite` loose pages.
The two programs name a form's files by rules of their own, `AppKeyOf` and `RunnerKeyOf`,
which may differ on any channel but the essay's.

## 3. Runs

Every property is invariant, action property or temporal property of the run's cfg.
`CHECK_DEADLOCK FALSE` is set where a bound (requests, tries, records, attempts) or a
death of every process ends all behaviours, which is no deadlock of the code.

| Run | What it shows | Bounds, and why they suffice |
|---|---|---|
| `lock_recovery` | types, exclusion, implements `Mutex`; a lock file nobody owns is removed while somebody tries | 2 processes of which one may die, 2 inodes, 1 and 3 attempts, failing `stat` and `write`: inodes are reused and one process recovers what the other left; with two recoverers exclusion is false, see `lock_steal`. The proof covers any number of processes, deaths included, with one recoverer at a time |
| `lock_steal` | violation, below | 3 processes, 3 inodes |
| `ledger_note` | `Lineage` (chain, revisions, keys, receipts), bodies exist as long as their entity, erasure is complete once a call has answered, retried changes replay | one note created, revised, deleted, with a reused key; 2 processes, 5 requests, 4 events: every pair of calls overlaps, every call is retried; deaths and failing writes |
| `ledger_authority` | terminal runs, explicit context and global ids cannot be raced past; implements `AbstractLedger` | 13 requests, one per refusal; syncs and receipts fail after their effect |
| `ledger_delete_retry` | violation, below | 1 process |
| `derived_safety` | deleted text never comes back; views never go backwards, missing bodies mean deletions, answers are current | 2 actors that each write, delete, prune and search, 1 entity that expires, 2 events, 1 fault of any kind |
| `derived_repair` | deleted text is gone in the end, also when orphaned sqlite3 children write it again | fairness, 1 fault, one process that only opens |
| `hub_posts` | every 202 and 500 is justified by the table; the statements amount to one step of `EventStore`; nonces once per window; repeated envelopes get in | two crowds of callers, one sharing ids and keys in every way, one with a clock 0..2 and window 1: posts become stale, nonces expire, a retry is fresh; 2 handlers, 1 fault |
| `desk` | nothing is written without its gates, what a hand wrote survives unless the code had looked before, the application comes to rest | four parts: `morning` (check-in beside calibration), `runs` (two runs, an edit, a death), `outside` (research, collect and prune beside each other), `site` (export beside a run); 2 to 4 calls: each pair of commands overlaps |
| `readers` | see the next table | nine parts |
| `gateway` | roles stay separate, packs are closed and hold what was asked for, a run completes once, `get_changes` misses nothing | two agents with up to four calls each, from plans that race every kind of call with each that writes, and packs with what can move a record or a role; an owner who acts in between, deletes or checkpoints their runs and restates their records; every graph of three records for packs, requests that name a revision twice; batches of 2 to 4, time to live 2 |
| `protocol` | confirmations go back to the owner, exports hold what is held and continue each other, replays agree, proofs stand | seven parts: `words` (4 events, one copy), `forks` (2 copies, 3 events), `export` (4 events out of 40 requests), `gateway` (pages of 2), `replay` (4 events, 1 slip), `bridge` (3 events of every tool), `proof` (3 receipts, clock 3) |

The parts of `readers`:

| Part | Property | Bounds |
|---|---|---|
| `piece` | `OnlySignedWords`, `ReadersAgree`, `PagesKept` | 2 texts, 2 paths, 2 manifests, 1 render, up to 2 edits and 2 marks but 3 of both together: an edit or a signature at each moment of the render; three channels, of which the application tells two apart that the runner does not |
| `loose` | `PagesKept` | 3 slots, so that one second holds two pages, 2 edits |
| `companion` | `SavedInOrder` (commits follow reads, what was reported saved is kept, the decision is on the shelf) | 2 agents, 3 records, 4 inputs, 1 death |
| `session` | `SavedInOrder` (prompts lead back, only our conversation is kept) | 2 processes, 3 commands, 2 conversations, 1 end |
| `x`, `history` | `CuesStandOnReceipts`, `ReadersAgree` | 2 receipts, 1 cue, clock 2, 2 saves, 1 spoilt plan; in `x` 2 of saves and spoilings together |
| `hub` | `ArrivalOrderIsIrrelevant`, `RevisionsNeverRegress` | 2 runs with clocks out of step, 3 events: a publication and two rival revisions or a withdrawal, an end and two later reports, in all orders |
| `mail` | `ListKeepsItsWord` | 2 visitors behind one address, 2 requests, limit 1, clock 3 |
| `workspace` | `OneKey` | 3 processes of two owners, 3 deaths, 1 loss |

### What the violations show

* `lock_steal`: two recoverers of one dead owner's file; the slower one unlinks the
  faster one's fresh lock (`file-lock.ts:104`).
* `ledger_delete_retry`: a retried, committed deletion supersedes its own tombstone,
  hashes differently and is refused, so the promised second erasure never runs
  (`ledger.ts:266`).

### Disagreements seen while modelling that no run checks

The models contain the behaviour unless it is said to be outside of them; the runs stay
clear of it or state what is true of it.  Grouped by component; each is a
place where the code surprises its docs, its tests or its other half.

File lock and ledger:

* After a theft, an owner's release closes its handle first, which frees its inode
  number, and takes a replacement without a record for its own file (`file-lock.ts:81`);
  `file-lock.ts:28-30` says that release never removes a replacement.
* Outside the model: an abandoned record whose pid is in use again is never recovered
  (`file-lock.ts:92`), and an owner suspended longer than `stale_ms` before its record is
  written loses its file (`file-lock.ts:93`); `readEvents` scans directories without the
  lock, one file after the other (`ledger.ts:348`); temporary files of a death keep the
  plaintext of what was to be written (`io.ts:62`).
* A deletion that is refused still removes the projections and the index and rebuilds
  neither (`kernel.ts:116`).
* A sqlite3 child outlives a parent that dies, and with it the index lock: it can write a
  deleted entity's text into the new database (`sqlite-index.ts:149`; the kernel's
  `README.md:12`).  `Orphans = TRUE` in `derived_safety` breaks `ClearedStaysClear`;
  `derived_repair` shows that the next open removes the text.

Workspace:

* The loser of a race to initialise throws `ALREADY_EXISTS`, also where the winner belongs
  to another owner, although the workspace is fine (`workspace.ts:79-82`); initialising
  on an existing manifest does not look for the key.  If key and manifest are both lost,
  a new key is made that reads nothing: `MaxLosses` is 1.

Hub and its bridge:

* Event ids are the primary key of D1's table but are looked up per connection: the second
  connection to use an id is answered 500 although nothing failed (`d1-store.ts:135`; the
  hub's `README.md:103`).  Two connections with equal ids break `ErrorsNeedFaults`.
* A tool call repeated after a lost answer mints a new event id under the old key and is
  answered 409 (`hub-client.ts:117`; the hub's `README.md:47`).
* Reads stop at the first 10,000 events by sequence number (`d1-store.ts:148`; the hub's
  `README.md:103`); `ArrivalOrderIsIrrelevant` and `RevisionsNeverRegress` are of tables
  that fit one read.
* A withdrawal that names an overtaken revision is stored and hides nothing
  (`hub/src/projector.ts:185`; `services/mcp/src/server.ts:390`).
* The bridge's claims cite a source by its id alone, so the protocol refuses every feed
  item the bridge publishes and the hub accepts (`packages/protocol/README.md:15`); a
  source seen under two locators cannot be published at all.
* The bridge never sends `run.started`, which the protocol's replay demands first.  Two
  events with one sequence number and different kinds are accepted by the hub and make
  the run unreplayable, as does feedback after its end, while the hub shows the run as
  running; a late duplicate is refused by a full replay and overlooked by a resumed one.
* Mailing list: a request that stalls between counting itself and the SELECT until its
  window is swept is judged by a later row, or by none, and gets in over the limit
  (`d1-store.ts:207`).  A fixed window lets twice its limit in around a boundary.  After
  a removal between `INSERT OR IGNORE` and `UPDATE` the form says "On the list" of an
  address that is not on it.

Protocol and its adapter:

* A proof of an action cannot be projected any more once its proposal or approval has
  run out, also when it was delivered before; a late failure, or two receipts of one
  status, make it unprojectable (`packages/protocol/src/projections.ts:317`).
* The protocol accepts an agent's tombstone of any record and an in-place inferred
  revision of an explicit statement; the kernel refuses both.  The kernel does not
  compare a revision with the one before it, so a revision with an earlier `updated_at`,
  a changed `created_at` or broader retention is committed and makes every later export
  throw until the record is deleted (`protocol-adapter.ts:108`).
* A deletion renumbers and rehashes the export (`docs/CONTEXT_KERNEL.md:105` calls it a
  view of what is active).  The gateway's export throws if the ledger holds a record of
  a type the protocol lacks, which the adapter alone would leave out, or when one is
  erased while it reads; bodies read before an erasure are exported.

Gateway:

* Completed runs accept late evidence and proposals (`docs/CONTEXT_KERNEL.md:174`).
  A retry is refused, not replayed, when its run was completed meanwhile or when it
  revises a record (the target is checked first); a checkpoint without an expected
  revision conflicts with its own first attempt, and so does a cue whose expiry was cut.
* Human seeds are built from the current basis although the reference may pin an older,
  inferred revision; a correction by the owner that drops the run is readable and in no
  pack; the kernel's cut of 200 records may crowd out what was asked for by name;
  receipts are bound to run, owner and role, not to the agent.
* A search keeps each hit as the index had it and asks whose the record is only later
  (`local-context-gateway.ts:717-719`).  If the owner makes another role's record the
  owner's own in between, the agent is shown that role's title and snippet from before.
  `RolesHold` is stated so that this is allowed and nothing else is.
* Roles are asked for one item at a time after a pack's replay (`:1404-1410`): a pack may
  hold a record that its role could no longer see when the receipt was made, or lack a
  requested one because its run had no role for a moment.
* A request that names one revision of a record twice is accepted (`context-tools.ts:263`),
  and then no pack can be issued for it: validation throws after all the work
  (`context-validation.ts:341`).
* `kernel.checkpointRun` (`runs.ts:17`) drops the role the run was opened with, and so
  does a deletion.  A record of that run that the owner restates without the run is then
  visible to every role (`local-context-gateway.ts:1011`, `:1022`), whatever its first
  author's role was: no role is found for it, and it is explicit and the owner's.  The
  third part of `MayUse` is this case; without it `RolesHold` is violated.  With the role
  still known, the same restatement stays with its role.

Feed state:

* A torn receipt or cue burns its id (`feed-state.ts:380`).  A newer partial receipt hides
  an older verified one; among equally new ones the directory's order decides (`:339`).
* If the plan cannot be written, agents keep the old one and a relaunch restores it; a
  plan that was lost starts again at revision 1, where old receipts may match (the
  property is stated for `spoils = 0`).

Daily conversation:

* A torn `conversation.json` makes later full runs throw without a record
  (`run-day.mjs:503`); a torn run, check-in or source file makes `status`, `collect` and
  `prune` throw (`status.mjs:24`, `workspace.mjs:156`); a torn place is kept for ever.
* An edit between the read of the page and its write is lost (`run-day.mjs:501`, `:510`);
  a death between the page and `conversation.json` makes the runner's own page look
  edited, and after a run without new input an edited page looks like the runner's.
* `newCapture` can overwrite a capture calibrated meanwhile (`capture.mjs:36`), and its
  template already says that a human wrote it.  Two collectors may choose one id
  (`collect.mjs:229`).  `status` and `export` read what is on disk then, not what was
  shown; the application drops a command when it is busy (`ProviderStore.swift:346`).

Pieces:

* A page made by hand between the look and the write is replaced (`piece.mjs:604`).  A
  built page stays signed after an edit or a withdrawal until it is rendered again.  The
  two readers differ when the canonical file is missing (the runner lists a web form, the
  application none); `ReadersAgree` ranges over what the application lists.
* The application keeps every Unicode letter and digit of a channel in its form's key, the
  runner the ASCII ones only (`PieceLibrary.swift:283`, `piece.mjs:489`): a form for "Café"
  is signed as `approvals/café.json`, looked for by the runner as `caf.json`, and so still
  a draft there; if a channel "Caf" exists the runner takes the two for one.
  `ReadersAgree` is therefore of the essay and of the forms that both programs file alike
  (`FiledAlike`); the instance has channels of both kinds.

Companion:

* The revision of a checkpoint is a hash of the last body alone, so a saver that read the
  first occurrence of a repeated body is accepted over records it never read
  (`companion.mjs:157`; `docs/quiet-desk-work-items.md:65`).
* Two syncs may bind two conversations that both began with the prompt; the later rename
  wins (`companion.mjs:86`).  A `session.json` torn by a death (`:54`) makes every later
  command throw.

### Fairness

* `FileLock` (`lock_recovery`): each process inside `withFileLock` takes its next step
  (`Step`), and files age (`Age`).  Entering, timing out, failing and dying are never
  forced.  An event loop runs the next callback; nothing else is assumed.
* `DerivedState` (`derived_repair`): a call's next step happens if it is possible again and
  again: strong fairness, because a lock that is polled every few milliseconds is found
  free in the end.  Children run on.  The workspace is opened again and again: an
  assumption about the users, without which the text of an interrupted deletion stays.
* `HubIngest` (`hub_posts`): producers call again, each post's first delivery happens,
  handlers go on.
* `DailyDesk` (`desk`): processes run on, since a model answers or is stopped after its
  time limit, and the application's actor gets to the end of its own command.  Nobody
  has to ask for anything, and what follows by itself may wait.

## 4. Proofs

`FileLock_proofs`, under `LockAssumption`:

* `TypeCorrect`: types, with deaths and all faults.
* `OneRecovererExcludes`, `OneRecovererImplements`: for any number of processes, inodes and
  attempts, any deaths and any failing calls, if no owner is slower than `stale_ms`: work
  is exclusive and each step is a step of `Mutex`, as long as `OneRecoverer` holds, that is,
  as long as no two processes are at once between finding a file abandoned and unlinking
  it.  So the race of the finding about the lock is the only way in which exclusion is lost.  The
  inductive invariant `Sole` says that the file at the path belongs to the one live owner
  there may be and is not old, and that whoever recovers has found the very file that is
  still there; exclusion alone is not inductive, since it says nothing of the processes in
  release or recovery.
* `UndyingExclusion`, `UndyingImplements`: the same without a condition on the behaviour,
  where nobody dies and `stat` on a fresh lock does not fail (`Undying`); there a file
  always has its owner (`Attended`) and nothing is ever recovered.

`ContextLedger_proofs`, under `LedgerAssumption` (what `appendDeletion` and `appendExpiry`
put into a request), for all processes, requests, deaths and faults:

* `TypeCorrect`, `LineageAlways`, `AuthorityAlways` and the parts of the last two,
  `ReadableAlways`, `KeysCommitOnce`, `ReceiptsAlwaysMatch`, `RevisionsAlwaysChain`,
  `RunsAlwaysEnd`, `ExplicitAlwaysProtected`, `EntityIdsStayGlobal`, follow from one
  inductive invariant `Sound`: types; `Locking` (the lock is held exactly in the locked
  section); `History` (the seven invariants together: each needs others, e.g. a
  receipt's event is unique only because keys are); and `DraftOK` (an event that has
  passed the checks still `Fits` the ledger when it is committed, because nobody else
  writes in between).  `AppendKeeps` is the central lemma: appending an event that fits
  keeps the history.
* `ChangesRetrySafely`, an action property: a retried change whose event is committed is
  never refused.  It needs `Verbatim` besides: a change's event supersedes what its
  request names.  For deletions this is false, which is the finding above.
* `ErasureAlwaysComplete`: a reconciliation, deletion or expiry that ends has removed every
  body it had to.  `Tidy` says that an entity's tombstone is its last event and, of each
  process in the middle of a removal, that what it still has to remove covers what is left.
* `BodiesAlwaysKept`: the bodies of active entities are there, if the sync of a directory
  does not fail behind a link (`"commitSync" \notin Faults`).  With that fault it is false:
  the append takes the linked event for a failure and removes its body (`ledger.ts:231`).
* `AppendsAreCompareAndSwap`: every step is a step of `AbstractLedger` or leaves it as it
  is.  Besides `Sound` it needs `Counted` (an event's revision is the number of its entity's
  events so far, which is what `AbstractLedger` compares with) and `DraftNamed` (what the
  checks found of a draft's name and revision still holds when it is committed).

`DerivedState_proofs`, under `DerivedAssumption`, for any programs, entities, calls, deaths,
lock timeouts and failures, where a sqlite3 child does not outlive its parent (`~Orphans`;
with orphans the first theorem is false, see above):

* `ClearedAlwaysStaysClear`.  `LocksHeld` says that whoever replays in order to write, or
  removes, holds the lock of what it touches, and `ChildrenWaited` that each child's parent
  waits for it.  `Clean` then adds what is on the way: when an entity is among the cleared,
  or its clearing has had one of the two locks, no derived file of that kind shows its text
  and no replay of that kind carries it; a later replay reads the tombstone.  Without what
  the replays carry the invariant is not inductive: that is the race the lock is there for.
* `ViewsAlwaysCurrent`.  `Faithful`: what a replay has read is the ledger at one length,
  not less than the length its call began with.  `PlansFit` and `BodiesThere`: a body goes
  only after its entity's tombstone is in the ledger, so what a replay finds missing is
  deleted (`ErasedAreGone`).  `DocsCurrent`: a projection's view is at least what any
  finished one had to show, and the files it has written show its records; so a file that
  was written earlier by another is either rewritten or shows enough.  `IndexCurrent`: the
  database between a child's commit and its parent's query holds the parent's records.

`HubIngest_proofs`, under `IngestAssumption`, for any number of calls, connections, keys,
contents, handlers and faults:

* `AcceptedIsAlwaysStored` and `AnswersAreAlwaysTrue`.  `Posted` is the typing; `Found`
  relates each handler between two statements to the table: what its lookup or its blocked
  insert has met is still there.  That 500 needs a fault is proved where different
  connections do not use one event id (`IdsApart`): the table's primary key is the event id
  alone and `app.ts:183` takes the producer's id for it, so with equal ids it is false.
* `NoncesCountOnce`: `Remembered` keeps the row of each claim in the table for as long as
  the claim counts, since a batch sweeps by the same clock it claims with.
* `AppendsAreAtomic`: under the mapping of `HubIngest.tla` (an append is open from the
  claimed nonce to its result) each statement is a step of `EventStore` or none; the append
  takes effect at the insert, or at the lookup that meets the row.

`ContextGateway_proofs`, under `GatewayAssumption` and `PlanAssumption`, for any agents,
roles, runs, entities, requests, acts of the owner, batch sizes and page sizes:

* `RolesAlwaysHold`.  The gateway checks references, the target and the superseded revision
  in separate reads and commits later, so the property is not inductive.  `IInv` says of
  each call what its checks have established and no later event can undo (`CallHolds`): a
  checked reference is `Cited` for ever, since a revision once usable stays usable
  (`MayUseGrow`); a run's role is the one it was opened with, or none; a target is
  `Vouched`: it comes from a run of the call's role, or one of its revisions is explicit,
  and then the ledger refuses the agent's event whenever it comes.  `LedgerHolds` says how
  the rows of a run and a record may follow each other, `LedgerGrow` that one more proper
  event keeps that, and `RunWishHolds`, `EntityWishHolds` and `OwnersEventHolds` that
  whatever is committed is proper.  Of a search, `IInv` says that its hits are events of the ledger, and of
  each it has found that the agent may read this or a later revision of its record
  (`Offered`), which no later event undoes.
* `CompletionIsAlwaysOnce`.  A completion that was answered with success is the only
  complete row of its run (`Completed`), and stays it, because a completed run takes
  nothing but its tombstone.
* `ChangesAlwaysComplete`.  `BoxHolds`: what was sent is below the cursor, and each event
  below it that the role has been known to own ever since was sent.  `PageIs` is the
  lemma about one batch: up to where the cursor moves, a page is exactly what the batch
  shows, also when it fills up in the middle.

`Protocol_proofs`, under `PartsAssumption` (sequence numbers, revisions and times are numbers,
and a body is a record with its dates), for any owner, copies, intents, requests, page sizes,
answers, receipts and bounds:

* `OwnersWordAlwaysBehindIt` and `OnlyOwnHistoriesAlwaysReplay`.  The inductive invariant
  `Replaying` says that every copy replays as a whole, also one that was restored from
  another.  The rest are facts about the rules, true of any ledger that replays: each event
  is chained to the one before it (`ChainedToPrevious`), an entity's revisions go up by one
  for each of its events (`OnePastForAnEvent`), so the decision that a confirmation cites
  was in force, and still the owner's, where it was cited.
* `ExportsAlwaysHold`.  `KernelKept` says of the kernel's ledger what its boundary and its
  commits leave behind: revisions of a record are counted by its events, each supersedes the
  one before it, what is not deleted passed the boundary (`Passed`), and of what is deleted
  no body is left.  Any ledger like that (`Kept`) has an export that mirrors it event for
  event (`UptoMirrors`), so what its replay holds of a record is the record's last snapshot
  (`HeldOf`, `ReplayGivesCurrent`), and an event is accepted unless it is one of the revisions
  that the kernel does not compare (`AcceptedUnlessUnportable`, `RefusedOnlyForRevisions`).
  The gateway's reading is not one step: `GatherKept` says that each body it has read is the
  one its event was committed with, although that may have been erased since, and that a
  refusal has one of three reasons; what it has gathered is `Kept` too (`GatheredKept`), so the
  same lemmas serve both.
* `ExportsAlwaysContinue`, from the same invariant: without a tombstone the portable events
  among the first n stay the same when one more is appended (`Continued`).
* `ReplaysAlwaysAgree`, for any posts and bounds.  Where the numbers of the events are their own,
  the n-th is the one numbered n after the record's last (`NthIs`), or the replay is refused
  (`ReplayGoes`, which also carries the hub's status along); so what the first n events make of
  a run is the replay of the first n alone, and the replay of the rest goes on from there
  (`CutAndResumed`, `Resumed`).  `RunKept` says that the consumer's record is the replay of
  some of the stored events: if the whole log replays, they are its first ones.
* `ProofsAlwaysStand`.  `ProofHolds` ties what was shown to the receipts on record, which only
  grow: of each status there was one receipt when a view showed it, so that views cannot
  contradict each other, and each step of a proof has an earlier one behind it.

The export is a recursive function of the ledger, and a run's record one of its events.  What is needed of them is proved by induction
over the numbers, in the form of `CountingUp`: a set of numbers with 0 in it, and n + 1 whenever
n is, has them all.  That is the least-element principle for sets of numbers, which takes no
operator as a parameter.

`DailyDesk_proofs`, under `DailyAssumption`, for any commands, answers of a model, edits, kills and
deaths:

* `NothingEverWithoutTheGates` and `HumanWordsAlwaysSurvive`.  Between a gate and the write that it
  lets through, other commands and the person write to the same files.  `IInv` says of each
  process what it has established and nobody can undo (`ProcHolds`), of the list of writes
  it is performing what each may contain (`WritesHold`) and what it had seen of the file at
  its head if that is a person's page (`HeadHolds`); that each run has a number of its own,
  under which nobody else writes (`Numbered`); and of the disk that a full talk has what it
  needs and a refused run left nothing (`DiskHolds`).

`Readers_proofs`, under `PartsAssumption`, has for each machine of `Readers` a section with its
inductive invariant and what follows for the machine's own specification; the last section
carries that over to `Readers`, whose behaviours never leave their part.

* `OneKeyAlways`, for any number of processes, owners, deaths and sealed bodies, where not
  both of key and manifest are lost (`WorkspaceAssumption`).  `HomeWhole` adds what `OneKey`
  leaves open: a lost key of a workspace with sealed bodies leaves its manifest in place, so
  nobody is on the way to write another key; and, before anything is lost, whoever is about
  to write the manifest has left a key behind.
* `SavedInOrderAlways`, for any agents, inputs, checkpoints, processes, conversations and
  deaths.  `CompanionLog`: `Ordered` adds what each process stands on between two of its
  calls: the revision it read is still where it read it, the one it compared with is the one
  before the slot it tries, and a checkpoint that is linked stays until it is reported;
  `RevisionsStay` says why.  `Shelved` says that a checkpoint on its way carries the shelf and
  the decision of the revision it will land on, because a body names its own predecessor
  (`CheckedLands`).  `CompanionSession`: `SessionHolds` says that the marker, once there,
  stays; that what a process has found of a conversation (it began with the marker, it is
  here, it has that many turns) stays true of it, although `session.json` is renamed over and
  conversations move in Codex's list; and that one process at most fills the file it created.
* `ListAlwaysKeepsItsWord`, for any visitors, addresses, requests, windows and sweeps.
  `MailHolds` relates the row of a window to the requests counted in it: its `attempts` are
  the number of requests that went through the claim since its first one (`Counted`),
  so those judged by it (`Admitted`) are at most its limit; and what a form says it was told
  when the address was on the list (`Says`).
* `OnlySignedWordsAlways`, `ReadersAlwaysAgree` and `PagesAlwaysKept`, for any texts, manifests,
  channels, pairs of rules for their keys, edits and renders; the second of the essay and of
  the forms that both programs file alike.  `PieceHolds`: what the runner has read of the approvals, and
  the app at its last look, was signed (`GoesBy`), and a page that was not there at the look is
  not the runner's to replace (`HandsSeen`); `PagesHold` says the same of a set-aside.
  `StatesAgree` is a lemma about the two derivations alone: the app asks for the first post of
  a channel, the runner goes through all candidates in order.
* `CuesAlwaysStandOnReceipts`, and the half of `ReadersAlwaysAgree` about feeds, for any feeds,
  rows, lives, clocks, deaths and late writes.  `FeedHolds`: a receipt on disk was verified
  against the plan of its revision (`SoundReceipt`), a cue names such a receipt and was in time
  when it was checked (`SoundCue`), also while the file is created and not yet filled; and
  the plan file is the plan last saved (`PlanKnown`) unless it was spoilt.
* `ArrivalOrderNeverMatters` and `RevisionsNeverGoBack`, for any runs, items, sources, times
  and deliveries, while the table fits one read.  `HubKept` says that events have ids of
  their own, stored or on their way.  The rest is about sets of rows: each has one last row
  in either order (`LatestIs`, `LatestRevisionIs`), so what the recursive functions make of
  the rows can be followed row by row and compared with a description that does not mention
  the order of the table: the last event that says where a run is (`StatusComesTo`), the end
  of the longest chain of updates (`PayloadComesTo`), the last event that cites a source
  (`SourcesComeTo`).  One more event never shortens a chain (`ChainsGrow`).

Only model-checked:

* all liveness (`AppIsNeverStuck`, the lock's and `derived_repair`'s), which is beyond the
  prover, as is ENABLED;
* exclusion of the lock with two recoverers of one file, which is false (`lock_steal`);
* `PacksAreSound`, which is what four folds over sets that were sorted first compute, and there
  `FoldLeft` and `SetToSortSeq` take operators as parameters.

## 5. What the models leave out

* Cryptography, canonical JSON, rendering and wording; a hash is the value it was taken of.
* Checks of one field by itself: shapes, lengths, dates, known literals.
* `ContextLedger`, `DerivedState` and `ContextGateway` take the lock as exclusive, also
  after a death; the finding about the lock is about the lock.
* In `DerivedState` a database whose file was unlinked while a child had it open is not
  reachable any more; SQLite's handling of a `-wal` file left by name is not modelled.
* `CompanionSession` leaves out `CODEX.md`, `sync.json` and the windows of 30
  conversations and 20 turns; `FeedState` the limit of `listCues`; `PieceDesk` the wording
  of pages and cards; `HubFeed` pagination.
* Not modelled, because they keep no state or only wrap what is modelled: the kernel's
  CLI, the MCP servers with their schemas and the rate map of `http.ts`, the runner's
  providers (a harness that times out may leave its child running), Quiet Desk's views
  and feed filters, the public site, agent definitions, prompts and release scripts.

## 6. Plan

What is left, in this order:

1. Composition: `ContextGateway` over `AbstractLedger` as an instance, instead of operators
   of its own for the ledger's acceptance.
2. `QuietDeskStore.swift`'s own views of the feed, and the hub client's pagination.
3. A theorem about the folds of `PacksAreSound`, with recursive functions over sets of rows
   in place of folds, as `HubFeed` has them.
