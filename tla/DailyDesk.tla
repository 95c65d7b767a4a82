------------------------------ MODULE DailyDesk ------------------------------
(***************************************************************************)
(* One day on the Desk: the runner's commands (services/runner), each a    *)
(* process of its own over the files of the workspace; the Mac app's       *)
(* ProviderStore, which starts them one at a time; a terminal, from which  *)
(* the person or an agent starts them too; and the person's own hand on    *)
(* the files.  No command takes a lock.                                    *)
(*                                                                         *)
(* Writing a file is two steps, as fs.writeFile is: it empties the file,   *)
(* then fills it.  A process that ends in between leaves it Torn.          *)
(***************************************************************************)
EXTENDS Naturals, SequencesExt

CONSTANTS
  Nil, Torn,        \* no file; an emptied file
  Urls, Unknown,    \* the public pages, and a source nobody loaded
  Slugs,            \* the places a conversation may propose: 1, 2, ...
  Outputs,          \* the claims a provider may answer with
  FirstSources,     \* the source records there may be already,
  FirstCaptures,    \* and the captures: Nil, or one an agent wrote
  Commands,         \* [Callers -> what each starts]: [cmd, mode]
  MinSources,       \* MIN_SOURCES, 2
  Ceiling,          \* MAX_DEVELOPMENTS and MAX_PLACES, 3
  MaxCalls, MaxRecords, MaxEdits, MaxDeaths   \* the bounds of an instance

\* What an instance must give; the module that instantiates assumes it.
DailyAssumption ==
  /\ MinSources \in Nat \ {0} /\ Ceiling \in Nat \ {0}
  /\ Slugs \subseteq Nat /\ Unknown \notin Urls
  /\ Nil # Torn /\ {"failed", "partial"} \cap {Nil, Torn} = {}
  /\ {MaxCalls, MaxRecords, MaxEdits} \subseteq Nat
  /\ \A out \in Outputs : IsFiniteSet(DOMAIN out) /\ DOMAIN out \subseteq Nat

App == "app"
Callers == {App, "terminal"}

\* The files of the day.  A run writes under its own number, so its record and
\* the conversation it puts beside an edited one have names of their own.
CaptureMd == <<"capture", 0>>
RecallJson == <<"recall", 0>>
PageMd == <<"daily-conversation.md", 0>>
TalkJson == <<"conversation.json", 0>>
PublicJson == <<"public", 0>>
TopicsJson == <<"check-in", 0>>
PlaceMd(s) == <<"place", s>>
AsideMd(n) == <<"daily-conversation.run.md", n>>
RunJson(n) == <<"run", n>>
SourceJson(i) == <<"source", i>>
Files ==
  {CaptureMd, RecallJson, PageMd, TalkJson, PublicJson, TopicsJson}
    \cup {PlaceMd(s) : s \in Slugs} \cup {SourceJson(i) : i \in 1 .. MaxRecords}
    \cup {AsideMd(n) : n \in 1 .. MaxCalls} \cup {RunJson(n) : n \in 1 .. MaxCalls}

\* Text by a run or a command, in which the person may have written since.
Text(n) == [by |-> n, hand |-> FALSE]
Whole(v) == v \notin {Nil, Torn}

VARIABLES
  disk,     \* [Files -> contents]
  proc,     \* [Callers -> the command in progress]
  store,    \* the app's memory: ProviderStore
  calls, edits, deaths

vars == <<disk, proc, store, calls, edits, deaths>>

NoProc == [cmd |-> "none", at |-> "done"]
NoAnswer == <<>>

Init ==
  /\ \E known \in FirstSources, capture \in FirstCaptures :
       disk = [f \in Files |->
         IF f[1] = "source" /\ f[2] \in DOMAIN known THEN known[f[2]]
         ELSE IF f = CaptureMd THEN capture ELSE Nil]
  /\ proc = [c \in Callers |-> NoProc]
  /\ store = [busy |-> FALSE, recap |-> 0, shown |-> 0, error |-> FALSE,
              last |-> Nil, next |-> <<>>]
  /\ calls = 0 /\ edits = 0 /\ deaths = 0

-----------------------------------------------------------------------------
(* Processes *)

\* A command as it starts: its number stands for its run id, for the stamp of
\* the recap it writes and for the hash of that recap.
Started(n, c, arg, next) ==
  [cmd |-> c.cmd, mode |-> c.mode, arg |-> arg, next |-> next, n |-> n,
   at |-> "start", cap |-> Nil, recall |-> 0, have |-> {}, claims |-> NoAnswer,
   seen |-> Nil, left |-> <<>>, todo |-> <<>>, then |-> "exit", status |-> Nil,
   wrote |-> 0, end |-> "ok"]

Start(p, c, arg, next) ==
  /\ calls < MaxCalls
  /\ calls' = calls + 1
  /\ proc' = [proc EXCEPT ![p] = Started(calls + 1, c, arg, next)]

Is(p, cmd, at) == proc[p].cmd = cmd /\ proc[p].at = at
Changed(r, change) == [f \in DOMAIN r |-> IF f \in DOMAIN change THEN change[f] ELSE r[f]]
Step(p, change) ==
  /\ proc' = [proc EXCEPT ![p] = Changed(@, change)]
  /\ UNCHANGED <<disk, store, calls, edits, deaths>>

\* An uncaught error, or an error the command prints, ends it with a code the
\* caller sees as a failure.
Threw == [at |-> "exit", end |-> "threw"]

\* The writes a command has decided on, in order: over what is there, "new"
\* only if nothing is ("wx"), or "absent", which looks first and writes later.
Over(f, v) == [file |-> f, val |-> v, how |-> "over"]
Absent(f, v) == [file |-> f, val |-> v, how |-> "absent"]
New(f, v) == [file |-> f, val |-> v, how |-> "new"]

\* On to the next write, or to what the command does after them.
Onward(p) ==
  LET rest == Tail(proc[p].todo) IN
  [todo |-> rest, at |-> IF rest = <<>> THEN proc[p].then ELSE "write"]

Look(p) ==
  LET w == Head(proc[p].todo) IN
  /\ proc[p].at = "write" /\ proc[p].todo # <<>> /\ w.how = "absent"
  /\ Step(p, IF disk[w.file] # Nil
             THEN Onward(p)
             ELSE [todo |-> <<Over(w.file, w.val)>> \o Tail(proc[p].todo), seen |-> Nil])

Open(p) ==
  LET w == Head(proc[p].todo) IN
  /\ proc[p].at = "write" /\ proc[p].todo # <<>> /\ w.how # "absent"
  /\ IF w.how = "new" /\ disk[w.file] # Nil
     THEN Step(p, Threw)
     ELSE /\ disk' = [disk EXCEPT ![w.file] = Torn]
          /\ proc' = [proc EXCEPT ![p].at = "fill"]
          /\ UNCHANGED <<store, calls, edits, deaths>>

Fill(p) ==
  LET w == Head(proc[p].todo) IN
  /\ proc[p].at = "fill"
  /\ disk' = [disk EXCEPT ![w.file] = w.val]
  /\ proc' = [proc EXCEPT ![p] = Changed(@, Onward(p))]
  /\ UNCHANGED <<store, calls, edits, deaths>>

-----------------------------------------------------------------------------
(* The check-in and the capture *)

\* prepareCheckIn: only while there is no capture, asked again after the model.
PrepareBegin(p) ==
  /\ Is(p, "prepare", "start")
  /\ Step(p, IF disk[CaptureMd] # Nil THEN Threw ELSE [at |-> "asked"])

PrepareAnswer(p) ==
  /\ Is(p, "prepare", "asked")
  /\ \/ Step(p, Threw)
     \/ Step(p, IF disk[CaptureMd] # Nil THEN Threw
                ELSE [at |-> "write", todo |-> <<Over(RecallJson, proc[p].n)>>, recall |-> proc[p].n])

ReadRecap(p) ==
  /\ Is(p, "read", "start")
  /\ Step(p, IF disk[RecallJson] = Torn THEN Threw
             ELSE [at |-> "exit", recall |-> IF disk[RecallJson] = Nil THEN 0 ELSE disk[RecallJson]])

\* calibrateCheckIn: the person's words, pinned to the recap they reviewed.
Calibrated(p) == [author |-> "human", pin |-> proc[p].arg, by |-> proc[p].n, hand |-> TRUE]

Calibrate(p) ==
  /\ Is(p, "calibrate", "start")
  /\ Step(p, IF disk[RecallJson] # proc[p].arg THEN Threw
             ELSE [at |-> "write", todo |-> <<New(CaptureMd, Calibrated(p))>>])

\* newCapture: the template, whose frontmatter already says author: human.
Template(p) == [author |-> "human", pin |-> 0, by |-> proc[p].n, hand |-> FALSE]

NewCapture(p) ==
  /\ Is(p, "capture", "start")
  /\ Step(p, [at |-> "write", todo |-> <<Absent(CaptureMd, Template(p))>>])

-----------------------------------------------------------------------------
(* Sources *)

SourceFiles == {f \in Files : f[1] = "source"}
Sources == {f \in SourceFiles : disk[f] # Nil}

\* loadAllSources reads every record; one that does not parse stops the command.
Unreadable == \E f \in Sources : disk[f] = Torn

\* loadSources: verified, inside the window, one for each page.
Usable(r) == r.life = "window"
Loaded == {disk[f].url : f \in {g \in Sources : Whole(disk[g]) /\ Usable(disk[g])}}
Known == {disk[f].url : f \in {g \in Sources : Whole(disk[g])}}

\* A record the collector builds: public because fetched without a sign-in.
Collected(u) == [url |-> u, life |-> "window"]

\* collect: every page that answers; `refresh` takes a new snapshot of one it has.
CollectBegin(p) ==
  /\ Is(p, "collect", "start")
  /\ IF Unreadable THEN Step(p, Threw)
     ELSE \E got \in SUBSET Urls :
            Step(p, [at |-> "collect", then |-> "collect", have |-> Known, left |-> SetToSeq(got)])

\* researchOutside: remembers the topics, then asks for pages and fetches them.
Research(p) ==
  /\ Is(p, "research", "start")
  /\ Step(p, [at |-> "write", then |-> "asked", todo |-> <<Over(TopicsJson, Text(proc[p].n))>>])

ResearchAnswer(p) ==
  /\ Is(p, "research", "asked")
  /\ \/ Step(p, Threw)
     \/ IF Unreadable THEN Step(p, Threw)
        ELSE \E got \in SUBSET Urls :
               Step(p, [at |-> "collect", then |-> "collect", left |-> SetToSeq(got)])

\* One candidate: skipped if known (or at the bound MaxRecords, which stands for
\* the command's own maximum), else written under a name nothing has yet.
Free == {i \in 1 .. MaxRecords : disk[SourceJson(i)] = Nil}

CollectNext(p) ==
  LET u == Head(proc[p].left) IN
  /\ proc[p].at = "collect" /\ proc[p].left # <<>>
  /\ IF (proc[p].mode = "known" /\ u \in proc[p].have) \/ Free = {}
     THEN Step(p, [left |-> Tail(proc[p].left)])
     ELSE Step(p, [at |-> "write", left |-> Tail(proc[p].left), wrote |-> proc[p].wrote + 1,
                   todo |-> <<Over(SourceJson(Min(Free)), Collected(u))>>])

CollectEnd(p) ==
  /\ proc[p].at = "collect" /\ proc[p].left = <<>>
  /\ Step(p, [at |-> "exit"])

\* prune: what is past its date, unless the person promoted it.
PruneBegin(p) ==
  /\ Is(p, "prune", "start")
  /\ Step(p, IF Unreadable THEN Threw
             ELSE [at |-> "prune", left |-> SetToSeq({f \in Sources : disk[f].life = "expired"})])

PruneNext(p) ==
  /\ Is(p, "prune", "prune")
  /\ IF proc[p].left = <<>> THEN Step(p, [at |-> "exit"])
     ELSE IF disk[Head(proc[p].left)] = Nil THEN Step(p, Threw)
     ELSE /\ disk' = [disk EXCEPT ![Head(proc[p].left)] = Nil]
          /\ proc' = [proc EXCEPT ![p].left = Tail(@)]
          /\ UNCHANGED <<store, calls, edits, deaths>>

-----------------------------------------------------------------------------
(* run-day *)

\* validateConversation: a claim citing nothing, or a source that was not
\* loaded, is dropped; so is one past the ceiling of its kind.  What is kept are
\* the claims at some of the answer's positions.
Cited(c, loaded) == c.cites # {} /\ c.cites \subseteq loaded
OfKind(claims, k) == {i \in DOMAIN claims : claims[i].kind = k}
Upto(positions) == {i \in positions : Cardinality({j \in positions : j < i}) < Ceiling}
Kept(claims, loaded) ==
  LET good == {i \in DOMAIN claims : Cited(claims[i], loaded)}
      First(k) == Upto(good \cap OfKind(claims, k))
  IN [i \in First("development") \cup First("place") |-> claims[i]]

\* conversation.json.
Talk(p, target, claims) ==
  [by |-> proc[p].n, full |-> target # Nil, target |-> target,
   hash |-> IF target = Nil THEN Nil ELSE Text(proc[p].n), cap |-> proc[p].cap,
   recall |-> proc[p].recall, have |-> proc[p].have, claims |-> claims]

\* finish: the record of the run, whatever its end.
Record(p, status) == Over(RunJson(proc[p].n), status)
Finish(p, status) == [at |-> "write", status |-> status, todo |-> <<Record(p, status)>>]

\* An emptied capture has no frontmatter, so nobody is its author.
CaptureRead ==
  IF disk[CaptureMd] = Torn THEN [author |-> "unknown", pin |-> 0, by |-> 0, hand |-> FALSE]
  ELSE disk[CaptureMd]

\* The capture, and the two ends that need nothing else.
RunBegin(p) ==
  LET cap == CaptureRead IN
  /\ Is(p, "run", "start")
  /\ IF proc[p].mode = "no_new_input"
     THEN Step(p, [at |-> "write", status |-> "completed",
                   todo |-> <<Over(TalkJson, [Talk(p, Nil, NoAnswer) EXCEPT !.cap = cap]),
                              Record(p, "completed")>>])
     ELSE IF cap = Nil \/ (cap # Nil /\ cap.author # "human")
     THEN Step(p, Finish(p, "failed"))
     ELSE Step(p, [at |-> "recall", cap |-> cap])

\* mutant: any recap of the day will do
RunRecallAny(p) ==
  /\ Is(p, "run", "recall")
  /\ Step(p, IF proc[p].cap.pin = 0 THEN [at |-> "sources"]
             ELSE IF ~Whole(disk[RecallJson]) THEN Finish(p, "failed")
             ELSE [at |-> "sources", recall |-> disk[RecallJson]])

\* reviewedRecall: the recap must still be the one the capture is pinned to.
RunRecall(p) ==
  LET pin == proc[p].cap.pin IN
  /\ Is(p, "run", "recall")
  /\ Step(p, IF pin = 0 THEN [at |-> "sources"]
             ELSE IF disk[RecallJson] # pin THEN Finish(p, "failed")
             ELSE [at |-> "sources", recall |-> pin])

RunSources(p) ==
  /\ Is(p, "run", "sources")
  /\ Step(p, IF Unreadable THEN Threw
             ELSE IF Cardinality(Loaded) < MinSources THEN Finish(p, "partial")
             ELSE [at |-> "asked", have |-> Loaded])

\* The provider: an error, a refusal, no completion, a partial, or claims.
RunAnswer(p) ==
  /\ Is(p, "run", "asked")
  /\ \/ \E status \in {"failed", "partial"} : Step(p, Finish(p, status))
     \/ \E out \in Outputs :
          LET kept == Kept(out, proc[p].have) IN
          Step(p, IF DOMAIN kept = {} /\ out # <<>> THEN Finish(p, "partial")
                  ELSE [at |-> "page", claims |-> kept])

\* What the run writes once it knows where its text goes.
Drafts(p, target) ==
  LET claims == proc[p].claims
      places == OfKind(claims, "place")
      Nth(n) == claims[CHOOSE i \in places : Cardinality({j \in places : j < i}) = n - 1]
      file == IF target = "main" THEN PageMd ELSE AsideMd(proc[p].n) IN
  <<Over(file, Text(proc[p].n))>>
    \o [n \in 1 .. Cardinality(places) |-> Absent(PlaceMd(Nth(n).slug), Text(proc[p].n))]
    \o <<Over(TalkJson, Talk(p, target, proc[p].claims)), Record(p, "completed")>>

Draft(p, target) == [at |-> "write", status |-> "completed", todo |-> Drafts(p, target)]

RunPage(p) ==
  /\ Is(p, "run", "page")
  /\ Step(p, IF disk[PageMd] = Nil THEN Draft(p, "main") ELSE [at |-> "talk", seen |-> disk[PageMd]])

\* mutant: a conversation on record is enough
UntouchedIfOurs(p) == disk[TalkJson] # Nil /\ disk[TalkJson].hash # Nil

\* A page is the runner's own while its hash is the one conversation.json holds.
Untouched(p) == disk[TalkJson] # Nil /\ disk[TalkJson].hash # Nil /\ disk[TalkJson].hash = proc[p].seen

RunTalk(p) ==
  /\ Is(p, "run", "talk")
  /\ Step(p, IF disk[TalkJson] = Torn THEN Threw
             ELSE Draft(p, IF Untouched(p) THEN "main" ELSE "aside"))

-----------------------------------------------------------------------------
(* Status, and the public view *)

\* dayStatus reads every record it knows of; one that does not parse stops it.
Status(p) ==
  /\ Is(p, "status", "start")
  /\ Step(p, IF \/ Unreadable \/ disk[TalkJson] = Torn \/ disk[TopicsJson] = Torn
                \/ \E n \in 1 .. MaxCalls : disk[RunJson(n)] = Torn
             THEN Threw
             ELSE [at |-> "exit", arg |-> IF disk[TalkJson] = Nil THEN 0 ELSE disk[TalkJson].by])

\* toPublicDay: the conversation without what is not for the site.
Public(talk) == [by |-> talk.by, claims |-> talk.claims]

\* exportPublic, always with --approve: what is on disk at that moment.
Export(p) ==
  /\ Is(p, "export", "start")
  /\ Step(p, IF ~Whole(disk[TalkJson]) THEN Threw
             ELSE [at |-> "write",
                   todo |-> <<Over(PublicJson, Public(disk[TalkJson]))>>])

-----------------------------------------------------------------------------
(* The person's hand, and death *)

\* The person writes in a page, a place or the capture, with an editor.
Handmade(f) == f[1] \in {"capture", "daily-conversation.md", "daily-conversation.run.md", "place"}
ByHand(f, v) ==
  IF Whole(v) THEN [v EXCEPT !.hand = TRUE]
  ELSE IF f = CaptureMd THEN [author |-> "human", pin |-> 0, by |-> 0, hand |-> TRUE]
  ELSE [by |-> 0, hand |-> TRUE]

Edit(f) ==
  /\ edits < MaxEdits /\ Handmade(f) /\ disk[f] # Nil
  /\ edits' = edits + 1
  /\ disk' = [disk EXCEPT ![f] = ByHand(f, @)]
  /\ UNCHANGED <<proc, store, calls, deaths>>

\* The app cancels, the terminal is closed, the machine stops.
Running(p) == proc[p].at \notin {"done", "exit"}
Kill(p) ==
  /\ deaths < MaxDeaths /\ Running(p)
  /\ deaths' = deaths + 1
  /\ proc' = [proc EXCEPT ![p].at = "exit", ![p].end = "killed"]
  /\ UNCHANGED <<disk, store, calls, edits>>

-----------------------------------------------------------------------------
(* The callers *)

TerminalStart ==
  /\ proc["terminal"].at = "done"
  /\ \E c \in Commands["terminal"] :
       \E arg \in IF c.cmd = "calibrate" /\ Whole(disk[RecallJson]) THEN {disk[RecallJson]} ELSE {0} :
         Start("terminal", c, arg, Nil)
  /\ UNCHANGED <<disk, store, edits, deaths>>

TerminalEnds ==
  /\ proc["terminal"].at = "exit"
  /\ proc' = [proc EXCEPT !["terminal"] = NoProc]
  /\ UNCHANGED <<disk, store, calls, edits, deaths>>

\* What the app does after a command of its own, and whether an error stops it.
After(cmd, mode) ==
  CASE cmd = "calibrate" -> [cmd |-> "status", mode |-> "day", iffine |-> TRUE]
    [] cmd = "research"  -> [cmd |-> "run", mode |-> mode, iffine |-> TRUE]
    [] cmd \in {"run", "capture", "collect", "export"} -> [cmd |-> "status", mode |-> "day", iffine |-> FALSE]
    [] OTHER -> Nil

\* perform: one command at a time; it forgets the last error.
Perform(c) ==
  /\ Start(App, c, IF c.cmd = "calibrate" THEN store.recap ELSE 0, After(c.cmd, c.mode))
  /\ store' = [store EXCEPT !.busy = TRUE, !.error = FALSE,
                            !.last = IF c.cmd = "run" THEN Nil ELSE @]
  /\ UNCHANGED <<disk, edits, deaths>>

\* The person asks for something: words need a recap on screen, and the site
\* a conversation.
AppAsk ==
  \E c \in Commands[App] :
    /\ ~store.busy
    /\ c.cmd = "calibrate" => store.recap # 0
    /\ c.cmd = "export" => store.shown # 0
    /\ Perform(c)

\* The command has ended: what the app takes from it, and what is to follow.
Shortfall(r) == r.cmd = "research" /\ r.wrote < MinSources
\* mutant: a cancelled command leaves the app busy
AnsweredUnlessKilled(r) ==
  [store EXCEPT !.busy = r.end = "killed", !.error = r.end # "ok",
                !.next = IF r.next = Nil THEN @ ELSE Append(@, r.next)]

Answered(r) ==
  LET error == r.end # "ok" \/ Shortfall(r) IN
  [store EXCEPT
     !.busy = FALSE, !.error = error,
     !.recap = IF r.end = "ok" /\ r.cmd \in {"prepare", "read"} THEN r.recall ELSE @,
     !.shown = IF r.end = "ok" /\ r.cmd = "status" THEN r.arg ELSE @,
     !.last = IF r.end = "ok" /\ r.cmd = "run" THEN r.status ELSE @,
     !.next = IF r.next = Nil THEN @ ELSE Append(@, r.next)]

AppReceives ==
  /\ proc[App].at = "exit"
  /\ store' = Answered(proc[App])
  /\ proc' = [proc EXCEPT ![App] = NoProc]
  /\ UNCHANGED <<disk, calls, edits, deaths>>

\* What follows a command runs later, on the same actor: by then the app may be
\* busy again, and it is dropped, or the error it looks at may be another's.
AppNext ==
  LET f == Head(store.next) IN
  /\ store.next # <<>>
  /\ \/ /\ ~store.busy /\ ~(f.iffine /\ store.error) /\ calls < MaxCalls
        /\ Start(App, f, 0, After(f.cmd, f.mode))
        /\ store' = [store EXCEPT !.busy = TRUE, !.error = FALSE, !.next = Tail(@),
                                  !.last = IF f.cmd = "run" THEN Nil ELSE @]
        /\ UNCHANGED <<disk, edits, deaths>>
     \/ /\ store.busy \/ (f.iffine /\ store.error) \/ calls = MaxCalls
        /\ store' = [store EXCEPT !.next = Tail(@)]
        /\ UNCHANGED <<disk, proc, calls, edits, deaths>>

-----------------------------------------------------------------------------
Writing(p) == Look(p) \/ Open(p) \/ Fill(p)
CheckingIn(p) ==
  PrepareBegin(p) \/ PrepareAnswer(p) \/ ReadRecap(p) \/ Calibrate(p) \/ NewCapture(p)
Collecting(p) ==
  CollectBegin(p) \/ Research(p) \/ ResearchAnswer(p) \/ CollectNext(p) \/ CollectEnd(p)
    \/ PruneBegin(p) \/ PruneNext(p)
RunningDay(p) ==
  RunBegin(p) \/ RunRecall(p) \/ RunSources(p) \/ RunAnswer(p) \/ RunPage(p) \/ RunTalk(p)
Works(p) == Writing(p) \/ CheckingIn(p) \/ Collecting(p) \/ RunningDay(p) \/ Status(p) \/ Export(p)

Next ==
  \/ \E p \in Callers : Works(p) \/ Kill(p)
  \/ \E f \in Files : Edit(f)
  \/ TerminalStart \/ TerminalEnds \/ AppAsk \/ AppReceives \/ AppNext

\* Processes run, a model answers or is stopped after ten minutes, and the
\* app's actor gets to what it was told; nobody has to ask for anything.
Fairness ==
  /\ \A p \in Callers : WF_vars(Works(p))
  /\ WF_vars(AppReceives) /\ WF_vars(AppNext)

Spec == Init /\ [][Next]_vars /\ Fairness

-----------------------------------------------------------------------------
(* Properties *)

\* Words by the person's hand are replaced by the person, or by a command that
\* looked before they were there (newCapture, or a run at a page or a place) or
\* was between emptying the file and filling it.
\* (capture.mjs: "never overwritten"; run-day.mjs: "Never overwrite a
\* conversation Tony has edited".)
Hand(f) == Handmade(f) /\ Whole(disk[f]) /\ disk[f].hand
LookedBefore(f) ==
  \E p \in Callers :
    /\ proc'[p] # proc[p]
    /\ \/ proc[p].at = "fill"
       \/ proc[p].cmd \in {"run", "capture"} /\ proc[p].seen # disk[f]
HandsKept == \A f \in Files : Hand(f) /\ disk'[f] # disk[f] => edits' # edits \/ LookedBefore(f)
HumanWordsSurvive == [][HandsKept]_vars

\* A full conversation stands on a capture by a human, with the recap that
\* capture is pinned to, on enough distinct public pages, and says nothing that
\* does not cite them (run-day.mjs, the gates; schema.mjs, the ceilings).
FullTalksPassTheGates ==
  LET talk == disk[TalkJson] IN
  Whole(talk) /\ talk.full =>
    /\ talk.cap.author = "human" /\ talk.recall = talk.cap.pin
    /\ Cardinality(talk.have) >= MinSources
    /\ \A i \in DOMAIN talk.claims : talk.claims[i].cites # {} /\ talk.claims[i].cites \subseteq talk.have
    /\ \A k \in {"development", "place"} : Cardinality(OfKind(talk.claims, k)) <= Ceiling

\* A run on record as failed or partial has left nothing to read.
By(f, n) == Handmade(f) /\ f # CaptureMd /\ Whole(disk[f]) /\ disk[f].by = n
RefusedRunsWriteNothing ==
  \A n \in 1 .. MaxCalls : disk[RunJson(n)] \in {"failed", "partial"} => ~\E f \in Files : By(f, n)

\* The two together: nothing is written for a day without its gates, and a run
\* that was refused leaves only its record.
NothingWithoutTheGates == FullTalksPassTheGates /\ RefusedRunsWriteNothing

\* The app does not stay busy: what it started ends or is stopped, and every
\* end, a cancellation too, sets it free.
AppIsNeverStuck == store.busy ~> ~store.busy
=============================================================================
