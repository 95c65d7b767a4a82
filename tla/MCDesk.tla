------------------------------- MODULE MCDesk -------------------------------
(***************************************************************************)
(* Days at the Desk.  A behaviour is of the one day that Init picked: what *)
(* there is in the morning, what is asked for, what a model answers.  All  *)
(* its steps are steps of DailyDesk.                                       *)
(***************************************************************************)
EXTENDS DailyDesk

CONSTANTS u1, u2
VARIABLE day

-----------------------------------------------------------------------------
C(cmd, mode) == [cmd |-> cmd, mode |-> mode]
Fresh(u) == [url |-> u, life |-> "window"]
Old(u) == [url |-> u, life |-> "expired"]
Claim(kind, slug, cites) == [kind |-> kind, slug |-> slug, cites |-> cites]
Developments(cites) == <<Claim("development", 0, cites)>>
ByAuthor(author) == [author |-> author, pin |-> 0, by |-> 0, hand |-> TRUE]

Days == [
  \* A recap is prepared, calibrated and run while the terminal prepares another.
  morning |-> [
    app |-> {C("prepare", ""), C("read", ""), C("calibrate", ""), C("run", "short")},
    terminal |-> {C("prepare", ""), C("capture", "")},
    outputs |-> {Developments({u1, u2})},
    sources |-> {<<Fresh(u1), Fresh(u2)>>}, captures |-> {Nil, ByAuthor("agent")},
    calls |-> 4, edits |-> 1, deaths |-> 0],
  \* Runs from the app and the terminal, and the person in their pages.
  runs |-> [
    app |-> {C("run", "short"), C("run", "no_new_input")}, terminal |-> {C("run", "short")},
    outputs |-> {<<>>, <<Claim("place", 1, {u1})>>,
      Developments({u1, u2}) \o Developments({u2}) \o <<Claim("place", 1, {Unknown})>>},
    sources |-> {<<Fresh(u1), Fresh(u2)>>}, captures |-> {ByAuthor("human")},
    calls |-> 2, edits |-> 1, deaths |-> 1],
  \* Research, collecting and pruning while a run reads the sources.
  outside |-> [
    app |-> {C("research", "short"), C("collect", "known")}, terminal |-> {C("collect", "known"), C("prune", "")},
    outputs |-> {Developments({u1})},
    sources |-> {<<Fresh(u1)>>, <<Old(u1), Fresh(u2)>>}, captures |-> {ByAuthor("human")},
    calls |-> 3, edits |-> 0, deaths |-> 0],
  \* What the app has shown is exported while the terminal runs.
  site |-> [
    app |-> {C("run", "short"), C("export", "")}, terminal |-> {C("run", "no_new_input")},
    outputs |-> {Developments({u1})},
    sources |-> {<<Fresh(u1), Fresh(u2)>>}, captures |-> {ByAuthor("human")},
    calls |-> 4, edits |-> 0, deaths |-> 0]]

\* DailyDesk's constants are what any of the days may give.
EveryDay(field) == UNION {Days[d][field] : d \in DOMAIN Days}
DaysOutputs == EveryDay("outputs")
DaysSources == EveryDay("sources")
DaysCaptures == EveryDay("captures")
DaysCommands == [c \in Callers |-> EveryDay(c)]

ASSUME DaysAssumption == DailyAssumption

-----------------------------------------------------------------------------
DayInit ==
  /\ day \in DOMAIN Days /\ Init
  /\ disk[CaptureMd] \in Days[day].captures
  /\ \E known \in Days[day].sources : \A i \in 1 .. MaxRecords :
       disk[SourceJson(i)] = IF i \in DOMAIN known THEN known[i] ELSE Nil

\* What is asked for on this day, and what a model answers a run.
Asked(p) ==
  LET started == [cmd |-> proc'[p].cmd, mode |-> proc'[p].mode] IN
  calls' # calls /\ proc'[p] # proc[p] /\ store'.next = store.next => started \in Days[day][p]
Answers(p) ==
  Is(p, "run", "asked") /\ proc'[p].at = "page" =>
    \E out \in Days[day].outputs : proc'[p].claims = Kept(out, proc[p].have)

DayNext ==
  /\ Next /\ UNCHANGED day
  /\ calls' <= Days[day].calls /\ edits' <= Days[day].edits /\ deaths' <= Days[day].deaths
  /\ \A p \in Callers : Asked(p) /\ Answers(p)

FairSpec ==
  /\ DayInit /\ [][DayNext]_<<day, vars>>
  /\ \A p \in Callers : WF_vars(Works(p))
  /\ WF_vars(AppReceives)
=============================================================================
