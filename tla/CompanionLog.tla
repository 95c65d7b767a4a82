---------------------------- MODULE CompanionLog ----------------------------
(***************************************************************************)
(* Checkpoints of the desk companion: .quiet-desk/updates/00000001.json,   *)
(* 00000002.json and so on.                                                *)
(*                                                                         *)
(* Agents read the latest revision and later save a checkpoint based on    *)
(* it, each through a process of its own.  The revision of a checkpoint is *)
(* the hash of its body, and a checkpoint claims the slot after those its  *)
(* process has listed by an exclusive hard link.  A process may end        *)
(* between any two of its file-system calls; its agent then repeats the    *)
(* call, or reads again.                                                   *)
(***************************************************************************)
EXTENDS Naturals, Sequences

CONSTANTS
  Agent,
  Input,        \* what agents save: text, and perhaps a shelf and a decision
  ItemId,       \* ids of work items
  Origin,       \* revision "0", before the first checkpoint
  MaxRecords,   \* bound on the checkpoints saved
  MaxDeaths     \* bound on the processes that end early

\* An optional field is a set with its value, or empty where it is omitted;
\* a decision is the set of the work item it names, {} for null.
InputType == [text : STRING, items : SUBSET (SUBSET ItemId), decision : SUBSET (SUBSET ItemId)]

AtMostOne(S) == \A x, y \in S : x = y

\* What an instance must give; the module that instantiates assumes it.
CompanionAssumption ==
  /\ Input \subseteq InputType /\ Origin \notin InputType /\ MaxRecords \in Nat /\ MaxDeaths \in Nat
  /\ \A i \in Input : AtMostOne(i.items) /\ AtMostOne(i.decision) /\ \A d \in i.decision : AtMostOne(d)

VARIABLES
  records,  \* the update files in order of slot
  agent,    \* per agent: what it read and means to save, and its process
  temps,    \* agents that have a temporary file in place
  deaths,
  bases,    \* history, per record: how many records its agent had read
  told      \* history: revisions that an agent was told are saved

vars == <<records, agent, temps, deaths, bases, told>>

\* A record is its body and the revision before; its revision is a hash of
\* the body, which the body itself stands for.
Revision(n) == IF n = 0 THEN Origin ELSE records[n].body

\* The fields of an idle agent do not matter; Nothing clears them.
Nothing == [step |-> "apart", expected |-> Origin, base |-> 0, input |-> Origin,
            body |-> Origin, listed |-> 0]

Init ==
  /\ records = <<>> /\ temps = {} /\ deaths = 0 /\ bases = <<>> /\ told = {}
  /\ agent = [a \in Agent |-> Nothing]

-----------------------------------------------------------------------------
\* Omitted fields keep the last explicit value of the first n records.
Standing(n, field) ==
  LET given == {i \in 1..n : records[i].body[field] # {}}
  IN IF given = {} THEN {}
     ELSE CHOOSE v \in records[CHOOSE i \in given : \A j \in given : j <= i].body[field] : TRUE

WorkItems(n) == Standing(n, "items")
Decision(n) == Standing(n, "decision")

\* A given shelf without the standing decision's item clears the decision.
Body(i, n) ==
  IF i.decision = {} /\ \E S \in i.items : ~\E d \in Decision(n) : d \in S
    THEN [i EXCEPT !.decision = {{}}] ELSE i

\* A decision names an item of the shelf given with it or else standing.
Grounded(i, n) ==
  \A d \in i.decision : d \subseteq IF i.items = {} THEN WorkItems(n) ELSE UNION i.items

-----------------------------------------------------------------------------
\* companion.mjs read
Read(a) ==
  /\ agent[a].step \in {"apart", "unsure"}
  /\ agent' = [agent EXCEPT ![a] = [Nothing EXCEPT !.step = "ready",
                 !.expected = Revision(Len(records)), !.base = Len(records)]]
  /\ UNCHANGED <<records, temps, deaths, bases, told>>

Call(a, i) ==
  /\ agent[a].step = "ready"
  /\ agent' = [agent EXCEPT ![a].step = "load", ![a].input = i]
  /\ UNCHANGED <<records, temps, deaths, bases, told>>

\* The same call again, after an uncertain result.
CallAgain(a) ==
  /\ agent[a].step = "unsure"
  /\ agent' = [agent EXCEPT ![a].step = "load"]
  /\ UNCHANGED <<records, temps, deaths, bases, told>>

Refused(a) == agent' = [agent EXCEPT ![a] = Nothing] /\ UNCHANGED told

Saved(a, revision) ==
  /\ agent' = [agent EXCEPT ![a] = Nothing]
  /\ told' = told \cup {revision}

\* "Safe retry after uncertain write result."
AlreadySaved(n, body) == Revision(n) = body

\* mutant: any revision of the log may be expected
ExpectedAny(a, n) == \E m \in 0..n : agent[a].expected = Revision(m)

Expected(a, n) == agent[a].expected = Revision(n)

\* checkpointCompanion up to the compare: the files listed never change.
Load(a) ==
  LET n == Len(records)
      body == Body(agent[a].input, n)
  IN
  /\ agent[a].step = "load"
  /\ \/ ~Grounded(agent[a].input, n) /\ Refused(a)
     \/ Grounded(agent[a].input, n) /\ AlreadySaved(n, body) /\ Saved(a, body)
     \/ /\ Grounded(agent[a].input, n) /\ ~AlreadySaved(n, body)
        /\ IF Expected(a, n)
             THEN /\ agent' = [agent EXCEPT ![a].step = "stage", ![a].body = body, ![a].listed = n]
                  /\ UNCHANGED told
             ELSE Refused(a)
  /\ UNCHANGED <<records, temps, deaths, bases>>

Stage(a) ==
  /\ agent[a].step = "stage"
  /\ Len(records) < MaxRecords
  /\ temps' = temps \cup {a}
  /\ agent' = [agent EXCEPT ![a].step = "link"]
  /\ UNCHANGED <<records, deaths, bases, told>>

\* link: the slot after those listed, unless it is taken.
LinkSlot(a) ==
  LET c == agent[a] IN
  IF Len(records) = c.listed
    THEN /\ records' = Append(records, [body |-> c.body, previous |-> c.expected])
         /\ bases' = Append(bases, c.base)
         /\ agent' = [agent EXCEPT ![a].step = "unlink"]
         /\ UNCHANGED <<temps, told>>
    ELSE /\ temps' = temps \ {a} /\ Refused(a) /\ UNCHANGED <<records, bases>>

Link(a) == agent[a].step = "link" /\ LinkSlot(a) /\ UNCHANGED deaths

Unlink(a) ==
  /\ agent[a].step = "unlink"
  /\ temps' = temps \ {a}
  /\ Saved(a, agent[a].body)
  /\ UNCHANGED <<records, deaths, bases>>

\* The process ends, or a file-system call fails: no record is reported.
Fail(a) ==
  /\ agent[a].step \in {"load", "stage", "link", "unlink"}
  /\ deaths < MaxDeaths /\ deaths' = deaths + 1
  /\ agent' = [agent EXCEPT ![a].step = "unsure", ![a].body = Origin, ![a].listed = 0]
  /\ UNCHANGED <<records, temps, bases, told>>

Next == \E a \in Agent :
  \/ Read(a) \/ (\E i \in Input : Call(a, i)) \/ CallAgain(a)
  \/ Load(a) \/ Stage(a) \/ Link(a) \/ Unlink(a) \/ Fail(a)

Spec == Init /\ [][Next]_vars

-----------------------------------------------------------------------------
(* Properties.                                                             *)

\* Every checkpoint names the one before it, and was written by an agent
\* that had read a log ending in that very revision: two savers who read
\* the same revision never both get in ("concurrent context updates cannot
\* silently overwrite each other").  A call repeated after an uncertain result
\* does not save twice ("Safe retries retain their revision").
CommitsFollowReads ==
  \A n \in DOMAIN records :
    /\ records[n].previous = Revision(n - 1)
    /\ Revision(bases[n]) = Revision(n - 1)
    /\ records[n].body # Revision(n - 1)

\* The standing decision names an item of the standing shelf, although each
\* is kept by records that do not mention it.
DecisionOnShelf == Decision(Len(records)) \subseteq WorkItems(Len(records))

\* What an agent was told is saved stays in the log.
SavedIsKept == \A b \in told : \E n \in DOMAIN records : records[n].body = b
=============================================================================
