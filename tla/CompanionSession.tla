-------------------------- MODULE CompanionSession --------------------------
(***************************************************************************)
(* The conversation a Desk goes on with (services/runner/src/companion.mjs *)
(* setupCompanion, syncCompanion, companionStatus and openCompanion).      *)
(*                                                                         *)
(* open leaves a marker in .quiet-desk/session.json and hands the person a *)
(* prompt that carries it; a conversation that starts with the prompt is   *)
(* found by its marker, bound to the Desk, and its messages are kept as    *)
(* evidence.  Several processes do so at once; each may end anywhere, or   *)
(* lose Codex.  A workspace may be a copy of another, session and all.     *)
(*                                                                         *)
(* Left out: CODEX.md, which each open writes alike, sync.json, and the    *)
(* windows of 30 conversations and 20 turns.                               *)
(***************************************************************************)
EXTENDS Naturals, SequencesExt

CONSTANTS
  Nil, Torn,
  Processes,
  MaxRuns, MaxThreads, MaxTurns, MaxEnds   \* bounds

\* What an instance must give; the module that instantiates assumes it.
Sessions == [marker : Nat, thread : Nat \cup {Nil}]
SessionAssumption == Nil \notin Sessions /\ Torn \notin Sessions /\ Nil # Torn

VARIABLES
  session,   \* session.json: [marker, thread], Torn or Nil
  messages,  \* messages/*.json written since: <<thread, turn>>
  threads,   \* Codex's, least recently updated first: [id, first, here, turns]
  procs,     \* [Processes -> the command in progress]
  handed,    \* the markers of the prompts handed out
  runs, ends

vars == <<session, messages, threads, procs, handed, runs, ends>>
disk == <<session, messages>>

\* A marker is the number of the command that made it; 0 came with a copy.
Copied == 0
Whole(file) == file \notin {Nil, Torn}
NoCommand == [at |-> "idle", op |-> Nil, mine |-> Nil, own |-> Nil, turn |-> 0]
Goes(p, at) == procs' = [procs EXCEPT ![p].at = at]
Ends(p) == procs' = [procs EXCEPT ![p] = NoCommand]
ThreadOf(id) == threads[CHOOSE n \in DOMAIN threads : threads[n].id = id]

Elsewhere == [id |-> 0, first |-> Copied, here |-> FALSE, turns |-> 1]
Init ==
  /\ threads = <<Elsewhere>> /\ messages = {} /\ handed = {} /\ runs = 0 /\ ends = 0
  /\ session \in {Nil} \cup {[marker |-> Copied, thread |-> t] : t \in {Nil, Elsewhere.id}}
  /\ procs = [p \in Processes |-> NoCommand]

\* companion.mjs open, which sets up first, or status or read.
Start(p, op) ==
  /\ procs[p].at = "idle" /\ runs < MaxRuns /\ runs' = runs + 1
  /\ procs' = [procs EXCEPT ![p] = 
                [NoCommand EXCEPT !.at = IF op = "open" THEN "look" ELSE "sync", !.op = op, !.own = runs + 1]]
  /\ UNCHANGED <<disk, threads, handed, ends>>

-----------------------------------------------------------------------------
(* setupCompanion *)

\* A session that is there is used; one that is torn is refused.
Look(p) ==
  /\ procs[p].at \in {"look", "again"}
  /\ CASE session = Torn -> Ends(p)
       [] session = Nil -> Goes(p, "create")
       [] OTHER -> procs' = [procs EXCEPT ![p].at = "sync", ![p].own = session.marker]
  /\ UNCHANGED <<disk, threads, handed, runs, ends>>

\* Flag "wx".
Opens(file) == file = Nil

\* "Concurrent setup must reuse the winner's binding."
Create(p) ==
  /\ procs[p].at = "create"
  /\ IF Opens(session)
       THEN session' = Torn /\ Goes(p, "fill")
       ELSE Goes(p, "again") /\ UNCHANGED session
  /\ UNCHANGED <<messages, threads, handed, runs, ends>>

Fill(p) ==
  /\ procs[p].at = "fill" /\ Goes(p, "sync")
  /\ session' = [marker |-> procs[p].own, thread |-> Nil]
  /\ UNCHANGED <<messages, threads, handed, runs, ends>>

-----------------------------------------------------------------------------
(* syncCompanion *)

\* The session as read here is what this process goes by from now on.
SyncRead(p) ==
  /\ procs[p].at = "sync"
  /\ IF Whole(session)
       THEN procs' = [procs EXCEPT ![p].mine = session, ![p].at = IF session.thread = Nil THEN "find" ELSE "turns"]
       ELSE Ends(p)
  /\ UNCHANGED <<disk, threads, handed, runs, ends>>

\* thread/list gives the conversations of this directory, the latest first,
\* and the first turn of each tells whether it began with the prompt.
Found(marker) == {n \in DOMAIN threads : threads[n].here /\ threads[n].first = marker}

Find(p) ==
  /\ procs[p].at = "find"
  /\ LET found == Found(procs[p].mine.marker) IN
       IF found = {} THEN Goes(p, "answer")
       ELSE procs' = [procs EXCEPT ![p].at = "bind", ![p].mine.thread =
                        threads[CHOOSE n \in found : \A k \in found : k <= n].id]
  /\ UNCHANGED <<disk, threads, handed, runs, ends>>

\* A rename over session.json, whatever was bound since it was read.
Bind(p) ==
  /\ procs[p].at = "bind" /\ Goes(p, "turns")
  /\ session' = procs[p].mine
  /\ UNCHANGED <<messages, threads, handed, runs, ends>>

Belongs(thread) == thread.here

ReadTurns(p) ==
  /\ procs[p].at = "turns"
  /\ LET thread == ThreadOf(procs[p].mine.thread) IN
       IF Belongs(thread)
         THEN procs' = [procs EXCEPT ![p].at = "keep", ![p].turn = thread.turns]
         ELSE Ends(p)
  /\ UNCHANGED <<disk, threads, handed, runs, ends>>

\* The latest message first, each written whole.
Keep(p) ==
  /\ procs[p].at = "keep"
  /\ messages' = messages \cup {<<procs[p].mine.thread, procs[p].turn>>}
  /\ procs' = [procs EXCEPT ![p].turn = @ - 1, ![p].at = IF procs[p].turn = 1 THEN "answer" ELSE "keep"]
  /\ UNCHANGED <<session, threads, handed, runs, ends>>

\* openCompanion leads to the bound conversation, or hands out a prompt with the
\* marker that setup gave it.
Prompts(p) ==
  IF procs[p].op = "open" /\ Whole(session) /\ session.thread = Nil THEN {procs[p].own} ELSE {}

\* companionStatus reads the session again.
Answer(p) ==
  /\ procs[p].at = "answer" /\ Ends(p)
  /\ handed' = handed \cup Prompts(p)
  /\ UNCHANGED <<disk, threads, runs, ends>>

\* The process dies, or Codex does not answer and the command fails.
Fail(p) ==
  /\ procs[p].at # "idle" /\ ends < MaxEnds /\ ends' = ends + 1 /\ Ends(p)
  /\ UNCHANGED <<disk, threads, handed, runs>>

-----------------------------------------------------------------------------
(* The person, in Codex *)

\* A conversation in this directory, with a prompt handed out or without one.
Converse(first) ==
  /\ Len(threads) <= MaxThreads
  /\ threads' = Append(threads, [id |-> Len(threads), first |-> first, here |-> TRUE, turns |-> 1])
  /\ UNCHANGED <<disk, procs, handed, runs, ends>>

GoOn(n) ==
  /\ threads[n].here /\ threads[n].turns < MaxTurns
  /\ threads' = Append(RemoveAt(threads, n), [threads[n] EXCEPT !.turns = @ + 1])
  /\ UNCHANGED <<disk, procs, handed, runs, ends>>

Next ==
  \/ \E p \in Processes :
       \/ \E op \in {"open", "status"} : Start(p, op)
       \/ Look(p) \/ Create(p) \/ Fill(p)
       \/ SyncRead(p) \/ Find(p) \/ Bind(p) \/ ReadTurns(p) \/ Keep(p) \/ Answer(p) \/ Fail(p)
  \/ \E first \in handed \cup {Nil} : Converse(first)
  \/ \E n \in DOMAIN threads : GoOn(n)

Spec == Init /\ [][Next]_vars

-----------------------------------------------------------------------------
(* Properties *)

\* Whichever of several opens made the session, a prompt that was handed out
\* carries the marker the Desk looks for; and the conversation it is bound to
\* began with such a prompt.
HandoffsLeadBack ==
  /\ \A m \in handed : Whole(session) /\ session.marker = m
  /\ Whole(session) /\ session.thread # Nil => ThreadOf(session.thread).first = session.marker

\* What is kept as evidence was said in a conversation of this Desk, in this
\* directory: not in the one a copied session is bound to.
MessagesAreOurs ==
  \A m \in messages :
    /\ ThreadOf(m[1]).here /\ m[2] <= ThreadOf(m[1]).turns
    /\ Whole(session) /\ ThreadOf(m[1]).first = session.marker
=============================================================================
