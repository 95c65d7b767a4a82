-------------------------- MODULE DailyDesk_proofs --------------------------
(***************************************************************************)
(* NothingWithoutTheGates, RefusedRunsWriteNothing and HandsKept           *)
(* of DailyDesk, for any commands, providers' answers, edits and deaths.   *)
(*                                                                         *)
(* IInv says what each command has established between two of its steps    *)
(* and what it is about to write (ProcHolds), and that a run's number is   *)
(* its own, so that nobody else writes under it (Numbered).                *)
(***************************************************************************)
EXTENDS DailyDesk, FiniteSetTheorems, SequenceTheorems, TLAPS

Fields == {"cmd", "mode", "arg", "next", "n", "at", "cap", "recall", "have", "claims", "seen",
           "left", "todo", "then", "status", "wrote", "end"}
Refused == {"failed", "partial"}
Asking == {"start", "recall", "sources", "asked", "page", "talk"}
Places == Asking \cup {"write", "fill", "exit", "collect", "prune"}

IsSequence(s) == \E S : s \in Seq(S)

ByIn(d, f, n) == Handmade(f) /\ f # CaptureMd /\ Whole(d[f]) /\ d[f].by = n
NothingBy(d, n) == \A f \in Files : ~ByIn(d, f, n)

\* Nothing has been written under a number.
Unused(d, n) == d[RunJson(n)] = Nil /\ d[AsideMd(n)] = Nil /\ NothingBy(d, n)

ClaimsHold(claims, have) ==
  /\ IsFiniteSet(DOMAIN claims)
  /\ \A i \in DOMAIN claims : claims[i].cites # {} /\ claims[i].cites \subseteq have
  /\ \A k \in {"development", "place"} : Cardinality(OfKind(claims, k)) <= Ceiling

\* A conversation on record, or about to be: its gates, and the text it is the
\* hash of was the run's own.
TalkHolds(talk) ==
  /\ talk.full =>
       /\ talk.cap.author = "human" /\ talk.recall = talk.cap.pin
       /\ Cardinality(talk.have) >= MinSources /\ ClaimsHold(talk.claims, talk.have)
  /\ talk.hash # Nil => talk.hash.hand = FALSE

\* What a run has established on its way to its text.
RunHolds(d, r) ==
  /\ r.at \notin {"collect", "prune"} /\ r.then = "exit"
  /\ r.at \in Asking => Unused(d, r.n)
  /\ r.at \in Asking \ {"talk"} => r.seen = Nil
  /\ r.at \in {"start", "recall"} => r.recall = 0
  /\ r.at \in Asking \ {"start"} => r.cap.author = "human"
  /\ r.at \in {"sources", "asked", "page", "talk"} => r.recall = r.cap.pin
  /\ r.at \in {"asked", "page", "talk"} => Cardinality(r.have) >= MinSources
  /\ r.at \in {"page", "talk"} => ClaimsHold(r.claims, r.have)

\* A write that is still to be done.
WriteHolds(r, w) ==
  /\ w.file = TalkJson => TalkHolds(w.val)
  /\ \A m \in 1 .. MaxCalls :
       /\ w.file = RunJson(m) => r.cmd = "run" /\ m = r.n /\ w.val = r.status
       /\ w.file = AsideMd(m) => m = r.n
  /\ Handmade(w.file) => w.how = "new" \/ r.cmd \in {"run", "capture"}
  /\ Handmade(w.file) /\ w.file # CaptureMd =>
       r.cmd = "run" /\ r.status = "completed" /\ w.val.by = r.n /\ "by" \in DOMAIN w.val

\* What is next to be written over what is there: if it is a person's file, it
\* was seen not to be there, or to be the runner's own, or has a name of its own.
HeadHolds(d, r) ==
  LET w == r.todo[1] IN
  w.how \notin {"new", "absent"} /\ Handmade(w.file) =>
    r.seen = Nil \/ (w.file = AsideMd(r.n) /\ d[w.file] = Nil) \/ r.seen.hand = FALSE

WritesHold(d, r) ==
  /\ IsSequence(r.todo) /\ r.todo # <<>>
  /\ \A i \in 1 .. Len(r.todo) : WriteHolds(r, r.todo[i])
  /\ \A i \in 2 .. Len(r.todo) : r.todo[i].how \notin {"new", "absent"} => ~Handmade(r.todo[i].file)
  /\ r.at = "write" => HeadHolds(d, r)
  /\ r.cmd = "run" =>
       /\ r.status = "completed" => d[RunJson(r.n)] \notin Refused
       /\ r.status # "completed" => NothingBy(d, r.n)

ProcHolds(d, r) ==
  r # NoProc =>
    /\ DOMAIN r = Fields /\ r.n \in 1 .. MaxCalls /\ r.at \in Places
    /\ r.then \in {"exit", "collect", "asked"}
    /\ r.cmd = "run" => RunHolds(d, r)
    /\ r.at = "prune" => \E S : r.left \in Seq(S) /\ \A f \in S : f[1] = "source"
    /\ r.at \in {"write", "fill"} => WritesHold(d, r)

Numbered ==
  /\ calls \in 0 .. MaxCalls
  /\ \A p \in Callers : proc[p] # NoProc => proc[p].n <= calls
  /\ \A p, q \in Callers : p # q /\ proc[p] # NoProc /\ proc[q] # NoProc => proc[p].n # proc[q].n
  /\ \A n \in calls + 1 .. MaxCalls : Unused(disk, n)

DiskHolds ==
  /\ Whole(disk[TalkJson]) => TalkHolds(disk[TalkJson])
  /\ \A n \in 1 .. MaxCalls : disk[RunJson(n)] \in Refused => NothingBy(disk, n)
  /\ \A f \in Files : Handmade(f) /\ f # CaptureMd /\ Whole(disk[f]) => "by" \in DOMAIN disk[f]

IInv ==
  /\ disk = [f \in Files |-> disk[f]] /\ proc = [p \in Callers |-> proc[p]] /\ edits \in Nat
  /\ \A p \in Callers : ProcHolds(disk, proc[p])
  /\ Numbered /\ DiskHolds

-----------------------------------------------------------------------------
(* Names of files, and changes of a process *)

LEMMA Names ==
  /\ \A m, n : (RunJson(m) = RunJson(n) => m = n) /\ (AsideMd(m) = AsideMd(n) => m = n)
  /\ \A n : ~Handmade(RunJson(n)) /\ Handmade(AsideMd(n)) /\ AsideMd(n) # CaptureMd /\ RunJson(n) # TalkJson
  /\ \A n : AsideMd(n) \notin {PageMd, TalkJson, CaptureMd}
  /\ \A f : f[1] = "source" => ~Handmade(f) /\ f # TalkJson /\ \A n : f # RunJson(n) /\ f # AsideMd(n)
  /\ ~Handmade(TalkJson) /\ Handmade(PageMd) /\ PageMd # CaptureMd /\ Handmade(CaptureMd)
  /\ \A n : CaptureMd # RunJson(n) /\ PageMd # RunJson(n) /\ TalkJson # RunJson(n) /\ TalkJson # AsideMd(n)
  /\ TalkJson \in Files /\ \A n \in 1 .. MaxCalls : RunJson(n) \in Files /\ AsideMd(n) \in Files
  BY DEF RunJson, AsideMd, Handmade, TalkJson, PageMd, CaptureMd, Files

LEMMA ChangedIs ==
  ASSUME NEW r, NEW change, DOMAIN r = Fields
  PROVE  /\ DOMAIN Changed(r, change) = Fields
         /\ \A x \in Fields : Changed(r, change)[x] = IF x \in DOMAIN change THEN change[x] ELSE r[x]
  BY DEF Changed

LEMMA NotNoProc == ASSUME NEW r, DOMAIN r = Fields PROVE r # NoProc
<1>1. DOMAIN NoProc = {"cmd", "at"}
  BY DEF NoProc
<1> QED
  BY <1>1 DEF Fields

\* A step of p that leaves the files and the number of its process alone.
LEMMA ByProc ==
  ASSUME IInv, NEW p \in Callers, proc[p] # NoProc, NEW r,
         proc' = [proc EXCEPT ![p] = r], r.n = proc[p].n, ProcHolds(disk, r),
         disk' = disk, calls' = calls, edits' = edits
  PROVE  IInv'
<1>1. proc'[p] = r /\ \A q \in Callers \ {p} : proc'[q] = proc[q]
  BY DEF IInv
<1>2. proc' = [q \in Callers |-> proc'[q]]
  BY DEF IInv
<1>3. \A q \in Callers : ProcHolds(disk', proc'[q])
  BY <1>1 DEF IInv
<1>4. Numbered'
  BY <1>1 DEF IInv, Numbered
<1>5. DiskHolds'
  BY DEF IInv, DiskHolds, NothingBy
<1> QED
  BY <1>2, <1>3, <1>4, <1>5 DEF IInv

\* The same, of a step given by what it changes.
LEMMA ByStep ==
  ASSUME IInv, NEW p \in Callers, proc[p] # NoProc, NEW change, Step(p, change), "n" \notin DOMAIN change,
         ProcHolds(disk, Changed(proc[p], change))
  PROVE  IInv'
<1>1. DOMAIN proc[p] = Fields
  BY DEF IInv, ProcHolds
<1>2. Changed(proc[p], change)["n"] = proc[p]["n"]
  BY <1>1, ChangedIs DEF Fields
<1>3. /\ proc' = [proc EXCEPT ![p] = Changed(proc[p], change)]
      /\ disk' = disk /\ calls' = calls /\ edits' = edits
  BY DEF Step
<1> QED
  BY <1>2, <1>3, ByProc

\* Facts about a process in progress.
LEMMA ProcIs ==
  ASSUME IInv, NEW p \in Callers, proc[p] # NoProc
  PROVE  /\ DOMAIN proc[p] = Fields /\ proc[p].n \in 1 .. MaxCalls /\ proc[p].at \in Places
         /\ ProcHolds(disk, proc[p])
  BY DEF IInv, ProcHolds

LEMMA Started0 == ASSUME IInv, NEW p \in Callers, proc[p].at # "done" PROVE proc[p] # NoProc
  BY DEF NoProc

LEMMA SequenceIs ==
  ASSUME NEW s, IsSequence(s)
  PROVE  /\ Len(s) \in Nat /\ DOMAIN s = 1 .. Len(s)
         /\ s # <<>> => /\ Len(s) >= 1 /\ Head(s) = s[1] /\ IsSequence(Tail(s)) /\ Len(Tail(s)) = Len(s) - 1
                        /\ \A i \in 1 .. Len(s) - 1 : Tail(s)[i] = s[i + 1]
<1>1. PICK S : s \in Seq(S)
  BY DEF IsSequence
<1>2. Len(s) \in Nat /\ DOMAIN s = 1 .. Len(s)
  BY <1>1
<1>3. ASSUME s # <<>>
      PROVE  /\ Len(s) >= 1 /\ Head(s) = s[1] /\ IsSequence(Tail(s)) /\ Len(Tail(s)) = Len(s) - 1
             /\ \A i \in 1 .. Len(s) - 1 : Tail(s)[i] = s[i + 1]
  <2>1. Tail(s) \in Seq(S) /\ Len(Tail(s)) = Len(s) - 1 /\ \A i \in 1 .. Len(s) - 1 : Tail(s)[i] = s[i + 1]
    BY <1>1, <1>3
  <2>2. Len(s) >= 1 /\ Head(s) = s[1]
    BY <1>1, <1>3
  <2> QED
    BY <2>1, <2>2 DEF IsSequence
<1> QED
  BY <1>2, <1>3

LEMMA OneWrite == ASSUME NEW w PROVE IsSequence(<<w>>) /\ <<w>> # <<>> /\ Len(<<w>>) = 1 /\ <<w>>[1] = w
<1>1. <<w>> \in Seq({w})
  OBVIOUS
<1> QED
  BY <1>1 DEF IsSequence

\* A command that ends.
LEMMA Exits ==
  ASSUME IInv, NEW p \in Callers, proc[p] # NoProc, NEW r, DOMAIN r = Fields, r.at = "exit",
         r.n = proc[p].n, r.cmd = proc[p].cmd, r.then = proc[p].then
  PROVE  ProcHolds(disk, r)
  BY ProcIs DEF ProcHolds, RunHolds, Places, Asking

LEMMA InitHolds == ASSUME DailyAssumption, Init PROVE IInv
<1>1. proc = [p \in Callers |-> NoProc] /\ calls = 0 /\ edits = 0
  BY DEF Init
<1>2. disk = [f \in Files |-> disk[f]] /\ \A f \in Files : f[1] # "source" /\ f # CaptureMd => disk[f] = Nil
  BY DEF Init
<1>3. disk[TalkJson] = Nil /\ \A n \in 1 .. MaxCalls : Unused(disk, n)
  <2>1. \A f \in Files : Handmade(f) => f[1] # "source"
    BY DEF Handmade
  <2>2. TalkJson[1] # "source" /\ \A n \in 1 .. MaxCalls : RunJson(n)[1] # "source" /\ AsideMd(n)[1] # "source"
    BY DEF TalkJson, RunJson, AsideMd
  <2>3. TalkJson # CaptureMd /\ \A n \in 1 .. MaxCalls : RunJson(n) # CaptureMd /\ AsideMd(n) # CaptureMd
    BY Names
  <2> QED
    BY <1>2, <2>1, <2>2, <2>3, Names DEF Unused, NothingBy, ByIn, Whole
<1>4. Numbered
  BY <1>1, <1>3 DEF Numbered, DailyAssumption
<1>5. DiskHolds
  <2>1. \A f \in Files : Handmade(f) => f[1] # "source"
    BY DEF Handmade
  <2> QED
    BY <1>2, <1>3, <2>1 DEF DiskHolds, Unused, Whole
<1> QED
  BY <1>1, <1>2, <1>4, <1>5 DEF IInv, ProcHolds

-----------------------------------------------------------------------------
(* Writing a file *)

\* What a write by another process leaves as it is, for the run of number m.
Spares(d, e, m) ==
  /\ e[RunJson(m)] = d[RunJson(m)]
  /\ d[AsideMd(m)] = Nil => e[AsideMd(m)] = Nil
  /\ NothingBy(d, m) => NothingBy(e, m)

LEMMA SparedHolds ==
  ASSUME NEW d, NEW e, NEW r, ProcHolds(d, r), r # NoProc => Spares(d, e, r.n)
  PROVE  ProcHolds(e, r)
<1> SUFFICES ASSUME r # NoProc PROVE ProcHolds(e, r)
  BY DEF ProcHolds
<1>1. r.cmd = "run" => RunHolds(e, r)
  BY DEF ProcHolds, RunHolds, Unused, Spares
<1>2. ASSUME r.at \in {"write", "fill"} PROVE WritesHold(e, r)
  <2>1. r.at = "write" => HeadHolds(e, r)
    BY <1>2 DEF ProcHolds, WritesHold, HeadHolds, Spares
  <2> QED
    BY <1>2, <2>1 DEF ProcHolds, WritesHold, Spares
<1> QED
  BY <1>1, <1>2 DEF ProcHolds

LEMMA WriteSpares ==
  ASSUME NEW r, NEW w, WriteHolds(r, w), NEW v \in {Torn, w.val}, NEW m \in 1 .. MaxCalls, m # r.n,
         NEW d, d = [f \in Files |-> d[f]], NEW e, e = [d EXCEPT ![w.file] = v]
  PROVE  Spares(d, e, m)
<1>1. \A f \in Files : e[f] = IF f = w.file THEN v ELSE d[f]
  OBVIOUS
<1>2. w.file # RunJson(m) /\ w.file # AsideMd(m)
  BY DEF WriteHolds
<1>3. e[RunJson(m)] = d[RunJson(m)] /\ e[AsideMd(m)] = d[AsideMd(m)]
  BY <1>1, <1>2, Names
<1>4. \A f \in Files : ByIn(e, f, m) => ByIn(d, f, m)
  BY <1>1 DEF ByIn, Whole, WriteHolds
<1> QED
  BY <1>3, <1>4 DEF Spares, NothingBy

\* A step of p that writes v into f.
LEMMA ByWrite ==
  ASSUME IInv, NEW p \in Callers, proc[p] # NoProc, NEW r, proc' = [proc EXCEPT ![p] = r], r.n = proc[p].n,
         calls' = calls, edits' = edits, NEW f, NEW v, disk' = [disk EXCEPT ![f] = v],
         ProcHolds(disk', r), \A m \in 1 .. MaxCalls : m # r.n => Spares(disk, disk', m),
         f = TalkJson /\ Whole(v) => TalkHolds(v),
         Handmade(f) /\ f # CaptureMd /\ Whole(v) => "by" \in DOMAIN v,
         disk'[RunJson(r.n)] \in Refused => NothingBy(disk', r.n)
  PROVE  IInv'
<1>1. proc'[p] = r /\ \A q \in Callers \ {p} : proc'[q] = proc[q]
  BY DEF IInv
<1>2. proc' = [q \in Callers |-> proc'[q]] /\ disk' = [g \in Files |-> disk'[g]]
  BY DEF IInv
<1>3. \A q \in Callers \ {p} : proc[q] # NoProc => proc[q].n \in 1 .. MaxCalls /\ proc[q].n # r.n
  BY ProcIs DEF IInv, Numbered
<1>4. \A q \in Callers : ProcHolds(disk', proc'[q])
  <2> TAKE q \in Callers
  <2>1. CASE q = p
    BY <2>1, <1>1
  <2>2. CASE q # p
    <3>1. ProcHolds(disk, proc[q])
      BY DEF IInv
    <3>2. proc[q] # NoProc => Spares(disk, disk', proc[q].n)
      BY <2>2, <1>3
    <3> QED
      BY <2>2, <1>1, <3>1, <3>2, SparedHolds
  <2> QED
    BY <2>1, <2>2
<1>5. Numbered'
  <2>1. r.n <= calls /\ r.n \in Nat
    BY ProcIs DEF IInv, Numbered
  <2>2. \A n \in calls + 1 .. MaxCalls : Unused(disk', n)
    <3> TAKE n \in calls + 1 .. MaxCalls
    <3>1. n \in 1 .. MaxCalls /\ n # r.n
      BY <2>1 DEF IInv, Numbered
    <3>2. Unused(disk, n)
      BY DEF IInv, Numbered
    <3> QED
      BY <3>1, <3>2 DEF Unused, Spares
  <2> QED
    BY <1>1, <2>2 DEF IInv, Numbered
<1>6. DiskHolds'
  <2>1. Whole(disk'[TalkJson]) => TalkHolds(disk'[TalkJson])
    BY Names DEF IInv, DiskHolds
  <2>2. \A n \in 1 .. MaxCalls : disk'[RunJson(n)] \in Refused => NothingBy(disk', n)
    BY DEF IInv, DiskHolds, Spares
  <2>3. \A g \in Files : Handmade(g) /\ g # CaptureMd /\ Whole(disk'[g]) => "by" \in DOMAIN disk'[g]
    <3>1. \A g \in Files : disk'[g] = IF g = f THEN v ELSE disk[g]
      BY DEF IInv
    <3> QED
      BY <3>1 DEF IInv, DiskHolds
  <2> QED
    BY <2>1, <2>2, <2>3 DEF DiskHolds
<1> QED
  BY <1>2, <1>4, <1>5, <1>6 DEF IInv

\* What the next step of a process depends on.
Writer(d, s) ==
  /\ DOMAIN s = Fields /\ s.n \in 1 .. MaxCalls /\ s.then \in {"exit", "collect", "asked"}
  /\ s.cmd = "run" => s.then = "exit"
  /\ IsSequence(s.todo) /\ s.todo # <<>>
  /\ \A i \in 1 .. Len(s.todo) : WriteHolds(s, s.todo[i])
  /\ \A i \in 2 .. Len(s.todo) : s.todo[i].how \notin {"new", "absent"} => ~Handmade(s.todo[i].file)
  /\ s.cmd = "run" =>
       /\ s.status = "completed" => d[RunJson(s.n)] \notin Refused
       /\ s.status # "completed" => NothingBy(d, s.n)

LEMMA IsWriter ==
  ASSUME IInv, NEW p \in Callers, proc[p].at \in {"write", "fill"}
  PROVE  /\ proc[p] # NoProc /\ Writer(disk, proc[p]) /\ WritesHold(disk, proc[p])
         /\ LET s == proc[p] IN
              /\ Len(s.todo) \in Nat /\ IsSequence(Tail(s.todo)) /\ Len(Tail(s.todo)) = Len(s.todo) - 1
              /\ Head(s.todo) = s.todo[1] /\ WriteHolds(s, Head(s.todo))
              /\ \A i \in 1 .. Len(s.todo) - 1 : Tail(s.todo)[i] = s.todo[i + 1]
<1> DEFINE s == proc[p]
<1>1. s # NoProc
  BY Started0
<1>2. WritesHold(disk, s) /\ (s.cmd = "run" => RunHolds(disk, s))
  BY <1>1, ProcIs DEF ProcHolds
<1>3. Writer(disk, s)
  BY <1>1, <1>2, ProcIs DEF ProcHolds, Writer, WritesHold, RunHolds
<1>4. /\ Len(s.todo) \in Nat /\ IsSequence(Tail(s.todo)) /\ Len(Tail(s.todo)) = Len(s.todo) - 1
      /\ Head(s.todo) = s.todo[1] /\ Len(s.todo) >= 1
      /\ \A i \in 1 .. Len(s.todo) - 1 : Tail(s.todo)[i] = s.todo[i + 1]
  BY <1>3, SequenceIs DEF Writer
<1>5. WriteHolds(s, s.todo[1])
  BY <1>3, <1>4 DEF Writer
<1> QED
  BY <1>1, <1>2, <1>3, <1>4, <1>5

\* What a write needs of its process is the command, its number and its status.
LEMMA SameWrites ==
  ASSUME NEW r, NEW s, r.cmd = s.cmd, r.n = s.n, r.status = s.status, NEW w, WriteHolds(s, w)
  PROVE  WriteHolds(r, w)
  BY DEF WriteHolds

\* On to the next write, or to what follows them.
LEMMA OnwardHolds ==
  ASSUME NEW d, NEW s, Writer(d, s), NEW r,
         r = Changed(s, [todo |-> Tail(s.todo), at |-> IF Tail(s.todo) = <<>> THEN s.then ELSE "write"])
  PROVE  ProcHolds(d, r)
<1> DEFINE rest == Tail(s.todo)
           c == [todo |-> rest, at |-> IF rest = <<>> THEN s.then ELSE "write"]
<1>1. /\ DOMAIN r = Fields /\ r.n = s.n /\ r.cmd = s.cmd /\ r.then = s.then /\ r.status = s.status
      /\ r.todo = rest /\ r.at = IF rest = <<>> THEN s.then ELSE "write"
  <2>1. DOMAIN c = {"todo", "at"} /\ c.todo = rest /\ c.at = IF rest = <<>> THEN s.then ELSE "write"
    OBVIOUS
  <2>2. r = Changed(s, c)
    OBVIOUS
  <2>3. DOMAIN s = Fields
    BY DEF Writer
  <2> HIDE DEF c, rest
  <2>4. DOMAIN Changed(s, c) = Fields /\ \A x \in Fields : Changed(s, c)[x] = IF x \in DOMAIN c THEN c[x] ELSE s[x]
    BY ONLY <2>3, ChangedIs
  <2>5. DOMAIN r = Fields /\ \A x \in Fields : r[x] = IF x \in {"todo", "at"} THEN c[x] ELSE s[x]
    BY ONLY <2>1, <2>2, <2>4
  <2> QED
    BY <2>1, <2>5 DEF Fields
<1>2. /\ IsSequence(rest) /\ Len(s.todo) \in Nat /\ Len(rest) = Len(s.todo) - 1
      /\ \A i \in 1 .. Len(rest) : rest[i] = s.todo[i + 1]
  BY SequenceIs DEF Writer
<1>3. \A i \in 1 .. Len(rest) : WriteHolds(s, rest[i]) /\ (rest[i].how \notin {"new", "absent"} => ~Handmade(rest[i].file))
  <2> TAKE i \in 1 .. Len(rest)
  <2>1. i + 1 \in 1 .. Len(s.todo) /\ i + 1 \in 2 .. Len(s.todo)
    BY <1>2
  <2> QED
    BY <1>2, <2>1 DEF Writer
<1>4. ASSUME r.cmd = "run" PROVE RunHolds(d, r)
  BY <1>1, <1>4 DEF RunHolds, Asking, Writer
<1>5. ASSUME r.at \in {"write", "fill"} PROVE WritesHold(d, r)
  <2> HIDE DEF rest
  <2>1. rest # <<>> /\ Len(rest) >= 1
    BY <1>1, <1>2, <1>5, SequenceIs DEF Writer
  <2>2. \A i \in 1 .. Len(rest) : WriteHolds(r, rest[i])
    <3> TAKE i \in 1 .. Len(rest)
    <3>1. WriteHolds(s, rest[i])
      BY <1>3
    <3> QED
      BY <1>1, <3>1, SameWrites
  <2>3. HeadHolds(d, r)
    <3>1. 1 \in 1 .. Len(rest)
      BY <1>2, <2>1
    <3>2. rest[1].how \notin {"new", "absent"} => ~Handmade(rest[1].file)
      BY <1>3, <3>1
    <3> QED
      BY <1>1, <3>2 DEF HeadHolds
  <2>4. \A i \in 2 .. Len(rest) : rest[i].how \notin {"new", "absent"} => ~Handmade(rest[i].file)
    BY <1>2, <1>3
  <2> QED
    BY <1>1, <1>2, <2>1, <2>2, <2>3, <2>4 DEF WritesHold, Writer
<1>6. r.at \in Places /\ r.at # "prune"
  BY <1>1 DEF Places, Asking, Writer
<1> QED
  BY <1>1, <1>4, <1>5, <1>6 DEF ProcHolds, Writer

\* Look, before it writes what is only written where nothing is.
LEMMA LookKeeps == ASSUME IInv, NEW p \in Callers, Look(p) PROVE IInv'
<1> DEFINE s == proc[p]
           w == Head(s.todo)
           rest == Tail(s.todo)
<1>1. s.at = "write" /\ s.todo # <<>> /\ w.how = "absent"
  BY DEF Look
<1>2. /\ s # NoProc /\ Writer(disk, s) /\ IsSequence(rest) /\ Len(s.todo) \in Nat /\ Len(rest) = Len(s.todo) - 1
      /\ w = s.todo[1] /\ WriteHolds(s, w) /\ \A i \in 1 .. Len(rest) : rest[i] = s.todo[i + 1]
  BY <1>1, IsWriter
<1>3. CASE disk[w.file] # Nil
  <2> DEFINE c == Onward(p)
  <2>1. Step(p, c) /\ "n" \notin DOMAIN c
    BY <1>3 DEF Look, Onward
  <2>2. ProcHolds(disk, Changed(s, c))
    BY <1>2, OnwardHolds DEF Onward
  <2> HIDE DEF c
  <2> QED
    BY <1>2, <2>1, <2>2, ByStep
<1>4. CASE disk[w.file] = Nil
  <2> DEFINE o == Over(w.file, w.val)
             todo == <<o>> \o rest
             c == [todo |-> todo, seen |-> Nil]
             r == Changed(s, c)
  <2>1. Step(p, c) /\ "n" \notin DOMAIN c
    BY <1>4 DEF Look
  <2>2. /\ DOMAIN r = Fields /\ r.n = s.n /\ r.cmd = s.cmd /\ r.then = s.then /\ r.status = s.status
        /\ r.todo = todo /\ r.at = "write" /\ r.seen = Nil
    <3>1. DOMAIN c = {"todo", "seen"} /\ c.todo = todo /\ c.seen = Nil
      OBVIOUS
    <3> HIDE DEF c, todo
    <3> QED
      BY <1>1, <1>2, <3>1, ChangedIs DEF Writer, Fields
  <2>3. /\ IsSequence(todo) /\ Len(todo) = Len(s.todo) /\ todo # <<>>
        /\ todo[1] = o /\ \A i \in 2 .. Len(todo) : todo[i] = s.todo[i]
    <3>1. PICK S : rest \in Seq(S)
      BY <1>2 DEF IsSequence
    <3>2. <<o>> \in Seq(S \cup {o}) /\ rest \in Seq(S \cup {o})
      BY <3>1
    <3> HIDE DEF o, rest
    <3>3. todo \in Seq(S \cup {o}) /\ Len(todo) = 1 + Len(rest) /\ todo[1] = o
      BY <3>2
    <3>4. \A i \in 2 .. Len(todo) : todo[i] = rest[i - 1]
      BY <3>2, <3>3
    <3>5. \A i \in 2 .. Len(todo) : rest[i - 1] = s.todo[i]
      BY <1>2, <3>3
    <3>6. todo # <<>>
      BY <3>3, <1>2
    <3> QED
      BY <1>2, <3>3, <3>4, <3>5, <3>6 DEF IsSequence
  <2>4. o.file = w.file /\ o.val = w.val /\ o.how = "over"
    BY DEF Over
  <2>5. WriteHolds(r, o)
    BY <1>1, <1>2, <2>2, <2>4 DEF WriteHolds
  <2> HIDE DEF todo, o, c, r
  <2>6. \A i \in 1 .. Len(todo) : WriteHolds(r, todo[i])
    <3> TAKE i \in 1 .. Len(todo)
    <3>1. CASE i = 1
      BY <3>1, <2>3, <2>5
    <3>2. CASE i # 1
      <4>1. WriteHolds(s, todo[i])
        BY <1>2, <2>3, <3>2 DEF Writer
      <4> QED
        BY <4>1, <2>2, SameWrites
    <3> QED
      BY <3>1, <3>2
  <2>7. \A i \in 2 .. Len(todo) : todo[i].how \notin {"new", "absent"} => ~Handmade(todo[i].file)
    BY <1>2, <2>3 DEF Writer
  <2>8. WritesHold(disk, r)
    BY <1>2, <2>2, <2>3, <2>6, <2>7 DEF WritesHold, HeadHolds, Writer
  <2>9. ProcHolds(disk, r)
    BY <1>2, <2>2, <2>8 DEF ProcHolds, RunHolds, Writer, Places, Asking
  <2> QED
    BY <1>2, <2>1, <2>9, ByStep DEF r
<1> QED
  BY <1>3, <1>4

\* A step with which a command ends.
LEMMA EndKeeps ==
  ASSUME IInv, NEW p \in Callers, proc[p] # NoProc, NEW change, Step(p, change),
         "at" \in DOMAIN change, change["at"] = "exit", {"n", "cmd", "then"} \cap DOMAIN change = {}
  PROVE  IInv'
<1> DEFINE r == Changed(proc[p], change)
<1>1. DOMAIN proc[p] = Fields
  BY ProcIs
<1>2. DOMAIN r = Fields /\ \A x \in Fields : r[x] = IF x \in DOMAIN change THEN change[x] ELSE proc[p][x]
  BY ONLY <1>1, ChangedIs
<1> HIDE DEF r
<1>3. r.at = "exit" /\ r.n = proc[p].n /\ r.cmd = proc[p].cmd /\ r.then = proc[p].then
  BY <1>2 DEF Fields
<1>4. ProcHolds(disk, r)
  BY <1>2, <1>3, Exits
<1> QED
  BY <1>4, ByStep DEF r

LEMMA ThrewKeeps == ASSUME IInv, NEW p \in Callers, proc[p] # NoProc, Step(p, Threw) PROVE IInv'
<1>1. DOMAIN Threw = {"at", "end"} /\ Threw["at"] = "exit"
  BY DEF Threw
<1> QED
  BY <1>1, EndKeeps

LEMMA OpenKeeps == ASSUME DailyAssumption, IInv, NEW p \in Callers, Open(p) PROVE IInv'
<1> DEFINE s == proc[p]
           w == Head(s.todo)
<1>1. s.at = "write"
  BY DEF Open
<1>2. s # NoProc /\ Writer(disk, s) /\ WritesHold(disk, s) /\ WriteHolds(s, w)
  BY <1>1, IsWriter
<1>3. CASE w.how = "new" /\ disk[w.file] # Nil
  BY <1>2, <1>3, ThrewKeeps DEF Open
<1>4. CASE ~(w.how = "new" /\ disk[w.file] # Nil)
  <2> DEFINE r == [s EXCEPT !.at = "fill"]
             f == w.file
  <2>1. disk' = [disk EXCEPT ![f] = Torn] /\ proc' = [proc EXCEPT ![p] = r] /\ calls' = calls /\ edits' = edits
    BY <1>4 DEF Open
  <2>2. /\ DOMAIN r = Fields /\ r.n = s.n /\ r.cmd = s.cmd /\ r.then = s.then /\ r.status = s.status
        /\ r.todo = s.todo /\ r.at = "fill"
    BY <1>2 DEF Writer, Fields
  <2> HIDE DEF r
  <2>3. \A g \in Files : disk'[g] = IF g = f THEN Torn ELSE disk[g]
    BY <2>1 DEF IInv
  <2>4. \A m \in 1 .. MaxCalls : NothingBy(disk, m) => NothingBy(disk', m)
    BY <2>3 DEF NothingBy, ByIn, Whole
  <2>5. \A m \in 1 .. MaxCalls : disk'[RunJson(m)] \in Refused => disk[RunJson(m)] \in Refused
    BY <2>3, Names DEF Refused, DailyAssumption
  <2>6. \A i \in 1 .. Len(s.todo) : WriteHolds(r, s.todo[i])
    BY <1>2, <2>2, SameWrites DEF Writer
  <2>7. s.n \in 1 .. MaxCalls
    BY <1>2 DEF Writer
  <2>8. ProcHolds(disk', r)
    <3>1. WritesHold(disk', r)
      BY <1>2, <2>2, <2>4, <2>5, <2>6, <2>7 DEF WritesHold, Writer
    <3> QED
      BY <1>2, <2>2, <2>7, <3>1 DEF ProcHolds, RunHolds, Writer, Places, Asking
  <2>9. \A m \in 1 .. MaxCalls : m # r.n => Spares(disk, disk', m)
    BY <1>2, <2>1, <2>2, WriteSpares DEF IInv
  <2>10. disk'[RunJson(r.n)] \in Refused => NothingBy(disk', r.n)
    BY <2>2, <2>4, <2>5, <2>7 DEF IInv, DiskHolds
  <2> HIDE DEF f
  <2> QED
    BY <1>2, <2>1, <2>2, <2>8, <2>9, <2>10, ByWrite DEF Whole
<1> QED
  BY <1>3, <1>4

LEMMA FillKeeps == ASSUME DailyAssumption, IInv, NEW p \in Callers, Fill(p) PROVE IInv'
<1> DEFINE s == proc[p]
           w == Head(s.todo)
           f == w.file
           c == Onward(p)
           r == Changed(s, c)
<1>1. s.at = "fill"
  BY DEF Fill
<1>2. s # NoProc /\ Writer(disk, s) /\ WritesHold(disk, s) /\ WriteHolds(s, w)
  BY <1>1, IsWriter
<1>3. disk' = [disk EXCEPT ![f] = w.val] /\ proc' = [proc EXCEPT ![p] = r] /\ calls' = calls /\ edits' = edits
  BY DEF Fill
<1>4. \A g \in Files : disk'[g] = IF g = f THEN w.val ELSE disk[g]
  BY <1>3 DEF IInv
<1>5. s.n \in 1 .. MaxCalls
  BY <1>2 DEF Writer
<1>6. ASSUME s.cmd # "run" \/ s.status # "completed", NothingBy(disk, s.n) PROVE NothingBy(disk', s.n)
  BY <1>2, <1>4, <1>6 DEF NothingBy, ByIn, WriteHolds
<1>7. ASSUME s.cmd = "run", s.status = "completed" PROVE disk'[RunJson(s.n)] \notin Refused
  <2>1. f = RunJson(s.n) => w.val = "completed"
    BY <1>2, <1>5, <1>7 DEF WriteHolds
  <2> QED
    BY <1>2, <1>4, <1>5, <1>7, <2>1, Names DEF Writer, Refused
<1>8. Writer(disk', s)
  BY <1>2, <1>6, <1>7 DEF Writer
<1>9. ProcHolds(disk', r)
  BY <1>8, OnwardHolds DEF Onward
<1>10. r.n = s.n
  <2>1. DOMAIN c = {"todo", "at"} /\ DOMAIN s = Fields
    BY <1>2 DEF Onward, Writer
  <2> HIDE DEF c
  <2> QED
    BY <2>1, ChangedIs DEF Fields
<1> HIDE DEF r
<1>11. \A m \in 1 .. MaxCalls : m # r.n => Spares(disk, disk', m)
  BY <1>2, <1>3, <1>10, WriteSpares DEF IInv
<1>12. disk'[RunJson(r.n)] \in Refused => NothingBy(disk', r.n)
  <2> SUFFICES ASSUME disk'[RunJson(s.n)] \in Refused PROVE NothingBy(disk', s.n)
    BY <1>10
  <2>1. CASE f = RunJson(s.n)
    <3>1. s.cmd = "run" /\ w.val = s.status
      BY <1>2, <1>5, <2>1 DEF WriteHolds
    <3>2. s.status # "completed"
      BY <1>7, <3>1
    <3> QED
      BY <1>2, <1>6, <3>1, <3>2 DEF Writer
  <2>2. CASE f # RunJson(s.n)
    <3>1. disk[RunJson(s.n)] \in Refused
      BY <1>4, <1>5, <2>2, Names
    <3>2. NothingBy(disk, s.n) /\ (s.cmd # "run" \/ s.status # "completed")
      BY <1>2, <1>5, <3>1 DEF IInv, DiskHolds, Writer
    <3> QED
      BY <1>6, <3>2
  <2> QED
    BY <2>1, <2>2
<1>13. /\ f = TalkJson /\ Whole(w.val) => TalkHolds(w.val)
       /\ Handmade(f) /\ f # CaptureMd => "by" \in DOMAIN w.val
  BY <1>2 DEF WriteHolds
<1> HIDE DEF f
<1> QED
  BY <1>2, <1>3, <1>9, <1>10, <1>11, <1>12, <1>13, ByWrite

-----------------------------------------------------------------------------
(* The check-in, the collector and what only reads *)

\* A step of a command other than run-day that writes nothing.
LEMMA GoesOn ==
  ASSUME IInv, NEW p \in Callers, proc[p] # NoProc, proc[p].cmd # "run", NEW change, Step(p, change),
         {"n", "cmd"} \cap DOMAIN change = {},
         "at" \in DOMAIN change, change["at"] \in Places \ {"write", "fill", "prune"},
         "then" \in DOMAIN change => change["then"] \in {"exit", "collect", "asked"}
  PROVE  IInv'
<1> DEFINE s == proc[p]
           r == Changed(s, change)
<1>1. DOMAIN s = Fields
  BY ProcIs
<1>2. DOMAIN r = Fields /\ \A x \in Fields : r[x] = IF x \in DOMAIN change THEN change[x] ELSE s[x]
  BY ONLY <1>1, ChangedIs
<1> HIDE DEF r
<1>3. r.n = s.n /\ r.cmd = s.cmd /\ r.at = change["at"] /\ r.then \in {s.then, change["then"]}
      /\ ("then" \notin DOMAIN change => r.then = s.then)
  BY <1>2 DEF Fields
<1>4. s.n \in 1 .. MaxCalls /\ s.then \in {"exit", "collect", "asked"}
  BY ProcIs DEF ProcHolds
<1>5. ProcHolds(disk, r)
  BY <1>2, <1>3, <1>4 DEF ProcHolds
<1> QED
  BY <1>5, ByStep DEF r

\* A step of such a command that decides on one write.
LEMMA DecidesOnOne ==
  ASSUME IInv, NEW p \in Callers, proc[p] # NoProc, proc[p].cmd # "run", NEW change, Step(p, change),
         {"n", "cmd"} \cap DOMAIN change = {}, {"at", "todo"} \subseteq DOMAIN change, change["at"] = "write",
         "then" \in DOMAIN change => change["then"] \in {"exit", "collect", "asked"},
         NEW w, change["todo"] = <<w>>,
         \/ w.file = CaptureMd /\ (w.how = "new" \/ (w.how = "absent" /\ proc[p].cmd = "capture"))
         \/ ~Handmade(w.file) /\ w.file # TalkJson /\ \A m \in 1 .. MaxCalls : w.file # RunJson(m)
  PROVE  IInv'
<1> DEFINE s == proc[p]
           r == Changed(s, change)
<1>1. DOMAIN s = Fields
  BY ProcIs
<1>2. DOMAIN r = Fields /\ \A x \in Fields : r[x] = IF x \in DOMAIN change THEN change[x] ELSE s[x]
  BY ONLY <1>1, ChangedIs
<1> HIDE DEF r
<1>3. r.n = s.n /\ r.cmd = s.cmd /\ r.at = "write" /\ r.todo = <<w>>
      /\ r.then = (IF "then" \in DOMAIN change THEN change["then"] ELSE s.then)
  BY <1>2 DEF Fields
<1>4. s.n \in 1 .. MaxCalls /\ r.then \in {"exit", "collect", "asked"}
  BY <1>3, ProcIs DEF ProcHolds
<1>5. IsSequence(r.todo) /\ r.todo # <<>> /\ Len(r.todo) = 1 /\ r.todo[1] = w
  BY <1>3, OneWrite
<1>6. WriteHolds(r, w)
  BY <1>3, Names DEF WriteHolds
<1>7. WritesHold(disk, r)
  <2>1. HeadHolds(disk, r)
    BY <1>5, Names DEF HeadHolds
  <2> QED
    BY <1>3, <1>5, <1>6, <2>1 DEF WritesHold
<1>8. ProcHolds(disk, r)
  BY <1>2, <1>3, <1>4, <1>7 DEF ProcHolds, Places, Asking
<1> QED
  BY <1>8, ByStep DEF r

LEMMA CheckingInKeeps == ASSUME DailyAssumption, IInv, NEW p \in Callers, CheckingIn(p) PROVE IInv'
<1> DEFINE s == proc[p]
<1>0. ASSUME s.at \in {"start", "asked"} PROVE s # NoProc
  BY <1>0, Started0
<1>1. CASE PrepareBegin(p)
  <2> DEFINE c == [at |-> "asked"]
  <2>1. s # NoProc /\ s.cmd = "prepare" /\ (Step(p, Threw) \/ Step(p, c))
    BY <1>0, <1>1 DEF PrepareBegin, Is
  <2>2. DOMAIN c = {"at"} /\ c["at"] = "asked"
    OBVIOUS
  <2> HIDE DEF c
  <2> QED
    BY <2>1, <2>2, ThrewKeeps, GoesOn DEF Places, Asking
<1>2. CASE PrepareAnswer(p)
  <2> DEFINE w == Over(RecallJson, s.n)
             c == [at |-> "write", todo |-> <<w>>, recall |-> s.n]
  <2>1. s # NoProc /\ s.cmd = "prepare" /\ (Step(p, Threw) \/ Step(p, c))
    BY <1>0, <1>2 DEF PrepareAnswer, Is
  <2>2. DOMAIN c = {"at", "todo", "recall"} /\ c["at"] = "write" /\ c["todo"] = <<w>> /\ w.file = RecallJson
    BY DEF Over
  <2>3. ~Handmade(RecallJson) /\ RecallJson # TalkJson /\ \A m \in 1 .. MaxCalls : RecallJson # RunJson(m)
    BY DEF Handmade, RecallJson, TalkJson, RunJson
  <2> HIDE DEF c, w
  <2>4. CASE Step(p, c)
    BY <2>1, <2>2, <2>3, <2>4, DecidesOnOne
  <2> QED
    BY <2>1, <2>4, ThrewKeeps
<1>3. CASE ReadRecap(p)
  <2> DEFINE c == [at |-> "exit", recall |-> IF disk[RecallJson] = Nil THEN 0 ELSE disk[RecallJson]]
  <2>1. s # NoProc /\ (Step(p, Threw) \/ Step(p, c))
    BY <1>0, <1>3 DEF ReadRecap, Is
  <2>2. DOMAIN c = {"at", "recall"} /\ c["at"] = "exit"
    OBVIOUS
  <2> HIDE DEF c
  <2> QED
    BY <2>1, <2>2, ThrewKeeps, EndKeeps
<1>4. CASE Calibrate(p)
  <2> DEFINE w == New(CaptureMd, Calibrated(p))
             c == [at |-> "write", todo |-> <<w>>]
  <2>1. s # NoProc /\ s.cmd = "calibrate" /\ (Step(p, Threw) \/ Step(p, c))
    BY <1>0, <1>4 DEF Calibrate, Is
  <2>2. DOMAIN c = {"at", "todo"} /\ c["at"] = "write" /\ c["todo"] = <<w>> /\ w.file = CaptureMd /\ w.how = "new"
    BY DEF New
  <2> HIDE DEF c, w
  <2>4. CASE Step(p, c)
    BY <2>1, <2>2, <2>4, DecidesOnOne
  <2> QED
    BY <2>1, <2>4, ThrewKeeps
<1>5. CASE NewCapture(p)
  <2> DEFINE w == Absent(CaptureMd, Template(p))
             c == [at |-> "write", todo |-> <<w>>]
  <2>1. s # NoProc /\ s.cmd = "capture" /\ Step(p, c)
    BY <1>0, <1>5 DEF NewCapture, Is
  <2>2. DOMAIN c = {"at", "todo"} /\ c["at"] = "write" /\ c["todo"] = <<w>> /\ w.file = CaptureMd /\ w.how = "absent"
    BY DEF Absent
  <2> HIDE DEF c, w
  <2> QED
    BY <2>1, <2>2, DecidesOnOne
<1> QED
  BY <1>1, <1>2, <1>3, <1>4, <1>5 DEF CheckingIn

LEMMA SetToSeqIs == ASSUME NEW S, IsFiniteSet(S) PROVE SetToSeq(S) \in Seq(S)
<1>1. Cardinality(S) \in Nat /\ ExistsBijection(1 .. Cardinality(S), S)
  BY FS_CardinalityType
<1>2. PICK f \in [1 .. Cardinality(S) -> S] : IsInjective(f)
  BY <1>1 DEF ExistsBijection, Bijection, Injection, IsInjective
<1>3. SetToSeq(S) \in [1 .. Cardinality(S) -> S]
  BY <1>2 DEF SetToSeq
<1> QED
  BY <1>1, <1>3

LEMMA CollectingKeeps == ASSUME DailyAssumption, IInv, NEW p \in Callers, Collecting(p) PROVE IInv'
<1> DEFINE s == proc[p]
<1>0. ASSUME s.at \in {"start", "asked", "collect", "prune"} PROVE s # NoProc
  BY <1>0, Started0
<1>1. CASE CollectBegin(p)
  <2>1. s # NoProc /\ s.cmd = "collect"
    BY <1>0, <1>1 DEF CollectBegin, Is
  <2>2. CASE Step(p, Threw)
    BY <2>1, <2>2, ThrewKeeps
  <2>3. CASE ~Step(p, Threw)
    <3>1. PICK got \in SUBSET Urls :
            Step(p, [at |-> "collect", then |-> "collect", have |-> Known, left |-> SetToSeq(got)])
      BY <1>1, <2>3 DEF CollectBegin
    <3> DEFINE c == [at |-> "collect", then |-> "collect", have |-> Known, left |-> SetToSeq(got)]
    <3>2. DOMAIN c = {"at", "then", "have", "left"} /\ c["at"] = "collect" /\ c["then"] = "collect"
      OBVIOUS
    <3>3. Step(p, c)
      BY <3>1
    <3> HIDE DEF c
    <3> QED
      BY <2>1, <3>2, <3>3, GoesOn DEF Places, Asking
  <2> QED
    BY <2>2, <2>3
<1>2. CASE Research(p)
  <2> DEFINE w == Over(TopicsJson, Text(s.n))
             c == [at |-> "write", then |-> "asked", todo |-> <<w>>]
  <2>1. s # NoProc /\ s.cmd = "research" /\ Step(p, c)
    BY <1>0, <1>2 DEF Research, Is
  <2>2. /\ DOMAIN c = {"at", "then", "todo"} /\ c["at"] = "write" /\ c["then"] = "asked"
        /\ c["todo"] = <<w>> /\ w.file = TopicsJson
    BY DEF Over
  <2>3. ~Handmade(TopicsJson) /\ TopicsJson # TalkJson /\ \A m \in 1 .. MaxCalls : TopicsJson # RunJson(m)
    BY DEF Handmade, TopicsJson, TalkJson, RunJson
  <2> HIDE DEF c, w
  <2> QED
    BY <2>1, <2>2, <2>3, DecidesOnOne
<1>3. CASE ResearchAnswer(p)
  <2>1. s # NoProc /\ s.cmd = "research"
    BY <1>0, <1>3 DEF ResearchAnswer, Is
  <2>2. CASE Step(p, Threw)
    BY <2>1, <2>2, ThrewKeeps
  <2>3. CASE ~Step(p, Threw)
    <3>1. PICK got \in SUBSET Urls : Step(p, [at |-> "collect", then |-> "collect", left |-> SetToSeq(got)])
      BY <1>3, <2>3 DEF ResearchAnswer
    <3> DEFINE c == [at |-> "collect", then |-> "collect", left |-> SetToSeq(got)]
    <3>2. DOMAIN c = {"at", "then", "left"} /\ c["at"] = "collect" /\ c["then"] = "collect"
      OBVIOUS
    <3>3. Step(p, c)
      BY <3>1
    <3> HIDE DEF c
    <3> QED
      BY <2>1, <3>2, <3>3, GoesOn DEF Places, Asking
  <2> QED
    BY <2>2, <2>3
<1>4. CASE CollectNext(p)
  <2>1. s # NoProc /\ s.cmd # "run" /\ s.at = "collect"
    BY <1>0, <1>4, ProcIs DEF CollectNext, ProcHolds, RunHolds
  <2> DEFINE u == Head(s.left)
             skip == [left |-> Tail(s.left)]
             w == Over(SourceJson(Min(Free)), Collected(u))
             c == [at |-> "write", left |-> Tail(s.left), wrote |-> s.wrote + 1, todo |-> <<w>>]
  <2>2. Step(p, skip) \/ Step(p, c)
    BY <1>4 DEF CollectNext
  <2>3. CASE Step(p, skip)
    <3> DEFINE r == Changed(s, skip)
    <3>1. DOMAIN skip = {"left"} /\ DOMAIN s = Fields
      BY <2>1, ProcIs
    <3> HIDE DEF skip
    <3>2. DOMAIN r = Fields /\ \A x \in Fields : r[x] = IF x \in {"left"} THEN skip[x] ELSE s[x]
      BY ONLY <3>1, ChangedIs
    <3> HIDE DEF r
    <3>3. r.n = s.n /\ r.cmd = s.cmd /\ r.at = s.at /\ r.then = s.then
      BY <3>2 DEF Fields
    <3>4. ProcHolds(disk, r)
      BY <2>1, <3>2, <3>3, ProcIs DEF ProcHolds
    <3> QED
      BY <2>1, <2>3, <3>1, <3>4, ByStep DEF r
  <2>4. CASE Step(p, c)
    <3>1. /\ DOMAIN c = {"at", "left", "wrote", "todo"} /\ c["at"] = "write" /\ c["todo"] = <<w>>
          /\ w.file = SourceJson(Min(Free))
      BY DEF Over
    <3>2. SourceJson(Min(Free))[1] = "source"
      BY DEF SourceJson
    <3>3. ~Handmade(w.file) /\ w.file # TalkJson /\ \A m \in 1 .. MaxCalls : w.file # RunJson(m)
      BY <3>1, <3>2, Names
    <3> HIDE DEF c, w
    <3> QED
      BY <2>1, <2>4, <3>1, <3>3, DecidesOnOne
  <2> QED
    BY <2>2, <2>3, <2>4
<1>5. CASE CollectEnd(p)
  <2> DEFINE c == [at |-> "exit"]
  <2>1. s # NoProc /\ Step(p, c)
    BY <1>0, <1>5 DEF CollectEnd
  <2>2. DOMAIN c = {"at"} /\ c["at"] = "exit"
    OBVIOUS
  <2> HIDE DEF c
  <2> QED
    BY <2>1, <2>2, EndKeeps
<1>6. CASE PruneBegin(p)
  <2> DEFINE old == {f \in Sources : disk[f].life = "expired"}
             c == [at |-> "prune", left |-> SetToSeq(old)]
  <2>1. s # NoProc /\ s.cmd = "prune" /\ (Step(p, Threw) \/ Step(p, c))
    BY <1>0, <1>6 DEF PruneBegin, Is
  <2>2. CASE Step(p, c)
    <3>1. IsFiniteSet(old)
      <4> DEFINE g == [i \in 1 .. MaxRecords |-> SourceJson(i)]
                 T == {SourceJson(i) : i \in 1 .. MaxRecords}
      <4>1. MaxRecords \in Nat
        BY DEF DailyAssumption
      <4>2. IsFiniteSet(1 .. MaxRecords)
        BY <4>1, FS_Interval
      <4>3. g \in Surjection(1 .. MaxRecords, T)
        BY DEF Surjection
      <4>4. IsFiniteSet(T)
        BY ONLY <4>2, <4>3, FS_Surjection
      <4>5. old \in SUBSET T
        <5> SUFFICES ASSUME NEW f \in Files, f[1] = "source" PROVE f \in T
          BY DEF Sources, SourceFiles
        <5> QED
          BY DEF Files, SourceJson, CaptureMd, RecallJson, PageMd, TalkJson, PublicJson, TopicsJson, PlaceMd, AsideMd, RunJson
      <4> QED
        BY <4>4, <4>5, FS_Subset
    <3>2. SetToSeq(old) \in Seq(old) /\ \A f \in old : f[1] = "source"
      BY <3>1, SetToSeqIs DEF Sources, SourceFiles
    <3> DEFINE r == Changed(s, c)
    <3>3. DOMAIN c = {"at", "left"} /\ c["at"] = "prune" /\ c["left"] = SetToSeq(old) /\ DOMAIN s = Fields
      BY <2>1, ProcIs
    <3> HIDE DEF c, old
    <3>4. DOMAIN r = Fields /\ \A x \in Fields : r[x] = IF x \in {"at", "left"} THEN c[x] ELSE s[x]
      BY ONLY <3>3, ChangedIs
    <3> HIDE DEF r
    <3>5. r.n = s.n /\ r.cmd = s.cmd /\ r.at = "prune" /\ r.then = s.then /\ r.left = SetToSeq(old)
      BY <3>3, <3>4 DEF Fields
    <3>6. ProcHolds(disk, r)
      BY <2>1, <3>2, <3>4, <3>5, ProcIs DEF ProcHolds, Places
    <3> QED
      BY <2>1, <2>2, <3>3, <3>6, ByStep DEF r
  <2> QED
    BY <2>1, <2>2, ThrewKeeps
<1>7. CASE PruneNext(p)
  <2>1. s # NoProc /\ s.cmd = "prune" /\ s.at = "prune"
    BY <1>0, <1>7 DEF PruneNext, Is
  <2>2. CASE s.left = <<>>
    <3> DEFINE c == [at |-> "exit"]
    <3>1. Step(p, c) /\ DOMAIN c = {"at"} /\ c["at"] = "exit"
      BY <1>7, <2>2 DEF PruneNext
    <3> HIDE DEF c
    <3> QED
      BY <2>1, <3>1, EndKeeps
  <2>3. CASE s.left # <<>> /\ disk[Head(s.left)] = Nil
    BY <1>7, <2>1, <2>3, ThrewKeeps DEF PruneNext
  <2>4. CASE s.left # <<>> /\ disk[Head(s.left)] # Nil
    <3> DEFINE f == Head(s.left)
               r == [s EXCEPT !.left = Tail(@)]
    <3>1. /\ disk' = [disk EXCEPT ![f] = Nil] /\ proc' = [proc EXCEPT ![p] = r]
          /\ calls' = calls /\ edits' = edits
      BY <1>7, <2>4 DEF PruneNext, IInv
    <3>2. PICK S : s.left \in Seq(S) /\ \A g \in S : g[1] = "source"
      BY <2>1, ProcIs DEF ProcHolds
    <3>3. f \in S /\ Tail(s.left) \in Seq(S)
      BY <2>4, <3>2
    <3>4. DOMAIN r = Fields /\ r.n = s.n /\ r.cmd = s.cmd /\ r.at = s.at /\ r.then = s.then /\ r.left = Tail(s.left)
      BY <2>1, ProcIs DEF Fields
    <3> HIDE DEF r
    <3>5. ~Handmade(f) /\ f # TalkJson /\ \A n : f # RunJson(n) /\ f # AsideMd(n)
      BY <3>2, <3>3, Names
    <3>6. \A g \in Files : disk'[g] = IF g = f THEN Nil ELSE disk[g]
      BY <3>1 DEF IInv
    <3>7. \A m \in 1 .. MaxCalls : Spares(disk, disk', m) /\ (disk'[RunJson(m)] \in Refused => NothingBy(disk', m))
      <4> TAKE m \in 1 .. MaxCalls
      <4>1. disk'[RunJson(m)] = disk[RunJson(m)] /\ disk'[AsideMd(m)] = disk[AsideMd(m)]
        BY <3>5, <3>6, Names
      <4>2. NothingBy(disk, m) => NothingBy(disk', m)
        BY <3>5, <3>6 DEF NothingBy, ByIn
      <4> QED
        BY <4>1, <4>2 DEF Spares, IInv, DiskHolds
    <3>8. ProcHolds(disk', r)
      BY <2>1, <3>2, <3>3, <3>4, ProcIs DEF ProcHolds
    <3> HIDE DEF f
    <3>9. r.n \in 1 .. MaxCalls
      BY <2>1, <3>4, ProcIs
    <3> QED
      BY <2>1, <3>1, <3>4, <3>5, <3>7, <3>8, <3>9, ByWrite
  <2> QED
    BY <2>2, <2>3, <2>4
<1> QED
  BY <1>1, <1>2, <1>3, <1>4, <1>5, <1>6, <1>7 DEF Collecting

-----------------------------------------------------------------------------
(* run-day *)

\* At most Ceiling positions have fewer than Ceiling before them.
LEMMA UptoIs ==
  ASSUME DailyAssumption, NEW S \in SUBSET Nat, IsFiniteSet(S)
  PROVE  IsFiniteSet(Upto(S)) /\ Cardinality(Upto(S)) <= Ceiling
<1> DEFINE U == Upto(S)
           Before(i) == {j \in S : j < i}
           T == 0 .. Ceiling - 1
           f == [i \in U |-> Cardinality(Before(i))]
<1>1. U \in SUBSET S /\ IsFiniteSet(U) /\ Cardinality(U) \in Nat
  BY FS_Subset, FS_CardinalityType DEF Upto
<1>2. Ceiling \in Nat \ {0}
  BY DEF DailyAssumption
<1>3. IsFiniteSet(T) /\ Cardinality(T) = Ceiling
  BY <1>2, FS_Interval
<1>4. \A i \in U : IsFiniteSet(Before(i)) /\ Cardinality(Before(i)) \in Nat /\ Cardinality(Before(i)) < Ceiling
  BY FS_Subset, FS_CardinalityType DEF Upto
<1>5. f \in [U -> T]
  BY <1>2, <1>4
<1>6. ASSUME NEW x \in U, NEW y \in U, x < y PROVE f[x] # f[y]
  <2>1. x \in Nat /\ y \in Nat /\ x \in S
    BY <1>1
  <2>2. Before(x) \in SUBSET Before(y) /\ x \in Before(y) /\ x \notin Before(x)
    <3>1. \A j \in S : j \in Nat
      OBVIOUS
    <3>2. \A j \in S : j < x => j < y
      BY ONLY <1>6, <2>1, <3>1
    <3>3. ~(x < x)
      BY ONLY <2>1
    <3> HIDE DEF U
    <3> QED
      BY <1>6, <2>1, <3>2, <3>3
  <2>3. f[x] = Cardinality(Before(x)) /\ f[y] = Cardinality(Before(y)) /\ IsFiniteSet(Before(y))
    BY <1>4
  <2> HIDE DEF Before, f
  <2> QED
    BY <2>2, <2>3, FS_Subset
<1>7. ASSUME Cardinality(U) > Ceiling PROVE FALSE
  <2>1. PICK x, y \in U : x # y /\ f[x] = f[y]
    <3>1. Cardinality(T) < Cardinality(U)
      BY <1>1, <1>2, <1>3, <1>7
    <3> HIDE DEF T, f, U
    <3> QED
      BY <1>1, <1>3, <1>5, <3>1, FS_PigeonHole
  <2>2. x \in Nat /\ y \in Nat
    BY <1>1
  <2>3. x < y \/ y < x
    BY <2>1, <2>2
  <2> QED
    BY <1>6, <2>1, <2>3
<1> QED
  BY <1>1, <1>2, <1>7

LEMMA KeptHolds ==
  ASSUME DailyAssumption, NEW out \in Outputs, NEW have
  PROVE  ClaimsHold(Kept(out, have), have)
<1> DEFINE good == {i \in DOMAIN out : Cited(out[i], have)}
           First(k) == Upto(good \cap OfKind(out, k))
           kept == Kept(out, have)
<1>1. IsFiniteSet(DOMAIN out) /\ DOMAIN out \subseteq Nat
  BY DEF DailyAssumption
<1>2. kept = [i \in First("development") \cup First("place") |-> out[i]]
  BY DEF Kept
<1>3. \A k : First(k) \subseteq good \cap OfKind(out, k)
  BY DEF Upto
<1>4. \A k : IsFiniteSet(First(k)) /\ Cardinality(First(k)) <= Ceiling
  <2> TAKE k
  <2>1. good \cap OfKind(out, k) \in SUBSET Nat /\ IsFiniteSet(good \cap OfKind(out, k))
    BY <1>1, FS_Subset
  <2> QED
    BY <2>1, UptoIs
<1> HIDE DEF First, kept
<1>5. DOMAIN kept = First("development") \cup First("place") /\ \A i \in DOMAIN kept : kept[i] = out[i]
  BY <1>2
<1>6. \A i \in DOMAIN kept : i \in DOMAIN out /\ Cited(out[i], have)
  BY <1>3, <1>5
<1>7. IsFiniteSet(DOMAIN kept)
  BY <1>1, <1>6, FS_Subset
<1>8. \A k \in {"development", "place"} : Cardinality(OfKind(kept, k)) <= Ceiling
  <2> TAKE k \in {"development", "place"}
  <2>1. OfKind(kept, k) \in SUBSET First(k)
    BY <1>3, <1>5 DEF OfKind
  <2>2. Cardinality(OfKind(kept, k)) <= Cardinality(First(k))
    BY <1>4, <2>1, FS_Subset
  <2>3. IsFiniteSet(OfKind(kept, k)) /\ Cardinality(OfKind(kept, k)) \in Nat /\ Cardinality(First(k)) \in Nat
    BY <1>4, <2>1, FS_Subset, FS_CardinalityType
  <2> QED
    BY <1>4, <2>2, <2>3 DEF DailyAssumption
<1> QED
  BY <1>5, <1>6, <1>7, <1>8 DEF ClaimsHold, Cited, kept

\* A run as it stands between two of its steps.
LEMMA RunIs ==
  ASSUME IInv, NEW p \in Callers, proc[p].cmd = "run", proc[p].at \in Asking
  PROVE  /\ proc[p] # NoProc /\ DOMAIN proc[p] = Fields /\ proc[p].n \in 1 .. MaxCalls
         /\ RunHolds(disk, proc[p]) /\ proc[p].then = "exit" /\ Unused(disk, proc[p].n)
<1>1. proc[p] # NoProc
  BY DEF NoProc
<1> QED
  BY <1>1, ProcIs DEF ProcHolds, RunHolds

\* It goes on to its next gate.
LEMMA RunGoesOn ==
  ASSUME IInv, NEW p \in Callers, proc[p].cmd = "run", proc[p].at \in Asking, NEW change, Step(p, change),
         {"n", "cmd", "then"} \cap DOMAIN change = {}, "at" \in DOMAIN change, change["at"] \in Asking,
         RunHolds(disk, Changed(proc[p], change))
  PROVE  IInv'
<1> DEFINE s == proc[p]
           r == Changed(s, change)
<1>1. DOMAIN s = Fields
  BY RunIs
<1>2. DOMAIN r = Fields /\ \A x \in Fields : r[x] = IF x \in DOMAIN change THEN change[x] ELSE s[x]
  BY ONLY <1>1, ChangedIs
<1> HIDE DEF r
<1>3. r.n = s.n /\ r.cmd = s.cmd /\ r.at \in Asking /\ r.then = s.then
  BY <1>2 DEF Fields
<1>4. ProcHolds(disk, r)
  BY <1>2, <1>3, RunIs DEF ProcHolds, Places, Asking, r
<1> QED
  BY <1>4, RunIs, ByStep DEF r

\* It decides on its writes.
LEMMA RunWrites ==
  ASSUME DailyAssumption, IInv, NEW p \in Callers, proc[p].cmd = "run", proc[p].at \in Asking,
         NEW status, NEW todo, Step(p, [at |-> "write", status |-> status, todo |-> todo]),
         IsSequence(todo), todo # <<>>,
         \A i \in 1 .. Len(todo) : WriteHolds([cmd |-> "run", n |-> proc[p].n, status |-> status], todo[i]),
         \A i \in 2 .. Len(todo) : todo[i].how \notin {"new", "absent"} => ~Handmade(todo[i].file),
         HeadHolds(disk, [todo |-> todo, seen |-> proc[p].seen, n |-> proc[p].n])
  PROVE  IInv'
<1> DEFINE s == proc[p]
           c == [at |-> "write", status |-> status, todo |-> todo]
           r == Changed(s, c)
<1>1. /\ DOMAIN s = Fields /\ Step(p, c)
      /\ DOMAIN c = {"at", "status", "todo"} /\ c["at"] = "write" /\ c["status"] = status /\ c["todo"] = todo
  BY RunIs
<1> HIDE DEF c
<1>2. DOMAIN r = Fields /\ \A x \in Fields : r[x] = IF x \in {"at", "status", "todo"} THEN c[x] ELSE s[x]
  BY ONLY <1>1, ChangedIs
<1> HIDE DEF r
<1>3. /\ r.n = s.n /\ r.cmd = "run" /\ r.at = "write" /\ r.then = "exit" /\ r.status = status /\ r.todo = todo
      /\ r.seen = s.seen
  BY <1>1, <1>2, RunIs DEF Fields
<1>4. \A i \in 1 .. Len(todo) : WriteHolds(r, todo[i])
  <2> DEFINE x == [cmd |-> "run", n |-> s.n, status |-> status]
  <2>1. x.cmd = r.cmd /\ x.n = r.n /\ x.status = r.status
    BY <1>3
  <2>2. \A i \in 1 .. Len(todo) : WriteHolds(x, todo[i])
    OBVIOUS
  <2> HIDE DEF x
  <2> QED
    BY <2>1, <2>2, SameWrites
<1>5. Unused(disk, r.n) /\ Nil \notin Refused
  BY <1>3, RunIs DEF DailyAssumption, Refused
<1>6. HeadHolds(disk, r)
  BY <1>3 DEF HeadHolds
<1>7. WritesHold(disk, r)
  BY <1>3, <1>4, <1>5, <1>6 DEF WritesHold, Unused
<1>8. ProcHolds(disk, r)
  BY <1>2, <1>3, <1>7, RunIs DEF ProcHolds, RunHolds, Places, Asking
<1> QED
  BY <1>1, <1>8, RunIs, ByStep DEF r

\* It ends with nothing to read.
LEMMA FinishKeeps ==
  ASSUME DailyAssumption, IInv, NEW p \in Callers, proc[p].cmd = "run", proc[p].at \in Asking,
         NEW status, Step(p, Finish(p, status))
  PROVE  IInv'
<1> DEFINE w == Record(p, status)
<1>1. w.file = RunJson(proc[p].n) /\ w.val = status
  BY DEF Record, Over
<1>2. Step(p, [at |-> "write", status |-> status, todo |-> <<w>>])
  BY DEF Finish
<1> HIDE DEF w
<1>3. WriteHolds([cmd |-> "run", n |-> proc[p].n, status |-> status], w)
  BY <1>1, Names DEF WriteHolds
<1>4. IsSequence(<<w>>) /\ <<w>> # <<>> /\ Len(<<w>>) = 1 /\ <<w>>[1] = w
  BY OneWrite
<1>5. HeadHolds(disk, [todo |-> <<w>>, seen |-> proc[p].seen, n |-> proc[p].n])
  BY <1>1, Names DEF HeadHolds
<1> DEFINE todo == <<w>>
<1> HIDE DEF todo
<1>6. IsSequence(todo) /\ todo # <<>> /\ Len(todo) = 1 /\ todo[1] = w
  BY <1>4 DEF todo
<1>7. Step(p, [at |-> "write", status |-> status, todo |-> todo]) /\ HeadHolds(disk, [todo |-> todo, seen |-> proc[p].seen, n |-> proc[p].n])
  BY <1>2, <1>5 DEF todo
<1>8. /\ \A i \in 1 .. Len(todo) : WriteHolds([cmd |-> "run", n |-> proc[p].n, status |-> status], todo[i])
      /\ \A i \in 2 .. Len(todo) : todo[i].how \notin {"new", "absent"} => ~Handmade(todo[i].file)
  BY <1>3, <1>6
<1> QED
  BY <1>6, <1>7, <1>8, RunWrites

\* A first write, some more, and two at the end.
Listed(list, a, mid, b, c) ==
  /\ IsSequence(list) /\ list # <<>> /\ list[1] = a
  /\ \A i \in 2 .. Len(list) : list[i] \in {b, c} \/ \E m \in 1 .. Len(mid) : list[i] = mid[m]

LEMMA ListIs ==
  ASSUME NEW a, NEW k \in Nat, NEW V, NEW mid \in Seq(V), Len(mid) = k, NEW b, NEW c,
         NEW one, one = <<a>>, NEW two, two = <<b, c>>, NEW list, list = (one \o mid) \o two
  PROVE  Listed(list, a, mid, b, c)
<1> DEFINE W == {a, b, c} \cup V
           half == one \o mid
<1>1. one \in Seq(W) /\ Len(one) = 1 /\ one[1] = a
  OBVIOUS
<1>2. two \in Seq(W) /\ Len(two) = 2 /\ two[1] = b /\ two[2] = c
  OBVIOUS
<1>3. mid \in Seq(W) /\ Len(mid) = k
  <2>1. V \subseteq W
    OBVIOUS
  <2> HIDE DEF W
  <2> QED
    BY <2>1
<1> HIDE DEF W
<1>0. list = half \o two
  BY DEF half
<1>4. half \in Seq(W) /\ Len(half) = 1 + k /\ \A i \in 1 .. 1 + k : half[i] = IF i <= 1 THEN one[i] ELSE mid[i - 1]
  <2>1. /\ half \in Seq(W) /\ Len(half) = Len(one) + Len(mid)
        /\ \A i \in 1 .. Len(one) + Len(mid) : half[i] = IF i <= Len(one) THEN one[i] ELSE mid[i - Len(one)]
    BY ONLY <1>1, <1>3, ConcatProperties
  <2> HIDE DEF half
  <2> QED
    BY ONLY <1>1, <1>3, <2>1
<1> HIDE DEF half
<1>5. /\ list \in Seq(W) /\ Len(list) = 1 + k + 2
      /\ \A i \in 1 .. 1 + k + 2 : list[i] = IF i <= 1 + k THEN half[i] ELSE two[i - (1 + k)]
  <2>1. /\ list \in Seq(W) /\ Len(list) = Len(half) + Len(two)
        /\ \A i \in 1 .. Len(half) + Len(two) : list[i] = IF i <= Len(half) THEN half[i] ELSE two[i - Len(half)]
    BY ONLY <1>0, <1>2, <1>4, ConcatProperties
  <2> QED
    BY ONLY <1>2, <1>4, <2>1
<1>6. list # <<>> /\ list[1] = a
  <2>1. 1 \in 1 .. 1 + k + 2 /\ 1 \in 1 .. 1 + k /\ 1 <= 1 + k
    OBVIOUS
  <2>2. list[1] = half[1]
    BY ONLY <1>5, <2>1
  <2>3. half[1] = one[1]
    BY ONLY <1>4, <2>1
  <2>4. list # <<>>
    BY <1>5
  <2> QED
    BY <1>1, <2>2, <2>3, <2>4
<1>7. ASSUME NEW i \in 2 .. Len(list) PROVE list[i] \in {b, c} \/ \E m \in 1 .. k : list[i] = mid[m]
  <2>1. i \in 2 .. 1 + k + 2 /\ i \in 1 .. 1 + k + 2
    BY <1>5
  <2>2. CASE i <= 1 + k
    <3>1. i - 1 \in 1 .. k /\ i \in 1 .. 1 + k /\ ~(i <= 1)
      BY <2>1, <2>2
    <3>2. list[i] = half[i] /\ half[i] = mid[i - 1]
      BY ONLY <1>4, <1>5, <2>1, <2>2, <3>1
    <3> QED
      BY <3>1, <3>2
  <2>3. CASE ~(i <= 1 + k)
    <3>1. i - (1 + k) \in {1, 2}
      BY <2>1, <2>3
    <3>2. list[i] = two[i - (1 + k)]
      BY <1>5, <2>1, <2>3
    <3> QED
      BY <3>1, <3>2, <1>2
  <2> QED
    BY <2>2, <2>3
<1>8. IsSequence(list)
  BY <1>5 DEF IsSequence
<1> QED
  BY <1>6, <1>7, <1>8 DEF Listed

\* It has its conversation: the page, the places, conversation.json, its record.
LEMMA DraftKeeps ==
  ASSUME DailyAssumption, IInv, NEW p \in Callers, proc[p].cmd = "run", proc[p].at \in {"page", "talk"},
         NEW target, Step(p, Draft(p, target)),
         proc[p].seen = Nil \/ target # "main" \/ proc[p].seen.hand = FALSE
  PROVE  IInv'
<1> DEFINE s == proc[p]
           n == s.n
           x == [cmd |-> "run", n |-> n, status |-> "completed"]
           places == OfKind(s.claims, "place")
           Nth(m) == s.claims[CHOOSE i \in places : Cardinality({j \in places : j < i}) = m - 1]
           file == IF target = "main" THEN PageMd ELSE AsideMd(n)
           first == Over(file, Text(n))
           second == [m \in 1 .. Cardinality(places) |-> Absent(PlaceMd(Nth(m).slug), Text(n))]
           third == Over(TalkJson, Talk(p, target, s.claims))
           last == Record(p, "completed")
           todo == <<first>> \o second \o <<third, last>>
<1>1. todo = Drafts(p, target)
  BY DEF Drafts
<1>2. RunHolds(disk, s) /\ Unused(disk, n) /\ n \in 1 .. MaxCalls /\ s.at \in Asking
  BY RunIs DEF Asking
<1>3. ClaimsHold(s.claims, s.have)
  BY <1>2 DEF RunHolds
<1>4. Cardinality(places) \in Nat
  <2>1. places \in SUBSET DOMAIN s.claims /\ IsFiniteSet(DOMAIN s.claims)
    BY <1>3 DEF OfKind, ClaimsHold
  <2> HIDE DEF places
  <2> QED
    BY <2>1, FS_Subset, FS_CardinalityType
<1>5. x.cmd = "run" /\ x.n = n /\ x.status = "completed"
  OBVIOUS
<1>6. /\ first.file = file /\ first.val = Text(n) /\ first.how = "over"
      /\ Text(n).by = n /\ Text(n).hand = FALSE
      /\ "by" \in DOMAIN Text(n)
  BY DEF Over, Text
<1>7. file = PageMd \/ file = AsideMd(n)
  OBVIOUS
<1> HIDE DEF x
<1>8. WriteHolds(x, first)
  <2> HIDE DEF first, file
  <2> QED
    BY <1>5, <1>6, <1>7, Names DEF WriteHolds
<1>9. \A m \in 1 .. Cardinality(places) : WriteHolds(x, second[m]) /\ second[m].how = "absent"
  <2> TAKE m \in 1 .. Cardinality(places)
  <2> DEFINE slug == Nth(m).slug
  <2>1. second[m].file = PlaceMd(slug) /\ second[m].val = Text(n) /\ second[m].how = "absent"
    BY DEF Absent
  <2>2. /\ Handmade(PlaceMd(slug)) /\ PlaceMd(slug) # CaptureMd /\ PlaceMd(slug) # TalkJson
        /\ \A k : PlaceMd(slug) # RunJson(k) /\ PlaceMd(slug) # AsideMd(k)
    BY DEF Handmade, PlaceMd, CaptureMd, TalkJson, RunJson, AsideMd
  <2> HIDE DEF second, slug
  <2> QED
    BY <1>5, <1>6, <2>1, <2>2 DEF WriteHolds
<1>10. TalkHolds(Talk(p, target, s.claims))
  <2> DEFINE t == Talk(p, target, s.claims)
  <2>1. /\ t.cap = s.cap /\ t.recall = s.recall /\ t.have = s.have /\ t.claims = s.claims
        /\ t.hash = IF target = Nil THEN Nil ELSE Text(n)
    BY DEF Talk
  <2> HIDE DEF t
  <2>2. t.hash # Nil => t.hash.hand = FALSE
    BY <2>1, <1>6
  <2> QED
    BY <1>2, <1>3, <2>1, <2>2 DEF TalkHolds, RunHolds, Asking, t
<1>11. WriteHolds(x, third) /\ ~Handmade(third.file)
  <2>1. third.file = TalkJson /\ third.val = Talk(p, target, s.claims)
    BY DEF Over
  <2> HIDE DEF third
  <2> QED
    BY <1>5, <1>10, <2>1, Names DEF WriteHolds
<1>12. WriteHolds(x, last) /\ ~Handmade(last.file)
  <2>1. last.file = RunJson(n) /\ last.val = "completed"
    BY DEF Record, Over
  <2> HIDE DEF last
  <2> QED
    BY <1>5, <2>1, Names DEF WriteHolds
<1>13. /\ IsSequence(todo) /\ todo # <<>> /\ todo[1] = first
       /\ \A i \in 2 .. Len(todo) :
            todo[i] \in {third, last} \/ \E m \in 1 .. Cardinality(places) : todo[i] = second[m]
  <2>1. second = [m \in 1 .. Cardinality(places) |-> second[m]]
    OBVIOUS
  <2> HIDE DEF second, first, third, last, places, todo
  <2>2. todo = <<first>> \o second \o <<third, last>>
    BY DEF todo
  <2> DEFINE k == Cardinality(places)
             V == {second[m] : m \in 1 .. k}
  <2>5. k \in Nat
    BY <1>4
  <2>6. second \in [1 .. k -> V]
    BY <2>1
  <2> HIDE DEF k, V
  <2>3. k \in Nat /\ second \in Seq(V) /\ Len(second) = k
    BY ONLY <2>5, <2>6
  <2> DEFINE one == <<first>>
             two == <<third, last>>
  <2>4. one = <<first>> /\ two = <<third, last>> /\ todo = (one \o second) \o two
    BY <2>2
  <2> HIDE DEF one, two
  <2>7. Listed(todo, first, second, third, last)
    BY ONLY <2>3, <2>4, ListIs
  <2> QED
    BY ONLY <2>3, <2>7 DEF k, Listed
<1>14. HeadHolds(disk, [todo |-> todo, seen |-> s.seen, n |-> n])
  <2>1. target # "main" => file = AsideMd(n) /\ disk[file] = Nil
    BY <1>2 DEF Unused
  <2> DEFINE h == [todo |-> todo, seen |-> s.seen, n |-> n]
  <2>2. h.todo[1] = first /\ h.seen = s.seen /\ h.n = n
    BY <1>13
  <2> HIDE DEF h, first, todo, file
  <2>3. HeadHolds(disk, h)
    BY <1>6, <2>1, <2>2 DEF HeadHolds
  <2> QED
    BY <2>3 DEF h
<1>15. Step(p, [at |-> "write", status |-> "completed", todo |-> todo])
  BY <1>1 DEF Draft
<1> HIDE DEF todo, first, second, third, last, places
<1>16. \A i \in 1 .. Len(todo) : WriteHolds(x, todo[i])
  <2> TAKE i \in 1 .. Len(todo)
  <2>1. i = 1 \/ i \in 2 .. Len(todo)
    OBVIOUS
  <2> QED
    BY <1>8, <1>9, <1>11, <1>12, <1>13, <2>1
<1>17. \A i \in 2 .. Len(todo) : todo[i].how \notin {"new", "absent"} => ~Handmade(todo[i].file)
  BY <1>9, <1>11, <1>12, <1>13
<1> QED
  BY <1>2, <1>13, <1>14, <1>15, <1>16, <1>17, RunWrites DEF x

LEMMA RunBeginKeeps == ASSUME DailyAssumption, IInv, NEW p \in Callers, RunBegin(p) PROVE IInv'
<1> DEFINE s == proc[p]
           cap == CaptureRead
<1>1. s.cmd = "run" /\ s.at = "start"
  BY DEF RunBegin, Is
<1>2. s.at \in Asking /\ RunHolds(disk, s) /\ s.seen = Nil /\ s.recall = 0 /\ Unused(disk, s.n) /\ s.then = "exit"
  BY <1>1, RunIs DEF RunHolds, Asking
<1>3. CASE s.mode = "no_new_input"
  <2> DEFINE talk == [Talk(p, Nil, NoAnswer) EXCEPT !.cap = cap]
             a == Over(TalkJson, talk)
             b == Record(p, "completed")
             todo == <<a, b>>
  <2>1. Step(p, [at |-> "write", status |-> "completed", todo |-> todo])
    BY <1>3 DEF RunBegin
  <2>2. talk.full = FALSE /\ talk.hash = Nil
    BY DEF Talk
  <2>3. a.file = TalkJson /\ a.val = talk /\ b.file = RunJson(s.n) /\ b.val = "completed"
    BY DEF Over, Record
  <2> HIDE DEF talk, a, b
  <2>4. TalkHolds(talk)
    BY <2>2 DEF TalkHolds
  <2> DEFINE x == [cmd |-> "run", n |-> s.n, status |-> "completed"]
  <2>5. x.cmd = "run" /\ x.n = s.n /\ x.status = "completed"
    OBVIOUS
  <2> HIDE DEF x
  <2>6. WriteHolds(x, a) /\ WriteHolds(x, b) /\ ~Handmade(a.file) /\ ~Handmade(b.file)
    BY <2>3, <2>4, <2>5, Names DEF WriteHolds
  <2>7. todo \in Seq({a, b}) /\ Len(todo) = 2 /\ todo[1] = a /\ todo[2] = b
    OBVIOUS
  <2> HIDE DEF todo
  <2>8. IsSequence(todo) /\ todo # <<>>
    BY <2>7 DEF IsSequence
  <2>9. \A i \in 1 .. Len(todo) : WriteHolds(x, todo[i]) /\ ~Handmade(todo[i].file)
    BY <2>6, <2>7
  <2>10. HeadHolds(disk, [todo |-> todo, seen |-> s.seen, n |-> s.n])
    BY <2>6, <2>7 DEF HeadHolds
  <2>11. \A i \in 2 .. Len(todo) : todo[i].how \notin {"new", "absent"} => ~Handmade(todo[i].file)
    BY <2>7, <2>9
  <2> QED
    BY <1>1, <1>2, <2>1, <2>8, <2>9, <2>10, <2>11, RunWrites DEF x
<1>4. CASE s.mode # "no_new_input" /\ (cap = Nil \/ (cap # Nil /\ cap.author # "human"))
  BY <1>1, <1>2, <1>4, FinishKeeps DEF RunBegin
<1>5. CASE s.mode # "no_new_input" /\ ~(cap = Nil \/ (cap # Nil /\ cap.author # "human"))
  <2> DEFINE c == [at |-> "recall", cap |-> cap]
             r == Changed(s, c)
  <2>1. Step(p, c)
    BY <1>5 DEF RunBegin
  <2>2. DOMAIN c = {"at", "cap"} /\ c["at"] = "recall" /\ c["cap"] = cap /\ cap.author = "human" /\ DOMAIN s = Fields
    BY <1>1, <1>2, <1>5, RunIs
  <2> HIDE DEF c, cap
  <2>3. DOMAIN r = Fields /\ \A x \in Fields : r[x] = IF x \in {"at", "cap"} THEN c[x] ELSE s[x]
    BY ONLY <2>2, ChangedIs
  <2> HIDE DEF r
  <2>4. /\ r.n = s.n /\ r.cmd = "run" /\ r.at = "recall" /\ r.then = "exit" /\ r.cap.author = "human"
        /\ r.seen = Nil /\ r.recall = 0
    BY <1>1, <1>2, <2>2, <2>3 DEF Fields
  <2>5. RunHolds(disk, r)
    BY <1>2, <2>4 DEF RunHolds, Asking
  <2> QED
    BY <1>1, <1>2, <2>1, <2>2, <2>5, RunGoesOn DEF r, Asking
<1> QED
  BY <1>3, <1>4, <1>5

LEMMA RunRecallKeeps == ASSUME DailyAssumption, IInv, NEW p \in Callers, RunRecall(p) PROVE IInv'
<1> DEFINE s == proc[p]
           pin == s.cap.pin
<1>1. s.cmd = "run" /\ s.at = "recall"
  BY DEF RunRecall, Is
<1>2. /\ s.at \in Asking /\ RunHolds(disk, s) /\ s.seen = Nil /\ s.recall = 0 /\ Unused(disk, s.n)
      /\ s.then = "exit" /\ s.cap.author = "human" /\ DOMAIN s = Fields
  BY <1>1, RunIs DEF RunHolds, Asking
<1>3. CASE pin = 0
  <2> DEFINE c == [at |-> "sources"]
             r == Changed(s, c)
  <2>1. Step(p, c)
    BY <1>3 DEF RunRecall
  <2>2. DOMAIN c = {"at"} /\ c["at"] = "sources" /\ DOMAIN s = Fields
    BY <1>2
  <2> HIDE DEF c
  <2>3. DOMAIN r = Fields /\ \A x \in Fields : r[x] = IF x \in {"at"} THEN c[x] ELSE s[x]
    BY ONLY <2>2, ChangedIs
  <2> HIDE DEF r
  <2>4. /\ r.n = s.n /\ r.cmd = "run" /\ r.at = "sources" /\ r.then = "exit" /\ r.cap = s.cap
        /\ r.seen = Nil /\ r.recall = 0
    BY <1>1, <1>2, <2>2, <2>3 DEF Fields
  <2>5. RunHolds(disk, r)
    BY <1>2, <1>3, <2>4 DEF RunHolds, Asking
  <2> QED
    BY <1>1, <1>2, <2>1, <2>2, <2>5, RunGoesOn DEF r, Asking
<1>4. CASE pin # 0 /\ disk[RecallJson] # pin
  BY <1>1, <1>2, <1>4, FinishKeeps DEF RunRecall
<1>5. CASE pin # 0 /\ disk[RecallJson] = pin
  <2> DEFINE c == [at |-> "sources", recall |-> pin]
             r == Changed(s, c)
  <2>1. Step(p, c)
    BY <1>5 DEF RunRecall
  <2>2. DOMAIN c = {"at", "recall"} /\ c["at"] = "sources" /\ c["recall"] = pin /\ DOMAIN s = Fields
    BY <1>2
  <2> HIDE DEF c
  <2>3. DOMAIN r = Fields /\ \A x \in Fields : r[x] = IF x \in {"at", "recall"} THEN c[x] ELSE s[x]
    BY ONLY <2>2, ChangedIs
  <2> HIDE DEF r
  <2>4. /\ r.n = s.n /\ r.cmd = "run" /\ r.at = "sources" /\ r.then = "exit" /\ r.cap = s.cap
        /\ r.seen = Nil /\ r.recall = pin
    BY <1>1, <1>2, <2>2, <2>3 DEF Fields
  <2>5. RunHolds(disk, r)
    BY <1>2, <2>4 DEF RunHolds, Asking
  <2> QED
    BY <1>1, <1>2, <2>1, <2>2, <2>5, RunGoesOn DEF r, Asking
<1> QED
  BY <1>3, <1>4, <1>5

LEMMA RunSourcesKeeps == ASSUME DailyAssumption, IInv, NEW p \in Callers, RunSources(p) PROVE IInv'
<1> DEFINE s == proc[p]
<1>1. s.cmd = "run" /\ s.at = "sources"
  BY DEF RunSources, Is
<1>2. /\ s # NoProc /\ s.at \in Asking /\ RunHolds(disk, s) /\ s.seen = Nil /\ s.recall = s.cap.pin
      /\ Unused(disk, s.n) /\ s.then = "exit" /\ s.cap.author = "human" /\ DOMAIN s = Fields
  BY <1>1, RunIs DEF RunHolds, Asking
<1>3. CASE Step(p, Threw)
  BY <1>2, <1>3, ThrewKeeps
<1>4. CASE Step(p, Finish(p, "partial"))
  BY <1>1, <1>2, <1>4, FinishKeeps
<1>5. CASE Step(p, [at |-> "asked", have |-> Loaded]) /\ ~(Cardinality(Loaded) < MinSources)
  <2> DEFINE loaded == Loaded
             c == [at |-> "asked", have |-> loaded]
             r == Changed(s, c)
  <2>1. Step(p, c)
    BY <1>5
  <2>2. DOMAIN c = {"at", "have"} /\ c["at"] = "asked" /\ c["have"] = loaded /\ DOMAIN s = Fields
    BY <1>2
  <2>3. Cardinality(loaded) >= MinSources
    <3>1. IsFiniteSet(loaded)
      <4> DEFINE g == [i \in 1 .. MaxRecords |-> disk[SourceJson(i)].url]
                 T == {disk[SourceJson(i)].url : i \in 1 .. MaxRecords}
      <4>0. IsFiniteSet(1 .. MaxRecords)
        BY FS_Interval DEF DailyAssumption
      <4>1. g \in Surjection(1 .. MaxRecords, T)
        BY DEF Surjection
      <4>2. IsFiniteSet(T)
        BY ONLY <4>0, <4>1, FS_Surjection
      <4>3. \A f \in Files : f[1] = "source" => \E i \in 1 .. MaxRecords : f = SourceJson(i)
        BY DEF Files, SourceJson, CaptureMd, RecallJson, PageMd, TalkJson, PublicJson, TopicsJson, PlaceMd, AsideMd, RunJson
      <4>4. loaded \in SUBSET T
        BY <4>3 DEF Loaded, Sources, SourceFiles
      <4> QED
        BY <4>2, <4>4, FS_Subset
    <3>2. Cardinality(loaded) \in Nat /\ MinSources \in Nat
      BY <3>1, FS_CardinalityType DEF DailyAssumption
    <3> QED
      BY <1>5, <3>2
  <2> HIDE DEF c, loaded
  <2>4. DOMAIN r = Fields /\ \A x \in Fields : r[x] = IF x \in {"at", "have"} THEN c[x] ELSE s[x]
    BY ONLY <2>2, ChangedIs
  <2> HIDE DEF r
  <2>5. /\ r.n = s.n /\ r.cmd = "run" /\ r.at = "asked" /\ r.then = "exit" /\ r.cap = s.cap
        /\ r.seen = Nil /\ r.recall = s.recall /\ r.have = loaded
    BY <1>1, <1>2, <2>2, <2>4 DEF Fields
  <2>6. RunHolds(disk, r)
    BY <1>2, <2>3, <2>5 DEF RunHolds, Asking
  <2> QED
    BY <1>1, <1>2, <2>1, <2>2, <2>6, RunGoesOn DEF r, Asking
<1> QED
  BY <1>3, <1>4, <1>5 DEF RunSources

LEMMA RunAnswerKeeps == ASSUME DailyAssumption, IInv, NEW p \in Callers, RunAnswer(p) PROVE IInv'
<1> DEFINE s == proc[p]
<1>1. s.cmd = "run" /\ s.at = "asked"
  BY DEF RunAnswer, Is
<1>2. /\ s.at \in Asking /\ RunHolds(disk, s) /\ s.seen = Nil /\ s.recall = s.cap.pin /\ Unused(disk, s.n)
      /\ s.then = "exit" /\ s.cap.author = "human" /\ DOMAIN s = Fields /\ Cardinality(s.have) >= MinSources
  BY <1>1, RunIs DEF RunHolds, Asking
<1>3. CASE \E status \in {"failed", "partial"} : Step(p, Finish(p, status))
  BY <1>1, <1>2, <1>3, FinishKeeps
<1>4. CASE ~\E status \in {"failed", "partial"} : Step(p, Finish(p, status))
  <2>1. PICK out \in Outputs :
          LET kept == Kept(out, s.have) IN
          Step(p, IF DOMAIN kept = {} /\ out # <<>> THEN Finish(p, "partial") ELSE [at |-> "page", claims |-> kept])
    BY <1>4 DEF RunAnswer
  <2> DEFINE kept == Kept(out, s.have)
             c == [at |-> "page", claims |-> kept]
             r == Changed(s, c)
  <2>2. Step(p, c)
    BY <1>4, <2>1
  <2>3. ClaimsHold(kept, s.have)
    BY KeptHolds
  <2> HIDE DEF kept
  <2>4. DOMAIN c = {"at", "claims"} /\ c["at"] = "page" /\ c["claims"] = kept /\ DOMAIN s = Fields
    BY <1>2
  <2> HIDE DEF c
  <2>5. DOMAIN r = Fields /\ \A x \in Fields : r[x] = IF x \in {"at", "claims"} THEN c[x] ELSE s[x]
    BY ONLY <2>4, ChangedIs
  <2> HIDE DEF r
  <2>6. /\ r.n = s.n /\ r.cmd = "run" /\ r.at = "page" /\ r.then = "exit" /\ r.cap = s.cap
        /\ r.seen = Nil /\ r.recall = s.recall /\ r.have = s.have /\ r.claims = kept
    BY <1>1, <1>2, <2>4, <2>5 DEF Fields
  <2>7. RunHolds(disk, r)
    BY <1>2, <2>3, <2>6 DEF RunHolds, Asking
  <2> QED
    BY <1>1, <1>2, <2>2, <2>4, <2>7, RunGoesOn DEF r, Asking
<1> QED
  BY <1>3, <1>4

LEMMA RunPageKeeps == ASSUME DailyAssumption, IInv, NEW p \in Callers, RunPage(p) PROVE IInv'
<1> DEFINE s == proc[p]
<1>1. s.cmd = "run" /\ s.at = "page"
  BY DEF RunPage, Is
<1>2. /\ s.at \in Asking /\ RunHolds(disk, s) /\ s.seen = Nil /\ s.recall = s.cap.pin /\ Unused(disk, s.n)
      /\ s.then = "exit" /\ s.cap.author = "human" /\ DOMAIN s = Fields /\ Cardinality(s.have) >= MinSources
      /\ ClaimsHold(s.claims, s.have)
  BY <1>1, RunIs DEF RunHolds, Asking
<1>3. CASE disk[PageMd] = Nil
  BY <1>1, <1>2, <1>3, DraftKeeps DEF RunPage
<1>4. CASE disk[PageMd] # Nil
  <2> DEFINE page == disk[PageMd]
             c == [at |-> "talk", seen |-> page]
             r == Changed(s, c)
  <2>1. Step(p, c)
    BY <1>4 DEF RunPage
  <2> HIDE DEF page
  <2>2. DOMAIN c = {"at", "seen"} /\ c["at"] = "talk" /\ c["seen"] = page /\ DOMAIN s = Fields
    BY <1>2
  <2> HIDE DEF c
  <2>3. DOMAIN r = Fields /\ \A x \in Fields : r[x] = IF x \in {"at", "seen"} THEN c[x] ELSE s[x]
    BY ONLY <2>2, ChangedIs
  <2> HIDE DEF r
  <2>4. /\ r.n = s.n /\ r.cmd = "run" /\ r.at = "talk" /\ r.then = "exit" /\ r.cap = s.cap
        /\ r.recall = s.recall /\ r.have = s.have /\ r.claims = s.claims
    BY <1>1, <1>2, <2>2, <2>3 DEF Fields
  <2>5. RunHolds(disk, r)
    BY <1>2, <2>4 DEF RunHolds, Asking
  <2> QED
    BY <1>1, <1>2, <2>1, <2>2, <2>5, RunGoesOn DEF r, Asking
<1> QED
  BY <1>3, <1>4

LEMMA RunTalkKeeps == ASSUME DailyAssumption, IInv, NEW p \in Callers, RunTalk(p) PROVE IInv'
<1> DEFINE s == proc[p]
           target == IF Untouched(p) THEN "main" ELSE "aside"
<1>1. s.cmd = "run" /\ s.at = "talk" /\ s # NoProc
  BY RunIs DEF RunTalk, Is, Asking
<1>2. CASE disk[TalkJson] = Torn
  BY <1>1, <1>2, ThrewKeeps DEF RunTalk
<1>3. CASE disk[TalkJson] # Torn
  <2>1. Step(p, Draft(p, target))
    BY <1>3 DEF RunTalk
  <2>2. target # "main" \/ s.seen.hand = FALSE
    <3> SUFFICES ASSUME Untouched(p) PROVE s.seen.hand = FALSE
      OBVIOUS
    <3>1. disk[TalkJson] # Nil /\ disk[TalkJson].hash # Nil /\ disk[TalkJson].hash = s.seen
      BY DEF Untouched
    <3>2. TalkHolds(disk[TalkJson])
      BY <1>3, <3>1 DEF IInv, DiskHolds, Whole
    <3> QED
      BY <3>1, <3>2 DEF TalkHolds
  <2> HIDE DEF target
  <2> QED
    BY <1>1, <2>1, <2>2, DraftKeeps
<1> QED
  BY <1>2, <1>3

LEMMA RunningDayKeeps == ASSUME DailyAssumption, IInv, NEW p \in Callers, RunningDay(p) PROVE IInv'
  BY RunBeginKeeps, RunRecallKeeps, RunSourcesKeeps, RunAnswerKeeps, RunPageKeeps, RunTalkKeeps DEF RunningDay

-----------------------------------------------------------------------------
(* Status, the public view, the person's hand, death and the callers *)

LEMMA StatusKeeps == ASSUME IInv, NEW p \in Callers, Status(p) PROVE IInv'
<1> DEFINE c == [at |-> "exit", arg |-> IF disk[TalkJson] = Nil THEN 0 ELSE disk[TalkJson].by]
<1>1. proc[p] # NoProc /\ (Step(p, Threw) \/ Step(p, c))
  BY Started0 DEF Status, Is
<1>2. DOMAIN c = {"at", "arg"} /\ c["at"] = "exit"
  OBVIOUS
<1> HIDE DEF c
<1> QED
  BY <1>1, <1>2, ThrewKeeps, EndKeeps

LEMMA ExportKeeps == ASSUME IInv, NEW p \in Callers, Export(p) PROVE IInv'
<1> DEFINE w == Over(PublicJson, Public(disk[TalkJson]))
           c == [at |-> "write", todo |-> <<w>>]
<1>1. proc[p] # NoProc /\ proc[p].cmd = "export" /\ (Step(p, Threw) \/ Step(p, c))
  BY Started0 DEF Export, Is
<1>2. DOMAIN c = {"at", "todo"} /\ c["at"] = "write" /\ c["todo"] = <<w>> /\ w.file = PublicJson
  BY DEF Over
<1>3. ~Handmade(PublicJson) /\ PublicJson # TalkJson /\ \A m \in 1 .. MaxCalls : PublicJson # RunJson(m)
  BY DEF Handmade, PublicJson, TalkJson, RunJson
<1> HIDE DEF c, w
<1>4. CASE Step(p, c)
  BY <1>1, <1>2, <1>3, <1>4, DecidesOnOne
<1> QED
  BY <1>1, <1>4, ThrewKeeps

\* The person writes into what is there: whose text it is does not change.
LEMMA EditKeeps == ASSUME DailyAssumption, IInv, NEW f \in Files, Edit(f) PROVE IInv'
<1>1. /\ Handmade(f) /\ disk[f] # Nil /\ disk' = [disk EXCEPT ![f] = ByHand(f, disk[f])]
      /\ proc' = proc /\ calls' = calls /\ edits' = edits + 1
  BY DEF Edit
<1>2. \A g \in Files : disk'[g] = IF g = f THEN ByHand(f, disk[f]) ELSE disk[g]
  BY <1>1 DEF IInv
<1>3. f # CaptureMd => /\ "by" \in DOMAIN ByHand(f, disk[f])
                       /\ ByHand(f, disk[f]).by = IF Whole(disk[f]) THEN disk[f].by ELSE 0
  <2> SUFFICES ASSUME f # CaptureMd
               PROVE  /\ "by" \in DOMAIN ByHand(f, disk[f])
                      /\ ByHand(f, disk[f]).by = IF Whole(disk[f]) THEN disk[f].by ELSE 0
    OBVIOUS
  <2>1. CASE Whole(disk[f])
    <3>1. "by" \in DOMAIN disk[f]
      BY <1>1, <2>1 DEF IInv, DiskHolds
    <3> QED
      BY <2>1, <3>1 DEF ByHand
  <2>2. CASE ~Whole(disk[f])
    BY <2>2 DEF ByHand
  <2> QED
    BY <2>1, <2>2
<1> DEFINE v == ByHand(f, disk[f])
<1> HIDE DEF v
<1>4. \A m \in 1 .. MaxCalls : \A g \in Files : ByIn(disk', g, m) => ByIn(disk, g, m)
  BY <1>1, <1>2, <1>3 DEF ByIn, v
<1>5. \A m \in 1 .. MaxCalls : /\ disk'[RunJson(m)] = disk[RunJson(m)]
                               /\ disk[AsideMd(m)] = Nil => disk'[AsideMd(m)] = Nil
                               /\ NothingBy(disk, m) => NothingBy(disk', m)
  BY <1>1, <1>2, <1>4, Names DEF NothingBy
<1>6. disk'[TalkJson] = disk[TalkJson]
  BY <1>1, <1>2, Names
<1>7. \A p \in Callers : ProcHolds(disk', proc'[p])
  <2> TAKE p \in Callers
  <2>1. ProcHolds(disk, proc[p]) /\ (proc[p] # NoProc => proc[p].n \in 1 .. MaxCalls)
    BY ProcIs DEF IInv
  <2>2. proc[p] # NoProc => Spares(disk, disk', proc[p].n)
    BY <1>5, <2>1 DEF Spares
  <2> QED
    BY <1>1, <2>1, <2>2, SparedHolds
<1>8. Numbered'
  <2>1. \A n \in calls + 1 .. MaxCalls : Unused(disk', n)
    <3> TAKE n \in calls + 1 .. MaxCalls
    <3>1. n \in 1 .. MaxCalls /\ Unused(disk, n)
      BY DEF IInv, Numbered
    <3> QED
      BY <1>5, <3>1 DEF Unused
  <2> QED
    BY <1>1, <2>1 DEF IInv, Numbered
<1>9. DiskHolds'
  <2>1. \A g \in Files : Handmade(g) /\ g # CaptureMd /\ Whole(disk'[g]) => "by" \in DOMAIN disk'[g]
    BY <1>2, <1>3 DEF IInv, DiskHolds
  <2> QED
    BY <1>5, <1>6, <2>1 DEF IInv, DiskHolds
<1> QED
  BY <1>1, <1>7, <1>8, <1>9 DEF IInv

LEMMA KillKeeps == ASSUME IInv, NEW p \in Callers, Kill(p) PROVE IInv'
<1> DEFINE s == proc[p]
           r == [s EXCEPT !.at = "exit", !.end = "killed"]
<1>1. s # NoProc /\ DOMAIN s = Fields
  BY Started0, ProcIs DEF Kill, Running
<1>2. proc' = [proc EXCEPT ![p] = r] /\ disk' = disk /\ calls' = calls /\ edits' = edits
  BY DEF Kill, IInv
<1>3. DOMAIN r = Fields /\ r.at = "exit" /\ r.n = s.n /\ r.cmd = s.cmd /\ r.then = s.then
  BY <1>1 DEF Fields
<1> HIDE DEF r
<1>4. ProcHolds(disk, r)
  BY <1>1, <1>3, Exits
<1> QED
  BY <1>1, <1>2, <1>3, <1>4, ByProc

\* A command starts under a number nothing was written under.
LEMMA StartKeeps ==
  ASSUME DailyAssumption, IInv, NEW p \in Callers, NEW c, NEW arg, NEW next, Start(p, c, arg, next),
         disk' = disk, edits' = edits
  PROVE  IInv'
<1> DEFINE r == Started(calls + 1, c, arg, next)
<1>1. calls \in Nat /\ calls < MaxCalls /\ MaxCalls \in Nat /\ calls' = calls + 1 /\ proc' = [proc EXCEPT ![p] = r]
  BY DEF Start, IInv, Numbered, DailyAssumption
<1>2. /\ DOMAIN r = Fields /\ r.n = calls + 1 /\ r.at = "start" /\ r.seen = Nil /\ r.recall = 0 /\ r.then = "exit"
      /\ r.cmd = c.cmd
  BY DEF Started, Fields
<1> HIDE DEF r
<1>3. r.n \in calls + 1 .. MaxCalls /\ r.n \in 1 .. MaxCalls
  BY <1>1, <1>2
<1>4. Unused(disk, r.n)
  BY <1>3 DEF IInv, Numbered
<1>5. ProcHolds(disk, r)
  BY <1>2, <1>3, <1>4 DEF ProcHolds, RunHolds, Places, Asking
<1>6. proc'[p] = r /\ (\A q \in Callers \ {p} : proc'[q] = proc[q]) /\ proc' = [q \in Callers |-> proc'[q]]
  BY <1>1 DEF IInv
<1>7. \A q \in Callers : ProcHolds(disk', proc'[q])
  BY <1>5, <1>6 DEF IInv
<1>8. Numbered'
  <2>1. calls' \in 0 .. MaxCalls
    BY <1>1
  <2>2. \A q \in Callers \ {p} : proc[q] # NoProc => proc[q].n \in Nat /\ proc[q].n <= calls
    BY ProcIs DEF IInv, Numbered
  <2>3. \A q \in Callers : proc'[q] # NoProc => proc'[q].n <= calls'
    BY <1>1, <1>2, <1>6, <2>2
  <2>4. \A q, o \in Callers : q # o /\ proc'[q] # NoProc /\ proc'[o] # NoProc => proc'[q].n # proc'[o].n
    <3> TAKE q, o \in Callers
    <3>1. CASE q = p /\ o # p
      BY <1>1, <1>2, <1>6, <2>2, <3>1
    <3>2. CASE q # p /\ o = p
      BY <1>1, <1>2, <1>6, <2>2, <3>2
    <3>3. CASE q # p /\ o # p
      BY <1>6, <3>3 DEF IInv, Numbered
    <3> QED
      BY <3>1, <3>2, <3>3
  <2>5. \A n \in calls' + 1 .. MaxCalls : Unused(disk', n)
    <3> TAKE n \in calls' + 1 .. MaxCalls
    <3>1. n \in calls + 1 .. MaxCalls
      BY <1>1
    <3> QED
      BY <3>1 DEF IInv, Numbered
  <2> QED
    BY <2>1, <2>3, <2>4, <2>5 DEF Numbered
<1>9. DiskHolds'
  BY DEF IInv, DiskHolds, NothingBy
<1> QED
  BY <1>6, <1>7, <1>8, <1>9 DEF IInv

LEMMA StopKeeps ==
  ASSUME IInv, NEW p \in Callers, proc' = [proc EXCEPT ![p] = NoProc], disk' = disk, calls' = calls, edits' = edits
  PROVE  IInv'
<1>1. proc'[p] = NoProc /\ (\A q \in Callers \ {p} : proc'[q] = proc[q]) /\ proc' = [q \in Callers |-> proc'[q]]
  BY DEF IInv
<1>2. \A q \in Callers : ProcHolds(disk', proc'[q])
  BY <1>1 DEF IInv, ProcHolds
<1>3. Numbered'
  BY <1>1 DEF IInv, Numbered
<1>4. DiskHolds'
  BY DEF IInv, DiskHolds, NothingBy
<1> QED
  BY <1>1, <1>2, <1>3, <1>4 DEF IInv

LEMMA NextHolds == ASSUME DailyAssumption, IInv, Next PROVE IInv'
<1>1. ASSUME NEW p \in Callers, Works(p) PROVE IInv'
  BY <1>1, LookKeeps, OpenKeeps, FillKeeps, CheckingInKeeps, CollectingKeeps, RunningDayKeeps, StatusKeeps, ExportKeeps
     DEF Works, Writing
<1>2. ASSUME NEW p \in Callers, Kill(p) PROVE IInv'
  BY <1>2, KillKeeps
<1>3. ASSUME NEW f \in Files, Edit(f) PROVE IInv'
  BY <1>3, EditKeeps
<1>4. "terminal" \in Callers /\ App \in Callers
  BY DEF Callers
<1>5. CASE TerminalStart
  <2>1. PICK c \in Commands["terminal"] : \E arg : Start("terminal", c, arg, Nil)
    BY <1>5 DEF TerminalStart
  <2> QED
    BY <1>4, <1>5, <2>1, StartKeeps DEF TerminalStart
<1>6. CASE TerminalEnds
  BY <1>4, <1>6, StopKeeps DEF TerminalEnds
<1>7. CASE AppAsk
  <2>1. PICK c \in Commands[App] : Perform(c)
    BY <1>7 DEF AppAsk
  <2>2. PICK arg, next : Start(App, c, arg, next)
    BY <2>1 DEF Perform
  <2> QED
    BY <1>4, <2>1, <2>2, StartKeeps DEF Perform
<1>8. CASE AppReceives
  BY <1>4, <1>8, StopKeeps DEF AppReceives
<1>9. CASE AppNext
  <2>1. CASE \E c, next : Start(App, c, 0, next) /\ disk' = disk /\ edits' = edits
    BY <1>4, <2>1, StartKeeps
  <2>2. CASE UNCHANGED <<disk, proc, calls, edits, deaths>>
    BY <2>2 DEF IInv, Numbered, DiskHolds, NothingBy
  <2> QED
    BY <1>9, <2>1, <2>2 DEF AppNext
<1> QED
  BY <1>1, <1>2, <1>3, <1>5, <1>6, <1>7, <1>8, <1>9 DEF Next

LEMMA StutterHolds == ASSUME IInv, UNCHANGED vars PROVE IInv'
  BY DEF vars, IInv, Numbered, DiskHolds, NothingBy

-----------------------------------------------------------------------------
(* What they say of the day *)

\* Only three steps change a file that was there: emptying it, filling it and
\* removing it; and none of them takes the person's words without one of the
\* two excuses.
LEMMA WordsSurvive == ASSUME DailyAssumption, IInv, Next PROVE HandsKept
<1> SUFFICES ASSUME NEW f \in Files, Hand(f), disk'[f] # disk[f] PROVE edits' # edits \/ LookedBefore(f)
  BY DEF HandsKept
<1>1. disk[f] # Nil /\ Handmade(f) /\ disk[f].hand
  BY DEF Hand, Whole
<1>2. ASSUME NEW p \in Callers, Open(p) PROVE LookedBefore(f)
  <2> DEFINE s == proc[p]
             w == Head(s.todo)
  <2>1. s.at = "write"
    BY <1>2 DEF Open
  <2>2. /\ DOMAIN s = Fields /\ HeadHolds(disk, s) /\ WriteHolds(s, w) /\ w = s.todo[1]
    BY <2>1, IsWriter DEF WritesHold, Writer
  <2>3. ~(w.how = "new" /\ disk[w.file] # Nil) /\ disk' = [disk EXCEPT ![w.file] = Torn] /\ w.how # "absent"
    BY <1>2 DEF Open, Step
  <2>4. f = w.file
    BY <2>3 DEF IInv
  <2>5. w.how # "new"
    BY <1>1, <2>3, <2>4
  <2>6. s.cmd \in {"run", "capture"}
    BY <1>1, <2>2, <2>4, <2>5 DEF WriteHolds
  <2>7. s.seen = Nil \/ s.seen.hand = FALSE
    BY <1>1, <2>2, <2>3, <2>4, <2>5 DEF HeadHolds
  <2>8. s.seen # disk[f]
    BY <1>1, <2>7
  <2>9. proc' = [proc EXCEPT ![p].at = "fill"]
    BY <1>2, <2>3 DEF Open
  <2>10. proc'[p].at = "fill"
    BY <2>2, <2>9 DEF IInv, Fields
  <2>11. proc'[p] # proc[p]
    BY <2>1, <2>10
  <2> QED
    BY <2>6, <2>8, <2>11 DEF LookedBefore
<1>3. ASSUME NEW p \in Callers, Fill(p) PROVE LookedBefore(f)
  <2> DEFINE s == proc[p]
             c == Onward(p)
  <2>1. s.at = "fill"
    BY <1>3 DEF Fill
  <2>2. DOMAIN s = Fields /\ s.then \in {"exit", "collect", "asked"}
    BY <2>1, IsWriter DEF Writer
  <2>3. proc'[p] = Changed(s, c)
    BY <1>3 DEF Fill, IInv
  <2>4. DOMAIN c = {"todo", "at"} /\ c["at"] \in {s.then, "write"}
    BY DEF Onward
  <2> HIDE DEF c
  <2>5. Changed(s, c)["at"] = c["at"]
    BY ONLY <2>2, <2>4, ChangedIs DEF Fields
  <2>6. proc'[p] # proc[p]
    BY <2>1, <2>2, <2>3, <2>4, <2>5
  <2> QED
    BY <2>1, <2>6 DEF LookedBefore
<1>4. ASSUME NEW p \in Callers, PruneNext(p) PROVE FALSE
  <2>1. disk' = [disk EXCEPT ![Head(proc[p].left)] = Nil] /\ proc[p].left # <<>> /\ proc[p].at = "prune"
    BY <1>4 DEF PruneNext, Step, Is
  <2>2. PICK S : proc[p].left \in Seq(S) /\ \A g \in S : g[1] = "source"
    BY <2>1, Started0, ProcIs DEF ProcHolds
  <2>3. Head(proc[p].left) \in S
    BY <2>1, <2>2
  <2>4. f # Head(proc[p].left)
    BY <1>1, <2>2, <2>3, Names
  <2> QED
    BY <2>1, <2>4 DEF IInv
<1>5. ASSUME NEW p \in Callers, Works(p), ~Open(p), ~Fill(p), ~PruneNext(p) PROVE FALSE
  <2>1. disk' = disk
    BY <1>5 DEF Works, Writing, CheckingIn, Collecting, RunningDay, Look, PrepareBegin, PrepareAnswer, ReadRecap,
       Calibrate, NewCapture, CollectBegin, Research, ResearchAnswer, CollectNext, CollectEnd, PruneBegin, RunBegin,
       RunRecall, RunSources, RunAnswer, RunPage, RunTalk, Status, Export, Step
  <2> QED
    BY <2>1
<1>6. ASSUME NEW p \in Callers, Kill(p) PROVE FALSE
  BY <1>6 DEF Kill
<1>7. ASSUME NEW g \in Files, Edit(g) PROVE edits' # edits
  BY <1>7 DEF Edit, IInv
<1>8. CASE TerminalStart \/ TerminalEnds \/ AppAsk \/ AppReceives \/ AppNext
  BY <1>8 DEF TerminalStart, TerminalEnds, AppAsk, Perform, AppReceives, AppNext
<1> QED
  BY <1>2, <1>3, <1>4, <1>5, <1>6, <1>7, <1>8 DEF Next

\* The invariant holds of every reachable state.
THEOREM Established == ASSUME DailyAssumption PROVE Spec => []IInv
<1>1. Init => IInv
  BY InitHolds
<1>2. IInv /\ [Next]_vars => IInv'
  BY NextHolds, StutterHolds
<1> QED
  BY <1>1, <1>2, PTL DEF Spec

\* A full conversation on record always stands on its gates: a capture by a
\* human, the recap it is pinned to, enough public pages, and no claim that does
\* not cite them; and a run on record as failed or partial leaves nothing to read:
\* whatever the provider answers and however many commands run, race or die.
THEOREM NothingEverWithoutTheGates == ASSUME DailyAssumption PROVE Spec => []NothingWithoutTheGates
<1>1. IInv => FullTalksPassTheGates
  BY DEF IInv, DiskHolds, FullTalksPassTheGates, TalkHolds, ClaimsHold
<1>2. IInv => RefusedRunsWriteNothing
  BY DEF IInv, DiskHolds, RefusedRunsWriteNothing, Refused, NothingBy, ByIn, By
<1>3. IInv => NothingWithoutTheGates
  BY <1>1, <1>2 DEF NothingWithoutTheGates
<1> QED
  BY <1>3, Established, PTL

\* Nothing takes the person's words but the person, or a command that looked
\* before they were there.
THEOREM HumanWordsAlwaysSurvive == ASSUME DailyAssumption PROVE Spec => HumanWordsSurvive
<1>1. IInv /\ [Next]_vars => [HandsKept]_vars
  BY WordsSurvive
<1> QED
  BY <1>1, Established, PTL DEF Spec, HumanWordsSurvive
=============================================================================
