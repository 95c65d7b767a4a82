-------------------------- MODULE MCContextGateway --------------------------
(* ContextGateway on small plans: two agents and the owner over one small   *)
(* ledger, and every small graph of records for the packs.                  *)
EXTENDS ContextGateway

CONSTANTS p, q, owner, system, writer, reader

MCRolesOf == p :> {writer} @@ q :> {writer}
MCRawLimit == [items |-> 4, size |-> 9]

RunOpened(r, role, a) ==
  [Blank EXCEPT !.ent = r, !.by = a, !.maker = a, !.kind = "open", !.phase = "open",
                !.role = role, !.goal = 1, !.bound = 2, !.key = <<"open", r>>]
Stated(e, at) == [Blank EXCEPT !.ent = e, !.basis = "explicit", !.key = <<"owner", at>>, !.at = at]
Noted(e, r, a, deps, at) ==
  [Blank EXCEPT !.ent = e, !.by = a, !.maker = a, !.origin = r, !.run = r, !.deps = deps,
                !.key = <<"append", -at>>, !.at = at]

\* Run 11 is the writers' run, run 12 the readers'; record 1 is the owner's,
\* record 2 the writers', record 3 the readers'.
Shared ==
  << RunOpened(11, writer, p), RunOpened(12, reader, q), Stated(1, 3),
     Noted(2, 11, p, <<Ref(1, 1, 3)>>, 4), Noted(3, 12, q, <<>>, 5) >>

Exact(e, r) == [ent |-> e, rev |-> r, exact |-> TRUE]
Loose(e) == [ent |-> e, rev |-> NoPin, exact |-> FALSE]

Write(op, e, expected, refs, mat) ==
  [op |-> op, run |-> 11, ent |-> e, expected |-> expected, refs |-> refs,
   human |-> {refs[n].ent : n \in DOMAIN refs} \cap {1}, key |-> mat, mat |-> mat, at |-> 6]
Checkpoint(expected) ==
  [op |-> "checkpoint", run |-> 11, expected |-> expected, refs |-> <<>>, key |-> 1, mat |-> 1]
Complete(mat) ==
  [op |-> "complete", run |-> 11, refs |-> <<Exact(2, 1)>>, key |-> 0, mat |-> mat]
Open(r) == [op |-> "open", run |-> r, role |-> writer, tokens |-> 2, refs |-> <<>>, key |-> r, mat |-> 1]
Assemble(refs, tokens) ==
  [op |-> "assemble", run |-> 11, role |-> writer, goal |-> 1, tokens |-> tokens, refs |-> refs]
Refresh(as, tokens) == [op |-> "refresh", run |-> 11, from |-> p, as |-> as, tokens |-> tokens, refs |-> <<>>]
Cue(at, expires, mat) ==
  [op |-> "cue", run |-> 11, refs |-> <<>>,
   cue |-> [ent |-> 7, run |-> 11, at |-> at, expires |-> expires, mat |-> mat]]
Search == [op |-> "search", run |-> 11, refs |-> <<>>]
GetIt(ref) == [op |-> "get", run |-> 11, refs |-> <<ref>>]
Changes == [op |-> "changes", run |-> 11, limit |-> 1, count |-> 0, refs |-> <<>>]

\* What p does: single operations with their retries, and reads around writes.
First2 ==
  { <<Write("append", 4, 0, <<Loose(1), Exact(2, 1)>>, 1), Write("append", 4, 0, <<Loose(1), Exact(2, 1)>>, 1)>>,
    <<Write("append", 4, 0, <<Exact(2, 1), Exact(3, 1)>>, 1), Write("append", 3, 1, <<>>, 2)>>,
    <<Write("append", 2, 1, <<Exact(1, 1)>>, 1), Write("append", 2, 1, <<Exact(1, 1)>>, 1)>>,
    <<Write("evidence", 4, 0, <<Loose(1)>>, 1), Write("append", 2, 2, <<Loose(4)>>, 3)>>,
    <<Checkpoint(0), Checkpoint(0)>>, <<Checkpoint(1), Checkpoint(1)>>,
    <<Complete(1), Complete(1)>>, <<Complete(1), Complete(2)>>,
    <<Open(13), Open(13)>>,
    <<GetIt(Exact(2, 1)), GetIt(Exact(3, 1))>>, <<GetIt(Loose(2)), GetIt(Loose(1))>>,
    <<Search>>, <<Cue(1, 2, 1), Cue(1, 2, 1)>>, <<Cue(2, 4, 1), Cue(2, 4, 1)>>,
    <<Write("append", 4, 0, <<Loose(3)>>, 1), GetIt(Loose(3))>>,
    <<Changes, Changes, Changes>> }
Second2 ==
  { <<Write("append", 2, 1, <<>>, 5)>>, <<Checkpoint(0)>>, <<Complete(1)>>, <<Complete(2)>>, <<Cue(1, 3, 2)>>,
    <<Refresh("given", 2)>>, <<Checkpoint(2)>>,
    <<Write("append", 5, 0, <<Loose(2)>>, 6), Changes>> }
MCActs ==
  { <<>>, <<[op |-> "delete", ent |-> 2]>>, <<[op |-> "restate", ent |-> 2]>>,
    <<[op |-> "correct", ent |-> 1], [op |-> "correct", ent |-> 2]>>,
    <<[op |-> "state", ent |-> 6], [op |-> "delete", ent |-> 1]>>,
    <<[op |-> "tick"], [op |-> "tick"]>>, <<[op |-> "delete", ent |-> 11]>>, <<[op |-> "checkpoint", ent |-> 11]>>,
    <<[op |-> "restate", ent |-> 3], [op |-> "checkpoint", ent |-> 12]>> }

Calls(one, two) == p :> one @@ q :> two

\* Packs take many looks: they are raced with what moves a record or a role, and
\* what must be refused or cannot be issued with one checkpoint alone.
Packs2 ==
  { <<Assemble(<<Exact(2, 1)>>, 2), Refresh("given", 1), Refresh("given", 2)>>,
    <<Cue(1, 3, 1), Assemble(<<Loose(2)>>, 2)>> }
Movers2 ==
  { <<Write("append", 2, 1, <<>>, 5)>>, <<Refresh("given", 2)>>, <<Checkpoint(0)>>, <<Checkpoint(2)>> }
Odd2 ==
  { <<Assemble(<<Exact(2, 1)>>, 2), Refresh("rewritten", 2), Refresh("foreign", 2), Refresh("misnamed", 2)>>,
    <<Assemble(<<Exact(2, 1), Exact(2, 1)>>, 2), Assemble(<<Exact(2, 1), Loose(2)>>, 2), Refresh("given", 2)>> }

RaceCalls ==
  {Calls(one, two) : one \in First2, two \in Second2} \cup
  {Calls(one, two) : one \in Packs2, two \in Movers2} \cup {Calls(one, <<Checkpoint(0)>>) : one \in Odd2}
RacePlans == [log : {Shared}, cues : {{}}, calls : RaceCalls, acts : MCActs]

\* Every ledger of three records, each the writers', the readers' or the
\* owner's, leaning on earlier ones it may see, by revision or not, about the
\* goal or not; then record 1 may be revised to lean on the later ones,
\* corrected by the owner, or corrected by the owner without its run.
Made(e, shape, deps) ==
  IF shape.home = owner THEN [Stated(e, e) EXCEPT !.words = shape.words]
  ELSE [Noted(e, IF shape.home = writer THEN 11 ELSE 12, p, deps, e) EXCEPT
          !.words = shape.words, !.size = IF e = 3 THEN 2 ELSE 1]
Pins(ents, pin) ==
  SetToSeq({Ref(e, IF pin THEN 1 ELSE NoPin, NoPin) : e \in ents})
Later1(l, deps) ==
  Append(l, [l[3] EXCEPT !.rev = 2, !.deps = Pins(deps, FALSE), !.at = 9, !.key = <<"append", -9>>])
Corrected1(l, run) ==
  Append(l, [Stated(1, 9) EXCEPT !.rev = 2, !.maker = l[3].maker, !.origin = run])

Graphs ==
  LET Shape(homes) == [home : homes, words : {0, 1}]
      legal(s, on) == {e \in DOMAIN on : on[e].home \in {owner, s.home}}
      plain(s1, s2, s3, d2, d3, pin) ==
        << RunOpened(11, writer, p), RunOpened(12, reader, q),
           Made(1, s1, <<>>), Made(2, s2, Pins(d2, TRUE)), Made(3, s3, Pins(d3, pin)) >>
      after(s1, s2, l) ==
        {l, Corrected1(l, l[3].origin)}
          \cup (IF s1.home = writer THEN {Corrected1(l, NoRun)}
                   \cup {Later1(l, d) : d \in SUBSET ({3} \cup {e \in {2} : s2.home # reader})} ELSE {})
  IN UNION {UNION {UNION {after(s1, s2, plain(s1, s2, s3, d2, d3, pin)) :
               d2 \in SUBSET legal(s2, <<s1>>), d3 \in SUBSET legal(s3, <<s1, s2>>), pin \in BOOLEAN} :
               s3 \in Shape({writer})} :
               s1 \in Shape({writer, owner}), s2 \in Shape({writer, reader, owner})}
GraphPlans ==
  [log : Graphs,
   cues : {{[ent |-> 7, run |-> 11, at |-> 1, recorded |-> 1, expires |-> 3, mat |-> 1, words |-> 1, size |-> 1]}},
   calls : {Calls(<<Assemble(<<Loose(e)>>, tokens)>>, <<>>) : e \in {1, 3}, tokens \in {1, 2}},
   acts : {<<>>}]

MCPlans == RacePlans \cup GraphPlans
=============================================================================
