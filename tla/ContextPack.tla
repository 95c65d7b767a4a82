---------------------------- MODULE ContextPack ----------------------------
(***************************************************************************)
(* The selection of a Context Pack, as pure operators: the kernel's first  *)
(* cut (context-kernel/src/context-pack.ts) and the role- and goal-focused *)
(* selection of the gateway (mcp/src/local-context-gateway.ts focusPack).  *)
(*                                                                         *)
(* An item is a record                                                     *)
(*   [ent, rev, hash, basis, at, present, run, seen, own, forced, words,   *)
(*    size, deps]                                                          *)
(* the entity with its current revision and record hash; when it occurred; *)
(* whether it is active with a readable body; the run it came from;        *)
(* whether the reading role was found to see it, and to have made it;      *)
(* whether it was asked for by name; how many words of the goal it         *)
(* contains; its size in characters; and the references that support it,   *)
(* each [ent, rev, hash] with 0 for "not pinned".  A scratch cue is an     *)
(* item of basis "scratch" without deps.                                   *)
(***************************************************************************)
EXTENDS Integers, Sequences, SequencesExt

NoPin == 0

\* Entities of a sequence of items, and the item of an entity.
Ents(items) == {items[i].ent : i \in DOMAIN items}
ItemOf(items, e) == items[CHOOSE i \in DOMAIN items : items[i].ent = e]

-----------------------------------------------------------------------------
(* The kernel's cut: newest first, as long as both limits hold *)

Newest(a, b) == a.at > b.at \/ (a.at = b.at /\ a.ent < b.ent)
Oldest(a, b) == a.at < b.at \/ (a.at = b.at /\ a.ent < b.ent)

Omit(cut, item, why) == [cut EXCEPT !.omitted = @ \cup {<<item.ent, why>>}]

Traced(item) ==
  IF item.basis = "scratch" THEN {} ELSE {[ent |-> item.ent, rev |-> item.rev, event |-> item.hash]}

Take(cut, item, limit) ==
  CASE ~item.present -> Omit(cut, item, "deleted")
    [] item.present /\ Len(cut.items) >= limit.items -> Omit(cut, item, "item_limit")
    [] item.present /\ Len(cut.items) < limit.items /\ cut.size + item.size > limit.size ->
         Omit(cut, item, "character_limit")
    [] OTHER -> [cut EXCEPT !.items = Append(@, item), !.size = @ + item.size,
                            !.trace = @ \cup Traced(item)]

\* assembleContextPack: the records newest first, then the cues oldest first.
Cut(records, cues, limit) ==
  FoldLeft(LAMBDA cut, item : Take(cut, item, limit),
           [items |-> <<>>, size |-> 0, omitted |-> {}, trace |-> {}],
           SetToSortSeq(records, Newest) \o SetToSortSeq(cues, Oldest))

\* The cut's items as the pack holds them, section by section.
BySection(items) ==
  LET section(basis) == SelectSeq(items, LAMBDA x : x.basis = basis) IN
    section("explicit") \o section("observed") \o section("inferred") \o section("system") \o section("scratch")

-----------------------------------------------------------------------------
(* Relevance: what was asked for, what the owner said, what shares a word   *)
(* with the goal, and what supports any of these                            *)

Weight(basis) ==
  CASE basis = "explicit" -> 20 [] basis = "observed" -> 8
    [] basis = "inferred" -> 3 [] OTHER -> 0

VisibleItems(items) == SelectSeq(items, LAMBDA x : x.basis # "scratch" /\ x.seen)

Wanted(item) == item.forced \/ item.basis = "explicit" \/ item.words > 0

DirectScore(item) ==
  (IF item.forced THEN 10000 ELSE 0) + item.words * 100
    + (IF item.own THEN 25 ELSE 0) + Weight(item.basis)

Knows(score, e) == e \in DOMAIN score

\* One pass of the queue's loop: what `parent` leans on is worth ten less
\* than it.  A record whose score rises after its turn is not visited again.
Spread(visible, state, parent) ==
  LET worth == IF state.score[parent] > 11 THEN state.score[parent] - 10 ELSE 1
      step(st, ref) ==
        IF \/ ref.ent \notin Ents(visible)
           \/ ref.rev \notin {NoPin, ItemOf(visible, ref.ent).rev}
           \/ Knows(st.score, ref.ent) /\ st.score[ref.ent] >= worth
        THEN st
        ELSE [score |-> [e \in DOMAIN st.score \cup {ref.ent} |->
                           IF e = ref.ent THEN worth ELSE st.score[e]],
              queue |-> IF Knows(st.score, ref.ent) THEN st.queue ELSE Append(st.queue, ref.ent)]
  IN FoldLeft(step, state, ItemOf(visible, parent).deps)

Relevance(visible) ==
  LET first == SelectSeq(visible, Wanted)
      start == [score |-> [e \in Ents(first) |-> DirectScore(ItemOf(first, e))],
                queue |-> [i \in DOMAIN first |-> first[i].ent]]
      turn(st, i) == IF i > Len(st.queue) THEN st ELSE Spread(visible, st, st.queue[i])
  IN FoldLeft(turn, start, [i \in DOMAIN visible |-> i]).score

-----------------------------------------------------------------------------
(* Candidates, their closed groups, and the greedy selection *)

CueScore(cue) == cue.words * 100 + 31

Ranked(a, b) ==
  \/ a.score > b.score
  \/ a.score = b.score /\ Newest(a, b)

With(item, score) ==
  [ent |-> item.ent, rev |-> item.rev, hash |-> item.hash, basis |-> item.basis, at |-> item.at,
   words |-> item.words, forced |-> item.forced, size |-> item.size, deps |-> item.deps,
   score |-> score]

Candidates(cut) ==
  LET visible == VisibleItems(cut.items)
      score == Relevance(visible)
      cues == SelectSeq(cut.items, LAMBDA x : x.basis = "scratch" /\ x.own /\ x.words > 0)
  IN SetToSortSeq({With(ItemOf(visible, e), score[e]) : e \in DOMAIN score}
                    \cup {With(cues[i], CueScore(cues[i])) : i \in DOMAIN cues}, Ranked)

\* A pinned reference is met only by that very revision and record.
Met(cands, ref) ==
  \E i \in DOMAIN cands :
    /\ cands[i].ent = ref.ent /\ cands[i].basis # "scratch"
    /\ ref.rev \in {NoPin, cands[i].rev} /\ ref.hash \in {NoPin, cands[i].hash}

Leans(cands, group) ==
  group \cup UNION {{ref.ent : ref \in ToSet(ItemOf(cands, e).deps)} : e \in group \cap Ents(cands)}

RootOnly(cands, root) == {root.ent}  \* mutant: a record is taken without its support

\* dependencyClosedGroup: everything the root leans on; {} when any of it is missing.
Group(cands, root) ==
  LET all == FoldLeft(LAMBDA g, i : Leans(cands, g), {root.ent}, cands)
  IN IF \A e \in all : e \in Ents(cands) /\ \A ref \in ToSet(ItemOf(cands, e).deps) : Met(cands, ref)
       THEN all ELSE {}

SizeOf(cands, ents) ==
  FoldLeft(LAMBDA sum, c : IF c.ent \in ents THEN sum + c.size ELSE sum, 0, cands)

Pick(cands, picked, root, limit) ==
  LET all == picked \cup Group(cands, root) IN
    IF Cardinality(all) > limit.items \/ SizeOf(cands, all) > limit.size THEN picked ELSE all

Select(cands, limit) ==
  FoldLeft(LAMBDA picked, root : Pick(cands, picked, root, limit), {},
           SelectSeq(cands, LAMBDA c : c.basis = "scratch" \/ Wanted(c)))

\* focusPack: what the pack holds, and what it says it left out.  `told` are
\* the entities the role may read, whatever the pack made of them.
Focus(cut, limit, told) ==
  LET cands == Candidates(cut)
      picked == Select(cands, limit)
      readable == Ents(SelectSeq(cut.items, LAMBDA x : x.seen /\ (x.basis # "scratch" \/ x.own)))
  IN [picked |-> {[ent |-> c.ent, rev |-> c.rev, hash |-> c.hash, basis |-> c.basis, size |-> c.size] :
                    c \in {x \in ToSet(cands) : x.ent \in picked}},
      trace |-> {t \in cut.trace : t.ent \in picked},
      omitted |-> {o \in cut.omitted : o[1] \in told}
                    \cup {<<e, "query_mismatch">> : e \in readable \ Ents(cands)}
                    \cup {<<e, "item_limit">> : e \in Ents(cands) \ picked}]
=============================================================================
