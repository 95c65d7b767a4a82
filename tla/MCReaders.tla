----------------------------- MODULE MCReaders ------------------------------
(***************************************************************************)
(* The settings of Readers' parts.  Of a piece and of the loose pages, and *)
(* of an agent that reads X and one beside the app's own adapter, each has *)
(* what the other leaves alone.                                            *)
(***************************************************************************)
EXTENDS Readers, TLC

CONSTANTS r1, r2

\* One item has the words of every channel, and a piece that is revised.  Of
\* the letters of "Café" the runner's key keeps those that "Caf" has too.
AppKeys == [c \in {"Essay", "Caf", "Cafe'"} |-> CASE c = "Essay" -> "web" [] c = "Caf" -> "caf" [] OTHER -> "cafe'"]
RunnerKeys == [AppKeys EXCEPT !["Cafe'"] = "caf"]
Post(c, p) == [channel |-> c, path |-> p]
PieceManifests == {
  [canonical |-> "article.md", posts |-> <<Post("Caf", "post.md")>>, revision |-> 1],
  [canonical |-> "article.md", revision |-> 2,
   posts |-> <<Post("Essay", "post.md"), Post("Cafe'", "post.md"), Post("Caf", "article.md")>>]}
PieceTexts == {[p \in {"article.md", "post.md"} |-> IF p = "article.md" THEN "a" ELSE "b"]}

Note(t) == [text |-> t, items |-> {}, decision |-> {}]
ShelfInputs ==
  { [Note("b") EXCEPT !.items = {{"x"}}],
    [Note("d") EXCEPT !.decision = {{"x"}}],
    [Note("e") EXCEPT !.items = {{"x", "y"}}, !.decision = {{"y"}}],
    [Note("f") EXCEPT !.decision = {{}}] }

Row(x, history) == [f \in {"x", "history"} |-> IF f = "x" THEN x ELSE history]
RowsOf == [x |-> {Row("off", "off"), Row("@me", "off")}, history |-> {Row("off", "off"), Row("off", "")}]
FeedRows == UNION {RowsOf[p] : p \in FeedParts}
Day == [f \in {"x", "history"} |-> 1]

Ann == [as |-> "Ann", is |-> "ann", looks |-> TRUE]
OneAddress == [v \in {"v", "w"} |-> "ip"]
TypedWords == [v \in {"v", "w"} |-> IF v = "v" THEN {Ann} ELSE {[Ann EXCEPT !.as = "ann"], [Ann EXCEPT !.is = Nil]}]

Owners == [p \in {"p", "q", "r"} |-> IF p = "r" THEN "other" ELSE "tony"]

-----------------------------------------------------------------------------
SetInit == Init /\ (part \in FeedParts => mac.rows \in RowsOf[part])

Within ==
  /\ part = "piece" => UNCHANGED pages /\ edits' + marks' <= 3
  /\ part = "loose" => UNCHANGED <<text, manifest, approvals, receipts, built, render>>
  /\ part \in FeedParts => mac'.rows \in RowsOf[part]
  /\ part = "x" => spoils' + saves' <= 2
  /\ part = "history" => spoils' = 0 /\ feedAgent'.doing # "cue"
SetNext == Next /\ Within

SetSpec == SetInit /\ [][SetNext]_vars

\* The hub's two runs are interchangeable, and so are a session's two processes.
Symmetry == Permutations({r1, r2})
=============================================================================
