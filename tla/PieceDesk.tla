------------------------------ MODULE PieceDesk ------------------------------
(***************************************************************************)
(* One piece on the Desk, and the loose pages beside it: the agent, which  *)
(* edits the words and piece.json; the runner, which sets the piece as a   *)
(* page and cards (piece.mjs) and tells agents where each form stands; the *)
(* Mac app (PieceLibrary, DeskStore), from which the person signs,         *)
(* withdraws and keeps the public link; and the person's own hand.  All of *)
(* it is files, under no lock.                                             *)
(*                                                                         *)
(* A text stands for its own digest: two texts have one digest only if     *)
(* they are the same text.                                                 *)
(***************************************************************************)
EXTENDS Naturals, SequencesExt

CONSTANTS
  Nil,
  Texts, Paths,    \* what a file of the piece may say, and where it may be
  FirstTexts,      \* the files of the piece as the person first sees it
  RunnerKeyOf,     \* formKey: [channel names -> form keys], several to "web"
  AppKeyOf,        \* PieceLibrary.key: the same channels, by the app's rule
  Manifests,       \* piece.json: [canonical, posts (<<[channel, path]>>), revision]
  Words, Slots,    \* what a loose page may say; how many share a second and a slug
  MaxEdits, MaxRenders, MaxMarks, MaxPages   \* the bounds of an instance

\* What an instance must give; the module that instantiates assumes it.
PieceAssumption ==
  /\ \A m \in Manifests : m.canonical \in Paths /\ m.revision \in Nat
                          /\ m.posts \in Seq([channel : DOMAIN AppKeyOf, path : Paths])
  /\ DOMAIN RunnerKeyOf = DOMAIN AppKeyOf
  /\ FirstTexts \subseteq [Paths -> Texts \cup {Nil}]
  /\ Slots \in Nat \ {0} /\ Nil \notin Texts \cup Words

VARIABLES
  text,       \* [Paths -> Texts or Nil]
  manifest,
  approvals,  \* approvals/<form>.json: [Keys -> Nil or [by, digest, revision]]
  receipts,   \* receipts/<form>.json: [Keys -> Nil or the digest]
  built,      \* index.html and the cards: [Targets -> Nil or what it is]
  render,     \* the runner's render in progress
  app,        \* the piece as the app last read it
  pages,      \* captures/<day>/<second>-<slug>-<n>.md: [1..Slots -> Nil or a page]
  aside,      \* the app setting a page aside: what it has read
  signed,     \* every form and text the person has signed
  edits, renders, marks

disk == <<text, manifest, approvals, receipts, built>>
vars == <<disk, render, app, pages, aside, signed, edits, renders, marks>>

Keys == {"web"} \cup {RunnerKeyOf[c] : c \in DOMAIN RunnerKeyOf} \cup {AppKeyOf[c] : c \in DOMAIN AppKeyOf}
Targets == {"page", "cards"}
NoRender == [at |-> "done"]
NoRead == [slot |-> 0, page |-> Nil]

-----------------------------------------------------------------------------
(* Where each form stands, as the app sees it and as the runner tells it *)

\* PieceLibrary.state: a receipt for these bytes, or a human approval of them.
State(k, digest) ==
  IF digest = Nil THEN "draft"
  ELSE IF receipts[k] = digest THEN "published"
  ELSE IF approvals[k] = Nil \/ (approvals[k] # Nil /\ approvals[k].by # "human") THEN "draft"
  ELSE IF approvals[k].digest = digest THEN "signed" ELSE "changed"

\* PieceLibrary.load: the essay if its file is there, then each adaptation whose
\* file is there, under a key that is neither the essay's nor taken.
Candidates == {i \in DOMAIN manifest.posts : text[manifest.posts[i].path] # Nil}
\* The app keeps every letter and digit of the channel's name, the runner the
\* ASCII ones only: "Café" is filed as café.json, and looked for as caf.json.
AppKey(i) == AppKeyOf[manifest.posts[i].channel]
RunnerKey(i) == RunnerKeyOf[manifest.posts[i].channel]
FirstPost(k, C) == Min({i \in C : AppKey(i) = k})
AppForms ==
  LET essay == IF text[manifest.canonical] # Nil THEN {"web"} ELSE {}
      posts == {AppKey(i) : i \in Candidates} \ {"web"}
      path == [k \in essay \cup posts |->
                 IF k = "web" THEN manifest.canonical ELSE manifest.posts[FirstPost(k, Candidates)].path] IN
  [k \in essay \cup posts |-> [path |-> path[k], state |-> State(k, text[path[k]]), digest |-> text[path[k]]]]

Read == [forms |-> AppForms, revision |-> manifest.revision]

\* pieceStates: the first candidate of each key whose file can be read.
RunnerCandidates == <<[key |-> "web", path |-> manifest.canonical]>> \o
  [i \in DOMAIN manifest.posts |-> [key |-> RunnerKey(i), path |-> manifest.posts[i].path]]
Readable == {i \in DOMAIN RunnerCandidates : text[RunnerCandidates[i].path] # Nil}
\* mutant: the runner takes a human approval at its word
RunnerFormsTrusting ==
  [k \in {RunnerCandidates[i].key : i \in Readable} |->
     LET i == Min({j \in Readable : RunnerCandidates[j].key = k}) IN
     IF receipts[k] = text[RunnerCandidates[i].path] THEN "published"
     ELSE IF approvals[k] = Nil THEN "draft"
     ELSE IF approvals[k].by # "human" THEN "draft" ELSE "signed"]

RunnerForms ==
  [k \in {RunnerCandidates[i].key : i \in Readable} |->
     LET i == Min({j \in Readable : RunnerCandidates[j].key = k})
         digest == text[RunnerCandidates[i].path] IN
     IF receipts[k] = digest THEN "published"
     ELSE IF approvals[k] = Nil THEN "draft"
     ELSE IF approvals[k].by # "human" THEN "draft"
     ELSE IF approvals[k].digest = digest THEN "signed" ELSE "changed"]

Init ==
  /\ text \in FirstTexts /\ manifest \in Manifests
  /\ approvals = [k \in Keys |-> Nil] /\ receipts = [k \in Keys |-> Nil]
  /\ built = [t \in Targets |-> Nil] /\ render = NoRender
  /\ app = Read
  /\ pages = [n \in 1 .. Slots |-> Nil] /\ aside = NoRead
  /\ signed = {} /\ edits = 0 /\ renders = 0 /\ marks = 0

-----------------------------------------------------------------------------
(* The agent, and a hand-built page *)

Edits == edits < MaxEdits /\ edits' = edits + 1 /\ UNCHANGED <<render, app, pages, aside, signed, renders, marks>>

EditText(p) ==
  /\ Edits
  /\ \E v \in (Texts \cup {Nil}) \ {text[p]} : text' = [text EXCEPT ![p] = v]
  /\ UNCHANGED <<manifest, approvals, receipts, built>>

EditManifest ==
  /\ Edits
  /\ manifest' \in Manifests \ {manifest}
  /\ UNCHANGED <<text, approvals, receipts, built>>

\* An agent may keep a record of its own approval; it signs nothing.
AgentApproves(k) ==
  /\ Edits /\ approvals[k] = Nil
  /\ approvals' = [approvals EXCEPT ![k] = [by |-> "agent", digest |-> text[manifest.canonical], revision |-> manifest.revision]]
  /\ UNCHANGED <<text, manifest, receipts, built>>

BuildByHand(t) ==
  /\ Edits
  /\ built' = [built EXCEPT ![t] = [by |-> "hand", words |-> Nil, signed |-> FALSE, revision |-> 0]]
  /\ UNCHANGED <<text, manifest, approvals, receipts>>

-----------------------------------------------------------------------------
(* renderPiece *)

Rendering(change) ==
  /\ render' = change
  /\ UNCHANGED <<disk, app, pages, aside, signed, edits, renders, marks>>

RenderBegin ==
  /\ render = NoRender /\ renders < MaxRenders
  /\ renders' = renders + 1
  /\ \E force \in BOOLEAN :
       render' = [at |-> "words", force |-> force, path |-> manifest.canonical, revision |-> manifest.revision,
                  words |-> Nil, approvals |-> {}, seen |-> built]
  /\ UNCHANGED <<disk, app, pages, aside, signed, edits, marks>>

RenderWords ==
  /\ render.at = "words"
  /\ Rendering(IF text[render.path] = Nil THEN NoRender
               ELSE [render EXCEPT !.at = "approvals", !.words = text[render.path]])

\* readJsonFiles: every record in approvals/, whatever form it is for.
RenderApprovals ==
  /\ render.at = "approvals"
  /\ Rendering([render EXCEPT !.at = "look",
       !.approvals = {[form |-> k, by |-> approvals[k].by, digest |-> approvals[k].digest] :
                        k \in {j \in Keys : approvals[j] # Nil}}])

\* isOurs: nothing there, or a page with the generator's mark.
Ours(t) == built[t] = Nil \/ (built[t] # Nil /\ built[t].by = "house")

RenderLook ==
  /\ render.at = "look"
  /\ Rendering(IF render.force \/ \A t \in Targets : Ours(t)
               THEN [render EXCEPT !.at = "page", !.seen = built] ELSE NoRender)

\* mutant: any human approval of the essay
WebApprovalAny == \E a \in render.approvals : a.form = "web" /\ a.by = "human"

\* webApproval: a human approval of the essay, for exactly these words.
WebApproval == \E a \in render.approvals : a.form = "web" /\ a.digest = render.words /\ a.by = "human"

House(signs) == [by |-> "house", words |-> render.words, signed |-> signs, revision |-> render.revision]
RenderPage ==
  /\ render.at = "page"
  /\ built' = [built EXCEPT !["page"] = House(WebApproval)]
  /\ render' = [render EXCEPT !.at = "cards"]
  /\ UNCHANGED <<text, manifest, approvals, receipts, app, pages, aside, signed, edits, renders, marks>>

RenderCards ==
  /\ render.at = "cards"
  /\ built' = [built EXCEPT !["cards"] = House(FALSE)]
  /\ render' = NoRender
  /\ UNCHANGED <<text, manifest, approvals, receipts, app, pages, aside, signed, edits, renders, marks>>

-----------------------------------------------------------------------------
(* The person's marks, in the app *)

\* Every mark goes by the piece as the app last read it, and reads it again.
Mark == marks < MaxMarks /\ marks' = marks + 1 /\ UNCHANGED <<text, manifest, built, render, pages, aside, edits, renders>>
Listed(k) == k \in DOMAIN app.forms

Refresh ==
  /\ app' = Read /\ app' # app
  /\ UNCHANGED <<disk, render, pages, aside, signed, edits, renders, marks>>

\* sign: unless published; the digest is that of the file at this moment.
Sign(k) ==
  /\ Mark /\ Listed(k)
  /\ LET digest == text[app.forms[k].path] IN
     IF app.forms[k].state = "published" \/ digest = Nil
     THEN UNCHANGED <<approvals, signed>>
     ELSE /\ approvals' = [approvals EXCEPT ![k] = [by |-> "human", digest |-> digest, revision |-> app.revision]]
          /\ signed' = signed \cup {<<k, digest>>}
  /\ UNCHANGED receipts
  /\ app' = Read'

Withdraw(k) ==
  /\ Mark /\ Listed(k)
  /\ approvals' = IF app.forms[k].state = "published" THEN approvals ELSE [approvals EXCEPT ![k] = Nil]
  /\ UNCHANGED <<receipts, signed>>
  /\ app' = Read'

\* recordPublication: of the words the app saw signed, whatever is there now.
Receipt(k) == app.forms[k].digest

RecordPublication(k) ==
  /\ Mark /\ Listed(k)
  /\ receipts' = IF app.forms[k].state # "signed" THEN receipts ELSE [receipts EXCEPT ![k] = Receipt(k)]
  /\ UNCHANGED <<approvals, signed>>
  /\ app' = Read'

-----------------------------------------------------------------------------
(* Loose pages *)

Desk == UNCHANGED <<disk, render, app, signed, renders, marks>>

\* mutant: the first name
FreeAlways(n) == TRUE

\* capture: under the first name of its second that is free, never over one.
Free(n) == pages[n] = Nil

Capture(w) ==
  /\ Len(SelectSeq(pages, LAMBDA g : g # Nil)) < MaxPages
  /\ \E n \in 1 .. Slots :
       /\ Free(n) /\ \A m \in 1 .. n - 1 : ~Free(m)
       /\ pages' = [pages EXCEPT ![n] = [words |-> w, status |-> "loose"]]
  /\ UNCHANGED <<aside, edits>> /\ Desk

\* setAside reads the page, and writes it back with its status changed.
SetAsideRead(n) ==
  /\ aside = NoRead /\ pages[n] # Nil
  /\ pages[n].status = "loose"
  /\ aside' = [slot |-> n, page |-> pages[n]]
  /\ UNCHANGED <<pages, edits>> /\ Desk

SetAsideWrite ==
  /\ aside # NoRead
  /\ pages' = [pages EXCEPT ![aside.slot] = [aside.page EXCEPT !.status = "set_aside"]]
  /\ aside' = NoRead
  /\ UNCHANGED edits /\ Desk

\* The person rewrites a page, in an editor.
EditPage(n) ==
  /\ edits < MaxEdits /\ pages[n] # Nil
  /\ \E w \in Words \ {pages[n].words} : pages' = [pages EXCEPT ![n].words = w]
  /\ edits' = edits + 1
  /\ UNCHANGED aside /\ Desk

-----------------------------------------------------------------------------
Next ==
  \/ \E p \in Paths : EditText(p)
  \/ EditManifest
  \/ \E k \in Keys : AgentApproves(k) \/ Sign(k) \/ Withdraw(k) \/ RecordPublication(k)
  \/ \E t \in Targets : BuildByHand(t)
  \/ RenderBegin \/ RenderWords \/ RenderApprovals \/ RenderLook \/ RenderPage \/ RenderCards
  \/ Refresh
  \/ \E w \in Words : Capture(w)
  \/ \E n \in 1 .. Slots : SetAsideRead(n) \/ EditPage(n)
  \/ SetAsideWrite

Spec == Init /\ [][Next]_vars

-----------------------------------------------------------------------------
(* Properties *)

\* A page that carries the signature shows words the person signed for the web,
\* although the runner reads the words, the approvals and the page at three
\* moments (piece.mjs: "a valid approval names the web form and the exact
\* canonical words").
SignedPagesWereSigned ==
  \A t \in Targets : built[t] # Nil /\ built[t].signed => <<"web", built[t].words>> \in signed

\* A public link is kept only for words the person signed for that form.
ReceiptsWereSigned == \A k \in Keys : receipts[k] # Nil => <<k, receipts[k]>> \in signed

\* The two programs file the same adaptations under k.
FiledAlike(k) == \A i \in DOMAIN manifest.posts : AppKey(i) = k <=> RunnerKey(i) = k

\* The app and the runner, two programs, derive the same state of the essay, and
\* of every form the app lists that both file alike: whether a channel's name has
\* a letter that is not ASCII is all that can come between them.
ReadersAgree ==
  \A k \in DOMAIN AppForms :
    k = "web" \/ FiledAlike(k) => k \in DOMAIN RunnerForms /\ RunnerForms[k] = AppForms[k].state

\* What a person made is not replaced, except by the person: a page built by
\* hand only by a forced render, or one that looked before it was there; the
\* words of a loose page only by a set-aside that read it before an edit.
HandsKept ==
  /\ \A t \in Targets :
       built[t] # Nil /\ built[t].by = "hand" /\ built'[t] # built[t] =>
         render.force \/ render.seen[t] # built[t]
  /\ \A n \in 1 .. Slots :
       pages[n] # Nil /\ pages'[n] # pages[n] =>
         \/ edits' # edits
         \/ aside.slot = n /\ (aside.page = pages[n] => pages'[n].words = pages[n].words)
NothingHandmadeIsReplaced == [][HandsKept]_vars
=============================================================================
