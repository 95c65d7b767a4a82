------------------------------ MODULE Readers -------------------------------
(***************************************************************************)
(* What several programs write and read, each in its own way.  The         *)
(* machines share nothing: a behaviour is of the one part that Init        *)
(* picked, and the variables of the others are Nil.  "loose" is PieceDesk  *)
(* too, and "history" FeedState, for the settings of MCReaders.            *)
(***************************************************************************)
EXTENDS Integers

CONSTANTS
  Absent, Nil, Torn,
  Texts, Paths, FirstTexts, RunnerKeyOf, AppKeyOf, Manifests, Words,    \* PieceDesk
  Slots, MaxEdits, MaxRenders, MaxMarks, MaxPages,
  Agent, Input, ItemId, Origin, MaxRecords, MaxDeaths,  \* CompanionLog
  Processes, MaxRuns, MaxThreads, MaxTurns, MaxEnds,    \* CompanionSession
  Feeds, Rows, ReceiptIds, CueIds, TTL, CueTTL,         \* FeedState
  Tolerance, MaxClock, MaxSaves, MaxSpoils,
  Run, Item, Source, Kind, Times, MaxSent, MaxRead,     \* HubFeed
  Visitors, IpOf, Typed, MaxAttempts, Window,           \* MailingList
  MaxRequests, MaxNow, MaxLeaves,
  Procs, OwnerOf, MaxCrashes, MaxSealed, MaxLosses      \* Workspace
VARIABLES part,
  text, manifest, approvals, receipts, built, render, app, pages,     \* PieceDesk
  aside, signed, edits, renders, marks,
  records, agent, temps, bases, deaths, told,                         \* CompanionLog
  session, messages, threads, desks, handed, runs, ends,              \* CompanionSession
  plan, feedReceipts, cues, mac, feedAgent, clock, saves, spoils,     \* FeedState
  log, flight, sent, last, seen,                                      \* HubFeed
  now, forms, requests, limits, list, leaves,                         \* MailingList
  home, key, sealed, procs, crashes, losses                           \* Workspace

Piece == INSTANCE PieceDesk
Companion == INSTANCE CompanionLog
Session == INSTANCE CompanionSession WITH procs <- desks
Feed == INSTANCE FeedState WITH receipts <- feedReceipts, agent <- feedAgent
Hub == INSTANCE HubFeed
Mail == INSTANCE MailingList
Home == INSTANCE Workspace WITH manifest <- home, deaths <- crashes, MaxDeaths <- MaxCrashes

ASSUME PartsAssumption ==
  /\ Piece!PieceAssumption /\ Companion!CompanionAssumption /\ Session!SessionAssumption
  /\ Feed!PlanAssumption /\ Hub!FeedAssumption /\ Mail!MailAssumption /\ Home!WorkspaceAssumption

-----------------------------------------------------------------------------
PieceParts == {"piece", "loose"}
FeedParts == {"x", "history"}
Parts == PieceParts \cup FeedParts \cup {"companion", "session", "hub", "mail", "workspace"}

PieceVars == <<text, manifest, approvals, receipts, built, render, app, pages, aside, signed, edits, renders, marks>>
LogVars == <<records, agent, temps, bases, deaths, told>>
FeedVars == <<plan, feedReceipts, cues, mac, feedAgent, clock, saves, spoils>>
HubVars == <<log, flight, sent, last, seen>>
MailVars == <<now, forms, requests, limits, list, leaves>>
HomeVars == <<home, key, sealed, procs, crashes, losses>>
SessionVars == <<session, messages, threads, desks, handed, runs, ends>>
vars == <<part, PieceVars, LogVars, FeedVars, HubVars, MailVars, HomeVars, SessionVars>>

NoPiece ==
  /\ text = Nil /\ manifest = Nil /\ approvals = Nil /\ receipts = Nil /\ built = Nil /\ render = Nil
  /\ app = Nil /\ pages = Nil /\ aside = Nil /\ signed = Nil /\ edits = Nil /\ renders = Nil /\ marks = Nil
NoLog == records = Nil /\ agent = Nil /\ temps = Nil /\ bases = Nil /\ deaths = Nil /\ told = Nil
NoFeed ==
  /\ plan = Nil /\ feedReceipts = Nil /\ cues = Nil /\ mac = Nil
  /\ feedAgent = Nil /\ clock = Nil /\ saves = Nil /\ spoils = Nil
NoHub == log = Nil /\ flight = Nil /\ sent = Nil /\ last = Nil /\ seen = Nil
NoMail == now = Nil /\ forms = Nil /\ requests = Nil /\ limits = Nil /\ list = Nil /\ leaves = Nil
NoHome == home = Nil /\ key = Nil /\ sealed = Nil /\ procs = Nil /\ crashes = Nil /\ losses = Nil
NoSession ==
  /\ session = Nil /\ messages = Nil /\ threads = Nil /\ desks = Nil
  /\ handed = Nil /\ runs = Nil /\ ends = Nil

Init ==
  /\ part \in Parts
  /\ IF part \in PieceParts THEN Piece!Init ELSE NoPiece
  /\ IF part = "companion" THEN Companion!Init ELSE NoLog
  /\ IF part \in FeedParts THEN Feed!Init ELSE NoFeed
  /\ IF part = "hub" THEN Hub!Init ELSE NoHub
  /\ IF part = "mail" THEN Mail!Init ELSE NoMail
  /\ IF part = "workspace" THEN Home!Init ELSE NoHome
  /\ IF part = "session" THEN Session!Init ELSE NoSession

Next ==
  /\ UNCHANGED part
  /\ \/ /\ part \in PieceParts /\ Piece!Next
        /\ UNCHANGED <<LogVars, FeedVars, HubVars, MailVars, HomeVars, SessionVars>>
     \/ /\ part = "companion" /\ Companion!Next
        /\ UNCHANGED <<PieceVars, FeedVars, HubVars, MailVars, HomeVars, SessionVars>>
     \/ /\ part = "session" /\ Session!Next
        /\ UNCHANGED <<PieceVars, LogVars, FeedVars, HubVars, MailVars, HomeVars>>
     \/ /\ part \in FeedParts /\ Feed!Next
        /\ UNCHANGED <<PieceVars, LogVars, HubVars, MailVars, HomeVars, SessionVars>>
     \/ /\ part = "hub" /\ Hub!Next
        /\ UNCHANGED <<PieceVars, LogVars, FeedVars, MailVars, HomeVars, SessionVars>>
     \/ /\ part = "mail" /\ Mail!Next
        /\ UNCHANGED <<PieceVars, LogVars, FeedVars, HubVars, HomeVars, SessionVars>>
     \/ /\ part = "workspace" /\ Home!Next
        /\ UNCHANGED <<PieceVars, LogVars, FeedVars, HubVars, MailVars, SessionVars>>

Spec == Init /\ [][Next]_vars

-----------------------------------------------------------------------------
\* PieceDesk's: no step replaces or loses what a human hand wrote.
PagesKept == [][(part \in PieceParts) => Piece!HandsKept]_vars

\* PieceDesk's: pages and receipts carry words that were signed.
OnlySignedWords == part \in PieceParts => Piece!SignedPagesWereSigned /\ Piece!ReceiptsWereSigned

\* What two programs, written apart, say of the same files: of a piece's forms
\* the app and the runner, of the feeds the app and the agents' server.
ReadersAgree ==
  /\ part \in PieceParts => Piece!ReadersAgree
  /\ part \in FeedParts => Feed!FeedReadersAgree

\* CompanionLog's: a checkpoint follows what its agent read, and what was said to
\* be saved is there, its decision on the shelf.  CompanionSession's: a prompt
\* leads back to the Desk that gave it, and only its conversation is evidence.
SavedInOrder ==
  /\ part = "companion" => Companion!CommitsFollowReads /\ Companion!SavedIsKept /\ Companion!DecisionOnShelf
  /\ part = "session" => Session!HandoffsLeadBack /\ Session!MessagesAreOurs

\* FeedState's: a cue that shows stands on a good receipt of the plan in force.
CuesStandOnReceipts == part \in FeedParts => Feed!CuesStandOnReceipts

\* HubFeed's: what is shown does not depend on the order of arrival.
ArrivalOrderIsIrrelevant == part = "hub" => Hub!ArrivalOrderIsIrrelevant

\* MailingList's: a form's success is true, and a window keeps to its limit.
ListKeepsItsWord == part = "mail" => Mail!ListKeepsItsWord

\* Workspace's: one key reads all that was ever sealed.
OneKey == part = "workspace" => Home!OneKey

\* HubFeed's: an item that shows never goes back to an earlier revision.
RevisionsNeverRegress == [][part = "hub" => ~Hub!Regressed]_vars
=============================================================================
