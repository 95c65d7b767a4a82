------------------------------ MODULE FeedState ------------------------------
(***************************************************************************)
(* The feed plan and what agents say of it                                 *)
(* (src/services/mcp/src/feed-state.ts, and the Mac app's                  *)
(* FeedConnectionRuntime.swift, FeedCue.swift and QuietDeskStore.swift).   *)
(*                                                                         *)
(* The app alone writes the plan, whole.  Agents write receipts, after     *)
(* they tried a feed, and cues, after they read one: each is checked       *)
(* against the plan as it was read, created under an id of the agent's,    *)
(* and only then filled.  Both sides judge what they find on their own.    *)
(* A plan's hash is its rows; a time is a clock reading; the wording, the   *)
(* links and the scope strings, which both sides check alike, are left out. *)
(***************************************************************************)
EXTENDS Integers, FiniteSets

CONSTANTS
  Nil, Torn,
  Feeds,      \* of the two with an adapter, "history" and "x"
  Rows,       \* what the person may save: which account each feed is on, or "off"
  ReceiptIds, CueIds,
  TTL,        \* of a receipt, per feed
  CueTTL, Tolerance,
  MaxClock, MaxSaves, MaxSpoils   \* bounds

\* What an instance must give; the module that instantiates assumes it.
PlanAssumption ==
  /\ Torn # Nil /\ Nil \notin [rev : Int, rows : Rows] /\ Torn \notin [rev : Int, rows : Rows]
  /\ TTL \in [Feeds -> Nat \ {0}] /\ CueTTL \in Nat /\ Tolerance \in Nat

VARIABLES plan, receipts, cues, mac, agent, clock, saves, spoils
feedVars == <<plan, receipts, cues, mac, agent, clock, saves, spoils>>

Off == "off"
Doc(rev, rows) == [rev |-> rev, rows |-> rows]
Readable(files) == {files[i] : i \in {j \in DOMAIN files : files[j] # Torn}}

-----------------------------------------------------------------------------
(* What both sides check *)

\* feed-state.ts: the plan is read, missing, or refused by every call.
PlanStands(p) == p \notin {Nil, Torn}

\* mutant: the receipt is bound to the rows and not to the revision
ReceiptOfSameRows(r, p, now) ==
  /\ r.feed \in Feeds /\ p.rows[r.feed] # Off
  /\ r.rows = p.rows
  /\ r.feed = "x" => r.who = p.rows[r.feed]
  /\ r.at <= now + Tolerance
  /\ r.at < r.until /\ r.until - r.at <= TTL[r.feed]
  /\ r.status = "verified" => r.passed

\* feed-state.ts: what a receipt says is what the plan asks, at the given time.
ReceiptMatches(r, p, now) ==
  /\ r.feed \in Feeds /\ p.rows[r.feed] # Off
  /\ r.rev = p.rev /\ r.rows = p.rows
  /\ r.feed = "x" => r.who = p.rows[r.feed]
  /\ r.at <= now + Tolerance
  /\ r.at < r.until /\ r.until - r.at <= TTL[r.feed]
  /\ r.status = "verified" => r.passed

\* mutant: a receipt that ran out is as good
FreshOrNot(r, now) == TRUE

\* feed-state.ts: asked only when a cue is recorded.
Fresh(r, now) == r.until > now

\* feed-state.ts: a cue stands on a receipt that was verified and in its time.
CueMatches(c, p, r, now) ==
  /\ p.rows[c.feed] # Off
  /\ c.rev = p.rev /\ c.rows = p.rows
  /\ c.receipt = r.id /\ r.feed = c.feed
  /\ ReceiptMatches(r, p, c.at)
  /\ r.status = "verified" /\ r.passed
  /\ r.at <= c.at /\ c.at <= r.until
  /\ c.at <= now + Tolerance
  /\ c.seen <= c.at + Tolerance /\ c.seen >= r.at - TTL[c.feed]
  /\ c.at < c.until /\ c.until - c.at <= CueTTL

-----------------------------------------------------------------------------
(* The agents' reader *)

\* Of equally new receipts the directory's order decides: any of them.
Newest(rs) == {r \in rs : \A s \in rs : s.at <= r.at}

\* feed-state.ts: of a feed that is on, the newest receipt that matches.
ListedReceipts(f) ==
  Newest({r \in Readable(receipts) : r.feed = f /\ ReceiptMatches(r, plan, clock)})

PhaseOf(r) ==
  IF r.status # "verified" THEN r.status ELSE IF r.until > clock THEN "connected" ELSE "stale"

\* What listConnections may say of a feed that is on.
Listed(f) ==
  LET latest == ListedReceipts(f) IN
  IF latest = {} THEN {"awaiting"} ELSE {PhaseOf(r) : r \in latest}

\* feed-state.ts: the cues that still stand, before the caller's limit.
ListedCues ==
  IF ~PlanStands(plan) THEN {}
  ELSE {c \in Readable(cues) : c.until > clock
          /\ \E r \in Readable(receipts) : CueMatches(c, plan, r, clock)}

-----------------------------------------------------------------------------
(* The app's reader *)

\* FeedConnectionRuntime.swift: what is said of a receipt against the plan's row.
MacMatches(r, rows, p, now) ==
  /\ r.rev = p.rev /\ r.rows = p.rows
  /\ r.feed = "x" => r.who = rows[r.feed]
  /\ r.at < r.until /\ r.until - r.at <= TTL[r.feed]
  /\ r.at <= now + Tolerance
  /\ r.status = "verified" => r.passed

\* FeedCue.swift
MacCueMatches(c, p, r, now) ==
  /\ p.rows[c.feed] # Off
  /\ c.rev = p.rev /\ c.rows = p.rows
  /\ c.receipt = r.id /\ r.feed = c.feed
  /\ r.status = "verified" /\ r.passed
  /\ MacMatches(r, p.rows, p, c.at)
  /\ r.at <= c.at /\ c.at <= r.until /\ c.at <= now + Tolerance
  /\ c.seen <= c.at + Tolerance /\ c.seen >= r.at - TTL[c.feed]
  /\ c.at < c.until /\ c.until - c.at <= CueTTL

\* FeedConnectionRuntime.swift: loadCues, of a plan that is there.
MacCues(p) ==
  IF p = Nil THEN {}
  ELSE {c \in Readable(cues) : c.until > clock
          /\ \E r \in Readable(receipts) : MacCueMatches(c, p, r, clock)}

\* QuietDeskStore.swift: the newest receipt of the plan is judged, whatever it says.
Shown(f) ==
  LET mine == Newest({r \in mac.receipts : r.feed = f /\ r.rev = mac.doc.rev /\ r.rows = mac.doc.rows})
      Said(r) == IF MacMatches(r, mac.rows, mac.doc, clock) THEN PhaseOf(r) ELSE "partial"
  IN IF mac.doc = Nil \/ mine = {} THEN {"awaiting"} ELSE {Said(r) : r \in mine}

-----------------------------------------------------------------------------
(* The app *)

Idle == [doing |-> "idle"]

Init ==
  /\ plan = Nil /\ receipts = [i \in {} |-> Nil] /\ cues = [i \in {} |-> Nil]
  /\ \E rows \in Rows : mac = [doc |-> Nil, rows |-> rows, prefs |-> rows, receipts |-> {}, cues |-> {}]
  /\ agent = Idle /\ clock = 1 /\ saves = 0 /\ spoils = 0

Revised(rows, previous) == Doc(IF previous = Nil THEN 1 ELSE previous.rev + 1, rows)

\* QuietDeskStore.swift: the person saves; what the app holds is read again.
SavePlan(rows) ==
  /\ saves < MaxSaves /\ saves' = saves + 1
  /\ plan' = Revised(rows, mac.doc)
  /\ mac' = [doc |-> plan', rows |-> rows, prefs |-> rows,
             receipts |-> Readable(receipts), cues |-> MacCues(plan')]
  /\ UNCHANGED <<receipts, cues, agent, clock, spoils>>

\* The plan cannot be written: the app and its preferences have it, agents do not.
SaveFails(rows) ==
  /\ spoils < MaxSpoils /\ spoils' = spoils + 1
  /\ mac' = [mac EXCEPT !.rows = rows, !.prefs = rows]
  /\ UNCHANGED <<plan, receipts, cues, agent, clock, saves>>

\* QuietDeskStore.swift: a plan that does not load is saved anew, from revision 1.
Launch ==
  LET on == \E f \in Feeds : mac.prefs[f] # Off
      doc == IF PlanStands(plan) THEN plan ELSE IF on THEN Revised(mac.prefs, Nil) ELSE Nil
  IN
  /\ plan' = IF doc = Nil THEN plan ELSE doc
  /\ mac' = [doc |-> doc, rows |-> IF doc = Nil THEN mac.prefs ELSE doc.rows, prefs |-> mac.prefs,
             receipts |-> Readable(receipts), cues |-> MacCues(doc)]
  /\ saves' = IF plan' = plan THEN saves ELSE saves + 1
  /\ UNCHANGED <<receipts, cues, agent, clock, spoils>>

\* QuietDeskStore.swift: the receipts, and the cues when the plan can be read.
Refresh ==
  /\ mac' = [mac EXCEPT !.receipts = Readable(receipts),
                        !.cues = IF plan = Torn THEN @ ELSE MacCues(plan)]
  /\ UNCHANGED <<plan, receipts, cues, agent, clock, saves, spoils>>

\* The app's own adapter: a receipt for the plan the app has in memory.
VerifyHistory(id, recent) ==
  LET r == [id |-> id, feed |-> "history", rev |-> mac.doc.rev, rows |-> mac.doc.rows, who |-> "",
            at |-> clock, until |-> clock + TTL["history"], passed |-> recent,
            status |-> IF recent THEN "verified" ELSE "partial", of |-> saves]
      all == [i \in DOMAIN receipts \cup {id} |-> IF i = id THEN r ELSE receipts[i]]
  IN
  /\ "history" \in Feeds /\ mac.doc # Nil
  /\ mac.doc.rows["history"] # Off
  /\ id \notin DOMAIN receipts
  /\ receipts' = all
  /\ mac' = [mac EXCEPT !.receipts = @ \cup {r},
                        !.cues = IF plan = Torn THEN @ ELSE
                                 {c \in Readable(cues) : plan # Nil /\ c.until > clock
                                    /\ \E s \in Readable(all) : MacCueMatches(c, plan, s, clock)}]
  /\ UNCHANGED <<plan, cues, agent, clock, saves, spoils>>

\* The plan file is deleted, or left unreadable by a hand.
Spoil(to) ==
  /\ PlanStands(plan) /\ spoils < MaxSpoils /\ spoils' = spoils + 1
  /\ plan' = to
  /\ UNCHANGED <<receipts, cues, mac, agent, clock, saves>>

-----------------------------------------------------------------------------
(* The agent, through the MCP server *)

\* What an agent may send: of this plan or an older one, at about the present time.
AgentsPlans == {plan} \cup {Doc(plan.rev - 1, rows) : rows \in Rows}
Verdicts == {v \in [passed : BOOLEAN, status : {"verified", "partial"}] : v.passed => v.status = "verified"}
ReceiptInputs ==
  {[id |-> id, feed |-> f, rev |-> p.rev, rows |-> p.rows, who |-> who, at |-> at, until |-> at + TTL[f] + more,
    passed |-> v.passed, status |-> v.status, of |-> saves] :
     id \in ReceiptIds, f \in Feeds, p \in AgentsPlans, who \in {"@me", "@other"},
     at \in clock .. clock + 2, more \in {0, 1}, v \in Verdicts}
CueInputs ==
  {[id |-> id, feed |-> r.feed, rev |-> p.rev, rows |-> p.rows, receipt |-> r.id, at |-> at, seen |-> seen,
    until |-> at + more, now |-> clock] :
     id \in CueIds, r \in Readable(receipts), p \in AgentsPlans, at \in clock .. clock + 2,
     seen \in {clock - 4, clock}, more \in {CueTTL, CueTTL + 1}}

\* feed-state.ts: the plan is read and the receipt checked; nothing is written yet.
CheckReceipt ==
  /\ agent = Idle /\ PlanStands(plan)
  /\ \E input \in ReceiptInputs :
       /\ ReceiptMatches(input, plan, clock)
       /\ agent' = [doing |-> "receipt", what |-> input]
  /\ UNCHANGED <<plan, receipts, cues, mac, clock, saves, spoils>>

\* feed-state.ts: the plan and the receipts are read and the cue checked.
CheckCue ==
  /\ agent = Idle /\ PlanStands(plan)
  /\ \E input \in CueInputs, r \in Readable(receipts) :
       /\ input.receipt = r.id
       /\ CueMatches(input, plan, r, clock) /\ Fresh(r, clock)
       /\ agent' = [doing |-> "cue", what |-> input]
  /\ UNCHANGED <<plan, receipts, cues, mac, clock, saves, spoils>>

Created(files, id, file) == [i \in DOMAIN files \cup {id} |-> IF i = id THEN file ELSE files[i]]

\* feed-state.ts: the file is created, exclusively: an id is taken once, torn or not.
OpenFile ==
  LET id == agent.what.id IN
  /\ \/ /\ agent.doing = "receipt"
        /\ IF id \in DOMAIN receipts THEN agent' = Idle /\ UNCHANGED receipts
           ELSE agent' = [agent EXCEPT !.doing = "fill receipt"] /\ receipts' = Created(receipts, id, Torn)
        /\ UNCHANGED cues
     \/ /\ agent.doing = "cue"
        /\ IF id \in DOMAIN cues THEN agent' = Idle /\ UNCHANGED cues
           ELSE agent' = [agent EXCEPT !.doing = "fill cue"] /\ cues' = Created(cues, id, Torn)
        /\ UNCHANGED receipts
  /\ UNCHANGED <<plan, mac, clock, saves, spoils>>

\* feed-state.ts: and filled, however late.
FillFile ==
  LET id == agent.what.id IN
  /\ \/ agent.doing = "fill receipt" /\ receipts' = Created(receipts, id, agent.what) /\ UNCHANGED cues
     \/ agent.doing = "fill cue" /\ cues' = Created(cues, id, agent.what) /\ UNCHANGED receipts
  /\ agent' = Idle
  /\ UNCHANGED <<plan, mac, clock, saves, spoils>>

AgentDies ==
  /\ agent # Idle /\ agent' = Idle
  /\ UNCHANGED <<plan, receipts, cues, mac, clock, saves, spoils>>

Tick == clock < MaxClock /\ clock' = clock + 1 /\ UNCHANGED <<plan, receipts, cues, mac, agent, saves, spoils>>

Next ==
  \/ \E rows \in Rows : SavePlan(rows) \/ SaveFails(rows)
  \/ Launch \/ Refresh \/ Tick
  \/ \E id \in ReceiptIds, recent \in BOOLEAN : VerifyHistory(id, recent)
  \/ \E to \in {Nil, Torn} : Spoil(to)
  \/ CheckReceipt \/ CheckCue \/ OpenFile \/ FillFile \/ AgentDies

Spec == Init /\ [][Next]_feedVars

-----------------------------------------------------------------------------

\* Whatever was checked, written late, torn or saved over meanwhile: a cue that
\* an agent lists or the app shows stands on a verified receipt on disk that was
\* still good when the cue was checked, is gone a day (and the clocks' tolerance)
\* after that, and, while nothing was done to the plan file, the plan has not
\* been saved again since its receipt was checked (docs/FEED_SETUP.md: "Changing
\* any of those invalidates the old receipt").
CuesStandOnReceipts ==
  \A c \in ListedCues \cup {d \in mac.cues : d.until > clock} :
    /\ c.until <= c.now + CueTTL + Tolerance
    /\ \E r \in Readable(receipts) :
         /\ r.id = c.receipt /\ r.feed = c.feed /\ r.status = "verified"
         /\ r.until > c.now
         /\ spoils = 0 => r.of = saves

\* When the app has read what is on disk and its own save did not fail, the two
\* readers, written apart in two languages, cannot say different things: neither
\* of a feed's phase nor of the cues that stand (docs/FEED_SETUP.md: "The MCP
\* writer and Mac reader enforce the same rule").
FeedReadersAgree ==
  PlanStands(plan) /\ plan = mac.doc /\ mac.rows = plan.rows =>
    /\ mac.receipts = Readable(receipts) =>
         \A f \in Feeds : plan.rows[f] # Off => Shown(f) = Listed(f)
    /\ MacCues(plan) = ListedCues
=============================================================================
