--------------------------- MODULE ProtocolEvents ---------------------------
(***************************************************************************)
(* What an envelope, a feed item, a proposal, a decision and a receipt     *)
(* must be, for the protocol package (packages/protocol/src/validation.ts) *)
(* and for the hub, which checks the same envelopes with code of its own   *)
(* (services/hub/src/validation.ts).                                       *)
(*                                                                         *)
(* `shaped` stands for every check of one field by itself: strings,        *)
(* integers, timestamps, known literals.  What relates two fields is       *)
(* written out.  A reference to a source is its id and the place it names  *)
(* (locator, excerpt and moment, or Absent); sets have no duplicates, which *)
(* both validators refuse.  A payload stands for its own hash.              *)
(***************************************************************************)
EXTENDS Naturals, FiniteSets

CONSTANT Absent

Terminals == {"completed", "partial", "failed"}
KindOfEnd(status) ==
  CASE status = "completed" -> "run.completed" [] status = "partial" -> "run.partial" [] OTHER -> "run.failed"
Ends == {KindOfEnd(s) : s \in Terminals}
StatusOfEnd(kind) == CHOOSE s \in Terminals : KindOfEnd(s) = kind
FeedKinds == {"feed.item.published", "feed.item.updated"}

Status(data) == IF "status" \in DOMAIN data THEN data.status ELSE Absent

-----------------------------------------------------------------------------
(* packages/protocol *)

\* sourceArrayAt and embeddedSourceArrayAt leave ids that may repeat under two
\* places; sameSourceIds compares the ids one by one.
Ids(refs) == {r.id : r \in refs}
SameSourceIds(refs, embedded) == Ids(refs) = embedded /\ Cardinality(refs) = Cardinality(embedded)

\* validateFeedItem: every claim cites the item's references, place and all.
ClaimsListed(item) == \A cited \in item.claims : cited # {} /\ cited \subseteq item.refs
FeedItemOK(item) == item.shaped /\ item.refs # {} /\ item.claims # {} /\ ClaimsListed(item)

\* validateActionProposal
ProposalOK(p) == p.shaped /\ p.hash = p.payload /\ p.refs # {}

\* validateApprovalDecision
DecisionOK(d) == d.shaped /\ d.by.kind = "user"

\* validateApprovalForProposal, at time now.
DecisionFits(p, d, now) ==
  /\ ProposalOK(p) /\ DecisionOK(d)
  /\ d.action = p.action /\ d.rev = p.rev /\ d.hash = p.hash
  /\ d.by.id = p.owner /\ d.by.id # p.by.id
  /\ p.at <= d.at
  /\ p.expires # Absent => d.at <= p.expires /\ now <= p.expires
  /\ d.until # Absent => now <= d.until

\* validateExecutionReceipt
ReceiptOK(r) == r.shaped

\* The revision an update claims is one more than the one it names as previous.
NextRevision(kind, data) ==
  IF kind = "feed.item.published" THEN data.item.rev = 1 ELSE data.item.rev = data.previous + 1
Bound(what, e) == what.run = e.run /\ what.agent = e.agent

FeedEventOK(e) ==
  /\ FeedItemOK(e.data.item)
  /\ SameSourceIds(e.data.item.refs, e.sources)
  /\ Bound(e.data.item, e) /\ NextRevision(e.kind, e.data)
ProposalEventOK(e) ==
  /\ ProposalOK(e.data.proposal)
  /\ SameSourceIds(e.data.proposal.refs, e.sources)
  /\ Bound(e.data.proposal, e) /\ e.data.proposal.conn = e.conn

\* validateRunCompletion, and validateEventEnvelope's rule that a status that ends
\* a run comes under the kind that ends it.
StatusOK(e) ==
  CASE e.kind = "run.started" -> Status(e.data) = "running"
    [] e.kind \in Ends -> Status(e.data) = StatusOfEnd(e.kind)
    [] OTHER -> Status(e.data) \notin Terminals

\* validateEventEnvelope: a kind it does not know has data of any kind.
EnvelopeOK(e) ==
  /\ e.shaped /\ e.seq >= 1 /\ StatusOK(e)
  /\ e.kind \in FeedKinds => FeedEventOK(e)
  /\ e.kind = "action.proposed" => ProposalEventOK(e)
  /\ e.kind = "action.approval_decided" => DecisionOK(e.data.decision)
  /\ e.kind = "action.execution_receipt.recorded" => ReceiptOK(e.data.receipt) /\ e.data.receipt.conn = e.conn

\* validateRun
RunOK(run) ==
  /\ run.status \in {"queued", "running"} \cup Terminals
  /\ (run.status \in Terminals) <=> (run.ended # Absent)
  /\ (run.status \in Terminals) <=> (run.completion # Absent)
  /\ run.status \in Terminals => run.completion.status = run.status
  /\ run.status # "queued" => run.started # Absent

-----------------------------------------------------------------------------
(* services/hub *)

\* parseSourceReferences: of sources of the event, each named once.
HubRefsOK(refs, embedded) == refs # {} /\ Ids(refs) \subseteq embedded /\ Cardinality(Ids(refs)) = Cardinality(refs)

\* parseFeedClaims: a claim cites a source of the event, wherever in it.
HubClaimsOK(item, embedded) == item.claims # {} /\ \A cited \in item.claims : HubRefsOK(cited, embedded)

\* assertExactSourceCoverage
HubCovers(refs, embedded) == HubRefsOK(refs, embedded) /\ Ids(refs) = embedded

\* validatePublishedOrUpdatedFeed and validateCanonicalFeedItem
HubFeedEventOK(e) ==
  /\ e.sources # {} /\ e.data.item.shaped
  /\ HubClaimsOK(e.data.item, e.sources)
  /\ HubCovers(e.data.item.refs, e.sources)
  /\ Bound(e.data.item, e) /\ NextRevision(e.kind, e.data)

\* validateActionProposal: what an agent proposes it proposes itself.
HubProposalOK(e) ==
  LET p == e.data.proposal IN
  /\ p.shaped /\ p.hash = p.payload
  /\ p.by = [kind |-> "agent", id |-> e.agent]
  /\ HubCovers(p.refs, e.sources)
  /\ Bound(p, e) /\ p.conn = e.conn

\* forbiddenAuthorityKinds: what no provider may say of an action.
Authority == {"approval.requested", "approval.decided", "action.approved", "action.rejected", "action.executed",
              "action.delivered", "execution.recorded", "action.approval_decided", "action.execution_receipt.recorded"}

\* parseAfiEvent: what it does not know, and how a run ends, it does not look into.
HubAccepts(e) ==
  /\ e.shaped /\ e.seq >= 1 /\ e.kind \notin Authority
  /\ e.kind = "source.observed" => e.sources # {}
  /\ e.kind \in FeedKinds => HubFeedEventOK(e)
  /\ e.kind = "action.proposed" => HubProposalOK(e)
=============================================================================
