---------------------------- MODULE ActionProof -----------------------------
(***************************************************************************)
(* What is shown of one proposed action: an agent proposes and proposes    *)
(* again, users decide, a provider sends receipts, and projectActionProof  *)
(* (packages/protocol/src/projections.ts) combines a proposal, a decision  *)
(* and the receipts at hand.                                               *)
(*                                                                         *)
(* Receipts come late, in any order and more than once.  A decision may    *)
(* name a revision or a payload that is no longer proposed.  Whoever       *)
(* projects keeps what it was shown.                                       *)
(***************************************************************************)
EXTENDS ProtocolEvents, Sequences

CONSTANTS
  Owner, Proposer,   \* who is asked, and who asks
  Asked,             \* per revision: [payload, expires]
  Answers,           \* what users say: [by, rev, payload, decision, until]
  Reports,           \* what the provider says: [rev, payload, status]
  MaxNow, MaxReceipts

ActionAssumption == Absent \notin Nat

Proofs == {"provider_acknowledged", "delivered", "read", "failed"}

VARIABLES
  now,
  proposals,  \* the revisions proposed, each a record
  decisions,
  receipts,   \* as recorded, in order of arrival
  shown       \* history: the projections that showed a proof

vars == <<now, proposals, decisions, receipts, shown>>

Action == "action"
Conn == "conn"

-----------------------------------------------------------------------------
(* projectActionProof                                                       *)

\* By time, then by id.
Earlier(r, s) == r.at < s.at \/ (r.at = s.at /\ r.id < s.id)

Binds(r, p) == <<r.action, r.rev, r.hash, r.conn>> = <<p.action, p.rev, p.hash, p.conn>>

Nothing == [proof \in Proofs |-> Absent]

\* PROOF_AFTER_FAILURE, MISSING_PROVIDER_ACKNOWLEDGEMENT, MISSING_DELIVERY_PROOF
StepsUp(proof, r) ==
  /\ r.status # "failed" => proof["failed"] = Absent
  /\ r.status = "delivered" => proof["provider_acknowledged"] # Absent
  /\ r.status = "read" => proof["delivered"] # Absent

\* What receipts have proved, each status by the last receipt that has it.
Proved(rs) ==
  [status \in Proofs |->
     LET of == {r \in rs : r.status = status} IN
     IF of = {} THEN Absent ELSE (CHOOSE r \in of : \A s \in of : ~Earlier(r, s)).id]

\* mutant: a status may be proved twice
ReceiptsFitAnyStatus(p, d, rs) ==
  /\ rs # {} => d # Absent /\ d.decision = "approved"
  /\ \A r \in rs : ReceiptOK(r) /\ Binds(r, p) /\ d.at <= r.at
  /\ \A r, s \in rs : r # s => r.id # s.id

\* EXECUTION_WITHOUT_APPROVAL, DUPLICATE_RECEIPT_ID, DUPLICATE_PROOF_STATUS,
\* RECEIPT_BINDING_MISMATCH, RECEIPT_PREDATES_APPROVAL
ReceiptsFit(p, d, rs) ==
  /\ rs # {} => d # Absent /\ d.decision = "approved"
  /\ \A r \in rs : ReceiptOK(r) /\ Binds(r, p) /\ d.at <= r.at
  /\ \A r, s \in rs : r # s => r.id # s.id /\ r.status # s.status

\* The proofs, or Absent when it throws: each receipt, in order of time, has to step
\* up from what the earlier ones have proved.
Projection(p, d, rs) ==
  IF /\ ProposalOK(p)
     /\ d # Absent => DecisionFits(p, d, now)
     /\ ReceiptsFit(p, d, rs)
     /\ \A r \in rs : StepsUp(Proved({s \in rs : Earlier(s, r)}), r)
  THEN Proved(rs)
  ELSE Absent

-----------------------------------------------------------------------------

Init == now = 1 /\ proposals = {} /\ decisions = {} /\ receipts = <<>> /\ shown = {}

Tick == now < MaxNow /\ now' = now + 1 /\ UNCHANGED <<proposals, decisions, receipts, shown>>

\* A new revision of the action (propose_action).
Propose ==
  LET rev == Cardinality(proposals) + 1 IN
  /\ rev \in DOMAIN Asked
  /\ proposals' = proposals \cup
       {[shaped |-> TRUE, action |-> Action, rev |-> rev, owner |-> Owner, by |-> [kind |-> "agent", id |-> Proposer],
         conn |-> Conn, payload |-> Asked[rev].payload, hash |-> Asked[rev].payload,
         refs |-> {"source"}, at |-> now, expires |-> Asked[rev].expires]}
  /\ UNCHANGED <<now, decisions, receipts, shown>>

\* One user decides, once, about a revision there is; perhaps about another payload.
Decide(answer) ==
  /\ decisions = {} /\ \E p \in proposals : p.rev = answer.rev
  /\ decisions' = {[shaped |-> TRUE, action |-> Action, rev |-> answer.rev, hash |-> answer.payload,
                    decision |-> answer.decision, by |-> [kind |-> "user", id |-> answer.by],
                    at |-> now, until |-> answer.until]}
  /\ UNCHANGED <<now, proposals, receipts, shown>>

\* The provider reports on what it did, now or late.
Record(report, at) ==
  /\ Len(receipts) < MaxReceipts
  /\ \E p \in proposals : p.rev = report.rev
  /\ receipts' = Append(receipts,
       [shaped |-> TRUE, id |-> Len(receipts) + 1, action |-> Action, rev |-> report.rev,
        hash |-> report.payload, conn |-> Conn, status |-> report.status, at |-> at])
  /\ UNCHANGED <<now, proposals, decisions, shown>>

\* A reader projects a revision with the decision on it, if there is one, and with
\* the receipts it has heard of so far.
Project(p, d) ==
  /\ p \in proposals /\ d \in decisions \cup {Absent}
  /\ LET proof == Projection(p, d, {receipts[i] : i \in DOMAIN receipts}) IN
       /\ proof \notin {Absent, Nothing}
       /\ shown' = shown \cup {[of |-> p, by |-> d, proof |-> proof]}
  /\ UNCHANGED <<now, proposals, decisions, receipts>>

Next ==
  \/ Tick \/ Propose
  \/ \E answer \in Answers : Decide(answer)
  \/ \E report \in Reports, at \in 1 .. now : Record(report, at)
  \/ \E p \in proposals, d \in decisions \cup {Absent} : Project(p, d)

Spec == Init /\ [][Next]_vars

-----------------------------------------------------------------------------
(* Properties.                                                              *)

At(id) == receipts[id].at

\* A proof that was shown stands on the owner's approval, given after the proposal
\* and while it was open, of exactly the revision and the payload; it came after the
\* approval, a delivery after its acknowledgement and a reading after its delivery.
Backed(view) ==
  LET d == view.by proof == view.proof
      Shows(status) == proof[status] # Absent
  IN /\ d # Absent /\ d.decision = "approved" /\ d.by = [kind |-> "user", id |-> Owner]
     /\ d.rev = view.of.rev /\ d.hash = view.of.payload /\ view.of.at <= d.at
     /\ view.of.expires # Absent => d.at <= view.of.expires
     /\ \A status \in Proofs : Shows(status) =>
          /\ d.at <= At(proof[status])
          /\ receipts[proof[status]].rev = d.rev /\ receipts[proof[status]].hash = d.hash
     /\ Shows("delivered") => Shows("provider_acknowledged")
                              /\ At(proof["provider_acknowledged"]) <= At(proof["delivered"])
     /\ Shows("read") => Shows("delivered") /\ At(proof["delivered"]) <= At(proof["read"])

\* Two projections of one revision, made at different times, never show different
\* receipts for one proof: what came later adds to the proofs or is refused.
Agree(v, w) ==
  v.of = w.of => \A status \in Proofs : Absent \in {v.proof[status], w.proof[status]} \/ v.proof[status] = w.proof[status]

\* Proofs stand, whatever arrives later and in whatever order (projectActionProof:
\* "without inferring one proof state from another").
ProofsStand == \A v, w \in shown : Backed(v) /\ Agree(v, w)
=============================================================================
