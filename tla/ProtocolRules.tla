--------------------------- MODULE ProtocolRules ---------------------------
(***************************************************************************)
(* packages/protocol: what a sealed record and an afi.ledger_event.v1 must *)
(* satisfy (context-validation.ts) and which ledgers replay                *)
(* (context-ledger.ts).  Operators only; ProtocolLedger and ProtocolExport *)
(* are the machines that use them.                                         *)
(*                                                                         *)
(* A hash is the thing it is the hash of, so two hashes are equal exactly  *)
(* when their contents are; `sealed` says that the record_hash or the      *)
(* event_hash written in a value is its own.  Times are numbers.  A record *)
(* has its common fields and `about`, what its type adds.  Texts and the   *)
(* well-formedness of single fields are left out.                          *)
(***************************************************************************)
EXTENDS Naturals, Sequences, FiniteSets

CONSTANTS
  Owner,    \* the actor who owns the ledger, [kind |-> "user", ...]
  Absent    \* an optional field that is not there

EntityTypes == {"evidence_item", "context_statement", "conversation", "decision", "thread",
                "selection_run", "place", "draft", "feedback_signal"}

User(actor) == actor.kind = "user"
KeyOf(e) == [type |-> e.type, id |-> e.id]
InOrder(first, last) == Absent \notin {first, last} => first <= last
Distinct(seq) == \A i, j \in DOMAIN seq : i # j => seq[i] # seq[j]

-----------------------------------------------------------------------------
(* Records.  In the order of the validators: what validateEntityBase asks  *)
(* of every record, then what each type adds.                              *)

\* retentionAt: what is kept for a time says until when.
RetentionOK(ret) == ret.mode = "ttl" => ret.expires # Absent

BaseOK(e) ==
  /\ e.sealed
  /\ e.rev >= 1
  /\ e.created <= e.updated
  /\ RetentionOK(e.ret)

\* `holds`: which of content, content_object and source_uri are given.
EvidenceOK(about) == about.holds # {}

ScopeOK(scope) == (scope.kind = "global") <=> (scope.id = Absent)

StatementOK(e) ==
  LET about == e.about IN
  /\ about.basis \in {"explicit", "observed", "inferred"}
  /\ ScopeOK(about.scope)
  /\ Absent \notin {about.from, about.until} => about.from < about.until
  /\ about.basis = e.prov.basis
  /\ about.basis = "observed" => e.prov.evidence # {}
  /\ about.basis = "inferred" => e.prov.confident
  /\ about.basis = "explicit" => User(e.creator)

\* `excused`: no_action_reason is given.
OutcomeOK(outcome) ==
  outcome.disposition \in {"understanding_only", "no_new_input"} => outcome.excused

ConversationOK(about) ==
  /\ InOrder(about.started, about.ended)
  /\ about.participants # {}
  /\ about.outcome # Absent => OutcomeOK(about.outcome)

DecisionOK(about) == User(about.by)

ThreadOK(about) ==
  /\ \A i \in DOMAIN about.claims :
       /\ about.claims[i].evidence # {}
       /\ about.claims[i].first <= about.claims[i].last
       /\ about.claims[i].count >= 1
  /\ Distinct([i \in DOMAIN about.claims |-> about.claims[i].id])
  /\ about.first <= about.last

\* `candidates`: a sequence of [id, disposition]; the counts and the list of
\* recommendations beside it must say the same as it does.
SelectionRunOK(about) ==
  LET With(disposition) == {i \in DOMAIN about.candidates : about.candidates[i].disposition = disposition}
      named == {about.candidates[i].id : i \in With("recommended")}
  IN /\ Distinct([i \in DOMAIN about.candidates |-> about.candidates[i].id])
     /\ about.evaluated = Len(about.candidates)
     /\ about.rejected = Cardinality(With("rejected"))
     /\ Distinct(about.recommended)
     /\ Len(about.recommended) = Cardinality(With("recommended"))
     /\ \A i \in DOMAIN about.recommended : about.recommended[i] \in named
     /\ about.result = "recommendation" => about.recommended # <<>>
     /\ about.result = "none_worth_recommending" => about.recommended = <<>>

PlaceOK(about) ==
  /\ about.thread = "thread"
  /\ about.selection \in {Absent, "selection_run"}

DraftOK(about) == about.sources # {} \/ about.seeds # {}

\* validateLedgerEntity
EntityOK(e) ==
  /\ e.type \in EntityTypes
  /\ BaseOK(e)
  /\ CASE e.type = "evidence_item" -> EvidenceOK(e.about)
       [] e.type = "context_statement" -> StatementOK(e)
       [] e.type = "conversation" -> ConversationOK(e.about)
       [] e.type = "decision" -> DecisionOK(e.about)
       [] e.type = "thread" -> ThreadOK(e.about)
       [] e.type = "selection_run" -> SelectionRunOK(e.about)
       [] e.type = "place" -> PlaceOK(e.about)
       [] e.type = "draft" -> DraftOK(e.about)
       [] OTHER -> TRUE

-----------------------------------------------------------------------------
(* Authority: an event's actor, and the authority it claims.               *)

\* isRecordedOwnerConfirmation: what can be said of it without the ledger.
ClaimsConfirmation(auth) ==
  auth.mode = "user_confirmation" /\ auth.by = Owner /\ auth.ref # Absent

Originates(actor, auth) == actor = Owner /\ auth.mode = "user_originated"

StatementAuthority(e, actor, auth) ==
  CASE e.about.basis = "explicit" -> Originates(actor, auth) \/ ClaimsConfirmation(auth)
    [] e.about.basis = "observed" ->
         /\ e.prov.evidence # {}
         /\ auth.mode \in {"connector_observation", "agent_proposal", "user_originated"}
    [] OTHER -> User(actor) \/ (auth.mode = "agent_proposal" /\ e.about.status = "proposed")

\* evaluateLedgerEntityAuthority
EntityAuthority(e, actor, auth, producer) ==
  LET owners == Originates(actor, auth) \/ ClaimsConfirmation(auth) IN
  CASE e.type = "context_statement" -> StatementAuthority(e, actor, auth)
    [] e.type = "decision" -> owners
    [] e.type = "draft" -> e.about.status = "approved" => owners
    [] e.type = "evidence_item" ->
         e.about.kind = "provider_receipt" => actor.kind \in {"provider", "service"} /\ producer # Absent
    [] OTHER -> TRUE

-----------------------------------------------------------------------------
(* Events.  `entity` is Absent in a tombstone.                             *)

OperationOK(e) ==
  IF e.op = "created"
  THEN e.rev = 1 /\ e.prevRev = Absent /\ e.prevHash = Absent
  ELSE /\ e.prevRev # Absent /\ e.prevHash # Absent
       /\ e.rev = e.prevRev + 1
       /\ e.op = "corrected" => e.reason # Absent /\ e.sup # Absent

ContentOK(e) ==
  IF e.op = "tombstoned"
  THEN e.entity = Absent
  ELSE /\ EntityOK(e.entity)
       /\ KeyOf(e.entity) = e.target /\ e.entity.rev = e.rev /\ e.entity.owner = e.owner
       /\ EntityAuthority(e.entity, e.actor, e.auth, e.producer)

\* authorityAt: what confirms is a decision, at a revision and with a hash.
AuthorityOK(auth) == auth.ref # Absent => auth.ref.type = "decision"

\* validateLedgerEvent
EventOK(e) ==
  /\ e.sealed
  /\ AuthorityOK(e.auth)
  /\ e.seq >= 1
  /\ e.at <= e.recorded
  /\ e.target.type \in EntityTypes
  /\ (e.seq = 1) <=> (e.prev = {})
  /\ OperationOK(e)
  /\ ContentOK(e)

ConfirmsWhateverBecame(d, e) ==    \* mutant: a superseded decision still confirms
  /\ EntityOK(d)
  /\ e.auth.ref = d
  /\ d.owner = e.owner /\ d.about.by = Owner
  /\ d.about.at <= e.at
  /\ \E t \in d.about.targets : KeyOf(t) = e.target /\ t.rev \in {Absent, e.rev}

\* validateUserConfirmationForEvent: `d` is what the ledger holds under the
\* id the event cites.
Confirms(d, e) ==
  /\ EntityOK(d)
  /\ e.auth.ref = d
  /\ d.owner = e.owner /\ d.about.by = Owner
  /\ d.about.status = "active"
  /\ d.about.at <= e.at
  /\ \E t \in d.about.targets : KeyOf(t) = e.target /\ t.rev \in {Absent, e.rev}

Broadens(previous, next) ==
  \/ previous.ret.replication = "local_only" /\ next.ret.replication # "local_only"
  \/ previous.ret.class = "private" /\ next.ret.class # "private"

MovesForward(previous, next) ==
  /\ next.created = previous.created
  /\ previous.updated <= next.updated

\* validateLedgerTransition: `previous` is Absent if the ledger does not hold the record.
TransitionOK(previous, e) ==
  IF e.op = "created" THEN previous = Absent
  ELSE /\ previous # Absent
       /\ KeyOf(previous) = e.target /\ previous.owner = e.owner
       /\ e.prevRev = previous.rev /\ e.prevHash = previous
       /\ e.op # "tombstoned" =>
            /\ MovesForward(previous, e.entity)
            /\ Broadens(previous, e.entity) => User(e.actor) \/ ClaimsConfirmation(e.auth)

-----------------------------------------------------------------------------
(* projectLedgerEvents.  What it has built when it reaches an event is a   *)
(* function of the events before it, `l`.                                  *)

\* lastEventIdByEntity: the index of the last event about a record, 0 if there is none.
LastAbout(l, key) ==
  LET about == {i \in DOMAIN l : l[i].target = key}
  IN IF about = {} THEN 0 ELSE CHOOSE i \in about : \A j \in about : j <= i

Held(l, key) ==
  LET i == LastAbout(l, key) IN IF i = 0 THEN Absent ELSE l[i].entity

Deleted(l, key) == \E i \in DOMAIN l : l[i].target = key /\ l[i].op = "tombstoned"

\* previousEventHash: one, or none.
HashBefore(l) == IF l = <<>> THEN {} ELSE {l[Len(l)]}

LinkedByNumber(l, e) ==    \* mutant: the hash of the event before is not compared
  /\ e.seq = Len(l) + 1
  /\ l # <<>> => e.ledger = l[1].ledger /\ e.owner = l[1].owner
  /\ \A i \in DOMAIN l : l[i].id # e.id /\ l[i].key # e.key

Linked(l, e) ==
  /\ e.seq = Len(l) + 1
  /\ l # <<>> => e.ledger = l[1].ledger /\ e.owner = l[1].owner
  /\ \A i \in DOMAIN l : l[i].id # e.id /\ l[i].key # e.key
  /\ e.prev = HashBefore(l)

CauseKnown(l, e) == e.cause = Absent \/ \E i \in DOMAIN l : l[i].id = e.cause

ConfirmationStands(l, e) ==
  e.auth.mode = "user_confirmation" =>
    /\ e.auth.ref # Absent
    /\ LET d == Held(l, KeyOf(e.auth.ref)) IN d # Absent /\ Confirms(d, e)

Accepts(l, e) ==
  /\ EventOK(e)
  /\ Linked(l, e)
  /\ CauseKnown(l, e)
  /\ ConfirmationStands(l, e)
  /\ ~Deleted(l, e.target)
  /\ TransitionOK(Held(l, e.target), e)
  /\ e.op = "corrected" => e.sup = l[LastAbout(l, e.target)].id

Replays(l) == \A i \in DOMAIN l : Accepts(SubSeq(l, 1, i - 1), l[i])

\* The projection's `entities`.
Entities(l) == {Held(l, l[i].target) : i \in DOMAIN l} \ {Absent}
=============================================================================
