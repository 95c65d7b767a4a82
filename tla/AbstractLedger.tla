--------------------------- MODULE AbstractLedger ---------------------------
(***************************************************************************)
(* What a workspace's ledger is to the callers of appendChange: a sequence *)
(* of accepted requests, each accepted against all the requests before it. *)
(* A request's expected revision is compared with the number of requests   *)
(* the entity has had; no locks, receipts, bodies or event files appear.   *)
(***************************************************************************)
EXTENDS Naturals, Sequences, FiniteSets

CONSTANTS Request, NoName, RunType

VARIABLE history

Of(en) == {i \in DOMAIN history : history[i].entity = en}

\* The entity's latest accepted request satisfies P.
Latest(en, P(_)) ==
  \E i \in Of(en) : (\A j \in Of(en) : j <= i) /\ P(history[i])

Legal(r) ==
  /\ Cardinality(Of(r.entity)) = r.expected
  /\ \A i \in DOMAIN history :
       /\ history[i].key # r.key
       /\ r.name # NoName => history[i].name # r.name
       /\ history[i].entity.id = r.entity.id => history[i].entity = r.entity
  /\ \A i \in Of(r.entity) :
       /\ ~history[i].tomb
       /\ history[i].final /\ r.entity.type = RunType => r.tomb
  /\ LET Explicit(x) == x.basis = "explicit" IN
       Latest(r.entity, Explicit) => r.actor = "owner" \/ r.op = "expire"

LedgerInit == history = <<>>

Accept(r) == Legal(r) /\ history' = Append(history, r)

LedgerNext == \E r \in Request : Accept(r)

LedgerSpec == LedgerInit /\ [][LedgerNext]_history
=============================================================================
