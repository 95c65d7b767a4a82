---------------------------- MODULE PackReceipt ----------------------------
(***************************************************************************)
(* The portable form of a Context Pack and its receipt, as pure operators: *)
(* services/mcp/src/protocol-context-pack.ts, validateContextPack of       *)
(* packages/protocol, and the workspace key's signature.                   *)
(*                                                                         *)
(* A source pack is what focusPack returned, [picked, trace, omitted],     *)
(* with the watermark `mark` of its replay.  A hash is the value it was    *)
(* taken of, and a MAC is that value together with the key.  Owner and     *)
(* ledger are the workspace's own: one workspace is modelled, and a        *)
(* receipt from another is one that another key signed.                    *)
(***************************************************************************)
EXTENDS ContextPack

\* SECTION_ORDER, each with the authority its section claims.
AuthorityOf(basis) == IF basis = "system" THEN "derived" ELSE basis
SectionOrder == <<"explicit", "observed", "inferred", "system">>

ExactRef(item) == [ent |-> item.ent, rev |-> item.rev, hash |-> item.hash]
Place(x) == <<x.ent, x.rev>>

Durable(source) == {x \in source.picked : x.basis # "scratch"}

\* The trace of the selected records, each bound to the event that carries it.
BoundTrace(source) ==
  {[ref |-> ExactRef(pair[1]), basis |-> pair[1].basis, event |-> pair[2].event] :
     pair \in {both \in Durable(source) \X source.trace : Place(both[1]) = Place(both[2])}}

Sections(source) ==
  SelectSeq([n \in DOMAIN SectionOrder |->
               [key |-> SectionOrder[n], authority |-> AuthorityOf(SectionOrder[n]),
                refs |-> {ExactRef(x) : x \in {y \in source.picked : y.basis = SectionOrder[n]}}]],
            LAMBDA section : section.refs # {})

Seal(content) == [content |-> content, hash |-> content]

\* for whom: the run, its goal and role, the budget and what was asked for.
PortablePack(source, whom) ==
  Seal([whom |-> whom, mark |-> source.mark, source |-> source.picked, sections |-> Sections(source),
        trace |-> BoundTrace(source), omissions |-> source.omitted])

-----------------------------------------------------------------------------
(* validateContextPack *)

WatermarkOK(mark) == mark >= 1

\* entityRefArrayAt: no two of the references name one revision of one entity.
Unique(refs) == \A m, n \in DOMAIN refs : Place(refs[m]) = Place(refs[n]) => m = n

ValidPack(portable) ==
  LET c == portable.content
      chosen == UNION {{Place(ref) : ref \in c.sections[n].refs} : n \in DOMAIN c.sections}
      traced == {Place(t.ref) : t \in c.trace}
  IN /\ WatermarkOK(c.mark) /\ c.whom.tokens >= 1
     /\ Unique(c.whom.asked)
     /\ \A m, n \in DOMAIN c.sections : c.sections[m].key = c.sections[n].key => m = n
     /\ \A t \in c.trace : t.ref.rev # NoPin /\ t.ref.hash # NoPin
     /\ Cardinality(traced) = Cardinality(c.trace)
     /\ chosen = traced
     /\ portable.hash = c

\* What buildProtocolContextPack refuses: a selected record without its trace,
\* a trace of a record that was not selected, an empty ledger, an invalid pack.
Issuable(source, whom) ==
  /\ \A x \in Durable(source) : \E t \in source.trace : Place(x) = Place(t)
  /\ Cardinality(Durable(source)) = Cardinality(source.trace)
  /\ WatermarkOK(source.mark)
  /\ ValidPack(PortablePack(source, whom))

-----------------------------------------------------------------------------
(* Receipts *)

MacOf(key, portable) == [key |-> key, over |-> portable.content]

Receipt(key, portable) == [pack |-> portable, mac |-> MacOf(key, portable)]

\* validateContextPackReceipt; the MAC is for the workspace to judge.
ValidReceipt(receipt) == ValidPack(receipt.pack)

Genuine(key, receipt) == ValidReceipt(receipt) /\ receipt.mac = MacOf(key, receipt.pack)

\* verifyRefreshContextPack: the pack the caller names, for this run and role.
\* No pack the gateway makes carries an expires_at.
BoundTo(receipt, id, run, role) ==
  /\ id = receipt.pack.hash
  /\ receipt.pack.content.whom.run = run /\ receipt.pack.content.whom.role = role
=============================================================================
