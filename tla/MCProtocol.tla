----------------------------- MODULE MCProtocol -----------------------------
(***************************************************************************)
(* The settings of Protocol's parts: of the ledger's, the export's and    *)
(* the run's two, each has callers and bounds of its own.                  *)
(***************************************************************************)
EXTENDS Protocol

Tony == [kind |-> "user", id |-> "tony"]
Other == [kind |-> "user", id |-> "other"]
Agent == [kind |-> "agent", id |-> "agent"]
Provider == [kind |-> "provider", id |-> "provider"]
Machine == [kind |-> "system", id |-> "system"]

Private == [class |-> "private", replication |-> "local_only", mode |-> "durable", expires |-> Absent]
Shared == [Private EXCEPT !.class = "eligible_shared", !.replication = "eligible"]

Prov(basis) == [basis |-> basis, evidence |-> {"e"}, confident |-> TRUE]
Record(type, basis, maker, about) ==
  [type |-> type, id |-> type, owner |-> Tony, rev |-> 1, created |-> 1, updated |-> 1,
   creator |-> maker, editor |-> maker, prov |-> Prov(basis), ret |-> Private, sealed |-> TRUE, about |-> about]
Key(type) == [type |-> type, id |-> type]

Anywhere == [kind |-> "global", id |-> Absent]
Said(basis, status) == [basis |-> basis, status |-> status, scope |-> Anywhere, from |-> Absent, until |-> Absent]
Statement(basis, status, maker) == Record("context_statement", basis, maker, Said(basis, status))
Chosen(status, type, rev) ==
  Record("decision", "explicit", Tony,
    [status |-> status, by |-> Tony, at |-> 1, targets |-> {[type |-> type, id |-> type, rev |-> rev]}])

-----------------------------------------------------------------------------
(* Owner, agents and another user write one portable ledger *)

I(op, entity, actor, mode, cites) ==
  [op |-> op, entity |-> entity, actor |-> actor, mode |-> mode,
   by |-> IF mode = "user_confirmation" THEN Tony ELSE Absent, producer |-> Absent,
   cites |-> cites, at |-> 1, follows |-> cites # Absent]
Mine(op, entity) == I(op, entity, Tony, "user_originated", Absent)
Proposed(op, entity) == I(op, entity, Agent, "agent_proposal", Absent)
Confirmed(op, entity) == I(op, entity, Agent, "user_confirmation", Key("decision"))
Draft == Record("draft", "inferred", Agent, [status |-> "approved", sources |-> {"e"}, seeds |-> {}])
Second == [Chosen("active", "context_statement", Absent) EXCEPT !.id = "second"]

WordIntents == {
  Mine("created", Chosen("active", "context_statement", Absent)),
  Mine("created", Chosen("active", "context_statement", 2)),
  Mine("created", Chosen("active", "draft", Absent)),
  Mine("revised", Chosen("superseded", "context_statement", Absent)),
  Mine("tombstoned", Chosen("active", "context_statement", Absent)),
  [Mine("created", Chosen("active", "context_statement", Absent)) EXCEPT !.actor = Other],
  Confirmed("created", Second),
  Confirmed("created", Statement("explicit", "active", Tony)),
  Confirmed("revised", Statement("explicit", "active", Tony)),
  Proposed("created", Statement("inferred", "proposed", Agent)),
  Proposed("created", Statement("inferred", "active", Agent)),
  Proposed("revised", [Statement("inferred", "proposed", Agent) EXCEPT !.ret = Shared]),
  Confirmed("corrected", [Statement("explicit", "active", Tony) EXCEPT !.ret = Shared]),
  Proposed("tombstoned", Statement("inferred", "proposed", Agent)),
  Proposed("created", Draft), Confirmed("created", Draft)}

\* Two copies part after a restore.
Seen(updated) == [Record("evidence_item", "observed", Agent, [kind |-> "public_source", holds |-> {"content"}])
                    EXCEPT !.updated = updated]
ForkIntents == {
  Proposed("created", Seen(1)), Proposed("revised", Seen(1)), Proposed("corrected", Seen(2)),
  Mine("tombstoned", Seen(1)), Mine("created", Chosen("active", "decision", Absent))}

LedgerOf == [
  words |-> [copies |-> {1}, intents |-> WordIntents, events |-> 4, built |-> 5, restores |-> 0],
  forks |-> [copies |-> {1, 2}, intents |-> ForkIntents, events |-> 3, built |-> 4, restores |-> 1]]
LedgerIntents == WordIntents \cup ForkIntents

-----------------------------------------------------------------------------
(* The kernel's ledger and its export *)

Ask(body, basis, actor, expected) ==
  [target |-> [type |-> body.type, id |-> body.id], body |-> [body EXCEPT !.rev = expected + 1],
   basis |-> basis, actor |-> actor, expected |-> expected, at |-> 1,
   corrects |-> FALSE, deletes |-> FALSE]
New(type, basis, maker, about) == Ask(Record(type, basis, maker, about), basis, maker, 0)

Claim(evidence, first, last) == [id |-> "c", evidence |-> evidence, first |-> first, last |-> last, count |-> 1]
Thread(claims) == [claims |-> claims, first |-> 1, last |-> 1]
Pick(id, disposition) == [id |-> id, disposition |-> disposition]
Selection(candidates, rejected, recommended, result) ==
  [candidates |-> candidates, evaluated |-> Len(candidates), rejected |-> rejected,
   recommended |-> recommended, result |-> result]
Talk(disposition) ==
  [started |-> 1, ended |-> Absent, participants |-> {Agent}, outcome |-> [disposition |-> disposition, excused |-> FALSE]]

\* One record of each type that passes the boundary and, for most, one that does not.
Firsts == {
  New("conversation", "inferred", Agent, Talk("decision_recorded")),
  New("conversation", "inferred", Agent, Talk("no_new_input")),
  New("thread", "inferred", Agent, Thread(<<Claim({"e"}, 1, 1)>>)),
  New("thread", "inferred", Agent, Thread(<<Claim({"e"}, 1, 1), Claim({"e"}, 1, 2)>>)),
  New("thread", "inferred", Agent, Thread(<<Claim({}, 1, 1)>>)),
  New("selection_run", "inferred", Agent,
    Selection(<<Pick("x", "rejected"), Pick("y", "recommended")>>, 1, <<"y">>, "recommendation")),
  New("selection_run", "inferred", Agent, Selection(<<Pick("x", "rejected")>>, 0, <<>>, "inconclusive")),
  New("selection_run", "inferred", Agent, Selection(<<Pick("x", "watching")>>, 0, <<"x">>, "recommendation")),
  New("draft", "inferred", Agent, [status |-> "ready", sources |-> {}, seeds |-> {"e"}]),
  New("draft", "inferred", Agent, [status |-> "ready", sources |-> {}, seeds |-> {}]),
  New("draft", "inferred", Agent, [status |-> "approved", sources |-> {"e"}, seeds |-> {}]),
  New("draft", "explicit", Tony, [status |-> "approved", sources |-> {"e"}, seeds |-> {}]),
  New("decision", "inferred", Agent, Chosen("active", "draft", Absent).about),
  New("decision", "explicit", Tony, Chosen("active", "draft", Absent).about),
  New("feedback_signal", "inferred", Agent, Absent),
  New("evidence_item", "observed", Provider, [kind |-> "provider_receipt", holds |-> {"content"}]),
  New("evidence_item", "system", Machine, [kind |-> "other", holds |-> {"object"}]),
  New("note", "inferred", Agent, Absent)}

\* Revisions of one record, with the dates and the retention callers may give.
Place(created, updated, ret) ==
  [Record("place", "inferred", Agent, [thread |-> "thread", selection |-> Absent])
     EXCEPT !.created = created, !.updated = updated, !.ret = ret]
Revisions ==
  {Ask(Place(1, u, Private), "inferred", Agent, n) : u \in 1 .. 2, n \in 0 .. 2}
    \cup {Ask(Place(2, 2, Private), "inferred", Agent, 1), Ask(Place(1, 2, Shared), "inferred", Agent, 1),
          Ask(Place(1, 1, [Private EXCEPT !.mode = "ttl"]), "inferred", Agent, 1),
          [Ask(Place(1, 2, Private), "inferred", Agent, 1) EXCEPT !.corrects = TRUE],
          [Ask([Place(1, 2, Private) EXCEPT !.owner = Other], "inferred", Agent, 1) EXCEPT !.corrects = TRUE]}

\* The owner corrects an agent's inference: in the agent's name it is refused.
Inferred == Statement("inferred", "proposed", Agent)
Corrected(creator) == [Statement("explicit", "active", Tony) EXCEPT !.creator = creator, !.ret = Shared]
Corrections == {
  Ask(Inferred, "inferred", Agent, 0), Ask(Inferred, "inferred", Agent, 1),
  [Ask(Corrected(Tony), "explicit", Tony, 1) EXCEPT !.corrects = TRUE],
  Ask(Corrected(Agent), "explicit", Tony, 1)}

Erase(r, n) == [r EXCEPT !.expected = n, !.body = Absent, !.actor = Tony, !.basis = "explicit", !.deletes = TRUE]
Erasures == {Erase(Ask(Inferred, "inferred", Agent, 0), 1), Erase(Ask(Place(1, 1, Private), "inferred", Agent, 0), 2)}

\* The gateway reads its ledger page by page, and body by body.
RequestsOf == [
  export |-> Firsts \cup Revisions \cup Corrections \cup Erasures,
  gateway |-> {New("note", "inferred", Agent, Absent), New("run", "inferred", Agent, Absent),
               Ask(Place(1, 1, Private), "inferred", Agent, 0), Ask(Place(2, 2, Private), "inferred", Agent, 1)}
               \cup Corrections \cup Erasures]
AllRequests == RequestsOf["export"] \cup RequestsOf["gateway"]

-----------------------------------------------------------------------------
(* One run's events, and what is shown of one action *)

Ours == [conn |-> "conn", run |-> "run", agent |-> "agent"]
Door(id) == [id |-> id, place |-> "door"]
Post(agent, kind, data) == [agent |-> agent, kind |-> kind, sources |-> {}, data |-> data]
Listed == [shaped |-> TRUE, run |-> "run", agent |-> "agent", rev |-> 1, refs |-> {Door("s")}, claims |-> {{Door("s")}}]

\* The bridge's calls, and the events of another producer.
Bridge == INSTANCE RunReplay WITH Me <- Ours, Posts <- {}, MaxEvents <- 0
RunPosts == {
  Post("agent", "run.started", [status |-> "running"]),
  Post("agent", "run.progress", [status |-> "completed"]),
  Post("agent", "run.completed", [status |-> "partial"]),
  Post("other", "run.progress", <<>>),
  [Post("agent", "feed.item.published", [item |-> Listed]) EXCEPT !.sources = {"s"}],
  Bridge!PublishFeedItem({Door("s")}, {{"s"}}),
  Bridge!ProposeAction({Door("s")}),
  Bridge!RecordFeedback({}),
  Bridge!CompleteRun("completed", {})}


\* A run that another producer starts, and the rest of the bridge's calls.
BridgePosts == {
  Post("agent", "run.started", [status |-> "running"]),
  Bridge!ObserveSource(Door("s")), Bridge!UpdateFeedItem(1, {Door("s")}, {{"s"}}),
  Bridge!UpdateFeedItem(1, {Door("s")}, {}), Bridge!WithdrawFeedItem(1, {}),
  Bridge!CompleteRun("partial", {}), Bridge!CompleteRun("failed", {})}

RunsOf == [replay |-> [posts |-> RunPosts, sent |-> 4], bridge |-> [posts |-> BridgePosts, sent |-> 3]]
AllPosts == RunPosts \cup BridgePosts

Revised == <<[payload |-> "mail", expires |-> 3], [payload |-> "letter", expires |-> Absent]>>
Answer(by, rev, payload, decision, until) ==
  [by |-> by, rev |-> rev, payload |-> payload, decision |-> decision, until |-> until]
Answered == {Answer("tony", 1, "mail", "approved", Absent), Answer("tony", 1, "mail", "approved", 2),
            Answer("tony", 2, "letter", "approved", Absent), Answer("tony", 2, "mail", "approved", Absent),
            Answer("tony", 1, "mail", "rejected", Absent), Answer("other", 1, "mail", "approved", Absent)}
Reported == {[rev |-> 1, payload |-> "mail", status |-> s] : s \in {"provider_acknowledged", "delivered", "read", "failed"}}
             \cup {[rev |-> 1, payload |-> "letter", status |-> "delivered"]}

-----------------------------------------------------------------------------
\* PartsNext with the callers and the bounds of the part.
LedgerNext(l) ==
  /\ \E c \in l.copies :
       \/ built < l.built /\ \E i \in l.intents : Write(c, i) \/ Prepare(c, i)
       \/ Submit(c)
       \/ restores < l.restores /\ \E d \in l.copies : \E n \in 0 .. Len(copies[d]) : Restore(c, d, n)
  /\ \A c \in l.copies : Len(copies'[c]) <= l.events

ExportNext ==
  \/ \E r \in RequestsOf[part] : Export!Change(r) \/ Export!Delete(r)
  \/ part = "gateway" /\ (Export!Begin \/ Export!ReadPage \/ Export!ReadBody \/ Export!Finish)

RunNext ==
  \/ used.id < RunsOf[part].sent /\ \E post \in RunsOf[part].posts : Runs!Send(post)
  \/ \E e \in flight : Runs!Store(e)
  \/ Runs!Follow

SetNext ==
  /\ UNCHANGED part
  /\ \/ part \in LedgerParts /\ LedgerNext(LedgerOf[part]) /\ UNCHANGED <<log, export, runVars, actionVars>>
     \/ part \in ExportParts /\ ExportNext /\ UNCHANGED <<vars, runVars, actionVars>>
     \/ part \in RunParts /\ RunNext /\ UNCHANGED <<export, vars, actionVars>>
     \/ part = "proof" /\ Proof!Next /\ UNCHANGED <<vars, log, export, runVars>>

SetSpec == PartsInit /\ [][SetNext]_partsVars
=============================================================================
