----------------------------- MODULE EventStore -----------------------------
(***************************************************************************)
(* What append promises to the handlers of POST /v1/events: each event is  *)
(* compared, in one step, with the rows that hold its key or its id on the *)
(* same connection, and is either added or answered with the row that      *)
(* stands in its place.  The in-memory store of the hub works this way.    *)
(***************************************************************************)
CONSTANTS Worker, Event

VARIABLES rows,   \* the append-only log
          open,   \* [by, event]: calls of append that have not returned
          given   \* [event, outcome, record]: what append has returned

SameKey(e) == {r \in rows : r.conn = e.conn /\ r.key = e.key}
SameId(e) == {r \in rows : r.conn = e.conn /\ r.id = e.id}

\* An id under a new key is a duplicate only if all else agrees.
Verdict(e, r) ==
  IF r = e \/ (r.key # e.key /\ [r EXCEPT !.key = e.key] = e) THEN "duplicate" ELSE "conflict"

EventStoreInit == rows = {} /\ open = {} /\ given = {}

Ask(w, e) ==
  /\ \A c \in open : c.by # w
  /\ open' = open \cup {[by |-> w, event |-> e]}
  /\ UNCHANGED <<rows, given>>

Return(c, outcome, r) ==
  /\ open' = open \ {c}
  /\ given' = given \cup {[event |-> c.event, outcome |-> outcome, record |-> r]}

Insert(c) ==
  /\ SameKey(c.event) \cup SameId(c.event) = {}
  /\ rows' = rows \cup {c.event}
  /\ Return(c, "inserted", c.event)

AnswerByKey(c) ==
  \E r \in SameKey(c.event) : Return(c, Verdict(c.event, r), r) /\ UNCHANGED rows

AnswerById(c) ==
  /\ SameKey(c.event) = {}
  /\ \E r \in SameId(c.event) : Return(c, Verdict(c.event, r), r) /\ UNCHANGED rows

\* A failing database gives no answer and may or may not have added the row.
Fail(c) ==
  /\ open' = open \ {c}
  /\ UNCHANGED given
  /\ \/ UNCHANGED rows
     \/ SameKey(c.event) \cup SameId(c.event) = {} /\ rows' = rows \cup {c.event}

EventStoreNext ==
  \/ \E w \in Worker, e \in Event : Ask(w, e)
  \/ \E c \in open : Insert(c) \/ AnswerByKey(c) \/ AnswerById(c) \/ Fail(c)

EventStoreSpec == EventStoreInit /\ [][EventStoreNext]_<<rows, open, given>>
=============================================================================
