-------------------------- MODULE MCContextLedger --------------------------
(* Model-checking instances of ContextLedger: the requests of each run. *)
EXTENDS ContextLedger, TLC

Note == [type |-> "note", id |-> "e1"]
Run == [type |-> "run", id |-> "e2"]
Clash == [type |-> "note", id |-> "e2"]
Types == {"note", "run"}
Ids == {"e1", "e2"}

Change(k, en, n, who, how, hasBody) ==
  [op |-> "change", key |-> k, name |-> NoName, entity |-> en, expected |-> n,
   actor |-> who, basis |-> how, sup |-> NoId, tomb |-> FALSE,
   body |-> hasBody, final |-> FALSE, misdated |-> FALSE]
Correct(k, en, n, who, how, s) ==
  [Change(k, en, n, who, how, TRUE) EXCEPT !.op = "correct", !.sup = s]
Delete(k, en, n, who) ==
  [Change(k, en, n, who, "explicit", FALSE) EXCEPT !.op = "delete", !.tomb = TRUE]
Expire(k, en, n) ==
  [Change(k, en, n, "system", "system", FALSE) EXCEPT !.op = "expire", !.tomb = TRUE]

\* One note is written, revised and deleted; calls are retried at will
\* and one caller reuses a key.
NoteRequests ==
  { Change("k1", Note, 0, "agent", "observed", TRUE),
    Change("k2", Note, 1, "agent", "observed", TRUE),
    Change("k1", Note, 1, "agent", "observed", FALSE),
    Delete("k3", Note, 1, "owner"),
    Delete("k3", Note, 2, "owner") }

\* Everything appendChange may refuse: authority, terminal runs, ids, dates.
AuthorityRequests ==
  { Change("k1", Note, 0, "owner", "explicit", TRUE),
    Change("k2", Note, 1, "agent", "observed", FALSE),
    Correct("k2", Note, 1, "owner", "explicit", 1),
    Correct("k3", Note, 1, "owner", "explicit", NoId),
    Expire("k4", Note, 1),
    [Change("k5", Run, 0, "agent", "observed", FALSE) EXCEPT !.final = TRUE, !.name = "n1"],
    [Change("k3", Run, 1, "agent", "observed", FALSE) EXCEPT !.name = "n1"],
    Change("k6", Run, 1, "system", "system", FALSE),
    Change("k6", Clash, 0, "owner", "observed", FALSE),
    Delete("k6", Run, 1, "owner"),
    Change("k6", Note, 0, "stranger", "observed", FALSE),
    [Change("k6", Note, 0, "owner", "observed", FALSE) EXCEPT !.tomb = TRUE],
    [Change("k2", Note, 0, "owner", "observed", FALSE) EXCEPT !.misdated = TRUE] }

\* A note is written and deleted by callers that retry, and one that reuses a key.
RetryRequests ==
  { Change("k1", Note, 0, "agent", "observed", TRUE),
    Change("k1", Note, 1, "agent", "observed", FALSE),
    Delete("k3", Note, 1, "owner") }
=============================================================================
