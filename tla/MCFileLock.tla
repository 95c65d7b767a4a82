----------------------------- MODULE MCFileLock -----------------------------
(* Model-checking instances of FileLock. *)
EXTENDS FileLock, TLC

CONSTANTS p1, p2

\* The process that may die, or fail to stat its file, makes one attempt.
OneThenThree == [p \in Proc |-> IF p = p1 THEN 1 ELSE 3]
OneEach == [p \in Proc |-> 1]
SomeFail == {<<p1, "stat">>, <<p1, "write">>, <<p2, "write">>}
=============================================================================
