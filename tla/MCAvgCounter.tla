---------------------------- MODULE MCAvgCounter ----------------------------
(* Three executions of one script and one with another number of reduces.  *)
EXTENDS Optimization, TLC

CONSTANTS r1, r2, r3, other

MCRuns   == {r1, r2, r3, other}
MCKey    == [r \in MCRuns |-> IF r = other THEN "b" ELSE "a"]
MCScript == [key \in {"a", "b"} |-> "s"]

\* the executions of the same script are interchangeable
Executions == Permutations({r1, r2, r3})
=============================================================================
