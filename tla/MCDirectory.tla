------------------------------ MODULE MCDirectory ------------------------------
(* Constant values for model checking Directory on small instances.         *)
EXTENDS Directory

CONSTANTS r1, r2, r3, r4

\* Two users compete for an e-mail, another user and a role do not.
Keys == [r \in Request |-> IF r = r3 THEN "b" ELSE "a"]
================================================================================
