---------------------------- MODULE AtomicDirectory ----------------------------
(***************************************************************************)
(* What the user and role services promise: a name is claimed at one        *)
(* instant, by one request.  A request answered "created" has claimed its   *)
(* name, one answered "conflict" found it claimed; after "error" the client *)
(* does not know.                                                           *)
(***************************************************************************)
CONSTANTS Request,  \* creation requests
          NameOf    \* [Request -> names]

VARIABLES taken,    \* names claimed
          answer    \* what each request was told, "none" so far

vars == <<taken, answer>>

Init == /\ taken = {}
        /\ answer = [r \in Request |-> "none"]

Claim(r) == /\ answer[r] = "none"
            /\ NameOf[r] \notin taken
            /\ taken' = taken \cup {NameOf[r]}
            /\ \E a \in {"created", "error"} : answer' = [answer EXCEPT ![r] = a]

Refuse(r) == /\ answer[r] = "none"
             /\ \/ /\ NameOf[r] \in taken
                   /\ answer' = [answer EXCEPT ![r] = "conflict"]
                \/ answer' = [answer EXCEPT ![r] = "error"]
             /\ UNCHANGED taken

Next == \E r \in Request : Claim(r) \/ Refuse(r)

Spec == Init /\ [][Next]_vars
================================================================================
