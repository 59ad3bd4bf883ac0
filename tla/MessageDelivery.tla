---------------------------- MODULE MessageDelivery ----------------------------
(***************************************************************************)
(* What the messaging core promises its users, whichever broker carries     *)
(* the messages: at-least-once processing with a dead-letter queue.  Once   *)
(* submitted, a message stays pending until a handler has succeeded on it   *)
(* or it is in the dead-letter queue.  Redelivery may bring a settled       *)
(* message back; nothing may drop an unsettled one.                         *)
(***************************************************************************)
CONSTANT Msg

VARIABLES submitted,  \* messages accepted by the main queue
          pending,    \* messages some queue will still deliver
          done,       \* messages a handler has succeeded on
          dead        \* messages in the dead-letter queue

vars == <<submitted, pending, done, dead>>

settled == done \cup dead

Init == /\ submitted = {}
        /\ pending = {}
        /\ done = {}
        /\ dead = {}

Submit(m) == /\ m \notin submitted
             /\ submitted' = submitted \cup {m}
             /\ pending' = pending \cup {m}
             /\ UNCHANGED <<done, dead>>

Succeed(m) == /\ m \in submitted
              /\ done' = done \cup {m}
              /\ UNCHANGED <<submitted, pending, dead>>

DeadLetter(m) == /\ m \in submitted
                 /\ dead' = dead \cup {m}
                 /\ UNCHANGED <<submitted, pending, done>>

\* The queues forget messages: only settled ones.
Retire(S) == /\ S \subseteq pending \cap settled
             /\ pending' = pending \ S
             /\ UNCHANGED <<submitted, done, dead>>

\* A duplicate of settled messages comes back.
Reappear(S) == /\ S \subseteq settled
               /\ pending' = pending \cup S
               /\ UNCHANGED <<submitted, done, dead>>

Next == \/ \E m \in Msg : Submit(m) \/ Succeed(m) \/ DeadLetter(m)
        \/ \E S \in SUBSET Msg : Retire(S) \/ Reappear(S)

Spec == Init /\ [][Next]_vars

--------------------------------------------------------------------------------
\* No accepted message is lost: it is pending until it is settled.
NeverLost == \A m \in submitted : m \in pending \cup settled

\* Every accepted message is eventually settled.
EventuallySettled == \A m \in Msg : m \in submitted ~> m \in settled
================================================================================
