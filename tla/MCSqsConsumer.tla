----------------------------- MODULE MCSqsConsumer -----------------------------
(* Constant values for model checking SqsConsumer on small instances.       *)
EXTENDS SqsConsumer

CONSTANTS m1, m2

CustomNone     == [m \in Msg |-> 0]
CustomSix      == [m \in Msg |-> 6]
CustomSeven    == [m \in Msg |-> 7]
AnyOutcome     == [m \in Msg |-> Outcome]
OneOfEach      == [m \in Msg |-> IF m = m1 THEN {"ok", "transient"} ELSE {"permanent"}]
TransientOnly  == [m \in Msg |-> {"transient"}]
PermanentOnly  == [m \in Msg |-> {"permanent"}]
================================================================================
