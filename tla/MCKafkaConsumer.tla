---------------------------- MODULE MCKafkaConsumer ----------------------------
(* Constant values for model checking KafkaConsumer on small instances.     *)
EXTENDS KafkaConsumer

CONSTANTS m1, m2

AnyAnswer      == [m \in Msg |-> Outcome \ {"cancelled"}]
TransientOnly  == [m \in Msg |-> {"transient"}]
PermanentFirst == [m \in Msg |-> IF m = m1 THEN {"permanent"} ELSE {"ok"}]
================================================================================
