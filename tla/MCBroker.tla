------------------------------- MODULE MCBroker -------------------------------
(* TLC instances of Broker: two releases, an operation and an adapter's.   *)
EXTENDS Broker

CONSTANTS k1, k2, o1, o2

MCRelease == [c \in Caller |-> IF c = k1 THEN 1 ELSE 2]
MCKinds == [o \in Op |-> IF o = o1 THEN {"call", "job"} ELSE {"studio"}]
=============================================================================
