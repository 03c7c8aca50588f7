-------------------------------- MODULE MCRpc --------------------------------
(* Instances of Rpc for TLC: a synchronous caller that calls twice and two *)
(* asynchronous ones; or two synchronous callers.                          *)
EXTENDS Rpc

MCSync == {"s1"}
MCAsync == {"a1", "a2"}
MCCalls == [s1 |-> 2, a1 |-> 1, a2 |-> 1]

MCTwoSync == {"s1", "s2"}
MCOneCallEach == [s1 |-> 1, s2 |-> 1]
=============================================================================
