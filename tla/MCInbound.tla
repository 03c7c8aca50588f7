------------------------------ MODULE MCInbound ------------------------------
(* Instances of InboundPipeline for TLC: frames of 3, 4 and 3 bytes behind *)
(* 2-byte headers, received in chunks of at most 2 bytes through the       *)
(* smallest queue the assumption allows, on the server and on the client.  *)
EXTENDS InboundPipeline

MCStart == <<0, 3, 7, 10>>
MCGarbage == 0..2
=============================================================================
