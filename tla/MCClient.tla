------------------------------- MODULE MCClient -------------------------------
(* Instance for TLC of ClientSession: its constants come from Client.cfg.   *)
EXTENDS ClientSession
===============================================================================
