------------------------------- MODULE MCSession -------------------------------
(* An instance of ServerSession for TLC: any two clients, each with the    *)
(* right credentials or not, and the operator.                             *)
EXTENDS ServerSession

TwoClients == 2
=============================================================================
