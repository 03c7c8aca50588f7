------------------------------- MODULE MCControl -------------------------------
(* Instances of ControlService for TLC: a thread that waits for the        *)
(* controller's answers and one that does not; or two that do.             *)
EXTENDS ControlService

MCQuerier == {"q1"}
MCSender == {"s1"}
MCTwoQueriers == {"q1", "q2"}
=============================================================================
