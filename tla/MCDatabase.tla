----------------------------- MODULE MCDatabase -----------------------------
(* Database for TLC: the thread of the remote calls and the encoder loop   *)
(* on one variable, the operations on which never touch another one.       *)
EXTENDS Database, TLC

MCNumbers == {18}
MCSymmetry == Permutations(Users)
=============================================================================
