------------------------------ MODULE MCPosition ------------------------------
(* An instance of PositionControl for TLC, with eight to a gain of one: half *)
(* the error; the whole of it for an encoder mounted the other way, with and *)
(* without an integral and a differential part; a gain so small that moves   *)
(* are rounded to nothing; and gains without an axis.                        *)
EXTENDS PositionControl

MCGoals == {2, -4}
MCSteps == {-2}
MCDirs == {1, -1}
MCGains == {[p |-> 4, i |-> 0, d |-> 0, axis |-> TRUE],
            [p |-> -8, i |-> 1, d |-> 1, axis |-> TRUE],
            [p |-> -8, i |-> 0, d |-> 0, axis |-> TRUE],
            [p |-> 1, i |-> 0, d |-> 0, axis |-> TRUE],
            [p |-> 4, i |-> 0, d |-> 0, axis |-> FALSE]}
===============================================================================
