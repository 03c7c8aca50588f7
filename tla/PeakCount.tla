------------------------------ MODULE PeakCount ------------------------------
(***************************************************************************)
(* DCS::Math::countArrayPeak as the voltage callback uses it: one pass     *)
(* over a buffer of samples that finds the peaks above vlo none of whose   *)
(* samples is above vhi.  A sample is 0 (not above vlo), a level in        *)
(* between, or more than VHi.                                              *)
(***************************************************************************)
EXTENDS Integers, Sequences, FiniteSets

CONSTANT VHi

ASSUME PeakAssumption == VHi \in Nat

NoPeak == [mode |-> "low", discard |-> FALSE, max |-> 0, at |-> 0]

(* The end of a peak: it is kept unless one of its samples was too high. *)
Close(st) ==
    [peak |-> NoPeak,
     maxima |-> IF st.peak.discard THEN st.maxima ELSE Append(st.maxima, st.peak.max),
     maximizers |-> IF st.peak.discard THEN st.maximizers
                                       ELSE Append(st.maximizers, st.peak.at)]

ClimbLast(p, x, i) ==
    [mode |-> "peak", discard |-> p.discard \/ x > VHi,
     max |-> IF x >= p.max THEN x ELSE p.max, at |-> IF x >= p.max THEN i ELSE p.at]

Climb(p, x, i) ==
    [mode |-> "peak", discard |-> p.discard \/ x > VHi,
     max |-> IF x > p.max THEN x ELSE p.max, at |-> IF x > p.max THEN i ELSE p.at]

(* Sample x at position i.  A signal that is too high where a peak would   *)
(* begin is skipped until it has come down (waitDescent).                  *)
Step(st, x, i) ==
    CASE x = 0 -> IF st.peak.mode = "peak" THEN Close(st) ELSE [st EXCEPT !.peak = NoPeak]
      [] x > 0 /\ st.peak.mode = "high" -> st
      [] x > VHi /\ st.peak.mode = "low" -> [st EXCEPT !.peak.mode = "high"]
      [] OTHER -> [st EXCEPT !.peak = Climb(st.peak, x, i)]

Nothing == [peak |-> NoPeak, maxima |-> <<>>, maximizers |-> <<>>]

(* The pass: where it is after each number of samples. *)
Scan(s) ==
    LET core[i \in 0..Len(s)] == IF i = 0 THEN Nothing ELSE Step(core[i - 1], s[i], i)
    IN  core

countArrayPeak(s) ==
    LET last == Scan(s)[Len(s)]
    IN  IF last.peak.mode = "peak" THEN Close(last) ELSE last

(* The reference: the stretches of samples above vlo, as long as possible, *)
(* that stay within vhi.                                                   *)
Stretches(s) ==
    {r \in (1..Len(s)) \X (1..Len(s)) :
       /\ r[1] <= r[2]
       /\ \A i \in r[1]..r[2] : s[i] > 0
       /\ r[1] > 1 => s[r[1] - 1] = 0
       /\ r[2] < Len(s) => s[r[2] + 1] = 0}
GoodStretches(s) == {r \in Stretches(s) : \A i \in r[1]..r[2] : s[i] <= VHi}

CountedRight(s) ==
    LET c == countArrayPeak(s)
        good == GoodStretches(s)
    IN  /\ Len(c.maxima) = Cardinality(good) /\ Len(c.maximizers) = Len(c.maxima)
        /\ \A r \in good :
             LET k == Cardinality({q \in good : q[1] <= r[1]})
                 at == c.maximizers[k]
             IN  /\ at \in r[1]..r[2] /\ c.maxima[k] = s[at]
                 /\ \A i \in r[1]..r[2] : s[i] <= s[at]
                 /\ \A i \in r[1]..(at - 1) : s[i] < s[at]
=============================================================================
