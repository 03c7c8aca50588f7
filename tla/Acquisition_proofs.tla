------------------------- MODULE Acquisition_proofs -------------------------
(***************************************************************************)
(* For any channels, sample buffers, counter widths and bounds: one set of *)
(* event loops runs exactly while one task does, every datum the callbacks *)
(* queue is handed over once and in order, the counts add up, and of every *)
(* buffer countArrayPeak finds exactly the peaks.                          *)
(***************************************************************************)
EXTENDS Acquisition, FiniteSetTheorems, SequenceTheorems, WellFoundedInduction, TLAPS

(* At most one acquisition is running; only it has tasks on the device,    *)
(* and the pulse train only with the counter.                              *)
TaskInv ==
    alive =>
      /\ running \in {{}, {"AI"}, {"CI"}}
      /\ task["AI"] # "none" => "AI" \in running
      /\ task["CI"] # "none" => "CI" \in running
      /\ task["PTG"] # "none" => "CI" \in running /\ usingPtg

(* The loops run from the start of an acquisition until the call that      *)
(* stops it has joined them.                                               *)
LoopInv ==
    alive =>
      /\ sig <=> running # {}
      /\ cmd # "idle" => running = {}
      /\ \A l \in {"dcs", "cli"} : loop[l] = "off" <=> (running = {} /\ cmd = "idle")
      /\ loop["mca"] = "off" <=> ((running = {} /\ cmd = "idle") \/ ~mcaMode)

(* A loop holds a datum exactly between taking and emitting it; what is    *)
(* queued is never taken for the value that means "woken for nothing".     *)
RealData == [id : 1..MaxData, num : 0..(Sentinel - 1)]
HeldInv ==
    \A l \in Loops :
      /\ queue[l] \in Seq(RealData)
      /\ took[l] # None <=> loop[l] = "emit"
      /\ took[l] = None \/ took[l] \in RealData \/ took[l] = [id |-> 0, num |-> Sentinel]

(* count_task_last_count is the counter, and both are the sum so far.      *)
CountInv == counter = lastCount /\ total = counter /\ counter = edges % CounterMod

IInv == TypeOK /\ TaskInv /\ LoopInv /\ HeldInv /\ DeliveredOnce /\ CountInv
-----------------------------------------------------------------------------
(* countArrayPeak, for every buffer of samples.                            *)

(* at is where the samples from a to b first reach their maximum.          *)
FirstMax(s, a, b, at) ==
    /\ at \in a..b
    /\ \A j \in a..b : s[j] <= s[at]
    /\ \A j \in a..(at - 1) : s[j] < s[at]

(* A stretch that begins at a has not come down by sample i.               *)
Up(s, a, i) ==
    /\ a \in 1..i
    /\ \A j \in a..i : s[j] > 0
    /\ a > 1 => s[a - 1] = 0

Peaks == [mode : {"low", "high", "peak"}, discard : BOOLEAN, max : Nat, at : Nat]

(* What the pass knows of the stretch it is in after i samples.            *)
OpenInv(s, i, p) ==
    /\ p \in Peaks
    /\ p.mode = "low" => p = NoPeak /\ (i > 0 => s[i] = 0)
    /\ p.mode = "high" => \E a \in 1..i : Up(s, a, i) /\ s[a] > VHi
    /\ p.mode = "peak" =>
         \E a \in 1..i :
           /\ Up(s, a, i) /\ FirstMax(s, a, i, p.at) /\ p.max = s[p.at]
           /\ p.discard <=> \E j \in a..i : s[j] > VHi

(* What it has stored of the stretches that ended before sample i: one     *)
(* maximum of each good one, with a low sample between any two.            *)
DoneInv(s, i, maxima, maximizers) ==
    /\ maxima \in Seq(Nat) /\ maximizers \in Seq(1..Len(s))
    /\ Len(maxima) = Len(maximizers)
    /\ \A k \in 1..Len(maximizers) :
         /\ maxima[k] = s[maximizers[k]]
         /\ \E r \in GoodStretches(s) :
              r[2] < i /\ FirstMax(s, r[1], r[2], maximizers[k])
    /\ \A k \in 1..Len(maximizers) : \A j \in 1..(k - 1) :
         \E z \in maximizers[j]..maximizers[k] : s[z] = 0
    /\ \A r \in GoodStretches(s) :
         r[2] < i => \E k \in 1..Len(maximizers) : maximizers[k] \in r[1]..r[2]

States == [peak : Peaks, maxima : Seq(Nat), maximizers : Seq(Nat)]

(* The loop invariant of the pass.                                         *)
ScanInv(s, i, st) ==
    /\ st \in States
    /\ OpenInv(s, i, st.peak)
    /\ DoneInv(s, i, st.maxima, st.maximizers)
    /\ Len(st.maxima) <= i /\ (st.peak.mode = "peak" => Len(st.maxima) < i)

(* What is stored once the signal has come down.                           *)
Ended(st) == IF st.peak.mode = "peak" THEN Close(st) ELSE st

(* Every non-empty set of natural numbers has a least element.             *)
LEMMA LeastNatural ==
    ASSUME NEW T, T \subseteq Nat, T # {}
    PROVE  \E n \in T : \A m \in T : n <= m
<1> DEFINE R == OpToRel(<, Nat)
<1>1. \A x, y \in Nat : <<x, y>> \in R <=> x < y
    BY DEF OpToRel
<1>2. IsWellFoundedOn(R, Nat)
    BY NatLessThanWellFounded
<1> HIDE DEF R
<1>3. PICK n \in T : \A m \in T : <<m, n>> \notin R
    BY <1>2, WFMin
<1>4. ASSUME NEW m \in T PROVE n <= m
  <2>1. m \in Nat /\ n \in Nat /\ <<m, n>> \notin R
      BY <1>3
  <2>2. ~(m < n)
      BY <1>1, <2>1
  <2> QED BY <2>1, <2>2
<1> QED BY <1>4

(* Induction up to n, over the set of the numbers that are Good: the form  *)
(* of induction that needs no operator as a parameter.                     *)
LEMMA InductionUpTo ==
    ASSUME NEW n \in Nat, NEW Good, 0 \in Good,
           \A i \in 0..(n - 1) : i \in Good => i + 1 \in Good
    PROVE  \A i \in 0..n : i \in Good
<1> SUFFICES ASSUME (0..n) \ Good # {} PROVE FALSE
    OBVIOUS
<1>1. (0..n) \ Good \subseteq Nat
    OBVIOUS
<1>2. PICK i \in (0..n) \ Good : \A m \in (0..n) \ Good : i <= m
    BY <1>1, LeastNatural
<1>3. i # 0 /\ i - 1 \in 0..(n - 1) /\ i - 1 \in 0..n
    BY <1>2
<1>4. i - 1 \in Good
    BY <1>2, <1>3
<1> QED BY <1>2, <1>3, <1>4

(* The recursive definition of Scan has a solution, so Scan satisfies it.  *)
LEMMA ScanUnfolds ==
    ASSUME NEW s \in Seq(Nat)
    PROVE  Scan(s) = [i \in 0..Len(s) |->
                        IF i = 0 THEN Nothing ELSE Step(Scan(s)[i - 1], s[i], i)]
<1> DEFINE Def(f, n) == f = [i \in 0..n |->
                               IF i = 0 THEN Nothing ELSE Step(f[i - 1], s[i], i)]
           Good == {n \in Nat : \E f : Def(f, n)}
<1>0. Len(s) \in Nat
    OBVIOUS
<1>1. 0 \in Good
  <2>1. Def([i \in 0..0 |-> Nothing], 0)
      OBVIOUS
  <2> QED BY <2>1
<1>2. ASSUME NEW n \in 0..(Len(s) - 1), n \in Good PROVE n + 1 \in Good
  <2>1. PICK f : Def(f, n)
      BY <1>2
  <2> DEFINE g == [i \in 0..(n + 1) |-> IF i <= n THEN f[i] ELSE Step(f[n], s[i], i)]
  <2>2. ASSUME NEW i \in 0..(n + 1)
        PROVE  g[i] = IF i = 0 THEN Nothing ELSE Step(g[i - 1], s[i], i)
    <3>1. CASE i = 0
        BY <2>1, <3>1
    <3>2. CASE i # 0 /\ i <= n
      <4>1. i \in 0..n /\ i - 1 \in 0..n /\ i - 1 \in 0..(n + 1) /\ i - 1 <= n
          BY <3>2
      <4>2. g[i] = f[i] /\ g[i - 1] = f[i - 1]
          BY <3>2, <4>1
      <4>3. f[i] = Step(f[i - 1], s[i], i)
          BY <2>1, <3>2, <4>1
      <4> QED BY <3>2, <4>2, <4>3
    <3>3. CASE i = n + 1
      <4>1. n \in 0..(n + 1) /\ ~(i <= n) /\ i - 1 = n /\ i # 0
          BY <3>3
      <4> QED BY <4>1
    <3> QED BY <3>1, <3>2, <3>3
  <2>3. Def(g, n + 1)
    <3> HIDE DEF g
    <3>1. g = [i \in 0..(n + 1) |-> g[i]]
        BY DEF g
    <3> QED BY <2>2, <3>1
  <2>4. n + 1 \in Nat
      OBVIOUS
  <2> QED BY <2>3, <2>4
<1>3. Len(s) \in Good
  <2> HIDE DEF Good
  <2>1. Len(s) \in 0..Len(s)
      BY <1>0
  <2> QED BY <1>0, <1>1, <1>2, <2>1, InductionUpTo
<1>4. PICK f : Def(f, Len(s))
    BY <1>3
<1> QED BY <1>4, Zenon DEF Scan

(* The samples are numbers.                                                *)
LEMMA SampleFacts ==
    ASSUME NEW s \in Seq(Nat)
    PROVE  Len(s) \in Nat /\ \A i \in 1..Len(s) : s[i] \in Nat
    OBVIOUS

(* What a stretch is.                                                      *)
LEMMA StretchFacts ==
    ASSUME NEW s \in Seq(Nat), NEW r \in Stretches(s)
    PROVE  /\ r = <<r[1], r[2]>> /\ r[1] \in 1..Len(s) /\ r[2] \in 1..Len(s)
           /\ r[1] <= r[2]
           /\ \A i \in r[1]..r[2] : s[i] > 0
           /\ r[1] > 1 => s[r[1] - 1] = 0
           /\ r[2] < Len(s) => s[r[2] + 1] = 0
    BY DEF Stretches

(* Two stretches with a common sample are the same: where one began or     *)
(* ended first, the other would have a low sample.                         *)
LEMMA NoLowBetween ==
    ASSUME NEW s, NEW n \in Nat, NEW a \in Nat, NEW b \in Nat, NEW c \in Nat, NEW d \in Nat,
           NEW i \in Nat, a <= i, i <= b, c <= i, i <= d, 1 <= a, d <= n,
           \A j \in a..b : s[j] > 0, \A j \in c..d : s[j] > 0,
           c > 1 => s[c - 1] = 0, b < n => s[b + 1] = 0
    PROVE  c <= a /\ d <= b
<1>1. ASSUME a < c PROVE FALSE
  <2>1. c - 1 \in a..b /\ c > 1
      BY <1>1
  <2> QED BY <2>1
<1>2. ASSUME b < d PROVE FALSE
  <2>1. b + 1 \in c..d /\ b < n
      BY <1>2
  <2> QED BY <2>1
<1> QED BY <1>1, <1>2

(* Two stretches that share a sample are one: as long as possible, neither *)
(* can go on where the other ends.                                         *)
LEMMA StretchesDisjoint ==
    ASSUME NEW s \in Seq(Nat), NEW r \in Stretches(s), NEW q \in Stretches(s),
           NEW i \in r[1]..r[2], i \in q[1]..q[2]
    PROVE  r = q
<1> DEFINE a == r[1]
           b == r[2]
           c == q[1]
           d == q[2]
           n == Len(s)
<1>1. /\ r = <<a, b>> /\ a \in 1..n /\ b \in 1..n /\ \A j \in a..b : s[j] > 0
      /\ a > 1 => s[a - 1] = 0
      /\ b < n => s[b + 1] = 0
    BY StretchFacts
<1>2. /\ q = <<c, d>> /\ c \in 1..n /\ d \in 1..n /\ \A j \in c..d : s[j] > 0
      /\ c > 1 => s[c - 1] = 0
      /\ d < n => s[d + 1] = 0
    BY StretchFacts
<1>3. n \in Nat /\ i \in a..b /\ i \in c..d
    BY SampleFacts
<1> HIDE DEF a, b, c, d, n
<1>4. /\ a \in Nat /\ b \in Nat /\ c \in Nat /\ d \in Nat /\ i \in Nat
      /\ a <= i /\ i <= b /\ c <= i /\ i <= d /\ 1 <= a /\ 1 <= c /\ b <= n /\ d <= n
    BY <1>1, <1>2, <1>3
<1>5. c <= a /\ d <= b
    BY <1>1, <1>2, <1>3, <1>4, NoLowBetween
<1>6. a <= c /\ b <= d
    BY <1>1, <1>2, <1>3, <1>4, NoLowBetween
<1>7. a = c /\ b = d
    BY <1>4, <1>5, <1>6
<1> QED BY <1>1, <1>2, <1>7

(* A stretch that comes down after sample i.                               *)
LEMMA UpIsStretch ==
    ASSUME NEW s \in Seq(Nat), NEW i \in 1..Len(s), NEW a \in 1..i, Up(s, a, i),
           i < Len(s) => s[i + 1] = 0
    PROVE  <<a, i>> \in Stretches(s)
<1> DEFINE r == <<a, i>>
<1>1. r[1] = a /\ r[2] = i
    OBVIOUS
<1>2. Len(s) \in Nat /\ a \in 1..Len(s) /\ a <= i
    BY SampleFacts
<1>3. r \in (1..Len(s)) \X (1..Len(s))
    BY <1>2
<1> HIDE DEF r
<1>4. /\ r[1] <= r[2] /\ \A j \in r[1]..r[2] : s[j] > 0
      /\ r[1] > 1 => s[r[1] - 1] = 0
      /\ r[2] < Len(s) => s[r[2] + 1] = 0
    BY <1>1, <1>2 DEF Up
<1>5. r \in Stretches(s)
    BY <1>3, <1>4 DEF Stretches
<1> QED BY <1>5 DEF r

(* If no good stretch ends at sample i, nothing has to be stored.          *)
LEMMA NothingEnds ==
    ASSUME NEW s \in Seq(Nat), NEW i \in 0..Len(s), NEW mx, NEW mz,
           DoneInv(s, i, mx, mz),
           \A r \in GoodStretches(s) : r[2] # i
    PROVE  DoneInv(s, i + 1, mx, mz)
<1>1. \A r \in GoodStretches(s) : r[2] \in Nat
    BY StretchFacts, SampleFacts DEF GoodStretches
<1>2. \A r \in GoodStretches(s) : r[2] < i + 1 <=> r[2] < i
    BY <1>1
<1> HIDE DEF GoodStretches
<1>3. ASSUME NEW k \in 1..Len(mz)
      PROVE  /\ mx[k] = s[mz[k]]
             /\ \E r \in GoodStretches(s) : r[2] < i + 1 /\ FirstMax(s, r[1], r[2], mz[k])
    BY <1>2 DEF DoneInv
<1>4. \A r \in GoodStretches(s) :
        r[2] < i + 1 => \E k \in 1..Len(mz) : mz[k] \in r[1]..r[2]
    BY <1>2 DEF DoneInv
<1> QED BY <1>3, <1>4 DEF DoneInv

(* A good stretch that ends at sample i is stored.                         *)
LEMMA GoodEnds ==
    ASSUME NEW s \in Seq(Nat), NEW i \in 1..Len(s), NEW mx, NEW mz,
           DoneInv(s, i, mx, mz), NEW a \in 1..i, NEW at,
           <<a, i>> \in GoodStretches(s), FirstMax(s, a, i, at)
    PROVE  DoneInv(s, i + 1, Append(mx, s[at]), Append(mz, at))
<1> DEFINE n == Len(mz)
           nx == Append(mx, s[at])
           nz == Append(mz, at)
<1>0. Len(s) \in Nat /\ at \in a..i /\ at \in 1..Len(s) /\ s[at] \in Nat
    BY SampleFacts DEF FirstMax
<1>1. /\ mx \in Seq(Nat) /\ mz \in Seq(1..Len(s)) /\ Len(mx) = n /\ n \in Nat
    BY DEF DoneInv
<1>2. /\ nx \in Seq(Nat) /\ nz \in Seq(1..Len(s)) /\ Len(nx) = n + 1 /\ Len(nz) = n + 1
      /\ nx[n + 1] = s[at] /\ nz[n + 1] = at
      /\ \A k \in 1..n : nx[k] = mx[k] /\ nz[k] = mz[k]
    BY <1>0, <1>1, AppendProperties
<1>3. \A r \in GoodStretches(s) : r \in Stretches(s) /\ r[1] \in Nat /\ r[2] \in Nat
    BY StretchFacts, SampleFacts DEF GoodStretches
<1>4. <<a, i>>[1] = a /\ <<a, i>>[2] = i
    OBVIOUS
<1>5. \A k \in 1..n :
         /\ mx[k] = s[mz[k]] /\ mz[k] \in 1..Len(s)
         /\ \E r \in GoodStretches(s) : r[2] < i /\ FirstMax(s, r[1], r[2], mz[k])
  <2>1. \A k \in 1..n : mz[k] \in 1..Len(s)
      BY <1>1, ElementOfSeq
  <2> QED BY <2>1 DEF DoneInv
<1>6. \A k \in 1..n : \A j \in 1..(k - 1) : \E z \in mz[j]..mz[k] : s[z] = 0
    BY DEF DoneInv
<1>7. \A r \in GoodStretches(s) : r[2] < i => \E k \in 1..n : mz[k] \in r[1]..r[2]
    BY DEF DoneInv
<1> HIDE DEF n, nx, nz
<1>8. ASSUME NEW k \in 1..(n + 1)
      PROVE  /\ nx[k] = s[nz[k]]
             /\ \E r \in GoodStretches(s) : r[2] < i + 1 /\ FirstMax(s, r[1], r[2], nz[k])
  <2>1. CASE k = n + 1
    <3>1. <<a, i>>[2] < i + 1 /\ FirstMax(s, <<a, i>>[1], <<a, i>>[2], nz[k])
        BY <1>2, <1>4, <2>1
    <3> QED BY <1>2, <2>1, <3>1
  <2>2. CASE k \in 1..n
    <3>1. PICK r \in GoodStretches(s) : r[2] < i /\ FirstMax(s, r[1], r[2], mz[k])
        BY <1>5, <2>2
    <3>2. nz[k] = mz[k]
        BY <1>2, <2>2
    <3>3. r[2] < i + 1
        BY <1>3, <3>1
    <3>4. nx[k] = s[nz[k]]
        BY <1>2, <1>5, <2>2
    <3> QED BY <3>1, <3>2, <3>3, <3>4
  <2> QED BY <1>1, <2>1, <2>2
<1>9. ASSUME NEW j \in 1..n PROVE \E z \in mz[j]..at : s[z] = 0
  <2>1. PICK r \in GoodStretches(s) : r[2] < i /\ FirstMax(s, r[1], r[2], mz[j])
      BY <1>5
  <2>2. /\ r[1] \in Nat /\ r[2] \in 1..Len(s) /\ r[1] <= r[2]
        /\ r[2] < Len(s) => s[r[2] + 1] = 0
      BY <1>3, StretchFacts
  <2>3. s[r[2] + 1] = 0
      BY <1>0, <2>1, <2>2
  <2>4. r[2] < a
    <3>1. ASSUME ~(r[2] < a) PROVE FALSE
      <4>0. r[2] \in Nat /\ r[2] < i /\ ~(r[2] < a) /\ a \in Nat /\ i \in Nat
          BY <2>1, <2>2, <3>1
      <4>1. r[2] + 1 \in a..i
          BY <4>0
      <4>2. \A x \in a..i : s[x] > 0
          BY <1>3, <1>4, StretchFacts
      <4> QED BY <2>3, <4>1, <4>2
    <3> QED BY <3>1
  <2>5. mz[j] \in Nat /\ mz[j] <= r[2]
      BY <2>1, <2>2, <1>5 DEF FirstMax
  <2>6. at \in Nat /\ a <= at /\ r[2] \in Nat
      BY <1>0, <2>2
  <2>7. r[2] + 1 \in mz[j]..at
      BY <2>4, <2>5, <2>6
  <2> QED BY <2>3, <2>7
<1>10. ASSUME NEW k \in 1..(n + 1), NEW j \in 1..(k - 1)
       PROVE  \E z \in nz[j]..nz[k] : s[z] = 0
  <2>0. j \in 1..n
      BY <1>1
  <2>1. CASE k = n + 1
      BY <1>2, <1>9, <2>0, <2>1
  <2>2. CASE k \in 1..n
    <3>1. \E z \in mz[j]..mz[k] : s[z] = 0
        BY <1>6, <2>2
    <3> QED BY <1>2, <2>0, <2>2, <3>1
  <2> QED BY <1>1, <2>1, <2>2
<1>11. ASSUME NEW r \in GoodStretches(s), r[2] < i + 1
       PROVE  \E k \in 1..(n + 1) : nz[k] \in r[1]..r[2]
  <2>1. CASE r[2] < i
    <3>1. PICK k \in 1..n : mz[k] \in r[1]..r[2]
        BY <1>7, <2>1
    <3>2. k \in 1..(n + 1)
        BY <1>1
    <3>3. nz[k] = mz[k]
        BY <1>2
    <3> QED BY <3>1, <3>2, <3>3
  <2>2. CASE r[2] = i
    <3>1. i \in r[1]..r[2] /\ i \in a..i
        BY <1>3, <2>2, StretchFacts
    <3>2. <<a, i>> \in Stretches(s)
        BY <1>3
    <3>3. r = <<a, i>>
        BY <1>3, <1>4, <3>1, <3>2, StretchesDisjoint
    <3>4. n + 1 \in 1..(n + 1) /\ nz[n + 1] \in r[1]..r[2]
        BY <1>0, <1>1, <1>2, <1>4, <3>3
    <3> QED BY <3>4
  <2> QED BY <1>3, <1>11, <2>1, <2>2
<1> QED BY <1>2, <1>8, <1>10, <1>11 DEF DoneInv, nx, nz

(* When the signal is down after sample i, or there is no further sample,  *)
(* the stretch that ends there has been dealt with.                        *)
LEMMA StretchEnds ==
    ASSUME NEW s \in Seq(Nat), NEW i \in 0..Len(s), NEW st, ScanInv(s, i, st),
           i < Len(s) => s[i + 1] = 0
    PROVE  /\ DoneInv(s, i + 1, Ended(st).maxima, Ended(st).maximizers)
           /\ Ended(st) \in States /\ Len(Ended(st).maxima) <= i
<1> USE SampleFacts, PeakAssumption
<1>0. /\ st \in States /\ st.peak \in Peaks /\ st.maxima \in Seq(Nat)
      /\ st.maximizers \in Seq(Nat) /\ Len(st.maxima) \in Nat
      /\ Len(st.maxima) <= i /\ (st.peak.mode = "peak" => Len(st.maxima) < i)
      /\ DoneInv(s, i, st.maxima, st.maximizers)
    BY DEF ScanInv, States
<1>1. CASE st.peak.mode = "low"
  <2>1. st.peak = NoPeak /\ (i > 0 => s[i] = 0)
      BY <1>1 DEF ScanInv, OpenInv
  <2>2. \A r \in GoodStretches(s) : r[2] # i
    <3>1. \A r \in GoodStretches(s) : r[2] > 0 /\ s[r[2]] > 0
        BY StretchFacts DEF GoodStretches
    <3> QED BY <2>1, <3>1
  <2>3. Ended(st) = st
      BY <1>1 DEF Ended
  <2> QED BY <1>0, <1>1, <2>2, <2>3, NothingEnds
<1>2. CASE st.peak.mode = "high"
  <2>1. PICK a \in 1..i : Up(s, a, i) /\ s[a] > VHi
      BY <1>2 DEF ScanInv, OpenInv
  <2>2. i \in 1..Len(s)
      BY <2>1
  <2>3. <<a, i>> \in Stretches(s)
      BY <2>1, <2>2, UpIsStretch
  <2>4. ASSUME NEW r \in GoodStretches(s), r[2] = i PROVE FALSE
    <3>1. r \in Stretches(s) /\ \A j \in r[1]..r[2] : s[j] <= VHi
        BY DEF GoodStretches
    <3>2. i \in r[1]..r[2] /\ i \in <<a, i>>[1]..<<a, i>>[2]
        BY <2>4, <3>1, StretchFacts
    <3>3. r = <<a, i>>
        BY <2>3, <3>1, <3>2, StretchesDisjoint
    <3>4. a \in r[1]..r[2] /\ a \in 1..Len(s)
        BY <2>2, <3>3
    <3>5. s[a] <= VHi
        BY <3>1, <3>4
    <3> QED BY <2>1, <3>4, <3>5
  <2>5. Ended(st) = st
      BY <1>2 DEF Ended
  <2> QED BY <1>0, <1>2, <2>4, <2>5, NothingEnds
<1>3. CASE st.peak.mode = "peak"
  <2>1. PICK a \in 1..i :
          /\ Up(s, a, i) /\ FirstMax(s, a, i, st.peak.at) /\ st.peak.max = s[st.peak.at]
          /\ st.peak.discard <=> \E j \in a..i : s[j] > VHi
      BY <1>3 DEF ScanInv, OpenInv
  <2>2. i \in 1..Len(s) /\ i \in Nat
      BY <2>1
  <2>3. <<a, i>> \in Stretches(s)
      BY <2>1, <2>2, UpIsStretch
  <2>4. /\ Len(st.maxima) + 1 <= i
      BY <1>0, <1>3, <2>2
  <2>5. st.peak.max \in Nat /\ st.peak.at \in Nat /\ NoPeak \in Peaks
      BY <1>0 DEF Peaks, NoPeak
  <2>6. CASE st.peak.discard
    <3>1. /\ Ended(st) = [peak |-> NoPeak, maxima |-> st.maxima, maximizers |-> st.maximizers]
        BY <1>3, <2>6 DEF Ended, Close
    <3>2. Ended(st) \in States /\ Ended(st).maxima = st.maxima
          /\ Ended(st).maximizers = st.maximizers
        BY <1>0, <2>5, <3>1 DEF States
    <3>3. PICK j \in a..i : s[j] > VHi
        BY <2>1, <2>6
    <3>4. ASSUME NEW r \in GoodStretches(s), r[2] = i PROVE FALSE
      <4>1. r \in Stretches(s) /\ \A x \in r[1]..r[2] : s[x] <= VHi
          BY DEF GoodStretches
      <4>2. i \in r[1]..r[2] /\ i \in <<a, i>>[1]..<<a, i>>[2]
          BY <3>4, <4>1, StretchFacts
      <4>3. r = <<a, i>>
          BY <2>3, <4>1, <4>2, StretchesDisjoint
      <4>4. j \in r[1]..r[2] /\ j \in 1..Len(s)
          BY <2>2, <4>3
      <4>5. s[j] <= VHi
          BY <4>1, <4>4
      <4> QED BY <3>3, <4>4, <4>5
    <3> QED BY <1>0, <2>2, <2>4, <3>2, <3>4, NothingEnds
  <2>7. CASE ~st.peak.discard
    <3>1. /\ Ended(st) = [peak |-> NoPeak, maxima |-> Append(st.maxima, st.peak.max),
                          maximizers |-> Append(st.maximizers, st.peak.at)]
        BY <1>3, <2>7 DEF Ended, Close
    <3>2. /\ Append(st.maxima, st.peak.max) \in Seq(Nat)
          /\ Append(st.maximizers, st.peak.at) \in Seq(Nat)
          /\ Len(Append(st.maxima, st.peak.max)) = Len(st.maxima) + 1
        BY <1>0, <2>5, AppendProperties
    <3>3. /\ Ended(st) \in States /\ Ended(st).maxima = Append(st.maxima, st.peak.max)
          /\ Ended(st).maximizers = Append(st.maximizers, st.peak.at)
        BY <2>5, <3>1, <3>2 DEF States
    <3>4. \A j \in a..i : s[j] \in Nat /\ ~(s[j] > VHi)
      <4>1. \A j \in a..i : j \in 1..Len(s)
          BY <2>2
      <4>2. ~\E j \in a..i : s[j] > VHi
          BY <2>1, <2>7
      <4> QED BY <4>1, <4>2
    <3>5. <<a, i>> \in GoodStretches(s)
        BY <2>3, <3>4 DEF GoodStretches
    <3> QED BY <1>0, <2>1, <2>2, <2>4, <3>2, <3>3, <3>5, GoodEnds
  <2> QED BY <2>6, <2>7
<1> QED BY <1>0, <1>1, <1>2, <1>3 DEF Peaks

(* A stretch goes on.                                                      *)
LEMMA UpGoesOn ==
    ASSUME NEW s, NEW i \in Nat, NEW a \in 1..i, Up(s, a, i), s[i + 1] > 0
    PROVE  a \in 1..(i + 1) /\ Up(s, a, i + 1)
<1>1. a \in 1..(i + 1)
    OBVIOUS
<1>2. \A j \in a..(i + 1) : j \in a..i \/ j = i + 1
    OBVIOUS
<1> QED BY <1>1, <1>2 DEF Up

(* A sample above all before it is the first maximum.                      *)
LEMMA HigherSample ==
    ASSUME NEW s, NEW i \in Nat, NEW a \in 1..i, NEW m \in Nat, NEW x \in Nat, x > m,
           x = s[i + 1], \A j \in a..i : s[j] <= m /\ s[j] \in Nat
    PROVE  FirstMax(s, a, i + 1, i + 1)
<1>1. \A j \in a..i : s[j] < x /\ s[j] <= x
    OBVIOUS
<1>2. \A j \in a..(i + 1) : j \in a..i \/ j = i + 1
    OBVIOUS
<1>3. \A j \in a..(i + 1) : s[j] <= x
    BY <1>1, <1>2
<1>4. i + 1 \in a..(i + 1) /\ (i + 1) - 1 = i
    OBVIOUS
<1> QED BY <1>1, <1>3, <1>4 DEF FirstMax

(* One more sample.                                                        *)
LEMMA StepKeepsScanInv ==
    ASSUME NEW s \in Seq(Nat), NEW i \in 0..(Len(s) - 1), NEW st, ScanInv(s, i, st),
           NEW x, x = s[i + 1], NEW nx, nx = Step(st, x, i + 1)
    PROVE  ScanInv(s, i + 1, nx)
<1>0. /\ Len(s) \in Nat /\ i \in Nat /\ i < Len(s) /\ i \in 0..Len(s)
      /\ i + 1 \in 1..Len(s) /\ i + 1 \in Nat
      /\ x \in Nat /\ VHi \in Nat /\ \A j \in 1..Len(s) : s[j] \in Nat
    BY SampleFacts, PeakAssumption
<1>1. /\ st \in States /\ st.peak \in Peaks /\ st.maxima \in Seq(Nat)
      /\ st.maximizers \in Seq(Nat) /\ Len(st.maxima) \in Nat
      /\ Len(st.maxima) <= i /\ (st.peak.mode = "peak" => Len(st.maxima) < i)
      /\ DoneInv(s, i, st.maxima, st.maximizers)
      /\ OpenInv(s, i, st.peak)
      /\ st.peak.mode \in {"low", "high", "peak"}
    BY DEF ScanInv, States, Peaks
<1>2. NoPeak \in Peaks /\ NoPeak.mode = "low"
    BY DEF NoPeak, Peaks
<1>3. CASE x = 0
  <2>1. /\ nx = IF st.peak.mode = "peak" THEN Close(st) ELSE [st EXCEPT !.peak = NoPeak]
      BY <1>0, <1>3 DEF Step
  <2>2. /\ nx.peak = NoPeak /\ nx.maxima = Ended(st).maxima
        /\ nx.maximizers = Ended(st).maximizers /\ nx \in States
        /\ Len(nx.maxima) <= i
    <3>1. Ended(st) \in States /\ Len(Ended(st).maxima) <= i
        BY <1>0, <1>3, StretchEnds
    <3>2. CASE st.peak.mode = "peak"
      <4>1. nx = Ended(st)
          BY <2>1, <3>2 DEF Ended
      <4>2. Ended(st).peak = NoPeak
          BY <3>2 DEF Ended, Close
      <4> QED BY <3>1, <4>1, <4>2
    <3>3. CASE st.peak.mode # "peak"
      <4>1. Ended(st) = st /\ nx = [st EXCEPT !.peak = NoPeak]
          BY <2>1, <3>3 DEF Ended
      <4> QED BY <1>1, <1>2, <3>1, <4>1 DEF States
    <3> QED BY <3>2, <3>3
  <2>3. DoneInv(s, i + 1, nx.maxima, nx.maximizers)
      BY <1>0, <1>3, <2>2, StretchEnds
  <2>4. OpenInv(s, i + 1, nx.peak)
      BY <1>2, <1>3, <2>2 DEF OpenInv
  <2>5. Len(nx.maxima) <= i + 1 /\ nx.peak.mode # "peak"
    <3>1. Len(nx.maxima) \in Nat
        BY <2>2 DEF States
    <3> QED BY <1>0, <1>2, <2>2, <3>1
  <2> QED BY <2>2, <2>3, <2>4, <2>5 DEF ScanInv
<1>4. CASE x > 0
  <2>1. DoneInv(s, i + 1, st.maxima, st.maximizers)
    <3>1. ASSUME NEW r \in GoodStretches(s), r[2] = i PROVE FALSE
      <4>1. r[2] < Len(s) => s[r[2] + 1] = 0
          BY StretchFacts DEF GoodStretches
      <4> QED BY <1>0, <1>4, <3>1, <4>1
    <3> QED BY <1>0, <1>1, <3>1, NothingEnds
  <2>2. CASE st.peak.mode = "high"
    <3>1. nx = st
        BY <1>0, <1>4, <2>2 DEF Step
    <3>2. PICK a \in 1..i : Up(s, a, i) /\ s[a] > VHi
        BY <1>1, <2>2 DEF OpenInv
    <3>3. a \in 1..(i + 1) /\ Up(s, a, i + 1)
        BY <1>0, <1>4, <3>2, UpGoesOn
    <3>4. OpenInv(s, i + 1, st.peak)
        BY <1>1, <2>2, <3>2, <3>3 DEF OpenInv
    <3> QED BY <1>0, <1>1, <2>1, <2>2, <3>1, <3>4 DEF ScanInv
  <2>3. CASE x > VHi /\ st.peak.mode = "low"
    <3>0. nx = [st EXCEPT !.peak.mode = "high"]
        BY <1>0, <1>4, <2>3 DEF Step
    <3> DEFINE p == [st.peak EXCEPT !.mode = "high"]
    <3>1. p \in Peaks /\ p.mode = "high"
        BY <1>1 DEF Peaks
    <3>a. nx = [st EXCEPT !.peak = p]
        BY <1>1, <3>0 DEF States
    <3> HIDE DEF p
    <3>2. /\ nx \in States /\ nx.maxima = st.maxima /\ nx.maximizers = st.maximizers
          /\ nx.peak = p /\ nx.peak.mode = "high" /\ nx.peak \in Peaks
        BY <1>1, <3>1, <3>a DEF States
    <3>3. Up(s, i + 1, i + 1)
        BY <1>0, <1>1, <1>4, <2>3 DEF Up, OpenInv
    <3>4. OpenInv(s, i + 1, nx.peak)
        BY <1>0, <2>3, <3>2, <3>3 DEF OpenInv
    <3> QED BY <1>0, <1>1, <2>1, <2>3, <3>2, <3>4 DEF ScanInv
  <2>4. CASE st.peak.mode = "peak" \/ (st.peak.mode = "low" /\ ~(x > VHi))
    <3> DEFINE p == Climb(st.peak, x, i + 1)
    <3>1. nx = [st EXCEPT !.peak = p]
        BY <1>0, <1>4, <2>4 DEF Step
    <3>2. /\ p \in Peaks /\ p.mode = "peak"
          /\ p.discard <=> (st.peak.discard \/ x > VHi)
          /\ p.max = IF x > st.peak.max THEN x ELSE st.peak.max
          /\ p.at = IF x > st.peak.max THEN i + 1 ELSE st.peak.at
        BY <1>0, <1>1 DEF Climb, Peaks
    <3> HIDE DEF p
    <3>3. /\ nx \in States /\ nx.maxima = st.maxima /\ nx.maximizers = st.maximizers
          /\ nx.peak = p
        BY <1>1, <3>1, <3>2 DEF States
    <3>4. OpenInv(s, i + 1, p)
      <4>1. CASE st.peak.mode = "low"
        <5>1. st.peak.max = 0 /\ ~st.peak.discard
            BY <1>1, <4>1 DEF OpenInv, NoPeak
        <5>2. p.max = x /\ p.at = i + 1 /\ ~p.discard
            BY <1>0, <1>4, <2>4, <3>2, <4>1, <5>1
        <5>3. Up(s, i + 1, i + 1)
            BY <1>0, <1>1, <1>4, <4>1 DEF Up, OpenInv
        <5>4. FirstMax(s, i + 1, i + 1, p.at) /\ p.max = s[p.at]
            BY <1>0, <5>2 DEF FirstMax
        <5>5. ~\E j \in (i + 1)..(i + 1) : s[j] > VHi
            BY <1>0, <2>4, <4>1
        <5>6. i + 1 \in 1..(i + 1)
            BY <1>0
        <5> QED BY <3>2, <5>2, <5>3, <5>4, <5>5, <5>6 DEF OpenInv
      <4>2. CASE st.peak.mode = "peak"
        <5>1. PICK a \in 1..i :
                /\ Up(s, a, i) /\ FirstMax(s, a, i, st.peak.at) /\ st.peak.max = s[st.peak.at]
                /\ st.peak.discard <=> \E j \in a..i : s[j] > VHi
            BY <1>1, <4>2 DEF OpenInv
        <5>2. a \in 1..(i + 1) /\ Up(s, a, i + 1)
            BY <1>0, <1>4, <5>1, UpGoesOn
        <5>3. p.discard <=> \E j \in a..(i + 1) : s[j] > VHi
          <6>1. \A j \in a..(i + 1) : j \in a..i \/ j = i + 1
              BY <1>0
          <6>2. (i + 1) \in a..(i + 1) /\ \A j \in a..i : j \in a..(i + 1)
              BY <1>0
          <6> QED BY <3>2, <5>1, <6>1, <6>2
        <5>4. /\ st.peak.at \in a..i /\ st.peak.max \in Nat
              /\ \A j \in a..i : s[j] <= st.peak.max /\ s[j] \in Nat
              /\ \A j \in a..(st.peak.at - 1) : s[j] < st.peak.max
          <6>1. st.peak.at \in a..i /\ st.peak.max \in Nat
              BY <1>1, <5>1 DEF FirstMax, Peaks
          <6>2. \A j \in a..i : s[j] \in Nat
              BY <1>0
          <6> QED BY <5>1, <6>1, <6>2 DEF FirstMax
        <5>5. FirstMax(s, a, i + 1, p.at) /\ p.max = s[p.at]
          <6>1. CASE x > st.peak.max
            <7>1. p.max = x /\ p.at = i + 1
                BY <3>2, <6>1
            <7>2. FirstMax(s, a, i + 1, i + 1)
                BY <1>0, <5>4, <6>1, HigherSample
            <7> QED BY <7>1, <7>2
          <6>2. CASE ~(x > st.peak.max)
            <7>1. p.max = st.peak.max /\ p.at = st.peak.at
                BY <3>2, <6>2
            <7>2. x <= st.peak.max
                BY <1>0, <5>4, <6>2
            <7>3. \A j \in a..(i + 1) : s[j] <= st.peak.max
                BY <1>0, <5>4, <7>2
            <7>4. st.peak.at \in a..(i + 1)
                BY <1>0, <5>4
            <7> QED BY <5>1, <5>4, <7>1, <7>3, <7>4 DEF FirstMax
          <6> QED BY <6>1, <6>2
        <5> QED BY <3>2, <5>2, <5>3, <5>5 DEF OpenInv
      <4> QED BY <2>4, <4>1, <4>2
    <3>5. Len(nx.maxima) < i + 1 /\ Len(nx.maxima) <= i + 1
        BY <1>0, <1>1, <3>3
    <3> QED BY <2>1, <3>3, <3>4, <3>5 DEF ScanInv
  <2> QED BY <1>0, <1>1, <2>2, <2>3, <2>4
<1> QED BY <1>0, <1>3, <1>4

(* The pass over all samples, and the stretch that the end of the buffer   *)
(* cuts off.                                                               *)
LEMMA ScanCounts ==
    ASSUME NEW s \in Seq(Nat)
    PROVE  LET c == countArrayPeak(s)
           IN  /\ DoneInv(s, Len(s) + 1, c.maxima, c.maximizers)
               /\ c \in States /\ Len(c.maxima) <= Len(s)
<1> DEFINE Good == {i \in 0..Len(s) : ScanInv(s, i, Scan(s)[i])}
<1>0. Len(s) \in Nat /\ \A i \in 1..Len(s) : s[i] \in Nat
    BY SampleFacts
<1>1. Scan(s)[0] = Nothing
    BY <1>0, ScanUnfolds
<1>2. \A i \in 0..(Len(s) - 1) : Scan(s)[i + 1] = Step(Scan(s)[i], s[i + 1], i + 1)
  <2> TAKE i \in 0..(Len(s) - 1)
  <2>1. i + 1 \in 0..Len(s) /\ i + 1 # 0 /\ (i + 1) - 1 = i
      BY <1>0
  <2> QED BY <2>1, ScanUnfolds
<1>3. 0 \in Good
  <2>1. Nothing \in States /\ Nothing.peak = NoPeak /\ NoPeak.mode = "low"
        /\ Nothing.maxima = <<>> /\ Nothing.maximizers = <<>> /\ NoPeak \in Peaks
      BY EmptySeq DEF Nothing, States, NoPeak, Peaks
  <2>2. OpenInv(s, 0, NoPeak)
      BY <2>1 DEF OpenInv
  <2>3. \A r \in GoodStretches(s) : ~(r[2] < 0)
      BY <1>0, StretchFacts DEF GoodStretches
  <2>4. <<>> \in Seq(Nat) /\ <<>> \in Seq(1..Len(s)) /\ Len(<<>>) = 0
      BY EmptySeq
  <2>5. DoneInv(s, 0, <<>>, <<>>)
      BY <2>3, <2>4 DEF DoneInv
  <2> QED BY <1>0, <1>1, <2>1, <2>2, <2>4, <2>5 DEF ScanInv
<1>4. ASSUME NEW i \in 0..(Len(s) - 1), i \in Good PROVE i + 1 \in Good
  <2>1. ScanInv(s, i + 1, Scan(s)[i + 1])
      BY <1>2, <1>4, StepKeepsScanInv
  <2> QED BY <1>0, <2>1
<1>5. Len(s) \in Good
  <2> HIDE DEF Good
  <2>1. Len(s) \in 0..Len(s)
      BY <1>0
  <2> QED BY <1>0, <1>3, <1>4, <2>1, InductionUpTo
<1>6. Len(s) \in 0..Len(s) /\ ~(Len(s) < Len(s))
    BY <1>0
<1>7. countArrayPeak(s) = Ended(Scan(s)[Len(s)])
    BY DEF countArrayPeak, Ended
<1> QED BY <1>5, <1>6, <1>7, StretchEnds

(* How many elements the increasing enumeration f of a set has.            *)
LEMMA CountedBy ==
    ASSUME NEW n \in Nat, NEW S, NEW f \in [1..n -> S],
           \A k \in 1..n : \A j \in 1..(k - 1) : f[j] # f[k],
           \A x \in S : \E k \in 1..n : f[k] = x
    PROVE  Cardinality(S) = n
<1>1. ASSUME NEW j \in 1..n, NEW k \in 1..n, f[j] = f[k] PROVE j = k
  <2>1. j < k => j \in 1..(k - 1)
      OBVIOUS
  <2>2. k < j => k \in 1..(j - 1)
      OBVIOUS
  <2> QED BY <1>1, <2>1, <2>2
<1>2. f \in Bijection(1..n, S)
    BY <1>1 DEF Bijection, Injection, Surjection, IsInjective
<1>3. ExistsBijection(1..n, S)
    BY <1>2 DEF ExistsBijection
<1> QED BY <1>3, FS_CountingElements

(* Whatever the samples, countArrayPeak finds the stretches above vlo that *)
(* stay within vhi, in their order, and for each its maximum and where     *)
(* that is first reached.                                                  *)
THEOREM PeaksCountedRight == \A s \in Seq(Nat) : CountedRight(s)
<1> TAKE s \in Seq(Nat)
<1> DEFINE c == countArrayPeak(s)
           good == GoodStretches(s)
           n == Len(c.maximizers)
<1>1. /\ DoneInv(s, Len(s) + 1, c.maxima, c.maximizers) /\ c \in States
    BY ScanCounts
<1> HIDE DEF c
<1>2. /\ Len(s) \in Nat /\ c.maxima \in Seq(Nat) /\ c.maximizers \in Seq(1..Len(s))
      /\ Len(c.maxima) = n /\ n \in Nat
      /\ \A k \in 1..n : c.maximizers[k] \in 1..Len(s)
  <2>1. /\ Len(s) \in Nat /\ c.maxima \in Seq(Nat) /\ c.maximizers \in Seq(1..Len(s))
        /\ Len(c.maxima) = n
      BY <1>1, SampleFacts DEF DoneInv
  <2> DEFINE mz == c.maximizers
  <2>2. mz \in Seq(1..Len(s))
      BY <2>1
  <2> HIDE DEF mz
  <2>3. Len(mz) \in Nat /\ \A k \in 1..Len(mz) : mz[k] \in 1..Len(s)
      BY <2>2, ElementOfSeq, LenProperties
  <2> QED BY <2>1, <2>3 DEF mz
<1>3. \A r \in good : /\ r \in Stretches(s) /\ r[1] \in Nat /\ r[2] \in Nat
                      /\ r[2] < Len(s) + 1 /\ r[1] <= r[2]
                      /\ \A i \in r[1]..r[2] : s[i] > 0
    BY <1>2, StretchFacts DEF GoodStretches
<1>4. \A k \in 1..n : \E r \in good : FirstMax(s, r[1], r[2], c.maximizers[k])
    BY <1>1 DEF DoneInv
<1>5. \A k \in 1..n : c.maxima[k] = s[c.maximizers[k]]
    BY <1>1 DEF DoneInv
<1>6. \A k \in 1..n : \A j \in 1..(k - 1) :
        \E z \in c.maximizers[j]..c.maximizers[k] : s[z] = 0
    BY <1>1 DEF DoneInv
<1>7. \A r \in good : \E k \in 1..n : c.maximizers[k] \in r[1]..r[2]
    BY <1>1, <1>3 DEF DoneInv
<1> HIDE DEF good, n
<1> DEFINE f == [k \in 1..n |-> CHOOSE r \in good : FirstMax(s, r[1], r[2], c.maximizers[k])]
<1>8. \A k \in 1..n : f[k] \in good /\ FirstMax(s, f[k][1], f[k][2], c.maximizers[k])
  <2> TAKE k \in 1..n
  <2>1. PICK r \in good : FirstMax(s, r[1], r[2], c.maximizers[k])
      BY <1>4
  <2>2. f[k] = CHOOSE q \in good : FirstMax(s, q[1], q[2], c.maximizers[k])
      OBVIOUS
  <2> QED BY <2>1, <2>2
<1>9. f \in [1..n -> good]
    BY <1>8
<1> HIDE DEF f
<1>10. \A k \in 1..n : c.maximizers[k] \in f[k][1]..f[k][2]
    BY <1>8 DEF FirstMax
<1>11. ASSUME NEW k \in 1..n, NEW j \in 1..(k - 1)
       PROVE  f[j][1] < f[k][1]
  <2>0. j \in 1..n
      BY <1>2
  <2>1. PICK z \in c.maximizers[j]..c.maximizers[k] : s[z] = 0
      BY <1>6
  <2> DEFINE y == c.maximizers[j]
             w == c.maximizers[k]
  <2>a. /\ f[j][1] \in Nat /\ f[j][2] \in Nat /\ f[k][1] \in Nat /\ f[k][2] \in Nat
      BY <1>3, <1>8, <2>0
  <2>b. y \in Nat /\ w \in Nat
    <3>1. y \in 1..Len(s) /\ w \in 1..Len(s)
        BY <1>2, <2>0
    <3> HIDE DEF y, w
    <3> QED BY <3>1
  <2>c. y \in f[j][1]..f[j][2] /\ w \in f[k][1]..f[k][2] /\ z \in y..w
      BY <1>10, <2>0
  <2> HIDE DEF y, w
  <2>2. /\ f[j][1] <= y /\ w <= f[k][2] /\ y <= z /\ z <= w /\ z \in Nat
      BY <2>a, <2>b, <2>c
  <2>3. ASSUME f[k][1] <= f[j][1] PROVE FALSE
    <3>1. z \in f[k][1]..f[k][2]
        BY <2>a, <2>b, <2>2, <2>3
    <3>2. s[z] > 0
        BY <1>3, <1>8, <3>1
    <3> QED BY <2>1, <3>2
  <2> QED BY <2>a, <2>3
<1>12. ASSUME NEW r \in good PROVE \E k \in 1..n : f[k] = r
  <2>1. PICK k \in 1..n : c.maximizers[k] \in r[1]..r[2]
      BY <1>7
  <2>2. f[k] = r
      BY <1>3, <1>8, <1>10, <2>1, StretchesDisjoint
  <2> QED BY <2>2
<1>13. \A k \in 1..n : \A j \in 1..(k - 1) : f[j] # f[k]
  <2> TAKE k \in 1..n
  <2> TAKE j \in 1..(k - 1)
  <2>1. f[j][1] < f[k][1] /\ f[k][1] \in Nat
      BY <1>3, <1>8, <1>11
  <2>2. ASSUME f[j] = f[k] PROVE FALSE
    <3>1. f[k][1] < f[k][1]
        BY <2>1, <2>2
    <3> QED BY <2>1, <3>1
  <2> QED BY <2>2
<1>14. Cardinality(good) = n
  <2>1. n \in Nat
      BY <1>2
  <2>2. \A r \in good : \E k \in 1..n : f[k] = r
      BY <1>12
  <2> QED BY <1>9, <1>13, <2>1, <2>2, CountedBy
<1>15. ASSUME NEW m \in 1..n PROVE Cardinality({q \in good : q[1] <= f[m][1]}) = m
  <2> DEFINE S == {q \in good : q[1] <= f[m][1]}
             g == [k \in 1..m |-> f[k]]
  <2>0. m \in Nat /\ \A k \in 1..m : k \in 1..n /\ (k # m => k \in 1..(m - 1))
      BY <1>2
  <2>1. \A k \in 1..m : f[k] \in S
    <3> TAKE k \in 1..m
    <3>1. f[k] \in good /\ f[k][1] \in Nat /\ f[m][1] \in Nat
        BY <1>3, <1>8, <2>0
    <3>2. k # m => f[k][1] < f[m][1]
        BY <1>11, <2>0
    <3> QED BY <3>1, <3>2
  <2>2. ASSUME NEW x \in S PROVE \E k \in 1..m : g[k] = x
    <3>1. PICK k \in 1..n : f[k] = x
        BY <1>12
    <3>2. k <= m
      <4>1. ASSUME ~(k <= m) PROVE FALSE
        <5>1. m \in 1..(k - 1)
            BY <1>2, <4>1
        <5>2. f[m][1] < f[k][1]
            BY <1>11, <5>1
        <5>3. f[k][1] \in Nat /\ f[m][1] \in Nat /\ f[k][1] <= f[m][1]
            BY <1>3, <1>8, <3>1
        <5> QED BY <5>2, <5>3
      <4> QED BY <4>1
    <3>3. k \in 1..m
        BY <1>2, <3>2
    <3> QED BY <3>1, <3>3
  <2>3. g \in [1..m -> S]
      BY <2>1
  <2>4. \A k \in 1..m : \A j \in 1..(k - 1) : g[j] # g[k]
    <3> TAKE k \in 1..m
    <3> TAKE j \in 1..(k - 1)
    <3>1. j \in 1..m /\ k \in 1..n
        BY <2>0
    <3> QED BY <1>13, <3>1
  <2> HIDE DEF S, g
  <2>5. Cardinality(S) = m
      BY <2>0, <2>2, <2>3, <2>4, CountedBy
  <2> QED BY <2>5 DEF S
<1>16. ASSUME NEW r \in good
       PROVE  LET k == Cardinality({q \in good : q[1] <= r[1]})
                  at == c.maximizers[k]
              IN  /\ at \in r[1]..r[2] /\ c.maxima[k] = s[at]
                  /\ \A i \in r[1]..r[2] : s[i] <= s[at]
                  /\ \A i \in r[1]..(at - 1) : s[i] < s[at]
  <2>1. PICK k \in 1..n : f[k] = r
      BY <1>12
  <2>2. Cardinality({q \in good : q[1] <= r[1]}) = k
      BY <1>15, <2>1
  <2> QED BY <1>5, <1>8, <2>1, <2>2 DEF FirstMax
<1> QED BY <1>2, <1>14, <1>16 DEF CountedRight, c, good, n
-----------------------------------------------------------------------------
(* Arithmetic of counters that wrap around.                                *)
LEMMA ModIsUnique ==
    ASSUME NEW m \in Nat \ {0}, NEW q \in Int, NEW r \in 0..(m - 1)
    PROVE  (m * q + r) % m = r
    OBVIOUS

(* Counting on from a wrapped counter wraps to the same value.             *)
LEMMA ModAdds ==
    ASSUME NEW m \in Nat \ {0}, NEW x \in Nat, NEW d \in Nat
    PROVE  ((x % m) + d) % m = (x + d) % m
<1> DEFINE q == x \div m
           y == (x % m) + d
           p == y \div m
           s == y % m
<1>1. x % m \in 0..(m - 1)
    OBVIOUS
<1>2. q \in Int
    OBVIOUS
<1>3. x = m * q + (x % m)
    OBVIOUS
<1>4. y \in Nat
    BY <1>1
<1> HIDE DEF y
<1>5. p \in Int /\ s \in 0..(m - 1) /\ y = m * p + s
    BY <1>4
<1>6. x + d = m * q + y
    BY <1>1, <1>2, <1>3, <1>4 DEF y
<1> HIDE DEF q, p, s
<1>7. x + d = m * (q + p) + s
    BY <1>2, <1>5, <1>6
<1>8. (m * (q + p) + s) % m = s
    BY <1>2, <1>5, ModIsUnique
<1>9. (x + d) % m = s
    BY <1>7, <1>8
<1> QED BY <1>9 DEF s, y

(* The difference of two readings, taken modulo a larger range, leads back *)
(* from the one to the other.                                              *)
LEMMA DifferenceLeadsBack ==
    ASSUME NEW m \in Nat \ {0}, NEW c \in 0..(m - 1), NEW t \in 0..(m - 1)
    PROVE  (t + ((c - t) % m)) % m = c
    OBVIOUS

(* The difference over fewer than CounterMod - 1 edges is never the value  *)
(* that means "woken for nothing".                                         *)
LEMMA DifferenceIsData ==
    ASSUME NEW c \in 0..(CounterMod - 1), NEW d \in EdgesPerRead
    PROVE  Detected((c + d) % CounterMod, c) \in 0..(Sentinel - 1)
<1> DEFINE n == (c + d) % CounterMod
<1>0. /\ CounterMod \in Nat \ {0} /\ U64 \in Nat \ {0} /\ CounterMod <= U64
      /\ d \in 0..(CounterMod - 2)
    BY AcquisitionAssumption
<1>1. CASE c + d < CounterMod
  <2>1. n = c + d
      BY <1>0, <1>1
  <2>2. n - c = d /\ d \in 0..(U64 - 2)
      BY <1>0, <2>1
  <2> QED BY <1>0, <2>2 DEF Detected, Sentinel
<1>2. CASE c + d >= CounterMod
  <2>1. n = c + d - CounterMod
    <3>1. c + d = CounterMod * 1 + (c + d - CounterMod) /\ c + d - CounterMod \in 0..(CounterMod - 1)
        BY <1>0, <1>2
    <3> QED BY <1>0, <3>1, ModIsUnique
  <2>2. n - c = U64 * (-1) + (U64 + d - CounterMod) /\ U64 + d - CounterMod \in 0..(U64 - 2)
      BY <1>0, <2>1
  <2>3. (n - c) % U64 = U64 + d - CounterMod
      BY <1>0, <2>2, ModIsUnique
  <2> QED BY <1>0, <2>2, <2>3 DEF Detected, Sentinel
<1> QED BY <1>0, <1>1, <1>2
-----------------------------------------------------------------------------
(* The ids of what is queued, and of what a loop holds.                    *)
Ids(q) == [i \in 1..Len(q) |-> q[i].id]
Held(d) == IF d = None \/ d.id = 0 THEN <<>> ELSE <<d.id>>
Delivered(p, e, d, q) == p = (e \o Held(d)) \o Ids(q)

(* They are ids, as many as there are data.                                *)
LEMMA IdsAreIds ==
    ASSUME NEW q \in Seq(RealData)
    PROVE  /\ Ids(q) \in Seq(1..MaxData) /\ Len(Ids(q)) = Len(q)
           /\ \A i \in 1..Len(q) : Ids(q)[i] = q[i].id
<1>1. Len(q) \in Nat /\ \A i \in 1..Len(q) : q[i] \in RealData
    BY LenProperties, ElementOfSeq
<1>2. \A i \in 1..Len(q) : q[i].id \in 1..MaxData
    BY <1>1 DEF RealData
<1> QED BY <1>1, <1>2 DEF Ids

(* A datum that is queued comes last.                                      *)
LEMMA IdsAppend ==
    ASSUME NEW q \in Seq(RealData), NEW d \in RealData
    PROVE  Ids(Append(q, d)) = Append(Ids(q), d.id)
<1>1. d.id \in 1..MaxData
    BY DEF RealData
<1>2. /\ Append(q, d) \in Seq(RealData) /\ Len(Append(q, d)) = Len(q) + 1
      /\ \A i \in 1..Len(q) : Append(q, d)[i] = q[i]
      /\ Append(q, d)[Len(q) + 1] = d /\ Len(q) \in Nat
    BY AppendProperties, LenProperties
<1>3. /\ Ids(q) \in Seq(1..MaxData) /\ Len(Ids(q)) = Len(q)
      /\ \A i \in 1..Len(q) : Ids(q)[i] = q[i].id
    BY IdsAreIds
<1>4. /\ Ids(Append(q, d)) \in Seq(1..MaxData) /\ Len(Ids(Append(q, d))) = Len(q) + 1
      /\ \A i \in 1..(Len(q) + 1) : Ids(Append(q, d))[i] = Append(q, d)[i].id
    BY <1>2, IdsAreIds
<1>5. /\ Append(Ids(q), d.id) \in Seq(1..MaxData)
      /\ Len(Append(Ids(q), d.id)) = Len(q) + 1
      /\ \A i \in 1..Len(q) : Append(Ids(q), d.id)[i] = Ids(q)[i]
      /\ Append(Ids(q), d.id)[Len(q) + 1] = d.id
    BY <1>1, <1>3, AppendProperties
<1>6. \A i \in 1..(Len(q) + 1) : Ids(Append(q, d))[i] = Append(Ids(q), d.id)[i]
  <2> TAKE i \in 1..(Len(q) + 1)
  <2>1. CASE i \in 1..Len(q)
      BY <1>2, <1>3, <1>4, <1>5, <2>1
  <2>2. CASE i = Len(q) + 1
      BY <1>2, <1>4, <1>5, <2>2
  <2>3. i \in 1..Len(q) \/ i = Len(q) + 1
      BY LenProperties
  <2> QED BY <2>1, <2>2, <2>3
<1> QED BY <1>4, <1>5, <1>6, SeqEqual

(* A datum that is taken was the first.                                    *)
LEMMA IdsTail ==
    ASSUME NEW q \in Seq(RealData), q # <<>>
    PROVE  Ids(q) = <<Head(q).id>> \o Ids(Tail(q))
<1>1. /\ Head(q) \in RealData /\ Tail(q) \in Seq(RealData) /\ Len(Tail(q)) = Len(q) - 1
      /\ \A i \in 1..Len(Tail(q)) : Tail(q)[i] = q[i + 1]
      /\ Len(q) \in Nat \ {0} /\ Head(q) = q[1]
    BY HeadTailProperties, EmptySeq
<1>2. /\ Ids(q) \in Seq(1..MaxData) /\ Len(Ids(q)) = Len(q)
      /\ \A i \in 1..Len(q) : Ids(q)[i] = q[i].id
    BY IdsAreIds
<1>3. /\ Ids(Tail(q)) \in Seq(1..MaxData) /\ Len(Ids(Tail(q))) = Len(q) - 1
      /\ \A i \in 1..(Len(q) - 1) : Ids(Tail(q))[i] = q[i + 1].id
  <2>1. /\ Ids(Tail(q)) \in Seq(1..MaxData) /\ Len(Ids(Tail(q))) = Len(Tail(q))
        /\ \A i \in 1..Len(Tail(q)) : Ids(Tail(q))[i] = Tail(q)[i].id
      BY <1>1, IdsAreIds, Zenon
  <2> QED BY <1>1, <2>1
<1> DEFINE h == <<Head(q).id>>
<1>4. h \in Seq(1..MaxData) /\ Len(h) = 1 /\ h[1] = q[1].id
    BY <1>1 DEF RealData
<1> HIDE DEF h
<1> DEFINE r == Ids(Tail(q))
<1>5. /\ h \o r \in Seq(1..MaxData) /\ Len(h \o r) = Len(q)
      /\ \A i \in 1..Len(q) : (h \o r)[i] = IF i <= 1 THEN h[i] ELSE r[i - 1]
  <2> HIDE DEF r
  <2>1. r \in Seq(1..MaxData) /\ Len(r) = Len(q) - 1 /\ Len(q) \in Nat \ {0}
      BY <1>1, <1>3 DEF r
  <2>2. /\ h \o r \in Seq(1..MaxData) /\ Len(h \o r) = Len(h) + Len(r)
        /\ \A i \in 1..(Len(h) + Len(r)) :
             (h \o r)[i] = IF i <= Len(h) THEN h[i] ELSE r[i - Len(h)]
      BY <1>4, <2>1, ConcatProperties
  <2>3. Len(h) + Len(r) = Len(q)
      BY <1>4, <2>1
  <2> QED BY <1>4, <2>2, <2>3
<1>6. \A i \in 1..Len(q) : Ids(q)[i] = (h \o Ids(Tail(q)))[i]
  <2> TAKE i \in 1..Len(q)
  <2>1. CASE i = 1
      BY <1>1, <1>2, <1>4, <1>5, <2>1
  <2>2. CASE i \in 2..Len(q)
    <3>1. i - 1 \in 1..(Len(q) - 1) /\ (i - 1) + 1 = i /\ ~(i <= 1)
        BY <1>1, <2>2
    <3> QED BY <1>2, <1>3, <1>5, <3>1
  <2>3. i = 1 \/ i \in 2..Len(q)
      BY <1>1
  <2> QED BY <2>1, <2>2, <2>3
<1>7. Ids(q) = h \o Ids(Tail(q))
    BY <1>2, <1>5, <1>6, SeqEqual
<1> QED BY <1>7 DEF h

(* What is held is one datum or none.                                      *)
LEMMA HeldIs ==
    ASSUME NEW d \in RealData
    PROVE  /\ Held(d) = <<d.id>> /\ Held(d) \in Seq(1..MaxData) /\ d.num # Sentinel
           /\ Held(None) = <<>> /\ Held([id |-> 0, num |-> Sentinel]) = <<>>
           /\ d # None /\ d \in Data
<1>1. d \in Data /\ d.id \in 1..MaxData /\ d.num \in 0..(Sentinel - 1) /\ Sentinel \in Nat
    BY AcquisitionAssumption DEF RealData, Data, Sentinel
<1>2. d # None
    BY <1>1, NoneIsNoDatum
<1>3. Held(d) = <<d.id>> /\ <<d.id>> \in Seq(1..MaxData)
    BY <1>1, <1>2 DEF Held
<1>4. Held(None) = <<>> /\ Held([id |-> 0, num |-> Sentinel]) = <<>>
    BY DEF Held
<1>5. d.num # Sentinel
    BY <1>1
<1> QED BY <1>1, <1>2, <1>3, <1>4, <1>5

(* What was pushed is what was emitted, is held and is queued, in that     *)
(* order: so it stays when a datum is pushed.                              *)
LEMMA PushDelivers ==
    ASSUME NEW p, NEW e \in Seq(1..MaxData), NEW h, Held(h) \in Seq(1..MaxData),
           NEW q \in Seq(RealData), NEW d \in RealData, Delivered(p, e, h, q)
    PROVE  Delivered(Append(p, d.id), e, h, Append(q, d))
<1> DEFINE s == e \o Held(h)
<1>1. s \in Seq(1..MaxData) /\ Ids(q) \in Seq(1..MaxData) /\ d.id \in 1..MaxData
    BY ConcatProperties, IdsAreIds DEF RealData
<1>2. <<d.id>> \in Seq(1..MaxData)
    BY <1>1
<1>3. p = s \o Ids(q)
    BY DEF Delivered
<1> HIDE DEF s
<1>4. Append(p, d.id) = (s \o Ids(q)) \o <<d.id>>
    BY <1>1, <1>3, ConcatProperties, AppendIsConcat
<1>5. (s \o Ids(q)) \o <<d.id>> = s \o (Ids(q) \o <<d.id>>)
  <2> DEFINE a == Ids(q)
             b == <<d.id>>
             T == 1..MaxData
  <2>1. s \in Seq(T) /\ a \in Seq(T) /\ b \in Seq(T)
      BY <1>1, <1>2
  <2> HIDE DEF a, b, T
  <2>2. (s \o a) \o b = s \o (a \o b)
      BY <2>1, ConcatAssociative, SMTT(60)
  <2> QED BY <2>2 DEF a, b
<1>6. Ids(Append(q, d)) = Ids(q) \o <<d.id>>
    BY <1>1, IdsAppend, AppendIsConcat
<1> QED BY <1>4, <1>5, <1>6 DEF Delivered, s

(* So it stays when a loop takes the first of its queue.                   *)
LEMMA TakeDelivers ==
    ASSUME NEW p, NEW e \in Seq(1..MaxData), NEW q \in Seq(RealData), q # <<>>,
           NEW h, Held(h) = <<>>, Delivered(p, e, h, q)
    PROVE  Delivered(p, e, Head(q), Tail(q))
<1>1. Head(q) \in RealData /\ Tail(q) \in Seq(RealData)
    BY HeadTailProperties
<1>2. Held(Head(q)) = <<Head(q).id>> /\ <<Head(q).id>> \in Seq(1..MaxData)
    BY <1>1, HeldIs
<1>3. Ids(Tail(q)) \in Seq(1..MaxData)
    BY <1>1, IdsAreIds
<1>4. p = e \o Ids(q)
    BY ConcatEmptySeq DEF Delivered
<1>5. p = e \o (<<Head(q).id>> \o Ids(Tail(q)))
    BY <1>4, IdsTail
<1>6. p = (e \o <<Head(q).id>>) \o Ids(Tail(q))
    BY <1>2, <1>3, <1>5, ConcatAssociative
<1> QED BY <1>2, <1>6 DEF Delivered

(* So it stays when a loop emits what it holds.                            *)
LEMMA EmitDelivers ==
    ASSUME NEW p, NEW e \in Seq(1..MaxData), NEW q \in Seq(RealData), NEW d \in RealData,
           Delivered(p, e, d, q)
    PROVE  Delivered(p, Append(e, d.id), None, q)
<1>1. Held(d) = <<d.id>> /\ Held(None) = <<>> /\ d.id \in 1..MaxData
    BY HeldIs DEF RealData
<1>2. Append(e, d.id) = e \o <<d.id>> /\ Append(e, d.id) \in Seq(1..MaxData)
    BY <1>1, AppendIsConcat, AppendProperties
<1>3. Append(e, d.id) \o <<>> = Append(e, d.id)
    BY <1>2, ConcatEmptySeq
<1> QED BY <1>1, <1>2, <1>3 DEF Delivered
-----------------------------------------------------------------------------
(* The constants that are numbers.                                         *)
LEMMA Numbers ==
    /\ CounterMod \in Nat \ {0} /\ U64 \in Nat \ {0} /\ CounterMod <= U64
    /\ MaxCalls \in Nat /\ MaxData \in Nat /\ Sentinel \in Nat
    /\ MCADefault \in ChannelNumbers /\ ChannelNumbers \subseteq Nat
    /\ EdgesPerRead \subseteq 0..(CounterMod - 2)
    /\ \A s \in Buffers : Len(countArrayPeak(s).maxima) \in 0..(Sentinel - 1)
<1>1. U64 - 2 = Sentinel - 1
    BY AcquisitionAssumption DEF Sentinel
<1>2. ASSUME NEW s \in Buffers PROVE Len(countArrayPeak(s).maxima) \in 0..(Sentinel - 1)
  <2>1. s \in Seq(Nat) /\ Len(s) \in Nat /\ Len(s) <= U64 - 2 /\ U64 \in Nat
      BY AcquisitionAssumption
  <2>2. Len(countArrayPeak(s).maxima) \in Nat /\ Len(countArrayPeak(s).maxima) <= Len(s)
      BY <2>1, ScanCounts DEF States
  <2> QED BY <1>1, <2>1, <2>2
<1> QED BY <1>2, AcquisitionAssumption DEF Sentinel

(* The steps, by what they may change.                                     *)
Configure ==
    \/ \E n \in Names, r \in Requests :
         \/ r[1] = "Voltage" /\ NewAIVChannel(n, r[2])
         \/ r[1] = "Counter" /\ NewCIChannel(n, r[2])
         \/ r[1] = "PTGen" /\ NewPTGChannel(n, r[2])
    \/ \E n \in Names : DeleteChannel(n)
    \/ \E c \in ChannelNumbers : SetMCANumChannels(c)
    \/ \E l \in Loops : Subscription(l)

(* Configuring touches neither tasks nor loops nor data.                   *)
LEMMA ConfigureKeeps ==
    ASSUME TypeOK, Configure
    PROVE  /\ UNCHANGED <<running, usingPtg, task, sig, mcaMode, loop, queue, took, cmd,
                          alive, counter, lastCount, edges, total, made, pushed, emitted,
                          missed>>
           /\ channels' \in [Names -> [type : Types, hw : Connectors] \cup {None}]
           /\ mcaChannels' \in ChannelNumbers /\ subscribed' \subseteq Loops
           /\ calls' \in 0..MaxCalls
<1> USE Numbers DEF TypeOK, taskVars, flow, counts
<1>1. ASSUME NEW n \in Names, NEW r \in Requests, NEW ty \in Types, NewChannel(n, ty, r[2])
      PROVE  /\ UNCHANGED <<mcaChannels, subscribed, running, usingPtg, task, sig, mcaMode,
                            loop, queue, took, cmd, alive, counter, lastCount, edges, total,
                            made, pushed, emitted, missed>>
             /\ channels' \in [Names -> [type : Types, hw : Connectors] \cup {None}]
             /\ calls' \in 0..MaxCalls
  <2>1. r[2] \in Connectors
      BY AcquisitionAssumption
  <2> QED BY <1>1, <2>1 DEF NewChannel, Call
<1>2. CASE \E n \in Names, r \in Requests :
             \/ r[1] = "Voltage" /\ NewAIVChannel(n, r[2])
             \/ r[1] = "Counter" /\ NewCIChannel(n, r[2])
             \/ r[1] = "PTGen" /\ NewPTGChannel(n, r[2])
    BY <1>1, <1>2 DEF NewAIVChannel, NewCIChannel, NewPTGChannel, Types
<1>3. CASE \E n \in Names : DeleteChannel(n)
    BY <1>3 DEF DeleteChannel, Call
<1>4. CASE \E c \in ChannelNumbers : SetMCANumChannels(c)
    BY <1>4 DEF SetMCANumChannels, Call
<1>5. CASE \E l \in Loops : Subscription(l)
    BY <1>5 DEF Subscription, Call
<1> QED BY <1>2, <1>3, <1>4, <1>5 DEF Configure

(* A callback's push.                                                      *)
LEMMA PushKeeps ==
    ASSUME TypeOK, HeldInv, NEW ls \in SUBSET Loops, NEW d \in RealData, Push(ls, d)
    PROVE  /\ queue' \in [Loops -> Seq(RealData)] /\ queue' \in [Loops -> Seq(Data)]
           /\ pushed' \in [Loops -> Seq(1..MaxData)]
           /\ loop' \in [Loops -> LoopPC]
           /\ \A l \in Loops :
                /\ loop'[l] \in {"off", "emit", "done"} => loop'[l] = loop[l]
                /\ loop[l] \in {"off", "emit", "done"} => loop'[l] = loop[l]
                /\ \/ pushed'[l] = pushed[l] /\ queue'[l] = queue[l]
                   \/ pushed'[l] = Append(pushed[l], d.id) /\ queue'[l] = Append(queue[l], d)
<1>1. d.id \in 1..MaxData /\ RealData \subseteq Data
    BY Numbers DEF RealData, Data
<1>2. \A l \in Loops : queue[l] \in Seq(RealData) /\ Append(queue[l], d) \in Seq(RealData)
    BY AppendProperties DEF HeldInv
<1>3. \A l \in Loops : pushed[l] \in Seq(1..MaxData) /\ Append(pushed[l], d.id) \in Seq(1..MaxData)
    BY <1>1, AppendProperties DEF TypeOK
<1>4. queue' \in [Loops -> Seq(RealData)]
    BY <1>2 DEF Push
<1>5. queue' \in [Loops -> Seq(Data)]
    BY <1>1, <1>4, SeqMonotonic
<1>6. pushed' \in [Loops -> Seq(1..MaxData)]
    BY <1>3 DEF Push
<1>7. loop' \in [Loops -> LoopPC]
    BY DEF Push, TypeOK, LoopPC
<1>8. \A l \in Loops :
        /\ loop'[l] \in {"off", "emit", "done"} => loop'[l] = loop[l]
        /\ loop[l] \in {"off", "emit", "done"} => loop'[l] = loop[l]
    BY DEF Push
<1>9. \A l \in Loops :
        \/ pushed'[l] = pushed[l] /\ queue'[l] = queue[l]
        \/ pushed'[l] = Append(pushed[l], d.id) /\ queue'[l] = Append(queue[l], d)
    BY DEF Push
<1> QED BY <1>4, <1>5, <1>6, <1>7, <1>8, <1>9

(* What the callbacks push, and what they leave alone.                     *)
LEMMA CallbackPushes ==
    ASSUME TypeOK, HeldInv, CountInv,
           (\E s \in Buffers : VoltageEvent(s)) \/ (\E d \in EdgesPerRead : CountEvent(d))
    PROVE  /\ \E ls \in SUBSET Loops, d \in RealData : Push(ls, d)
           /\ made' \in 0..MaxData
           /\ alive /\ UNCHANGED <<channels, mcaChannels, subscribed, running, usingPtg, task,
                                   calls, sig, mcaMode, took, emitted, cmd, alive, missed>>
<1> USE Numbers DEF TypeOK
<1>1. ASSUME NEW s \in Buffers, VoltageEvent(s)
      PROVE  /\ \E ls \in SUBSET Loops, d \in RealData : Push(ls, d)
             /\ made' \in 0..MaxData
  <2>1. made' \in 1..MaxData
      BY <1>1 DEF VoltageEvent
  <2>2. [id |-> made', num |-> Len(countArrayPeak(s).maxima)] \in RealData
      BY <2>1 DEF RealData
  <2> QED BY <1>1, <2>1, <2>2 DEF VoltageEvent
<1>2. ASSUME NEW e \in EdgesPerRead, CountEvent(e)
      PROVE  /\ \E ls \in SUBSET Loops, d \in RealData : Push(ls, d)
             /\ made' \in 0..MaxData
  <2>1. made' \in 1..MaxData
      BY <1>2 DEF CountEvent
  <2> DEFINE num == Detected(counter', lastCount)
  <2>2. num \in 0..(Sentinel - 1)
      BY <1>2, DifferenceIsData DEF CountEvent, CountInv
  <2> HIDE DEF num
  <2>3. [id |-> made', num |-> num] \in RealData
      BY <2>1, <2>2 DEF RealData
  <2>4. Push(subscribed \cap {"dcs"}, [id |-> made', num |-> num])
      BY <1>2 DEF CountEvent, num
  <2> QED BY <2>1, <2>3, <2>4
<1>3. alive /\ UNCHANGED <<channels, mcaChannels, subscribed, running, usingPtg, task,
                           calls, sig, mcaMode, took, emitted, cmd, alive, missed>>
    BY DEF VoltageEvent, CountEvent, config, taskVars
<1> QED BY <1>1, <1>2, <1>3
-----------------------------------------------------------------------------
(* What the start of an acquisition does to the loops.                     *)
LEMMA StartKeeps ==
    ASSUME TypeOK, StartAIAcquisition \/ StartCIAcquisition
    PROVE  /\ alive /\ cmd = "idle" /\ running = {} /\ sig' = TRUE /\ missed' = {}
           /\ calls' \in 0..MaxCalls /\ mcaMode' \in BOOLEAN
           /\ loop' \in [Loops -> LoopPC]
           /\ loop'["dcs"] = "test" /\ loop'["cli"] = "test"
           /\ loop'["mca"] = IF mcaMode' THEN "test" ELSE loop["mca"]
           /\ UNCHANGED <<channels, mcaChannels, subscribed, queue, took, made, pushed,
                          emitted, cmd>>
<1> USE Numbers DEF TypeOK, config, flow
<1>1. PICK n \in Nat : StartEventLoop(n)
    BY DEF StartAIAcquisition, StartCIAcquisition
<1>2. /\ alive /\ cmd = "idle" /\ running = {} /\ calls' \in 0..MaxCalls
      /\ UNCHANGED <<channels, mcaChannels, subscribed, queue, took, made, pushed, emitted, cmd>>
  <2>1. Call /\ running = {} /\ UNCHANGED <<config, flow, cmd>>
      BY DEF StartAIAcquisition, StartCIAcquisition
  <2> QED BY <2>1 DEF Call
<1>3. /\ sig' = TRUE /\ missed' = {} /\ mcaMode' = (n > 0)
      /\ loop' = [loop EXCEPT !["dcs"] = "test", !["cli"] = "test",
                              !["mca"] = IF n > 0 THEN "test" ELSE @]
    BY <1>1 DEF StartEventLoop
<1>4. mcaMode' \in BOOLEAN /\ (mcaMode' <=> n > 0)
  <2>1. mcaMode' = (n > 0) /\ (n > 0) \in BOOLEAN
      BY <1>3
  <2> HIDE DEF TypeOK
  <2> QED BY <2>1, Zenon
<1>5. /\ loop' \in [Loops -> LoopPC] /\ loop'["dcs"] = "test" /\ loop'["cli"] = "test"
      /\ loop'["mca"] = IF n > 0 THEN "test" ELSE loop["mca"]
    BY <1>3 DEF Loops, LoopPC
<1> QED BY <1>2, <1>3, <1>4, <1>5

(* What it does to the tasks.                                              *)
LEMMA StartTasks ==
    ASSUME TypeOK, StartAIAcquisition \/ StartCIAcquisition
    PROVE  /\ task' \in [Tasks -> {"started", "failed", "none"}]
           /\ running' \subseteq {"AI", "CI"} /\ usingPtg' \in BOOLEAN /\ alive' \in BOOLEAN
           /\ StartAIAcquisition =>
                /\ usingPtg' = usingPtg /\ UNCHANGED <<counter, lastCount, edges, total>>
                /\ alive' => /\ running' = {"AI"}
                             /\ \A k \in {"CI", "PTG"} : task'[k] = task[k]
           /\ StartCIAcquisition =>
                /\ running' = {"CI"} /\ task'["AI"] = task["AI"]
                /\ ~usingPtg' => task'["PTG"] = task["PTG"]
                /\ counter' = 0 /\ lastCount' = 0 /\ edges' = 0 /\ total' = 0
<1> USE DEF TypeOK, Tasks, counts
<1>1. ASSUME StartAIAcquisition
      PROVE  /\ task' \in [Tasks -> {"started", "failed", "none"}]
             /\ running' \subseteq {"AI", "CI"} /\ usingPtg' = usingPtg /\ alive' \in BOOLEAN
             /\ UNCHANGED <<counter, lastCount, edges, total>>
             /\ alive' => running' = {"AI"} /\ \A k \in {"CI", "PTG"} : task'[k] = task[k]
  <2>1. /\ usingPtg' = usingPtg /\ UNCHANGED <<counter, lastCount, edges, total>>
        /\ \/ SetupTaskAI /\ running' = {"AI"} /\ alive' = TRUE
           \/ alive' = FALSE /\ UNCHANGED <<task, running>>
      BY <1>1 DEF StartAIAcquisition
  <2>2. CASE SetupTaskAI /\ running' = {"AI"} /\ alive' = TRUE
    <3>1. PICK x \in {"started", "failed"} : task' = [task EXCEPT !["AI"] = x]
        BY <2>2 DEF SetupTaskAI, AddTaskChannel, HandleNiError
    <3> QED BY <2>1, <2>2, <3>1
  <2>3. CASE alive' = FALSE /\ UNCHANGED <<task, running>>
      BY <2>1, <2>3
  <2> QED BY <2>1, <2>2, <2>3
<1>2. ASSUME StartCIAcquisition
      PROVE  /\ task' \in [Tasks -> {"started", "failed", "none"}]
             /\ running' = {"CI"} /\ usingPtg' \in BOOLEAN /\ alive' = alive
             /\ task'["AI"] = task["AI"] /\ (~usingPtg' => task'["PTG"] = task["PTG"])
             /\ counter' = 0 /\ lastCount' = 0 /\ edges' = 0 /\ total' = 0
  <2>1. /\ running' = {"CI"} /\ alive' = alive /\ SetupTaskCI(usingPtg')
        /\ counter' = 0 /\ lastCount' = 0 /\ edges' = 0 /\ total' = 0
      BY <1>2 DEF StartCIAcquisition
  <2>2. usingPtg' \in BOOLEAN
    <3>1. usingPtg' = (CountVirtualChannelsOfType("PTGen") > 0)
        BY <1>2 DEF StartCIAcquisition
    <3> QED BY <3>1
  <2>3. PICK x \in {"started", "failed"}, y \in {"started", "failed"} :
          task' = [task EXCEPT !["CI"] = x, !["PTG"] = IF usingPtg' THEN y ELSE @]
      BY <2>1 DEF SetupTaskCI, AddTaskChannel, HandleNiError
  <2> QED BY <2>1, <2>2, <2>3
<1> QED BY <1>1, <1>2

(* The call that stops an acquisition, up to the notification.             *)
LEMMA StopKeeps ==
    ASSUME TypeOK, TaskInv, StopAIAcquisition \/ StopCIAcquisition
    PROVE  /\ alive /\ cmd = "idle" /\ running # {} /\ running' = {} /\ sig' = FALSE
           /\ cmd' = "notify" /\ calls' \in 0..MaxCalls /\ usingPtg' \in BOOLEAN
           /\ task' \in [Tasks -> {"started", "failed", "none"}]
           /\ \A k \in Tasks : task'[k] = "none"
           /\ UNCHANGED <<channels, mcaChannels, subscribed, mcaMode, loop, queue, took, made,
                          pushed, emitted, alive, counter, lastCount, edges, total, missed>>
<1> USE Numbers DEF TypeOK, config, flow, counts, Call
<1>1. /\ alive /\ cmd = "idle" /\ running # {} /\ sig' = FALSE
      /\ cmd' = "notify" /\ calls' \in 0..MaxCalls /\ usingPtg' \in BOOLEAN
      /\ UNCHANGED <<channels, mcaChannels, subscribed, mcaMode, loop, queue, took, made,
                     pushed, emitted, alive, counter, lastCount, edges, total, missed>>
  <2>1. Call /\ running # {} /\ sig' = FALSE /\ cmd' = "notify"
      BY DEF StopAIAcquisition, StopCIAcquisition
  <2>2. UNCHANGED <<config, mcaMode, loop, flow, alive, counts, missed>>
      BY DEF StopAIAcquisition, StopCIAcquisition
  <2>3. usingPtg' \in BOOLEAN
      BY DEF StopAIAcquisition, StopCIAcquisition
  <2> QED BY <2>1, <2>2, <2>3
<1>2. CASE StopAIAcquisition
  <2>1. running = {"AI"}
      BY <1>1, <1>2 DEF StopAIAcquisition, TaskInv
  <2> QED BY <1>1, <1>2, <2>1 DEF StopAIAcquisition, ClearTasks, TaskInv, Tasks
<1>3. CASE StopCIAcquisition
  <2>1. running = {"CI"}
      BY <1>1, <1>3 DEF StopCIAcquisition, TaskInv
  <2> QED BY <1>1, <1>3, <2>1 DEF StopCIAcquisition, ClearTasks, TaskInv, Tasks
<1> QED BY <1>2, <1>3

(* Notifying and joining the loops.                                        *)
LEMMA JoinKeeps ==
    ASSUME TypeOK, NotifyUnblockEventLoop \/ StopEventLoop
    PROVE  /\ alive /\ loop' \in [Loops -> LoopPC] /\ missed' \subseteq Loops
           /\ NotifyUnblockEventLoop =>
                /\ cmd = "notify" /\ cmd' = "join"
                /\ \A l \in Loops :
                     /\ loop'[l] \in {"off", "emit", "done"} => loop'[l] = loop[l]
                     /\ loop[l] \in {"off", "emit", "done"} => loop'[l] = loop[l]
           /\ StopEventLoop =>
                /\ cmd = "join" /\ cmd' = "idle" /\ \A l \in Loops : loop'[l] = "off"
                /\ loop["dcs"] = "done" /\ loop["cli"] = "done"
                /\ mcaMode => loop["mca"] = "done"
           /\ UNCHANGED <<channels, mcaChannels, subscribed, running, usingPtg, task, calls,
                          sig, mcaMode, queue, took, made, pushed, emitted, alive, counter,
                          lastCount, edges, total>>
<1> USE DEF TypeOK, config, taskVars, flow, counts, LoopPC
<1>1. ASSUME NotifyUnblockEventLoop
      PROVE  /\ loop' \in [Loops -> LoopPC] /\ missed' \subseteq Loops
             /\ cmd = "notify" /\ cmd' = "join"
             /\ \A l \in Loops :
                  /\ loop'[l] \in {"off", "emit", "done"} => loop'[l] = loop[l]
                  /\ loop[l] \in {"off", "emit", "done"} => loop'[l] = loop[l]
    BY <1>1 DEF NotifyUnblockEventLoop
<1>2. ASSUME StopEventLoop
      PROVE  /\ loop' \in [Loops -> LoopPC] /\ missed' \subseteq Loops
             /\ cmd = "join" /\ cmd' = "idle" /\ \A l \in Loops : loop'[l] = "off"
             /\ loop["dcs"] = "done" /\ loop["cli"] = "done"
             /\ mcaMode => loop["mca"] = "done"
    BY <1>2 DEF StopEventLoop
<1>3. alive /\ UNCHANGED <<channels, mcaChannels, subscribed, running, usingPtg, task, calls,
                           sig, mcaMode, queue, took, made, pushed, emitted, alive, counter,
                           lastCount, edges, total>>
    BY DEF NotifyUnblockEventLoop, StopEventLoop
<1> QED BY <1>1, <1>2, <1>3
-----------------------------------------------------------------------------
LoopTaking(l) ==
    /\ loop[l] # "emit" /\ loop'[l] = "emit" /\ emitted' = emitted
    /\ \/ Take(l)
       \/ /\ queue' = queue
          /\ took' = [took EXCEPT ![l] = [id |-> 0, num |-> Sentinel]]
LoopEmitting(l) ==
    /\ loop[l] = "emit" /\ loop'[l] = "test" /\ queue' = queue
    /\ took' = [took EXCEPT ![l] = None]
    /\ emitted' = IF took[l].num = Sentinel THEN emitted
                  ELSE [emitted EXCEPT ![l] = Append(@, took[l].id)]

(* A step of an event loop: it moves on without data, takes a datum (or    *)
(* the value that says there was none), or emits what it took.             *)
LEMMA LoopMoves ==
    ASSUME TypeOK, NEW l \in Loops, LoopStep(l) \/ SpuriousWakeup(l)
    PROVE  /\ alive /\ alive' \in BOOLEAN
           /\ UNCHANGED <<channels, mcaChannels, subscribed, running, usingPtg, task, calls,
                          sig, mcaMode, made, pushed, cmd, counter, lastCount, edges, total,
                          missed>>
           /\ loop' \in [Loops -> LoopPC]
           /\ loop[l] # "off" /\ loop'[l] # "off"
           /\ \A m \in Loops \ {l} : loop'[m] = loop[m]
           /\ \/ /\ loop[l] # "emit" /\ loop'[l] # "emit"
                 /\ UNCHANGED <<queue, took, emitted>>
              \/ LoopTaking(l)
              \/ LoopEmitting(l)
<1> USE DEF TypeOK, config, taskVars, counts, flow
<1>1. ASSUME NEW here \in LoopPC \ {"off"}, NEW there \in LoopPC \ {"off"}, At(l, here, there)
      PROVE  /\ alive /\ loop' \in [Loops -> LoopPC]
             /\ loop[l] = here /\ loop'[l] = there /\ \A m \in Loops \ {l} : loop'[m] = loop[m]
    BY <1>1 DEF At
<1>2. CASE TestSignal(l) \/ GetMustWait(l) \/ Wait(l) \/ SpuriousWakeup(l)
  <2>1. PICK here \in {"test", "get", "park", "wait"},
             there \in {"done", "test", "get", "park", "wait", "woken"} : At(l, here, there)
      BY <1>2 DEF TestSignal, GetMustWait, Wait, SpuriousWakeup
  <2>2. UNCHANGED <<channels, mcaChannels, subscribed, running, usingPtg, task, calls,
                    sig, mcaMode, made, pushed, cmd, counter, lastCount, edges, total,
                    missed, alive, queue, took, emitted>>
      BY <1>2 DEF TestSignal, GetMustWait, Wait, SpuriousWakeup
  <2>3. here \in LoopPC \ {"off"} /\ there \in LoopPC \ {"off"}
      BY DEF LoopPC
  <2> QED BY <1>1, <2>1, <2>2, <2>3
<1>3. CASE GetAtOnce(l) \/ GetAfterWait(l)
  <2>1. PICK here \in {"get", "woken"} : At(l, here, "emit")
      BY <1>3 DEF GetAtOnce, GetAfterWait
  <2>2. UNCHANGED <<channels, mcaChannels, subscribed, running, usingPtg, task, calls,
                    sig, mcaMode, made, pushed, cmd, counter, lastCount, edges, total,
                    missed, alive, emitted>>
      BY <1>3 DEF GetAtOnce, GetAfterWait
  <2>3. here \in LoopPC \ {"off"} /\ "emit" \in LoopPC \ {"off"}
      BY DEF LoopPC
  <2>4. \/ Take(l)
        \/ queue' = queue /\ took' = [took EXCEPT ![l] = [id |-> 0, num |-> Sentinel]]
      BY <1>3 DEF GetAtOnce, GetAfterWait
  <2>5. LoopTaking(l)
      BY <1>1, <2>1, <2>2, <2>3, <2>4 DEF LoopTaking
  <2> QED BY <1>1, <2>1, <2>2, <2>3, <2>5
<1>4. CASE EmitEvent(l)
  <2>1. At(l, "emit", "test") /\ "emit" \in LoopPC \ {"off"} /\ "test" \in LoopPC \ {"off"}
      BY <1>4 DEF EmitEvent, LoopPC
  <2>2. UNCHANGED <<channels, mcaChannels, subscribed, running, usingPtg, task, calls,
                    sig, mcaMode, made, pushed, cmd, counter, lastCount, edges, total,
                    missed, queue>>
      BY <1>4 DEF EmitEvent
  <2>3. LoopEmitting(l)
      BY <1>1, <1>4, <2>1, <2>2 DEF EmitEvent, LoopEmitting
  <2>4. alive' \in BOOLEAN
      BY <1>4 DEF EmitEvent
  <2> QED BY <1>1, <2>1, <2>2, <2>3, <2>4
<1> QED BY <1>2, <1>3, <1>4 DEF LoopStep

(* What a loop's step does to what it holds and emits.                     *)
LEMMA LoopHolds ==
    ASSUME TypeOK, HeldInv, NEW l \in Loops, LoopStep(l) \/ SpuriousWakeup(l)
    PROVE  /\ queue' \in [Loops -> Seq(Data)] /\ took' \in [Loops -> Data \cup {None}]
           /\ emitted' \in [Loops -> Seq(1..MaxData)]
           /\ \A m \in Loops \ {l} :
                queue'[m] = queue[m] /\ took'[m] = took[m] /\ emitted'[m] = emitted[m]
           /\ LoopTaking(l) =>
                /\ emitted'[l] = emitted[l]
                /\ \/ /\ queue[l] # <<>> /\ took'[l] = Head(queue[l])
                      /\ queue'[l] = Tail(queue[l])
                   \/ queue'[l] = queue[l] /\ took'[l] = [id |-> 0, num |-> Sentinel]
           /\ LoopEmitting(l) =>
                /\ queue'[l] = queue[l] /\ took'[l] = None
                /\ emitted'[l] = IF took[l] \in RealData THEN Append(emitted[l], took[l].id)
                                                         ELSE emitted[l]
<1> USE Numbers DEF TypeOK
<1>0. RealData \subseteq Data /\ [id |-> 0, num |-> Sentinel] \in Data
    BY DEF RealData, Data
<1>1. ASSUME LoopTaking(l)
      PROVE  /\ queue' \in [Loops -> Seq(Data)] /\ took' \in [Loops -> Data \cup {None}]
             /\ emitted' = emitted
             /\ \A m \in Loops \ {l} : queue'[m] = queue[m] /\ took'[m] = took[m]
             /\ \/ queue[l] # <<>> /\ took'[l] = Head(queue[l]) /\ queue'[l] = Tail(queue[l])
                \/ queue'[l] = queue[l] /\ took'[l] = [id |-> 0, num |-> Sentinel]
  <2>1. CASE Take(l)
    <3>1. Head(queue[l]) \in Data /\ Tail(queue[l]) \in Seq(Data)
        BY <2>1, HeadTailProperties DEF Take
    <3> QED BY <1>1, <2>1, <3>1 DEF Take, LoopTaking
  <2>2. CASE queue' = queue /\ took' = [took EXCEPT ![l] = [id |-> 0, num |-> Sentinel]]
      BY <1>0, <1>1, <2>2 DEF LoopTaking
  <2> QED BY <1>1, <2>1, <2>2 DEF LoopTaking
<1>2. ASSUME LoopEmitting(l)
      PROVE  /\ queue' = queue /\ took' \in [Loops -> Data \cup {None}] /\ took'[l] = None
             /\ emitted' \in [Loops -> Seq(1..MaxData)]
             /\ \A m \in Loops \ {l} : took'[m] = took[m] /\ emitted'[m] = emitted[m]
             /\ emitted'[l] = IF took[l] \in RealData THEN Append(emitted[l], took[l].id)
                                                      ELSE emitted[l]
  <2>1. queue' = queue /\ took' = [took EXCEPT ![l] = None]
      BY <1>2 DEF LoopEmitting
  <2>2. took[l] \in RealData \/ took[l] = [id |-> 0, num |-> Sentinel]
      BY <1>2 DEF LoopEmitting, HeldInv
  <2>3. CASE took[l] \in RealData
    <3>1. took[l].num # Sentinel /\ took[l].id \in 1..MaxData
        BY <2>3, HeldIs DEF RealData
    <3>2. Append(emitted[l], took[l].id) \in Seq(1..MaxData)
        BY <3>1, AppendProperties
    <3>3. emitted' = [emitted EXCEPT ![l] = Append(emitted[l], took[l].id)]
        BY <1>2, <3>1 DEF LoopEmitting
    <3> QED BY <2>1, <2>3, <3>2, <3>3
  <2>4. CASE took[l] = [id |-> 0, num |-> Sentinel]
    <3>1. took[l].num = Sentinel /\ took[l] \notin RealData
        BY <2>4 DEF RealData
    <3>2. emitted' = emitted
        BY <1>2, <3>1 DEF LoopEmitting
    <3> QED BY <2>1, <3>1, <3>2
  <2> QED BY <2>2, <2>3, <2>4
<1>3. ASSUME UNCHANGED <<queue, took, emitted>>, ~LoopTaking(l), ~LoopEmitting(l)
      PROVE  /\ queue' \in [Loops -> Seq(Data)] /\ took' \in [Loops -> Data \cup {None}]
             /\ emitted' \in [Loops -> Seq(1..MaxData)]
    BY <1>3
<1>4. ~(LoopTaking(l) /\ LoopEmitting(l))
    BY DEF LoopTaking, LoopEmitting
<1>5. CASE LoopTaking(l)
    BY <1>1, <1>4, <1>5
<1>6. CASE LoopEmitting(l)
    BY <1>2, <1>4, <1>6
<1>7. CASE ~LoopTaking(l) /\ ~LoopEmitting(l)
    BY <1>3, <1>7, LoopMoves
<1> QED BY <1>5, <1>6, <1>7
-----------------------------------------------------------------------------
Starting == StartAIAcquisition \/ StartCIAcquisition
Stopping == StopAIAcquisition \/ StopCIAcquisition
Joining == NotifyUnblockEventLoop \/ StopEventLoop
Callback == (\E s \in Buffers : VoltageEvent(s)) \/ (\E d \in EdgesPerRead : CountEvent(d))

(* Every step is of one of these kinds.                                    *)
LEMMA StepKinds ==
    ASSUME [Next]_vars
    PROVE  \/ Configure \/ Starting \/ Stopping \/ Joining \/ Callback
           \/ \E l \in Loops : LoopStep(l) \/ SpuriousWakeup(l)
           \/ UNCHANGED vars
    BY DEF Next, Configure, Starting, Stopping, Joining, Callback

(* The invariant holds when the server starts.                             *)
LEMMA InitIInv == Init => IInv
<1> SUFFICES ASSUME Init PROVE IInv
    OBVIOUS
<1> USE Numbers DEF Init
<1>1. TypeOK
  <2>1. <<>> \in Seq(Data) /\ <<>> \in Seq(1..MaxData)
      BY EmptySeq
  <2>2. {pushed, emitted} \subseteq [Loops -> Seq(1..MaxData)] /\ queue \in [Loops -> Seq(Data)]
      BY <2>1
  <2>3. /\ channels \in [Names -> [type : Types, hw : Connectors] \cup {None}]
        /\ took \in [Loops -> Data \cup {None}]
        /\ task \in [Tasks -> {"started", "failed", "none"}] /\ loop \in [Loops -> LoopPC]
      BY DEF LoopPC
  <2>4. /\ counter \in 0..(CounterMod - 1) /\ lastCount \in 0..(CounterMod - 1)
        /\ edges \in Nat /\ total \in 0..(U64 - 1)
        /\ calls \in 0..MaxCalls /\ made \in 0..MaxData
      OBVIOUS
  <2> QED BY <2>2, <2>3, <2>4 DEF TypeOK
<1>2. TaskInv /\ LoopInv
    BY DEF TaskInv, LoopInv, Tasks, Loops
<1>3. HeldInv
    BY EmptySeq DEF HeldInv
<1>4. DeliveredOnce
  <2>1. Ids(<<>>) = <<>> /\ <<>> \o <<>> = <<>>
    <3>1. <<>> \in Seq(RealData)
        BY EmptySeq
    <3>2. Ids(<<>>) \in Seq(1..MaxData) /\ Len(Ids(<<>>)) = 0
        BY <3>1, IdsAreIds, EmptySeq
    <3> QED BY <3>1, <3>2, EmptySeq, ConcatEmptySeq
  <2> QED BY <2>1 DEF DeliveredOnce, Ids
<1>5. CountInv
    BY DEF CountInv
<1> QED BY <1>1, <1>2, <1>3, <1>4, <1>5 DEF IInv

(* The counts: a reading adds the edges since the last one.                *)
LEMMA CountStep ==
    ASSUME IInv, [Next]_vars
    PROVE  /\ CountInv' /\ counter' \in 0..(CounterMod - 1) /\ lastCount' \in 0..(CounterMod - 1)
           /\ edges' \in Nat /\ total' \in 0..(U64 - 1)
<1> USE Numbers
<1>0. /\ TypeOK /\ CountInv /\ counter \in 0..(CounterMod - 1) /\ edges \in Nat
      /\ total \in 0..(U64 - 1) /\ total = counter /\ lastCount = counter
    BY DEF IInv, TypeOK, CountInv
<1>1. CASE UNCHANGED <<counter, lastCount, edges, total>>
    BY <1>0, <1>1 DEF CountInv
<1>2. ASSUME NEW d \in EdgesPerRead, CountEvent(d)
      PROVE  /\ CountInv' /\ counter' \in 0..(CounterMod - 1)
             /\ edges' \in Nat /\ total' \in 0..(U64 - 1)
  <2>1. /\ counter' = (counter + d) % CounterMod /\ edges' = edges + d /\ lastCount' = counter'
        /\ total' = (total + Detected(counter', lastCount)) % U64 /\ d \in Nat
      BY <1>2 DEF CountEvent
  <2>2. counter' \in 0..(CounterMod - 1) /\ edges' \in Nat
      BY <1>0, <2>1
  <2>3. counter' = edges' % CounterMod
    <3>1. ((edges % CounterMod) + d) % CounterMod = (edges + d) % CounterMod
        BY <1>0, <2>1, ModAdds
    <3> QED BY <1>0, <2>1, <3>1 DEF CountInv
  <2>4. total' = (counter + ((counter' - counter) % U64)) % U64
      BY <1>0, <2>1 DEF Detected
  <2>5. counter' \in 0..(U64 - 1) /\ counter \in 0..(U64 - 1)
      BY <1>0, <2>2
  <2>6. total' = counter'
      BY <2>4, <2>5, DifferenceLeadsBack
  <2> QED BY <2>1, <2>2, <2>3, <2>5, <2>6 DEF CountInv
<1>3. CASE Starting
  <2>1. \/ UNCHANGED <<counter, lastCount, edges, total>>
        \/ counter' = 0 /\ lastCount' = 0 /\ edges' = 0 /\ total' = 0
      BY <1>0, <1>3, StartTasks DEF Starting
  <2>2. 0 % CounterMod = 0
      OBVIOUS
  <2> QED BY <1>1, <2>1, <2>2 DEF CountInv
<1>4. CASE Configure \/ Joining
    BY <1>0, <1>1, <1>4, ConfigureKeeps, JoinKeeps DEF Joining
<1>5. CASE Stopping
    BY <1>0, <1>1, <1>5, StopKeeps DEF Stopping, IInv
<1>6. CASE \E s \in Buffers : VoltageEvent(s)
    BY <1>1, <1>6 DEF VoltageEvent, counts
<1>7. CASE \E l \in Loops : LoopStep(l) \/ SpuriousWakeup(l)
    BY <1>0, <1>1, <1>7, LoopMoves
<1>8. CASE UNCHANGED vars
    BY <1>1, <1>8 DEF vars
<1>9. CountInv' /\ counter' \in 0..(CounterMod - 1) /\ edges' \in Nat /\ total' \in 0..(U64 - 1)
    BY <1>0, <1>1, <1>2, <1>3, <1>4, <1>5, <1>6, <1>7, <1>8, StepKinds DEF Callback
<1> QED BY <1>9 DEF CountInv

(* The type invariant is kept by every step.                               *)
LEMMA TypeStep == IInv /\ [Next]_vars => TypeOK'
<1> SUFFICES ASSUME IInv, [Next]_vars PROVE TypeOK'
    OBVIOUS
<1>0. TypeOK /\ TaskInv /\ HeldInv /\ CountInv
    BY DEF IInv
<1>c. /\ counter' \in 0..(CounterMod - 1) /\ lastCount' \in 0..(CounterMod - 1)
      /\ edges' \in Nat /\ total' \in 0..(U64 - 1)
    BY CountStep
<1>1. CASE Configure
    BY <1>0, <1>c, <1>1, ConfigureKeeps DEF TypeOK
<1>2. CASE Starting
  <2>1. Starting => StartAIAcquisition \/ StartCIAcquisition
      BY DEF Starting
  <2> QED BY <1>0, <1>c, <1>2, <2>1, StartKeeps, StartTasks DEF TypeOK
<1>3. CASE Stopping
    BY <1>0, <1>c, <1>3, StopKeeps DEF TypeOK, Stopping
<1>4. CASE Joining
    BY <1>0, <1>c, <1>4, JoinKeeps DEF TypeOK, Joining
<1>5. CASE Callback
  <2>1. /\ made' \in 0..MaxData
        /\ UNCHANGED <<channels, mcaChannels, subscribed, running, usingPtg, task,
                       calls, sig, mcaMode, took, emitted, cmd, alive, missed>>
      BY <1>0, <1>5, CallbackPushes DEF Callback
  <2>2. PICK ls \in SUBSET Loops, d \in RealData : Push(ls, d)
      BY <1>0, <1>5, CallbackPushes DEF Callback
  <2>3. /\ queue' \in [Loops -> Seq(Data)] /\ pushed' \in [Loops -> Seq(1..MaxData)]
        /\ loop' \in [Loops -> LoopPC]
      BY <1>0, <2>2, PushKeeps
  <2> QED BY <1>0, <1>c, <2>1, <2>3 DEF TypeOK
<1>6. ASSUME NEW l \in Loops, LoopStep(l) \/ SpuriousWakeup(l)
      PROVE  TypeOK'
  <2>1. /\ queue' \in [Loops -> Seq(Data)] /\ took' \in [Loops -> Data \cup {None}]
        /\ emitted' \in [Loops -> Seq(1..MaxData)]
      BY <1>0, <1>6, LoopHolds
  <2>2. /\ loop' \in [Loops -> LoopPC] /\ alive' \in BOOLEAN
        /\ UNCHANGED <<channels, mcaChannels, subscribed, running, usingPtg, task, calls,
                       sig, mcaMode, made, pushed, cmd, missed>>
      BY <1>0, <1>6, LoopMoves
  <2> QED BY <1>0, <1>c, <2>1, <2>2 DEF TypeOK
<1>7. CASE UNCHANGED vars
    BY <1>0, <1>7 DEF TypeOK, vars
<1> QED BY <1>1, <1>2, <1>3, <1>4, <1>5, <1>6, <1>7, StepKinds
-----------------------------------------------------------------------------
(* One acquisition at a time, and its tasks.                               *)
LEMMA TaskStep == IInv /\ [Next]_vars => TaskInv'
<1> SUFFICES ASSUME IInv, [Next]_vars, alive' PROVE TaskInv'
    BY DEF TaskInv
<1>0. TypeOK /\ TaskInv /\ HeldInv /\ CountInv
    BY DEF IInv
<1>1. CASE UNCHANGED <<running, task, usingPtg>> /\ alive
    BY <1>0, <1>1 DEF TaskInv
<1>2. CASE StartAIAcquisition
  <2>1. alive /\ running = {}
      BY <1>0, <1>2, StartKeeps
  <2>2. running' = {"AI"} /\ task'["CI"] = task["CI"] /\ task'["PTG"] = task["PTG"]
      BY <1>0, <1>2, StartTasks
  <2> QED BY <1>0, <2>1, <2>2 DEF TaskInv
<1>3. CASE StartCIAcquisition
  <2>1. alive /\ running = {}
      BY <1>0, <1>3, StartKeeps
  <2>2. /\ running' = {"CI"} /\ task'["AI"] = task["AI"]
        /\ ~usingPtg' => task'["PTG"] = task["PTG"]
      BY <1>0, <1>3, StartTasks
  <2> QED BY <1>0, <2>1, <2>2 DEF TaskInv
<1>4. CASE Stopping
    BY <1>0, <1>4, StopKeeps DEF Stopping, TaskInv, Tasks
<1>5. CASE Configure
    BY <1>0, <1>1, <1>5, ConfigureKeeps
<1>6. CASE Joining
    BY <1>0, <1>1, <1>6, JoinKeeps DEF Joining
<1>7. CASE Callback
    BY <1>0, <1>1, <1>7, CallbackPushes DEF Callback
<1>8. CASE \E l \in Loops : LoopStep(l) \/ SpuriousWakeup(l)
    BY <1>0, <1>1, <1>8, LoopMoves
<1>9. CASE UNCHANGED vars
    BY <1>1, <1>9 DEF vars
<1> QED BY <1>2, <1>3, <1>4, <1>5, <1>6, <1>7, <1>8, <1>9, StepKinds DEF Starting

(* The loops follow the acquisition.                                       *)
LEMMA LoopsStep == IInv /\ [Next]_vars => LoopInv'
<1> SUFFICES ASSUME IInv, [Next]_vars, alive' PROVE LoopInv'
    BY DEF LoopInv
<1>0. TypeOK /\ TaskInv /\ LoopInv /\ HeldInv /\ CountInv
    BY DEF IInv
<1>l. Loops = {"dcs", "mca", "cli"}
    BY DEF Loops
<1>1. CASE /\ alive /\ UNCHANGED <<sig, cmd, running, mcaMode>>
           /\ \A l \in Loops : loop'[l] = "off" <=> loop[l] = "off"
    BY <1>0, <1>1, <1>l DEF LoopInv
<1>2. CASE Starting
  <2>1. /\ alive /\ cmd = "idle" /\ running = {} /\ sig' = TRUE /\ cmd' = cmd
        /\ loop'["dcs"] = "test" /\ loop'["cli"] = "test"
        /\ loop'["mca"] = IF mcaMode' THEN "test" ELSE loop["mca"]
      BY <1>0, <1>2, StartKeeps DEF Starting
  <2>2. running' # {}
      BY <1>0, <1>2, StartTasks DEF Starting
  <2>3. loop["mca"] = "off"
      BY <1>0, <2>1 DEF LoopInv
  <2> QED BY <2>1, <2>2, <2>3 DEF LoopInv
<1>3. CASE Stopping
  <2>1. /\ alive /\ cmd = "idle" /\ running # {} /\ running' = {} /\ sig' = FALSE
        /\ cmd' = "notify" /\ UNCHANGED <<loop, mcaMode>>
      BY <1>0, <1>3, StopKeeps DEF Stopping
  <2> QED BY <1>0, <2>1 DEF LoopInv
<1>4. CASE NotifyUnblockEventLoop
  <2>1. /\ alive /\ cmd = "notify" /\ cmd' = "join" /\ UNCHANGED <<sig, running, mcaMode>>
        /\ \A l \in Loops : loop'[l] = "off" <=> loop[l] = "off"
      BY <1>0, <1>4, JoinKeeps
  <2> QED BY <1>0, <1>l, <2>1 DEF LoopInv
<1>5. CASE StopEventLoop
  <2>1. /\ alive /\ cmd = "join" /\ cmd' = "idle" /\ UNCHANGED <<sig, running, mcaMode>>
        /\ \A l \in Loops : loop'[l] = "off"
      BY <1>0, <1>5, JoinKeeps
  <2> QED BY <1>0, <1>l, <2>1 DEF LoopInv
<1>6. CASE Configure
    BY <1>0, <1>1, <1>6, ConfigureKeeps
<1>7. CASE Callback
  <2>1. /\ alive /\ UNCHANGED <<sig, cmd, running, mcaMode>>
        /\ \E ls \in SUBSET Loops, d \in RealData : Push(ls, d)
      BY <1>0, <1>7, CallbackPushes DEF Callback
  <2>2. \A l \in Loops : loop'[l] = "off" <=> loop[l] = "off"
      BY <1>0, <2>1, PushKeeps
  <2> QED BY <1>1, <2>1, <2>2
<1>8. ASSUME NEW l \in Loops, LoopStep(l) \/ SpuriousWakeup(l)
      PROVE  LoopInv'
  <2>1. /\ alive /\ UNCHANGED <<sig, cmd, running, mcaMode>>
        /\ loop[l] # "off" /\ loop'[l] # "off"
        /\ \A m \in Loops \ {l} : loop'[m] = loop[m]
      BY <1>0, <1>8, LoopMoves
  <2>2. \A m \in Loops : loop'[m] = "off" <=> loop[m] = "off"
      BY <2>1
  <2> QED BY <1>1, <2>1, <2>2
<1>9. CASE UNCHANGED vars
    BY <1>1, <1>9 DEF vars
<1> QED BY <1>2, <1>3, <1>4, <1>5, <1>6, <1>7, <1>8, <1>9, StepKinds DEF Joining

(* What one loop holds and has handed over.                                *)
LoopSound(l) ==
    /\ queue[l] \in Seq(RealData)
    /\ took[l] # None <=> loop[l] = "emit"
    /\ took[l] = None \/ took[l] \in RealData \/ took[l] = [id |-> 0, num |-> Sentinel]
    /\ Delivered(pushed[l], emitted[l], took[l], queue[l])

(* Every datum goes from the callback to the client once and in order.     *)
LEMMA DeliveryStep == IInv /\ [Next]_vars => HeldInv' /\ DeliveredOnce'
<1> SUFFICES ASSUME IInv, [Next]_vars, NEW m \in Loops PROVE LoopSound(m)'
    BY DEF HeldInv, DeliveredOnce, LoopSound, Delivered, Held, Ids
<1>0. TypeOK /\ TaskInv /\ LoopInv /\ HeldInv /\ CountInv
    BY DEF IInv
<1>s. LoopSound(m)
    BY DEF IInv, HeldInv, DeliveredOnce, LoopSound, Delivered, Held, Ids
<1>e. emitted[m] \in Seq(1..MaxData)
    BY <1>0 DEF TypeOK
<1>z. LET none == [id |-> 0, num |-> Sentinel] IN none # None /\ none \notin RealData
  <2>1. [id |-> 0, num |-> Sentinel] \in Data
      BY Numbers DEF Data
  <2>2. [id |-> 0, num |-> Sentinel] \notin RealData
      BY DEF RealData
  <2> QED BY <2>1, <2>2, NoneIsNoDatum
<1>1. CASE /\ queue'[m] = queue[m] /\ took'[m] = took[m] /\ pushed'[m] = pushed[m]
           /\ emitted'[m] = emitted[m] /\ (loop'[m] = "emit" <=> loop[m] = "emit")
    BY <1>s, <1>1 DEF LoopSound
<1>2. CASE Starting
  <2>1. /\ alive /\ cmd = "idle" /\ running = {}
        /\ loop'["dcs"] = "test" /\ loop'["cli"] = "test"
        /\ loop'["mca"] = IF mcaMode' THEN "test" ELSE loop["mca"]
        /\ UNCHANGED <<queue, took, pushed, emitted>>
      BY <1>0, <1>2, StartKeeps DEF Starting
  <2>2. loop[m] = "off"
      BY <1>0, <2>1 DEF LoopInv, Loops
  <2>3. loop'[m] # "emit"
      BY <2>1, <2>2 DEF Loops
  <2> QED BY <1>1, <2>1, <2>2, <2>3
<1>3. CASE Stopping
    BY <1>0, <1>1, <1>3, StopKeeps DEF Stopping
<1>4. CASE NotifyUnblockEventLoop
    BY <1>0, <1>1, <1>4, JoinKeeps
<1>5. CASE StopEventLoop
  <2>1. /\ alive /\ cmd = "join" /\ loop'[m] = "off" /\ UNCHANGED <<queue, took, pushed, emitted>>
        /\ loop["dcs"] = "done" /\ loop["cli"] = "done" /\ (mcaMode => loop["mca"] = "done")
      BY <1>0, <1>5, JoinKeeps
  <2>2. loop[m] # "emit"
      BY <1>0, <2>1 DEF LoopInv, Loops
  <2> QED BY <1>1, <2>1, <2>2
<1>6. CASE Configure
    BY <1>0, <1>1, <1>6, ConfigureKeeps
<1>7. CASE Callback
  <2>1. UNCHANGED <<took, emitted>> /\ \E ls \in SUBSET Loops, d \in RealData : Push(ls, d)
      BY <1>0, <1>7, CallbackPushes DEF Callback
  <2>2. PICK d \in RealData :
          /\ queue'[m] \in Seq(RealData) /\ (loop'[m] = "emit" <=> loop[m] = "emit")
          /\ \/ pushed'[m] = pushed[m] /\ queue'[m] = queue[m]
             \/ pushed'[m] = Append(pushed[m], d.id) /\ queue'[m] = Append(queue[m], d)
      BY <1>0, <2>1, PushKeeps
  <2>3. CASE pushed'[m] = pushed[m] /\ queue'[m] = queue[m]
      BY <1>1, <2>1, <2>2, <2>3
  <2>4. CASE pushed'[m] = Append(pushed[m], d.id) /\ queue'[m] = Append(queue[m], d)
    <3>1. Held(took[m]) \in Seq(1..MaxData)
        BY <1>s, HeldIs, EmptySeq DEF LoopSound
    <3>2. Delivered(pushed'[m], emitted[m], took[m], queue'[m])
        BY <1>e, <1>s, <2>4, <3>1, PushDelivers DEF LoopSound
    <3> QED BY <1>s, <2>1, <2>2, <3>2 DEF LoopSound
  <2> QED BY <2>2, <2>3, <2>4
<1>8. ASSUME NEW l \in Loops, LoopStep(l) \/ SpuriousWakeup(l)
      PROVE  LoopSound(m)'
  <2>0. /\ pushed' = pushed /\ \A k \in Loops \ {l} : loop'[k] = loop[k]
        /\ \A k \in Loops \ {l} :
             queue'[k] = queue[k] /\ took'[k] = took[k] /\ emitted'[k] = emitted[k]
      BY <1>0, <1>8, LoopMoves, LoopHolds
  <2>1. CASE m # l
      BY <1>1, <2>0, <2>1
  <2>2. CASE m = l /\ LoopTaking(l)
    <3>1. /\ loop[m] # "emit" /\ loop'[m] = "emit" /\ emitted'[m] = emitted[m]
          /\ \/ queue[m] # <<>> /\ took'[m] = Head(queue[m]) /\ queue'[m] = Tail(queue[m])
             \/ queue'[m] = queue[m] /\ took'[m] = [id |-> 0, num |-> Sentinel]
        BY <1>0, <1>8, <2>2, LoopHolds DEF LoopTaking
    <3>2. took[m] = None /\ Held(took[m]) = <<>>
        BY <1>s, <3>1 DEF LoopSound, Held
    <3>3. CASE queue[m] # <<>> /\ took'[m] = Head(queue[m]) /\ queue'[m] = Tail(queue[m])
      <4>1. Head(queue[m]) \in RealData /\ Tail(queue[m]) \in Seq(RealData)
          BY <1>s, <3>3, HeadTailProperties DEF LoopSound
      <4>2. took'[m] # None
          BY <3>3, <4>1, HeldIs
      <4>3. Delivered(pushed[m], emitted[m], took'[m], queue'[m])
          BY <1>e, <1>s, <3>2, <3>3, TakeDelivers DEF LoopSound
      <4> QED BY <2>0, <3>1, <3>3, <4>1, <4>2, <4>3 DEF LoopSound
    <3>4. CASE queue'[m] = queue[m] /\ took'[m] = [id |-> 0, num |-> Sentinel]
      <4>1. Held(took'[m]) = <<>> /\ took'[m] # None
          BY <1>z, <3>4 DEF Held
      <4>2. Delivered(pushed[m], emitted[m], took'[m], queue[m])
          BY <1>s, <3>2, <4>1 DEF LoopSound, Delivered
      <4> QED BY <1>s, <2>0, <3>1, <3>4, <4>1, <4>2 DEF LoopSound
    <3> QED BY <3>1, <3>3, <3>4
  <2>3. CASE m = l /\ LoopEmitting(l)
    <3>1. /\ loop'[m] # "emit" /\ queue'[m] = queue[m] /\ took'[m] = None /\ took[m] # None
          /\ emitted'[m] = IF took[m] \in RealData THEN Append(emitted[m], took[m].id)
                                                   ELSE emitted[m]
        BY <1>0, <1>8, <1>s, <2>3, LoopHolds DEF LoopEmitting, LoopSound
    <3>2. CASE took[m] \in RealData
      <4>1. Delivered(pushed[m], emitted'[m], None, queue[m])
          BY <1>e, <1>s, <3>1, <3>2, EmitDelivers DEF LoopSound
      <4> QED BY <1>s, <2>0, <3>1, <4>1 DEF LoopSound
    <3>3. CASE took[m] = [id |-> 0, num |-> Sentinel]
      <4>1. Held(took[m]) = Held(None)
          BY <3>3 DEF Held
      <4>2. Delivered(pushed[m], emitted'[m], None, queue[m])
          BY <1>s, <1>z, <3>1, <3>3, <4>1 DEF LoopSound, Delivered
      <4> QED BY <1>s, <2>0, <3>1, <4>2 DEF LoopSound
    <3> QED BY <1>s, <3>1, <3>2, <3>3 DEF LoopSound
  <2>4. CASE m = l /\ ~LoopTaking(l) /\ ~LoopEmitting(l)
    <3>1. loop[l] # "emit" /\ loop'[l] # "emit" /\ UNCHANGED <<queue, took, emitted>>
        BY <1>0, <1>8, <2>4, LoopMoves
    <3> QED BY <1>1, <2>0, <2>4, <3>1
  <2> QED BY <2>1, <2>2, <2>3, <2>4
<1>9. CASE UNCHANGED vars
    BY <1>1, <1>9 DEF vars
<1> QED BY <1>2, <1>3, <1>4, <1>5, <1>6, <1>7, <1>8, <1>9, StepKinds DEF Joining

(* The invariant holds of every behaviour of the acquisition.              *)
THEOREM Invariance == Spec => []IInv
<1>1. Init => IInv
    BY InitIInv
<1>2. IInv /\ [Next]_vars => CountInv'
    BY CountStep
<1>3. IInv /\ [Next]_vars => IInv'
    BY <1>2, TypeStep, TaskStep, LoopsStep, DeliveryStep DEF IInv
<1> QED BY <1>1, <1>3, PTL DEF Spec

(* Every value stays of its type.                                          *)
THEOREM TypeCorrect == Spec => []TypeOK
<1>1. IInv => TypeOK
    BY DEF IInv
<1> QED BY <1>1, Invariance, PTL

(* Between calls the loops run exactly while one task is running, and a    *)
(* stopped acquisition leaves no task on the device.                       *)
THEOREM OneSetOfLoops == Spec => []LoopsMatchTasks
<1>1. IInv => LoopsMatchTasks
  <2> SUFFICES ASSUME IInv, alive, cmd = "idle"
               PROVE  /\ Cardinality(running) <= 1 /\ sig = (running # {})
                      /\ \A l \in {"dcs", "cli"} : (loop[l] = "off") = (running = {})
                      /\ (loop["mca"] = "off") = (running = {} \/ ~mcaMode)
                      /\ \A k \in Tasks : task[k] # "none" => running # {}
      BY DEF LoopsMatchTasks
  <2>1. running \in {{}, {"AI"}, {"CI"}}
      BY DEF IInv, TaskInv
  <2>2. Cardinality(running) <= 1
    <3>1. Cardinality({}) = 0 /\ Cardinality({"AI"}) = 1 /\ Cardinality({"CI"}) = 1
        BY FS_EmptySet, FS_Singleton, Zenon
    <3>2. \/ Cardinality(running) = 0
          \/ Cardinality(running) = 1
        BY <2>1, <3>1, Zenon
    <3> QED BY <3>2, SMT
  <2>3. sig = (running # {})
    <3>1. sig \in BOOLEAN /\ (sig <=> running # {})
        BY DEF IInv, TypeOK, LoopInv
    <3> QED BY <3>1
  <2>4. \A l \in {"dcs", "cli"} : (loop[l] = "off") = (running = {})
    <3>1. \A l \in {"dcs", "cli"} : (loop[l] = "off") <=> (running = {})
        BY DEF IInv, LoopInv
    <3> QED BY <3>1
  <2>5. (loop["mca"] = "off") = (running = {} \/ ~mcaMode)
    <3>1. (loop["mca"] = "off") <=> (running = {} \/ ~mcaMode)
        BY DEF IInv, LoopInv
    <3> QED BY <3>1
  <2>6. \A k \in Tasks : task[k] # "none" => running # {}
      BY DEF IInv, TaskInv, Tasks
  <2> QED BY <2>2, <2>3, <2>4, <2>5, <2>6
<1> QED BY <1>1, Invariance, PTL

(* Whatever the wake-ups, the loops emit what the callbacks pushed, each   *)
(* datum once and in order.                                                *)
THEOREM EveryDatumOnce == Spec => []DeliveredOnce
<1>1. IInv => DeliveredOnce
    BY DEF IInv
<1> QED BY <1>1, Invariance, PTL

(* The counts of an acquisition add up to its edges modulo the range of    *)
(* the counter, and to the edges themselves as long as these are fewer     *)
(* than its range, for every width of counter and of u64.                  *)
THEOREM EdgesCounted == Spec => [](CountsAddUp /\ CountsExact)
<1>1. ASSUME IInv, edges < CounterMod
      PROVE  edges % CounterMod = edges
  <2>1. CounterMod \in Nat \ {0} /\ edges \in 0..(CounterMod - 1)
      BY <1>1, AcquisitionAssumption DEF IInv, TypeOK
  <2>2. (CounterMod * 0 + edges) % CounterMod = edges
      BY <2>1, ModIsUnique
  <2> QED BY <2>1, <2>2
<1>2. IInv => CountsAddUp /\ CountsExact
    BY <1>1 DEF IInv, CountInv, CountsAddUp, CountsExact
<1> QED BY <1>2, Invariance, PTL

(* Whatever samples a voltage callback reads, and however many, it counts  *)
(* the peaks of DCS::Math::countArrayPeak right.                           *)
THEOREM PeaksCountedAlways == Spec => []PeaksCounted
<1>1. AllCountedRight
  <2> SUFFICES ASSUME NEW n \in 0..MaxSamples, NEW s \in [1..n -> 0..(VHi + 1)]
               PROVE  s \in Seq(Nat)
      BY PeaksCountedRight DEF AllCountedRight
  <2>1. n \in Nat /\ 0..(VHi + 1) \subseteq Nat
      BY AcquisitionAssumption, PeakAssumption
  <2>2. s \in [1..n -> Nat]
      BY <2>1
  <2> QED BY <2>1, <2>2
<1>2. PeaksCounted
    BY <1>1 DEF PeaksCounted
<1> QED BY <1>2, PTL
=============================================================================
