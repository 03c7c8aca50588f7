----------------------- MODULE PositionControl_proofs -----------------------
(***************************************************************************)
(* For any stages, motions, goals, gains and ranges, and whatever the      *)
(* encoder and its offsets do: a target moves for one motion at a time     *)
(* unless its gains were set meanwhile, the status reported is right unless*)
(* a motion overtook the report of the one before, and a motion that ends  *)
(* has its stage in place unless it was misled or displaced.               *)
(***************************************************************************)
EXTENDS PositionControl, FiniteSetTheorems, TLAPS

(* A motion has a target exactly while its thread runs, and the target has *)
(* gains; pass counts the rests, and the second one ends the motion.       *)
MoverInv ==
    \A m \in Movers :
      /\ motion[m].pc = "off" <=> motion[m].on = None
      /\ motion[m].on # None => pid[motion[m].on] \in PIDs
      /\ motion[m].pass = 2 <=> motion[m].pc \in {"finish", "report"}

(* What the flag of a target that was left alone says of its motions.      *)
TargetInv ==
    \A t \in Targets \ disturbed :
      /\ \A m, n \in Active(t) : m = n
      /\ working[t] <=> Active(t) # {}
      /\ \A m \in On(t) : motion[m].pc = "calculate" /\ motion[m].goal \in Positions
                            => pid[t].target = motion[m].goal

(* What the last report of a target says, if no motion overtook it.        *)
ReportInv ==
    \A t \in Targets \ overtaken :
      /\ \A m, n \in On(t) : m = n
      /\ status[t] = "WORKING" <=> On(t) # {}

(* Nothing but its own moves displaces a motion that is not tainted, so    *)
(* that a sample taken while it waits shows where its stage is; and after  *)
(* its first rest it rests only in place.                                  *)
InPlace(m) == Abs(motion[m].goal - Angle(motion[m].on)) <= Tol
Placed(m) ==
    /\ motion[m].pc \notin {"off", "report"} => pid[motion[m].on].gain.axis
    /\ m \in seen => last[motion[m].on] = Angle(motion[m].on)
    /\ motion[m].pc = "rest" /\ motion[m].pass = 1 => InPlace(m)
    /\ motion[m].pc = "finish" => InPlace(m)
PlaceInv ==
    /\ \A t \in disturbed : Active(t) \subseteq tainted
    /\ seen \subseteq Waiting
    /\ \A m \in Movers \ tainted : Placed(m)
    /\ ~misplaced

IInv == TypeOK /\ MoverInv /\ TargetInv /\ ReportInv /\ PlaceInv
-----------------------------------------------------------------------------
Places == {"off", "look", "aim", "calculate", "wait", "rest", "finish", "report"}
Motions == [pc : Places, on : Targets \cup {None}, goal : Goals \cup {0}, pos : Int,
            pass : 0..2]

(* The thread of a motion goes on within it, and leaves the others alone.  *)
Goes(m, pc, pass) ==
    /\ motion' \in [Movers -> Motions] /\ \A n \in Movers \ {m} : motion'[n] = motion[n]
    /\ motion'[m].on = motion[m].on /\ motion'[m].goal = motion[m].goal
    /\ motion'[m].pc = pc /\ motion'[m].pass = pass

(* What a measurement decides.                                             *)
LEMMA MeasuredIs ==
    ASSUME TypeOK, NEW m \in Movers, NEW pos \in Int, NEW pass \in 0..2,
           Measured(m, pos, pass)
    PROVE  Goes(m, IF pass = 2 THEN "finish"
                   ELSE IF Abs(motion[m].goal - pos) > Tol THEN "aim" ELSE "rest", pass)
<1> DEFINE far == pass < 2 /\ Abs(motion[m].goal - pos) > Tol
           p == IF far THEN pos ELSE 0
           c == IF pass = 2 THEN "finish" ELSE IF far THEN "aim" ELSE "rest"
<1>1. motion \in [Movers -> Motions]
    BY DEF TypeOK, Motions, Places
<1>2. motion' = [motion EXCEPT ![m].pos = p, ![m].pass = pass, ![m].pc = c]
    BY DEF Measured, MeasuredPasses
<1>3. p \in Int /\ c \in Places
    BY DEF Places
<1>4. c = IF pass = 2 THEN "finish"
          ELSE IF Abs(motion[m].goal - pos) > Tol THEN "aim" ELSE "rest"
    BY SMT
<1> HIDE DEF far, p, c
<1>5. Goes(m, c, pass)
    BY <1>1, <1>2, <1>3 DEF Motions, Goes
<1> QED BY <1>4, <1>5

(* A wait that begins or ends is that of one thread.                       *)
LEMMA WaitsIs ==
    ASSUME TypeOK, NEW m \in Movers, Waits(m)
    PROVE  seen' = seen \ {m} /\ blind' \subseteq Movers
    BY DEF Waits, TypeOK

(* The record of a new motion.                                             *)
LEMMA MotionBegun ==
    ASSUME NEW p \in Motions, NEW c, NEW t, NEW g, NEW q,
           q = [p EXCEPT !.pc = c, !.on = t, !.goal = g]
    PROVE  q = [pc |-> c, on |-> t, goal |-> g, pos |-> p.pos, pass |-> p.pass]
    BY DEF Motions

(* A motion waits for its move to show.                                    *)
LEMMA WaitsNow ==
    ASSUME motion \in [Movers -> Motions], NEW m \in Movers, NEW c \in Places, NEW a \in Int,
           motion' = [motion EXCEPT ![m].pc = c, ![m].pos = a]
    PROVE  Goes(m, c, motion[m].pass)
    BY DEF Goes, Motions

(* The movement of a stage stays in its range, and moves no other.         *)
LEMMA MovedIs ==
    ASSUME where \in [Targets -> Positions], NEW t \in Targets, NEW d \in Int
    PROVE  /\ Moved(t, d) \in [Targets -> Positions]
           /\ \A u \in Targets \ {t} : Moved(t, d)[u] = where[u]
<1> DEFINE to == where[t] + dir[t] * d
<1>1. CASE to \in Positions
  <2>1. Moved(t, d) = [where EXCEPT ![t] = to]
      BY <1>1 DEF Moved
  <2> HIDE DEF to
  <2> QED BY <1>1, <2>1
<1>2. CASE to \notin Positions
  <2>1. Moved(t, d) = where
      BY <1>2 DEF Moved
  <2> QED BY <2>1
<1> QED BY <1>1, <1>2

(* Changing fields of a PID.                                               *)
LEMMA PIDChanged ==
    ASSUME NEW p \in PIDs, NEW x \in Int, NEW y \in Int, NEW z \in BOOLEAN, NEW q,
           q = [p EXCEPT !.dTerm = x, !.iTerm = y, !.timed = z]
    PROVE  q = [gain |-> p.gain, target |-> p.target, dTerm |-> x, iTerm |-> y, timed |-> z]
    BY DEF PIDs

(* What a calculation leaves in the PID, if its integral is in bounds.     *)
LEMMA CalculateIs ==
    ASSUME NEW p \in PIDs, NEW v \in Int
    PROVE  /\ to_string(calculate(p, v).out) \in Int
           /\ calculate(p, v).pid.gain = p.gain
           /\ calculate(p, v).pid.target = p.target
           /\ calculate(p, v).pid.iTerm \in Int
           /\ Abs(calculate(p, v).pid.iTerm) <= ITermMax => calculate(p, v).pid \in PIDs
<1> USE PositionAssumption
<1> DEFINE e == p.target - v
           dt == IF p.timed THEN 1 ELSE FirstDt
           I == p.iTerm + p.gain.i * e * dt
           D == (p.gain.d * e - p.dTerm) \div dt
           q == [p EXCEPT !.dTerm = p.gain.d * e, !.iTerm = I, !.timed = TRUE]
           o == p.gain.p * e + I + D
<1>1. /\ p.gain \in Gains /\ p.target \in Positions /\ p.dTerm \in Int
      /\ p.iTerm \in -ITermMax..ITermMax /\ p.timed \in BOOLEAN
    BY DEF PIDs
<1>2. p.gain.p \in Int /\ p.gain.i \in Int /\ p.gain.d \in Int
    BY <1>1
<1>3. e \in Int /\ dt \in Nat \ {0}
    BY <1>1 DEF Positions
<1> HIDE DEF e, dt
<1>4. p.gain.d * e \in Int /\ p.gain.i * e * dt \in Int /\ p.gain.p * e \in Int
    BY <1>2, <1>3
<1>5. I \in Int
    BY <1>1, <1>4
<1>6. D \in Int
    BY <1>1, <1>3, <1>4
<1> HIDE DEF I, D
<1>7. p.gain.p * e + I + D \in Int
    BY <1>4, <1>5, <1>6
<1>8. o \in Int
    BY <1>7
<1> HIDE DEF o
<1>9. Clamp(o, Lim * GainUnit) \in Int
    BY <1>8 DEF Clamp
<1>10. calculate(p, v) = [pid |-> q, out |-> Clamp(o, Lim * GainUnit)]
    BY DEF calculate, e, dt, I, D, o
<1>11. q = [gain |-> p.gain, target |-> p.target, dTerm |-> p.gain.d * e, iTerm |-> I,
            timed |-> TRUE]
  <2>1. p.gain.d * e \in Int /\ TRUE \in BOOLEAN
      BY <1>4
  <2>2. q = [p EXCEPT !.dTerm = p.gain.d * e, !.iTerm = I, !.timed = TRUE]
      OBVIOUS
  <2> HIDE DEF q
  <2> QED BY <1>5, <2>1, <2>2, PIDChanged, Zenon
<1> HIDE DEF q
<1>12. Abs(I) <= ITermMax => I \in -ITermMax..ITermMax
    BY <1>5 DEF Abs
<1>13. q.iTerm = I /\ q.target = p.target /\ q.gain = p.gain
    BY <1>11
<1>14. Abs(I) <= ITermMax => q \in PIDs
    BY <1>1, <1>4, <1>11, <1>12 DEF PIDs
<1>15. to_string(Clamp(o, Lim * GainUnit)) \in Int
    BY <1>9 DEF to_string
<1> QED BY <1>5, <1>10, <1>13, <1>14, <1>15

(* A target's motions stay its motions.                                    *)
LEMMA OnStays ==
    ASSUME TypeOK, NEW m \in Movers, NEW pc, NEW pass, Goes(m, pc, pass), NEW t
    PROVE  /\ On(t)' = On(t)
           /\ pc # "report" /\ motion[m].pc # "report" => Active(t)' = Active(t)
<1>1. /\ \A n \in Movers : motion'[n].on = motion[n].on
      /\ \A n \in Movers \ {m} : motion'[n].pc = motion[n].pc
      /\ motion'[m].pc = pc
    BY DEF Goes
<1>2. On(t)' = On(t)
    BY <1>1 DEF On
<1> QED BY <1>1, <1>2 DEF Active, On

(* Where the thread of a motion is, it has a target with gains.            *)
LEMMA HasTarget ==
    ASSUME TypeOK, MoverInv, NEW m \in Movers, motion[m].pc # "off"
    PROVE  motion[m].on \in Targets /\ pid[motion[m].on] \in PIDs /\ m \in On(motion[m].on)
    BY DEF TypeOK, MoverInv, On

(* Goals and positions are integers.                                       *)
LEMMA PlaceIsInt ==
    ASSUME TypeOK, NEW t \in Targets
    PROVE  where[t] \in Int /\ Angle(t) \in Int
<1>1. where[t] \in Positions /\ offset[t] \in Offsets
    BY DEF TypeOK
<1>2. Lim \in Int /\ Offsets \subseteq Int
    BY PositionAssumption
<1>3. offset[t] \in Int
    BY <1>1, <1>2, Zenon
<1>4. where[t] \in Int
    BY <1>1, <1>2 DEF Positions
<1> QED BY <1>3, <1>4 DEF Angle

LEMMA GoalIsInt ==
    ASSUME TypeOK, NEW m \in Movers
    PROVE  motion[m].goal \in Int
<1>1. motion[m].goal \in Goals \cup {0}
    BY DEF TypeOK
<1>2. Goals \subseteq Int
    BY PositionAssumption
<1>3. 0 \in Int
    OBVIOUS
<1> QED BY <1>1, <1>2, <1>3, Zenon
-----------------------------------------------------------------------------
(* The invariant holds at the start.                                       *)
LEMMA InitIInv == Init => IInv
<1> SUFFICES ASSUME Init PROVE IInv
    OBVIOUS
<1> USE PositionAssumption DEF Init, NoMotion
<1>1. TypeOK
  <2>1. 0 \in Positions /\ 0 \in 0..2 /\ 0 \in 0..MaxCalls /\ 0 \in 0..MaxStarts
         /\ 0 \in 0..MaxMisreads
      BY DEF Positions
  <2>2. inited \in BOOLEAN /\ misplaced \in BOOLEAN
      BY Zenon
  <2>3. working \in [Targets -> BOOLEAN]
      BY Zenon
  <2> QED BY <2>1, <2>2, <2>3 DEF TypeOK
<1>2. MoverInv
    BY DEF MoverInv
<1>3. TargetInv /\ ReportInv
    BY DEF TargetInv, ReportInv, On, Active
<1>4. PlaceInv
    BY DEF PlaceInv, Placed, On, Active
<1> QED BY <1>1, <1>2, <1>3, <1>4 DEF IInv

(* What is said of the motions does not depend on the rest.                *)
LEMMA StillSound ==
    ASSUME IInv, TypeOK', UNCHANGED <<pidVars, motion, where, offset, last, seen, history>>
    PROVE  IInv'
    BY DEF IInv, MoverInv, TargetInv, ReportInv, PlaceInv, Placed, On, Active, Waiting,
           InPlace, Angle, pidVars, history

(* A sample for the threads that wait; those it misleads are tainted.      *)
LEMMA SampleKeeps ==
    ASSUME IInv, NEW at \in [Targets -> Int], Sample(at), misreads' \in 0..MaxMisreads,
           tainted \subseteq tainted', tainted' \subseteq Movers,
           \A m \in Waiting \ tainted' : at[motion[m].on] = Angle(motion[m].on)
    PROVE  IInv'
<1> USE PositionAssumption DEF pidVars, stageVars, encVars
<1>1. /\ UNCHANGED <<pid, working, status, motion, where, offset, disturbed, overtaken,
                     misplaced>>
      /\ last' = at /\ seen' = Waiting
    BY DEF Sample
<1>2. TypeOK'
    BY <1>1 DEF Sample, Waiting, IInv, TypeOK
<1>3. MoverInv' /\ TargetInv' /\ ReportInv'
    BY <1>1 DEF IInv, MoverInv, TargetInv, ReportInv, On, Active
<1>4. PlaceInv'
    BY <1>1 DEF IInv, PlaceInv, Placed, On, Active, Waiting, InPlace, Angle
<1> QED BY <1>2, <1>3, <1>4 DEF IInv

(* The encoder: a sample shows where every stage is, unless it is misread. *)
LEMMA EncoderKeeps ==
    ASSUME IInv,
           EncoderStart \/ EncoderReferenced \/ EncoderRead \/ EncoderMisread \/ EncoderStop
    PROVE  IInv'
<1> USE PositionAssumption DEF pidVars, stageVars, encVars, history
<1>1. CASE EncoderStart \/ EncoderReferenced \/ EncoderStop
  <2>1. inited' \in BOOLEAN
      BY <1>1 DEF EncoderStart, EncoderReferenced, EncoderStop, IInv, TypeOK
  <2>2. TypeOK'
      BY <1>1, <2>1 DEF EncoderStart, EncoderReferenced, EncoderStop, Waiting, IInv, TypeOK
  <2>3. UNCHANGED <<pidVars, motion, where, offset, last, seen, history>>
      BY <1>1 DEF EncoderStart, EncoderReferenced, EncoderStop
  <2> QED BY <2>2, <2>3, StillSound
<1>2. \A t \in Targets : where[t] \in Int /\ Angle(t) \in Int
    BY PlaceIsInt DEF IInv
<1>3. \A m \in Waiting : motion[m].on \in Targets
    BY HasTarget DEF Waiting, IInv
<1>4. CASE EncoderRead
  <2> DEFINE at == [t \in Targets |-> Angle(t)]
  <2>1. Sample(at) /\ UNCHANGED <<misreads, tainted>>
      BY <1>4 DEF EncoderRead
  <2>2. at \in [Targets -> Int] /\ \A m \in Waiting : at[motion[m].on] = Angle(motion[m].on)
      BY <1>2, <1>3
  <2>3. misreads' \in 0..MaxMisreads /\ tainted' \subseteq Movers
      BY <2>1 DEF IInv, TypeOK
  <2> HIDE DEF at
  <2> QED BY <2>1, <2>2, <2>3, SampleKeeps
<1>5. CASE EncoderMisread
  <2>1. /\ misreads < MaxMisreads /\ misreads' = misreads + 1
        /\ tainted' = tainted \cup Waiting
      BY <1>5 DEF EncoderMisread
  <2>2. PICK at \in [Targets -> Int] : Sample(at)
    <3>1. PICK read \in [Targets -> Offsets \cup {0}] :
            Sample([t \in Targets |-> where[t] + read[t]])
        BY <1>5 DEF EncoderMisread
    <3>2. \A t \in Targets : read[t] \in Int
      <4>1. Offsets \subseteq Int /\ 0 \in Int /\ \A t \in Targets : read[t] \in Offsets \cup {0}
          OBVIOUS
      <4> QED BY <4>1, Zenon
    <3>3. [t \in Targets |-> where[t] + read[t]] \in [Targets -> Int]
        BY <1>2, <3>2
    <3> QED BY <3>1, <3>3
  <2>3. misreads' \in 0..MaxMisreads /\ tainted' \subseteq Movers
      BY <2>1 DEF IInv, TypeOK, Waiting
  <2> QED BY <2>1, <2>2, <2>3, SampleKeeps
<1> QED BY <1>1, <1>4, <1>5

(* A relative move, or a new offset: it taints the motions of its target.  *)
LEMMA DisplacedKeeps ==
    ASSUME IInv, NEW t \in Targets, where' \in [Targets -> Positions],
           offset' \in [Targets -> Offsets], calls' \in 0..MaxCalls,
           \A u \in Targets \ {t} : where'[u] = where[u] /\ offset'[u] = offset[u],
           tainted' = tainted \cup Active(t),
           UNCHANGED <<pidVars, motion, dir, encVars, seen, blind, disturbed, overtaken,
                       misplaced>>
    PROVE  IInv'
<1> USE DEF pidVars, encVars
<1>1. TypeOK'
    BY DEF Active, On, IInv, TypeOK
<1>2. MoverInv' /\ TargetInv' /\ ReportInv'
    BY DEF IInv, MoverInv, TargetInv, ReportInv, On, Active
<1>3. ASSUME NEW m \in Movers \ tainted', motion[m].pc \notin {"off", "report"}
      PROVE  Angle(motion[m].on)' = Angle(motion[m].on)
  <2>1. motion[m].on \in Targets /\ m \in Active(motion[m].on)
      BY <1>3, HasTarget DEF Active, IInv
  <2>2. motion[m].on # t
      BY <1>3, <2>1
  <2> QED BY <2>1, <2>2 DEF Angle
<1>4. ASSUME NEW m \in Movers \ tainted' PROVE Placed(m)'
  <2>1. m \in seen => motion[m].pc \notin {"off", "report"}
      BY DEF IInv, PlaceInv, Waiting
  <2>2. Placed(m)
      BY <1>4 DEF IInv, PlaceInv
  <2> QED BY <1>3, <1>4, <2>1, <2>2 DEF Placed, InPlace
<1>5. PlaceInv'
    BY <1>4 DEF IInv, PlaceInv, On, Active, Waiting
<1> QED BY <1>1, <1>2, <1>5 DEF IInv

(* A relative move.                                                        *)
LEMMA RelativeKeeps ==
    ASSUME IInv, NEW t \in Targets, NEW d \in Steps, MoveRelative(t, d)
    PROVE  IInv'
<1> USE PositionAssumption
<1>1. where' \in [Targets -> Positions] /\ \A u \in Targets \ {t} : where'[u] = where[u]
    BY MovedIs DEF MoveRelative, IInv, TypeOK
<1>2. offset' = offset /\ offset \in [Targets -> Offsets] /\ calls' \in 0..MaxCalls
    BY DEF MoveRelative, Call, IInv, TypeOK
<1> QED BY <1>1, <1>2, DisplacedKeeps DEF MoveRelative

(* A new offset.                                                           *)
LEMMA OffsetKeeps ==
    ASSUME IInv, NEW t \in Targets, NEW o \in Offsets, WriteOffset(t, o)
    PROVE  IInv'
<1> USE PositionAssumption
<1>1. /\ offset' \in [Targets -> Offsets]
      /\ \A u \in Targets \ {t} : offset'[u] = offset[u]
    BY DEF WriteOffset, IInv, TypeOK
<1>2. where' = where /\ where \in [Targets -> Positions] /\ calls' \in 0..MaxCalls
    BY DEF WriteOffset, Call, IInv, TypeOK
<1> QED BY <1>1, <1>2, DisplacedKeeps DEF WriteOffset

(* New gains: they disturb the target of a motion, and taint the motion.   *)
LEMMA GainsKeep ==
    ASSUME IInv, NEW t \in Targets, NEW g \in Gains, SetPIDControlVariables(t, g)
    PROVE  IInv'
<1> USE PositionAssumption DEF pidVars, stageVars, encVars
<1>1. /\ UNCHANGED <<status, motion, where, offset, last, seen, overtaken, misplaced>>
      /\ pid' = [pid EXCEPT ![t] = NewPID(g)]
      /\ working' = [working EXCEPT ![t] = FALSE]
      /\ disturbed' = IF Active(t) # {} THEN disturbed \cup {t} ELSE disturbed
      /\ tainted' = tainted \cup Active(t)
    BY DEF SetPIDControlVariables
<1>2. NewPID(g) \in PIDs
  <2>1. 0 \in Positions /\ 0 \in -ITermMax..ITermMax
      BY DEF Positions
  <2>2. FALSE \in BOOLEAN
      OBVIOUS
  <2> QED BY <2>1, <2>2 DEF NewPID, PIDs
<1>3. pid' \in [Targets -> PIDs \cup {None}] /\ pid'[t] \in PIDs
      /\ \A u \in Targets \ {t} : pid'[u] = pid[u]
    BY <1>1, <1>2 DEF IInv, TypeOK
<1>4. working' \in [Targets -> BOOLEAN] /\ ~working'[t]
      /\ \A u \in Targets \ {t} : working'[u] = working[u]
    BY <1>1 DEF IInv, TypeOK
<1>5. TypeOK'
    BY <1>1, <1>3, <1>4 DEF SetPIDControlVariables, Call, Active, On, IInv, TypeOK
<1>6. \A u : On(u)' = On(u) /\ Active(u)' = Active(u)
    BY <1>1 DEF On, Active
<1>7. MoverInv' /\ ReportInv'
    BY <1>1, <1>3, <1>6 DEF IInv, TypeOK, MoverInv, ReportInv
<1>8. ASSUME NEW u \in Targets \ disturbed'
      PROVE  /\ \A m, n \in Active(u)' : m = n
             /\ working'[u] <=> Active(u)' # {}
             /\ \A m \in On(u)' : motion'[m].pc = "calculate" /\ motion'[m].goal \in Positions
                                    => pid'[u].target = motion'[m].goal
  <2>1. CASE u = t
    <3>1. Active(t) = {}
        BY <1>1, <1>8, <2>1
    <3> QED BY <1>1, <1>4, <1>6, <2>1, <3>1 DEF Active
  <2>2. CASE u # t
      BY <1>1, <1>3, <1>4, <1>6, <1>8, <2>2 DEF IInv, TargetInv
  <2> QED BY <2>1, <2>2
<1>9. TargetInv'
    BY <1>8 DEF TargetInv
<1>10. ASSUME NEW m \in Movers \ tainted' PROVE Placed(m)'
  <2>1. Placed(m)
      BY <1>1, <1>10 DEF IInv, PlaceInv
  <2>2. motion[m].pc \notin {"off", "report"} => pid'[motion[m].on] = pid[motion[m].on]
    <3> SUFFICES ASSUME motion[m].pc \notin {"off", "report"}
                 PROVE  pid'[motion[m].on] = pid[motion[m].on]
        OBVIOUS
    <3>1. motion[m].on \in Targets /\ m \in Active(motion[m].on)
        BY HasTarget DEF Active, IInv
    <3> QED BY <1>1, <1>3, <1>10, <3>1
  <2> QED BY <1>1, <2>1, <2>2 DEF Placed, InPlace, Angle
<1>11. PlaceInv'
    BY <1>1, <1>6, <1>10 DEF IInv, PlaceInv, Waiting
<1> QED BY <1>5, <1>7, <1>9, <1>11 DEF IInv
-----------------------------------------------------------------------------
(* What the flags say of the motions is kept while a motion goes on,       *)
(* provided it changes at most the PID of its own target.                  *)
LEMMA GoingKeeps ==
    ASSUME IInv, NEW m \in Movers, NEW pc \in Places \ {"off", "report"}, NEW pass \in 0..2,
           Goes(m, pc, pass), motion[m].pc \notin {"off", "report"}, pass = 2 <=> pc = "finish",
           UNCHANGED <<working, status, disturbed, overtaken>>,
           pid'[motion[m].on] \in PIDs,
           \A u \in Targets \ {motion[m].on} : pid'[u] = pid[u],
           pc = "calculate" /\ motion[m].goal \in Positions
              => pid'[motion[m].on].target = motion[m].goal
    PROVE  MoverInv' /\ TargetInv' /\ ReportInv'
<1> DEFINE t == motion[m].on
<1>0. t \in Targets /\ m \in On(t) /\ m \in Active(t)
    BY HasTarget DEF Active, IInv
<1>1. \A n \in Movers \ {m} : motion'[n] = motion[n]
    BY DEF Goes
<1>2. \A u : On(u)' = On(u) /\ Active(u)' = Active(u)
    BY OnStays DEF IInv
<1>3. MoverInv'
  <2> SUFFICES ASSUME NEW n \in Movers
               PROVE  /\ motion'[n].pc = "off" <=> motion'[n].on = None
                      /\ motion'[n].on # None => pid'[motion'[n].on] \in PIDs
                      /\ motion'[n].pass = 2 <=> motion'[n].pc \in {"finish", "report"}
      BY DEF MoverInv
  <2>1. CASE n = m
      BY <1>0, <2>1, PositionAssumption DEF Goes
  <2>2. CASE n # m
      BY <1>0, <1>1, <2>2 DEF IInv, TypeOK, MoverInv
  <2> QED BY <2>1, <2>2
<1>4. TargetInv'
  <2> SUFFICES ASSUME NEW u \in Targets \ disturbed
               PROVE  /\ \A n, k \in Active(u) : n = k
                      /\ working[u] <=> Active(u) # {}
                      /\ \A n \in On(u) :
                           motion'[n].pc = "calculate" /\ motion'[n].goal \in Positions
                             => pid'[u].target = motion'[n].goal
      BY <1>2 DEF TargetInv
  <2>1. /\ \A n, k \in Active(u) : n = k
        /\ working[u] <=> Active(u) # {}
      BY DEF IInv, TargetInv
  <2>2. ASSUME NEW n \in On(u), motion'[n].pc = "calculate", motion'[n].goal \in Positions
        PROVE  pid'[u].target = motion'[n].goal
    <3>1. CASE n = m
        BY <2>2, <3>1 DEF Goes, On
    <3>2. CASE n # m
      <4>1. u # t
        <5>1. n \in Active(u)
            BY <1>1, <2>2, <3>2 DEF Active, On
        <5> QED BY <1>0, <2>1, <3>2, <5>1
      <4> QED BY <1>1, <2>2, <3>2, <4>1 DEF IInv, TargetInv, On
    <3> QED BY <3>1, <3>2
  <2> QED BY <2>1, <2>2
<1>5. ReportInv'
    BY <1>2 DEF IInv, ReportInv
<1> QED BY <1>3, <1>4, <1>5

(* What is said of the place of the other motions is kept with it.         *)
LEMMA OthersPlaced ==
    ASSUME IInv, NEW m \in Movers, NEW pc, NEW pass, Goes(m, pc, pass),
           seen' = seen \ {m}, tainted \subseteq tainted', UNCHANGED <<last, offset>>,
           \A n \in Movers \ ({m} \cup tainted') :
             motion[n].pc \notin {"off", "report"} =>
               /\ pid'[motion[n].on].gain = pid[motion[n].on].gain
               /\ where'[motion[n].on] = where[motion[n].on]
    PROVE  /\ \A n \in Movers \ ({m} \cup tainted') : Placed(n)'
           /\ seen' \subseteq Waiting'
<1>1. \A n \in Movers \ {m} : motion'[n] = motion[n]
    BY DEF Goes
<1>2. seen \subseteq Waiting
    BY DEF IInv, PlaceInv
<1>3. seen' \subseteq Waiting'
    BY <1>1, <1>2 DEF Waiting
<1>4. ASSUME NEW n \in Movers \ ({m} \cup tainted') PROVE Placed(n)'
  <2>1. Placed(n) /\ motion'[n] = motion[n]
      BY <1>1, <1>4 DEF IInv, PlaceInv
  <2>2. n \in seen => motion[n].pc \notin {"off", "report"}
      BY <1>2 DEF Waiting
  <2>3. motion[n].pc \notin {"off", "report"}
          => /\ pid'[motion[n].on].gain = pid[motion[n].on].gain
             /\ Angle(motion[n].on)' = Angle(motion[n].on)
      BY <1>4, <2>1 DEF Angle
  <2> QED BY <2>1, <2>2, <2>3 DEF Placed, InPlace
<1> QED BY <1>3, <1>4
(* The first look at the position, which may be an old sample or none.     *)
LEMMA LookKeeps ==
    ASSUME IInv, NEW m \in Movers, Look(m)
    PROVE  IInv'
<1> USE PositionAssumption DEF pidVars, stageVars, encVars, history
<1>0. motion[m].pc = "look" /\ motion[m].on \in Targets /\ pid[motion[m].on] \in PIDs
    BY HasTarget DEF Look, IInv
<1>1. UNCHANGED <<pid, working, status, where, dir, offset, enc, inited, last, starts,
                  misreads, calls, disturbed, overtaken, tainted, misplaced>>
    BY DEF Look
<1>2. PICK pos \in Inspect(motion[m].on) : Measured(m, pos, 0)
    BY DEF Look
<1>3. pos \in Int
    BY <1>0, <1>2 DEF Inspect, IInv, TypeOK
<1>4. PICK pc \in {"aim", "rest"} : Goes(m, pc, 0)
    BY <1>2, <1>3, MeasuredIs DEF IInv
<1>5. seen' = seen \ {m} /\ blind' \subseteq Movers
    BY WaitsIs DEF Look, IInv
<1>6. TypeOK'
    BY <1>1, <1>4, <1>5 DEF Goes, Motions, Places, IInv, TypeOK
<1>7. MoverInv' /\ TargetInv' /\ ReportInv'
    BY <1>0, <1>1, <1>4, GoingKeeps DEF Places
<1>8. PlaceInv'
  <2>1. /\ \A n \in Movers \ ({m} \cup tainted') : Placed(n)'
        /\ seen' \subseteq Waiting'
      BY <1>1, <1>4, <1>5, OthersPlaced
  <2>2. m \notin tainted => Placed(m)'
    <3>1. m \notin tainted => pid[motion[m].on].gain.axis
        BY <1>0 DEF IInv, PlaceInv, Placed
    <3> QED BY <1>1, <1>4, <1>5, <3>1 DEF Placed, Goes
  <2>3. \A u : Active(u)' = Active(u)
      BY <1>0, <1>4, OnStays DEF IInv
  <2> QED BY <1>1, <2>1, <2>2, <2>3 DEF IInv, PlaceInv
<1> QED BY <1>6, <1>7, <1>8 DEF IInv

(* Aiming: the PID gets the goal, or 0 if that is out of the range.        *)
LEMMA AimKeeps ==
    ASSUME IInv, NEW m \in Movers, Aim(m)
    PROVE  IInv'
<1> USE PositionAssumption DEF pidVars, stageVars, encVars, history
<1> DEFINE t == motion[m].on
           q == setTargetAndBias(pid[t], motion[m].goal)
<1>0. motion[m].pc = "aim" /\ t \in Targets /\ pid[t] \in PIDs
    BY HasTarget DEF Aim, IInv
<1>1. /\ UNCHANGED <<working, status, where, dir, offset, enc, inited, last, starts, misreads,
                     seen, blind, calls, disturbed, overtaken, tainted, misplaced>>
      /\ pid' = [pid EXCEPT ![t] = q]
      /\ motion' = [motion EXCEPT ![m].pc = "calculate"]
    BY DEF Aim
<1>2. q \in PIDs /\ q.gain = pid[t].gain
      /\ (motion[m].goal \in Positions => q.target = motion[m].goal)
  <2>1. 0 \in Positions
      BY DEF Positions
  <2>2. PICK x \in Positions : /\ q = [pid[t] EXCEPT !.target = x]
                               /\ motion[m].goal \in Positions => x = motion[m].goal
      BY <2>1 DEF setTargetAndBias
  <2> QED BY <1>0, <2>2 DEF PIDs
<1> HIDE DEF q
<1>3. /\ pid' \in [Targets -> PIDs \cup {None}] /\ pid'[t] = q
      /\ \A u \in Targets \ {t} : pid'[u] = pid[u]
    BY <1>0, <1>1, <1>2 DEF IInv, TypeOK
<1>4. Goes(m, "calculate", motion[m].pass) /\ motion[m].pass \in 0..2 /\ motion[m].pass # 2
  <2>1. motion \in [Movers -> Motions]
      BY DEF IInv, TypeOK, Motions, Places
  <2>2. motion[m].pass \in 0..2 /\ motion[m].pass # 2
      BY <1>0, <2>1 DEF IInv, MoverInv, Motions
  <2>3. Goes(m, "calculate", motion[m].pass)
      BY <1>1, <2>1 DEF Goes, Motions, Places
  <2> QED BY <2>2, <2>3
<1>5. TypeOK'
    BY <1>1, <1>3, <1>4 DEF Goes, Motions, Places, IInv, TypeOK
<1>6. MoverInv' /\ TargetInv' /\ ReportInv'
    BY <1>0, <1>1, <1>2, <1>3, <1>4, GoingKeeps DEF Places
<1>7. PlaceInv'
  <2>1. seen' = seen \ {m}
      BY <1>0, <1>1 DEF IInv, PlaceInv, Waiting
  <2>2. ASSUME NEW n \in Movers, motion[n].pc \notin {"off", "report"}
        PROVE  pid'[motion[n].on].gain = pid[motion[n].on].gain
      BY <1>2, <1>3, <2>2, HasTarget DEF IInv
  <2>3. /\ \A n \in Movers \ ({m} \cup tainted') : Placed(n)'
        /\ seen' \subseteq Waiting'
      BY <1>1, <1>4, <2>1, <2>2, OthersPlaced
  <2>4. m \notin tainted => Placed(m)'
    <3>1. m \notin tainted => pid'[motion[m].on].gain.axis
        BY <1>0, <2>2 DEF IInv, PlaceInv, Placed
    <3> QED BY <1>4, <2>1, <3>1 DEF Placed, Goes
  <2>5. \A u : Active(u)' = Active(u)
      BY <1>0, <1>4, OnStays DEF IInv
  <2> QED BY <1>1, <2>3, <2>4, <2>5 DEF IInv, PlaceInv
<1> QED BY <1>5, <1>6, <1>7 DEF IInv

(* The move: another motion of the same target is tainted already.         *)
LEMMA MoveKeeps ==
    ASSUME IInv, NEW m \in Movers, CalculateAndMove(m)
    PROVE  IInv'
<1> USE PositionAssumption DEF pidVars, stageVars, encVars, history
<1> DEFINE t == motion[m].on
           c == calculate(pid[t], motion[m].pos)
<1>0. /\ motion[m].pc = "calculate" /\ t \in Targets /\ pid[t] \in PIDs
      /\ m \in On(t) /\ m \in Active(t)
    BY HasTarget DEF CalculateAndMove, Active, IInv
<1>1. /\ UNCHANGED <<working, status, dir, offset, enc, inited, last, starts, misreads, calls,
                     disturbed, overtaken, tainted, misplaced>>
      /\ pid' = [pid EXCEPT ![t] = c.pid] /\ where' = Moved(t, to_string(c.out))
      /\ motion' = [motion EXCEPT ![m].pc = "wait", ![m].pos = 0]
      /\ Abs(c.pid.iTerm) <= ITermMax
    BY DEF CalculateAndMove
<1>2. c.pid \in PIDs /\ to_string(c.out) \in Int /\ c.pid.gain = pid[t].gain
  <2>1. motion[m].pos \in Int
      BY DEF IInv, TypeOK
  <2> QED BY <1>0, <1>1, <2>1, CalculateIs
<1> HIDE DEF c
<1>3. /\ pid' \in [Targets -> PIDs \cup {None}] /\ pid'[t] = c.pid
      /\ \A u \in Targets \ {t} : pid'[u] = pid[u]
    BY <1>0, <1>1, <1>2 DEF IInv, TypeOK
<1>4. Goes(m, "wait", motion[m].pass) /\ motion[m].pass \in 0..2 /\ motion[m].pass # 2
  <2>1. motion \in [Movers -> Motions]
      BY DEF IInv, TypeOK, Motions, Places
  <2>2. motion[m].pass \in 0..2 /\ motion[m].pass # 2
      BY <1>0, <2>1 DEF IInv, MoverInv, Motions
  <2>3. Goes(m, "wait", motion[m].pass)
    <3>1. "wait" \in Places /\ 0 \in Int
        BY DEF Places
    <3> QED BY <1>1, <2>1, <3>1, WaitsNow, Zenon
  <2> QED BY <2>2, <2>3
<1>5. where' \in [Targets -> Positions] /\ \A u \in Targets \ {t} : where'[u] = where[u]
    BY <1>0, <1>1, <1>2, MovedIs DEF IInv, TypeOK
<1>6. seen' = seen \ {m} /\ blind' \subseteq Movers
    BY WaitsIs DEF CalculateAndMove, IInv
<1>7. TypeOK'
    BY <1>1, <1>3, <1>4, <1>5, <1>6 DEF Goes, Motions, Places, IInv, TypeOK
<1>8. MoverInv' /\ TargetInv' /\ ReportInv'
    BY <1>0, <1>1, <1>2, <1>3, <1>4, GoingKeeps DEF Places
<1>9. PlaceInv'
  <2>1. ASSUME NEW n \in Movers, motion[n].pc \notin {"off", "report"}
        PROVE  pid'[motion[n].on].gain = pid[motion[n].on].gain
      BY <1>2, <1>3, <2>1, HasTarget DEF IInv
  <2>2. ASSUME NEW n \in Movers \ ({m} \cup tainted'), motion[n].pc \notin {"off", "report"}
        PROVE  where'[motion[n].on] = where[motion[n].on]
    <3>1. motion[n].on \in Targets /\ n \in Active(motion[n].on) /\ n \notin tainted
        BY <1>1, <2>2, HasTarget DEF Active, IInv
    <3>2. motion[n].on # t
        BY <1>0, <2>2, <3>1 DEF IInv, TargetInv, PlaceInv
    <3> QED BY <1>5, <3>1, <3>2
  <2>3. /\ \A n \in Movers \ ({m} \cup tainted') : Placed(n)'
        /\ seen' \subseteq Waiting'
      BY <1>1, <1>4, <1>6, <2>1, <2>2, OthersPlaced
  <2>4. m \notin tainted => Placed(m)'
    <3>1. m \notin tainted => pid'[motion[m].on].gain.axis
        BY <1>0, <2>1 DEF IInv, PlaceInv, Placed
    <3> QED BY <1>4, <1>6, <3>1 DEF Placed, Goes
  <2>5. \A u : Active(u)' = Active(u)
      BY <1>0, <1>4, OnStays DEF IInv
  <2> QED BY <1>1, <2>3, <2>4, <2>5 DEF IInv, PlaceInv
<1> QED BY <1>7, <1>8, <1>9 DEF IInv

(* The second look: a motion that is not tainted sees where its stage is.  *)
LEMMA WaitKeeps ==
    ASSUME IInv, NEW m \in Movers, WaitAndInspect(m)
    PROVE  IInv'
<1> USE PositionAssumption DEF pidVars, stageVars, encVars, history
<1> DEFINE t == motion[m].on
           p == motion[m].pass + (IF motion[m].pc = "rest" THEN 1 ELSE 0)
<1>0. motion[m].pc \in {"wait", "rest"} /\ t \in Targets /\ pid[t] \in PIDs
    BY HasTarget DEF WaitAndInspect, Waiting, IInv
<1>1. /\ UNCHANGED <<pid, working, status, where, dir, offset, enc, inited, last, starts,
                     misreads, calls, disturbed, overtaken, misplaced>>
      /\ tainted' = IF m \in seen THEN tainted ELSE tainted \cup {m}
    BY DEF WaitAndInspect
<1>2. PICK pos \in Inspect(t) : Measured(m, pos, p)
    BY DEF WaitAndInspect
<1>3. pos \in Int
    BY <1>0, <1>2 DEF Inspect, IInv, TypeOK
<1>4. motion[m].pass \in 0..1 /\ p \in 0..2 /\ (p = 2 => motion[m].pc = "rest" /\ motion[m].pass = 1)
  <2>1. motion[m].pass \in 0..2 /\ motion[m].pass # 2
      BY <1>0 DEF IInv, TypeOK, MoverInv
  <2> QED BY <2>1
<1> HIDE DEF p
<1>5. PICK pc \in {"aim", "rest", "finish"} :
        /\ Goes(m, pc, p) /\ (p = 2 <=> pc = "finish")
        /\ pc = "rest" => ~(Abs(motion[m].goal - pos) > Tol)
  <2> DEFINE d == IF p = 2 THEN "finish"
                  ELSE IF Abs(motion[m].goal - pos) > Tol THEN "aim" ELSE "rest"
  <2>1. Goes(m, d, p)
      BY <1>2, <1>3, <1>4, MeasuredIs DEF IInv
  <2>2. /\ d \in {"aim", "rest", "finish"} /\ (p = 2 <=> d = "finish")
        /\ d = "rest" => ~(Abs(motion[m].goal - pos) > Tol)
      OBVIOUS
  <2> HIDE DEF d
  <2> QED BY <2>1, <2>2
<1>6. /\ tainted \subseteq tainted' /\ tainted' \subseteq tainted \cup {m}
      /\ (m \notin tainted' => m \notin tainted /\ m \in seen)
    BY <1>1
<1>7. seen' = seen \ {m} /\ blind' \subseteq Movers
    BY WaitsIs DEF WaitAndInspect, IInv
<1>8. TypeOK'
    BY <1>1, <1>5, <1>6, <1>7 DEF Goes, Motions, Places, IInv, TypeOK
<1>9. MoverInv' /\ TargetInv' /\ ReportInv'
    BY <1>0, <1>1, <1>4, <1>5, GoingKeeps DEF Places
<1>10. m \notin tainted' => pos = Angle(t) /\ pid[t].gain.axis
  <2> SUFFICES ASSUME m \notin tainted' PROVE pos = Angle(t) /\ pid[t].gain.axis
      OBVIOUS
  <2>1. last[t] = Angle(t) /\ pid[t].gain.axis
      BY <1>0, <1>6 DEF IInv, PlaceInv, Placed
  <2>2. last[t] # None
    <3>1. Angle(t) \in Int
        BY <1>0, PlaceIsInt DEF IInv
    <3> QED BY <2>1, <3>1
  <2> QED BY <1>2, <2>1, <2>2 DEF Inspect
<1>11. m \notin tainted' /\ pc \in {"rest", "finish"} => InPlace(m)
  <2> SUFFICES ASSUME m \notin tainted', pc \in {"rest", "finish"} PROVE InPlace(m)
      OBVIOUS
  <2>1. CASE pc = "rest"
    <3>1. ~(Abs(motion[m].goal - Angle(t)) > Tol)
        BY <1>5, <1>10, <2>1
    <3>2. motion[m].goal \in Int /\ Angle(t) \in Int
        BY <1>0, GoalIsInt, PlaceIsInt DEF IInv
    <3>3. Abs(motion[m].goal - Angle(t)) \in Int
        BY <3>2 DEF Abs
    <3> QED BY <3>1, <3>3 DEF InPlace
  <2>2. CASE pc = "finish"
    <3>1. motion[m].pc = "rest" /\ motion[m].pass = 1 /\ m \notin tainted
        BY <1>4, <1>5, <1>6, <2>2
    <3> QED BY <3>1 DEF IInv, PlaceInv, Placed
  <2> QED BY <2>1, <2>2
<1>12. PlaceInv'
  <2>1. /\ \A n \in Movers \ ({m} \cup tainted') : Placed(n)'
        /\ seen' \subseteq Waiting'
      BY <1>1, <1>5, <1>6, <1>7, OthersPlaced
  <2>2. m \notin tainted' => Placed(m)'
      BY <1>1, <1>5, <1>7, <1>10, <1>11 DEF Placed, Goes, InPlace, Angle
  <2>3. \A u : Active(u)' = Active(u)
      BY <1>0, <1>5, OnStays DEF IInv
  <2> QED BY <1>1, <1>6, <2>1, <2>2, <2>3 DEF IInv, PlaceInv
<1> QED BY <1>8, <1>9, <1>12 DEF IInv
-----------------------------------------------------------------------------
(* A new motion: its target was not being moved, unless it is disturbed.   *)
LEMMA StartKeeps ==
    ASSUME IInv, NEW t \in Targets, NEW goal \in Goals, MoveAbsolutePID(t, goal)
    PROVE  IInv'
<1> USE PositionAssumption DEF pidVars, stageVars, encVars
<1> DEFINE m == CHOOSE x \in Movers : motion[x].pc = "off"
           r == [NoMotion EXCEPT !.pc = "look", !.on = t, !.goal = goal]
<1>1. m \in Movers /\ motion[m].pc = "off"
    BY DEF MoveAbsolutePID, StartMotion
<1>2. /\ UNCHANGED <<pid, where, dir, offset, enc, inited, last, starts, misreads, seen, blind,
                     disturbed, misplaced>>
      /\ working' = [working EXCEPT ![t] = TRUE]
      /\ status' = [status EXCEPT ![t] = "WORKING"]
      /\ motion' = [motion EXCEPT ![m] = r]
      /\ overtaken' = IF On(t) # {} THEN overtaken \cup {t} ELSE overtaken
      /\ tainted' = IF t \in disturbed THEN tainted \cup {m} ELSE tainted
      /\ pid[t] # None /\ pid[t].gain.axis /\ ~working[t]
      /\ calls < MaxCalls /\ calls' = calls + 1
    BY DEF MoveAbsolutePID, StartMotion, Call
<1> HIDE DEF m
<1>3. r = [pc |-> "look", on |-> t, goal |-> goal, pos |-> 0, pass |-> 0]
  <2>1. NoMotion \in Motions /\ NoMotion.pos = 0 /\ NoMotion.pass = 0
      BY DEF NoMotion, Motions, Places
  <2>2. r = [NoMotion EXCEPT !.pc = "look", !.on = t, !.goal = goal]
      OBVIOUS
  <2> HIDE DEF r
  <2>3. r = [pc |-> "look", on |-> t, goal |-> goal, pos |-> NoMotion.pos,
             pass |-> NoMotion.pass]
      BY <2>1, <2>2, MotionBegun, Zenon
  <2> QED BY <2>1, <2>3, Zenon
<1> HIDE DEF r
<1>4. motion \in [Movers -> Motions] /\ r \in Motions
    BY <1>3 DEF IInv, TypeOK, Motions, Places
<1>5. /\ motion' \in [Movers -> Motions] /\ motion'[m] = r
      /\ \A n \in Movers \ {m} : motion'[n] = motion[n]
    BY <1>1, <1>2, <1>4
<1>6. /\ working' \in [Targets -> BOOLEAN] /\ working'[t]
      /\ \A u \in Targets \ {t} : working'[u] = working[u]
  <2>1. working \in [Targets -> BOOLEAN]
      BY DEF IInv, TypeOK
  <2> QED BY <1>2, <2>1
<1>7. /\ status' \in [Targets -> {None, "WORKING", "READY"}] /\ status'[t] = "WORKING"
      /\ \A u \in Targets \ {t} : status'[u] = status[u]
    BY <1>2 DEF IInv, TypeOK
<1>8. TypeOK'
    BY <1>1, <1>2, <1>5, <1>6, <1>7 DEF Motions, Places, IInv, TypeOK
<1>9. MoverInv'
    BY <1>2, <1>3, <1>5 DEF IInv, TypeOK, MoverInv
<1>10. motion[m].on = None
    BY <1>1 DEF IInv, MoverInv
<1>11. /\ On(t)' = On(t) \cup {m} /\ Active(t)' = Active(t) \cup {m}
       /\ \A u \in Targets \ {t} : On(u)' = On(u) /\ Active(u)' = Active(u)
    BY <1>1, <1>3, <1>5, <1>10 DEF On, Active
<1>12. TargetInv'
  <2> SUFFICES ASSUME NEW u \in Targets \ disturbed
               PROVE  /\ \A k, n \in Active(u)' : k = n
                      /\ working'[u] <=> Active(u)' # {}
                      /\ \A n \in On(u)' :
                           motion'[n].pc = "calculate" /\ motion'[n].goal \in Positions
                             => pid[u].target = motion'[n].goal
      BY <1>2 DEF TargetInv
  <2>1. CASE u = t
    <3>1. Active(u) = {}
        BY <1>2, <2>1 DEF IInv, TargetInv
    <3>2. Active(u)' = {m}
        BY <1>11, <2>1, <3>1
    <3>3. \A n \in On(u)' : n = m \/ motion'[n].pc = "report"
        BY <3>2 DEF Active
    <3> QED BY <1>3, <1>5, <1>6, <2>1, <3>2, <3>3
  <2>2. CASE u # t
    <3>1. \A n \in On(u) : motion'[n] = motion[n]
        BY <1>5, <1>10 DEF On
    <3>2. On(u)' = On(u) /\ Active(u)' = Active(u)
        BY <1>11, <2>2
    <3> QED BY <1>6, <2>2, <3>1, <3>2 DEF IInv, TargetInv
  <2> QED BY <2>1, <2>2
<1>13. ReportInv'
  <2> SUFFICES ASSUME NEW u \in Targets \ overtaken'
               PROVE  /\ \A k, n \in On(u)' : k = n
                      /\ status'[u] = "WORKING" <=> On(u)' # {}
      BY DEF ReportInv
  <2>1. CASE u = t
    <3>1. On(u)' = {m}
        BY <1>2, <1>11, <2>1
    <3> QED BY <1>7, <2>1, <3>1
  <2>2. CASE u # t
      BY <1>2, <1>7, <1>11, <2>2 DEF IInv, ReportInv
  <2> QED BY <2>1, <2>2
<1>14. ASSUME NEW n \in Movers \ tainted' PROVE Placed(n)'
  <2>1. CASE n = m
    <3>1. m \notin seen
        BY <1>1 DEF IInv, PlaceInv, Waiting
    <3> QED BY <1>2, <1>3, <1>5, <2>1, <3>1 DEF Placed
  <2>2. CASE n # m
    <3>1. Placed(n) /\ motion'[n] = motion[n]
        BY <1>2, <1>5, <1>14, <2>2 DEF IInv, PlaceInv
    <3> QED BY <1>2, <3>1 DEF Placed, InPlace, Angle
  <2> QED BY <2>1, <2>2
<1>15. PlaceInv'
  <2>1. \A u \in disturbed : Active(u)' \subseteq tainted'
      BY <1>2, <1>11 DEF IInv, TypeOK, PlaceInv
  <2>2. seen' \subseteq Waiting'
      BY <1>1, <1>2, <1>5 DEF IInv, PlaceInv, Waiting
  <2> QED BY <1>2, <1>14, <2>1, <2>2 DEF IInv, PlaceInv
<1> QED BY <1>8, <1>9, <1>12, <1>13, <1>15 DEF IInv

(* The end of a motion that was not tainted: its stage is in place.        *)
LEMMA ReleaseKeeps ==
    ASSUME IInv, NEW m \in Movers, Release(m)
    PROVE  IInv'
<1> USE PositionAssumption DEF pidVars, stageVars, encVars
<1>0. PICK t \in Targets : t = motion[m].on /\ motion[m].pc = "finish" /\ m \in On(t)
    BY HasTarget DEF Release, IInv
<1>1. /\ UNCHANGED <<pid, status, where, dir, offset, enc, inited, last, starts, misreads, seen,
                     blind, calls, overtaken>>
      /\ working' = [working EXCEPT ![t] = FALSE]
      /\ motion' = [motion EXCEPT ![m].pc = "report"]
      /\ disturbed' = IF Active(t) = {m} THEN disturbed \ {t} ELSE disturbed
      /\ tainted' = tainted \ {m}
    BY <1>0 DEF Release
<1>2. ~misplaced'
  <2>1. m \notin tainted => ~(Abs(motion[m].goal - Angle(t)) > Tol)
    <3>1. motion[m].goal \in Int /\ Angle(t) \in Int
        BY <1>0, GoalIsInt, PlaceIsInt DEF IInv
    <3>2. Abs(motion[m].goal - Angle(t)) \in Int
        BY <3>1 DEF Abs
    <3>3. m \notin tainted => Abs(motion[m].goal - Angle(t)) <= Tol
        BY <1>0 DEF IInv, PlaceInv, Placed, InPlace
    <3> QED BY <3>2, <3>3
  <2>2. misplaced' <=> misplaced \/ (m \notin tainted /\ Abs(motion[m].goal - Angle(t)) > Tol)
      BY <1>0 DEF Release
  <2> QED BY <2>1, <2>2 DEF IInv, PlaceInv
<1>3. Goes(m, "report", 2)
  <2>1. motion \in [Movers -> Motions] /\ motion[m].pass = 2
      BY <1>0 DEF IInv, TypeOK, MoverInv, Motions, Places
  <2> QED BY <1>1, <2>1 DEF Goes, Motions, Places
<1>4. /\ working' \in [Targets -> BOOLEAN] /\ ~working'[t]
      /\ \A u \in Targets \ {t} : working'[u] = working[u]
  <2>1. working \in [Targets -> BOOLEAN]
      BY DEF IInv, TypeOK
  <2> QED BY <1>0, <1>1, <2>1
<1>5. TypeOK'
  <2>1. misplaced' \in BOOLEAN
      BY Zenon DEF Release
  <2> QED BY <1>1, <1>3, <1>4, <2>1 DEF Goes, Motions, Places, IInv, TypeOK
<1>6. MoverInv'
  <2> SUFFICES ASSUME NEW n \in Movers
               PROVE  /\ motion'[n].pc = "off" <=> motion'[n].on = None
                      /\ motion'[n].on # None => pid'[motion'[n].on] \in PIDs
                      /\ motion'[n].pass = 2 <=> motion'[n].pc \in {"finish", "report"}
      BY DEF MoverInv
  <2>1. CASE n = m
      BY <1>0, <1>1, <1>3, <2>1 DEF Goes, IInv, MoverInv
  <2>2. CASE n # m
      BY <1>1, <1>3, <2>2 DEF Goes, IInv, MoverInv
  <2> QED BY <2>1, <2>2
<1>7. \A u : On(u)' = On(u)
    BY <1>3, OnStays DEF IInv
<1>8. \A n \in Movers \ {m} : motion'[n] = motion[n]
    BY <1>3 DEF Goes
<1>9. Active(t)' = Active(t) \ {m} /\ \A u \in Targets \ {t} : Active(u)' = Active(u)
    BY <1>0, <1>3, <1>7, <1>8 DEF Active, On, Goes
<1>10. m \in Active(t)
    BY <1>0 DEF Active
<1>11. TargetInv'
  <2> SUFFICES ASSUME NEW u \in Targets \ disturbed'
               PROVE  /\ \A k, n \in Active(u)' : k = n
                      /\ working'[u] <=> Active(u)' # {}
                      /\ \A n \in On(u)' :
                           motion'[n].pc = "calculate" /\ motion'[n].goal \in Positions
                             => pid[u].target = motion'[n].goal
      BY <1>1 DEF TargetInv
  <2>1. CASE u = t
    <3>1. Active(t) = {m}
        BY <1>1, <1>10, <2>1 DEF IInv, TargetInv
    <3>2. Active(u)' = {}
        BY <1>9, <2>1, <3>1
    <3>3. \A n \in On(u)' : motion'[n].pc = "report"
        BY <3>2 DEF Active
    <3> QED BY <1>4, <2>1, <3>2, <3>3
  <2>2. CASE u # t
    <3>1. \A n \in On(u) : motion'[n] = motion[n]
        BY <1>0, <1>8, <2>2 DEF On
    <3>2. On(u)' = On(u) /\ Active(u)' = Active(u) /\ u \notin disturbed
        BY <1>1, <1>7, <1>9, <2>2
    <3> QED BY <1>4, <2>2, <3>1, <3>2 DEF IInv, TargetInv
  <2> QED BY <2>1, <2>2
<1>12. ReportInv'
    BY <1>1, <1>7 DEF IInv, ReportInv
<1>13. ASSUME NEW n \in Movers \ tainted' PROVE Placed(n)'
  <2>1. CASE n = m
    <3>1. m \notin seen
        BY <1>0 DEF IInv, PlaceInv, Waiting
    <3> QED BY <1>1, <1>3, <2>1, <3>1 DEF Placed, Goes
  <2>2. CASE n # m
    <3>1. Placed(n) /\ motion'[n] = motion[n]
        BY <1>1, <1>8, <1>13, <2>2 DEF IInv, PlaceInv
    <3> QED BY <1>1, <3>1 DEF Placed, InPlace, Angle
  <2> QED BY <2>1, <2>2
<1>14. PlaceInv'
  <2>1. \A u \in disturbed' : Active(u)' \subseteq tainted'
    <3> SUFFICES ASSUME NEW u \in disturbed' PROVE Active(u)' \subseteq tainted'
        OBVIOUS
    <3>1. u \in Targets /\ Active(u) \subseteq tainted
        BY <1>1 DEF IInv, TypeOK, PlaceInv
    <3>2. m \notin Active(u)'
        BY <1>0, <1>3 DEF Active, Goes
    <3>3. Active(u)' \subseteq Active(u)
        BY <1>9, <3>1
    <3> QED BY <1>1, <3>1, <3>2, <3>3
  <2>2. seen' \subseteq Waiting'
      BY <1>0, <1>1, <1>8 DEF IInv, PlaceInv, Waiting
  <2> QED BY <1>2, <1>13, <2>1, <2>2 DEF PlaceInv
<1> QED BY <1>5, <1>6, <1>11, <1>12, <1>14 DEF IInv

(* The report of a motion that has let go of its target.                   *)
LEMMA ReportKeeps ==
    ASSUME IInv, NEW m \in Movers, Report(m)
    PROVE  IInv'
<1> USE PositionAssumption DEF pidVars, stageVars, encVars
<1>0. PICK t \in Targets : t = motion[m].on /\ motion[m].pc = "report" /\ m \in On(t)
    BY HasTarget DEF Report, IInv
<1>1. /\ UNCHANGED <<pid, working, where, dir, offset, enc, inited, last, starts, misreads, seen,
                     blind, calls, disturbed, tainted, misplaced>>
      /\ status' = [status EXCEPT ![t] = "READY"]
      /\ motion' = [motion EXCEPT ![m] = NoMotion]
      /\ overtaken' = IF On(t) = {m} THEN overtaken \ {t} ELSE overtaken
    BY <1>0 DEF Report
<1>2. NoMotion \in Motions /\ motion \in [Movers -> Motions]
    BY DEF IInv, TypeOK, Motions, Places, NoMotion
<1>3. /\ motion' \in [Movers -> Motions] /\ motion'[m] = NoMotion
      /\ \A n \in Movers \ {m} : motion'[n] = motion[n]
    BY <1>1, <1>2
<1>4. /\ status' \in [Targets -> {None, "WORKING", "READY"}] /\ status'[t] = "READY"
      /\ \A u \in Targets \ {t} : status'[u] = status[u]
    BY <1>0, <1>1 DEF IInv, TypeOK
<1>5. TypeOK'
    BY <1>1, <1>3, <1>4 DEF Motions, Places, IInv, TypeOK
<1>6. MoverInv'
    BY <1>1, <1>3 DEF IInv, TypeOK, MoverInv, NoMotion
<1>7. /\ On(t)' = On(t) \ {m} /\ \A u \in Targets \ {t} : On(u)' = On(u)
      /\ \A u \in Targets : Active(u)' = Active(u)
    BY <1>0, <1>3 DEF On, Active, NoMotion
<1>8. TargetInv'
  <2> SUFFICES ASSUME NEW u \in Targets \ disturbed
               PROVE  \A n \in On(u)' :
                        motion'[n].pc = "calculate" /\ motion'[n].goal \in Positions
                          => pid[u].target = motion'[n].goal
      BY <1>1, <1>7 DEF IInv, TargetInv
  <2>1. On(u)' \subseteq On(u) \ {m}
      BY <1>0, <1>7 DEF On
  <2> QED BY <1>3, <2>1 DEF IInv, TargetInv, On
<1>9. ReportInv'
  <2> SUFFICES ASSUME NEW u \in Targets \ overtaken'
               PROVE  /\ \A k, n \in On(u)' : k = n
                      /\ status'[u] = "WORKING" <=> On(u)' # {}
      BY DEF ReportInv
  <2>1. CASE u = t
    <3>1. On(t) = {m}
        BY <1>0, <1>1, <2>1 DEF IInv, ReportInv
    <3>2. On(u)' = {}
        BY <1>7, <2>1, <3>1
    <3> QED BY <1>4, <2>1, <3>2
  <2>2. CASE u # t
      BY <1>1, <1>4, <1>7, <2>2 DEF IInv, ReportInv
  <2> QED BY <2>1, <2>2
<1>10. PlaceInv'
  <2>1. ASSUME NEW n \in Movers \ tainted' PROVE Placed(n)'
    <3>1. m \notin seen
        BY <1>0 DEF IInv, PlaceInv, Waiting
    <3>2. CASE n = m
        BY <1>1, <1>3, <3>1, <3>2 DEF Placed, NoMotion
    <3>3. CASE n # m
      <4>1. Placed(n) /\ motion'[n] = motion[n]
          BY <1>1, <1>3, <2>1, <3>3 DEF IInv, PlaceInv
      <4> QED BY <1>1, <4>1 DEF Placed, InPlace, Angle
    <3> QED BY <3>2, <3>3
  <2>2. seen' \subseteq Waiting'
      BY <1>0, <1>1, <1>3 DEF IInv, PlaceInv, Waiting
  <2>3. \A u \in disturbed' : Active(u)' \subseteq tainted'
      BY <1>1, <1>7 DEF IInv, TypeOK, PlaceInv
  <2> QED BY <1>1, <2>1, <2>2, <2>3 DEF IInv, PlaceInv
<1> QED BY <1>5, <1>6, <1>8, <1>9, <1>10 DEF IInv
-----------------------------------------------------------------------------
(* Stages, motions and encoder only reach states of the invariant.         *)
THEOREM Invariance == Spec => []IInv
<1>1. IInv /\ [Next]_vars => IInv'
  <2> SUFFICES ASSUME IInv, [Next]_vars PROVE IInv'
      OBVIOUS
  <2>1. CASE UNCHANGED vars
    <3>1. TypeOK'
        BY <2>1 DEF vars, pidVars, stageVars, encVars, history, IInv, TypeOK
    <3> QED BY <2>1, <3>1, StillSound DEF vars, stageVars, encVars
  <2>2. CASE EncoderStart \/ EncoderReferenced \/ EncoderRead \/ EncoderMisread \/ EncoderStop
      BY <2>2, EncoderKeeps
  <2>3. ASSUME NEW t \in Targets, NEW g \in Gains, SetPIDControlVariables(t, g) PROVE IInv'
      BY <2>3, GainsKeep
  <2>4. ASSUME NEW t \in Targets, NEW goal \in Goals, MoveAbsolutePID(t, goal) PROVE IInv'
      BY <2>4, StartKeeps
  <2>5. ASSUME NEW t \in Targets, NEW d \in Steps, MoveRelative(t, d) PROVE IInv'
      BY <2>5, RelativeKeeps
  <2>6. ASSUME NEW t \in Targets, NEW o \in Offsets, WriteOffset(t, o) PROVE IInv'
      BY <2>6, OffsetKeeps
  <2>7. ASSUME NEW m \in Movers, MotionStep(m) PROVE IInv'
      BY <2>7, LookKeeps, AimKeeps, MoveKeeps, WaitKeeps, ReleaseKeeps, ReportKeeps
      DEF MotionStep
  <2> QED BY <2>1, <2>2, <2>3, <2>4, <2>5, <2>6, <2>7 DEF Next
<1> QED BY <1>1, InitIInv, PTL DEF Spec

(* Every variable keeps its type; stages and targets of PIDs stay in the   *)
(* range, whatever the goals, the gains and an uninitialised position.     *)
THEOREM TypeCorrect == Spec => []TypeOK
<1>1. IInv => TypeOK
    BY DEF IInv
<1> QED BY <1>1, Invariance, PTL

(* One motion at a time moves a target that was left alone, flagged for as *)
(* long; it is reported right unless a motion overtook the report of the   *)
(* one before; and a motion ends only in place, unless misled.             *)
THEOREM MotionsSound == Spec => []MotionSound
<1>1. IInv => MotionSound
  <2> SUFFICES ASSUME IInv PROVE MotionSound
      OBVIOUS
  <2>1. ASSUME NEW t \in Targets \ disturbed PROVE Cardinality(Active(t)) <= 1
    <3>1. CASE Active(t) = {}
        BY <3>1, FS_EmptySet
    <3>2. CASE Active(t) # {}
      <4>1. PICK m \in Active(t) : TRUE
          BY <3>2
      <4>2. Active(t) = {m}
          BY <4>1 DEF IInv, TargetInv
      <4>3. Cardinality({m}) = 1
          BY FS_Singleton, Zenon
      <4> QED BY <4>2, <4>3
    <3> QED BY <3>1, <3>2
  <2> QED BY <2>1 DEF IInv, TargetInv, ReportInv, PlaceInv, MotionSound
<1> QED BY <1>1, Invariance, PTL
=============================================================================
