--------------------------- MODULE PositionControl ---------------------------
(***************************************************************************)
(* DCS::Control's PID positioning with the encoder it measures by: the     *)
(* remote calls that set gains and start motions, the detached thread of   *)
(* each motion, the arithmetic of Core::PID, and the thread that reads     *)
(* the encoder (referencing first), whose last sample the motions inspect. *)
(*                                                                         *)
(* Positions are integers: the unit is the last decimal a move is written  *)
(* with, and Tol is the precision asked for.  A gain of GainUnit is one.   *)
(* Which way the encoder turns when the stage is moved forward depends on  *)
(* how it is mounted (dir), and positive gains are right for only one way. *)
(***************************************************************************)
EXTENDS Integers, FiniteSets

CONSTANTS
    Targets,   (* target and group of a stage                              *)
    Movers,    (* threads of motions                                       *)
    Goals,     (* positions asked for                                      *)
    Steps,     (* arguments of MoveRelative                                *)
    Gains,     (* [p, i, d, axis] given to SetPIDControlVariables: axis    *)
               (* is FALSE for encoder_axis = -1                           *)
    GainUnit,
    Lim,       (* min and max of the PID are -Lim and Lim                  *)
    Tol,       (* the error at which a motion is content                   *)
    Dirs,      (* how encoders may be mounted, of {1, -1}                  *)
    Offsets,   (* angle offsets clients write to the database              *)
    Garbage,   (* values an uninitialised position may have                *)
    FirstDt,   (* dt of a first calculation: last_point is the clock's     *)
               (* epoch; later ones take dt = 1                            *)
    ITermMax,  (* bound on the integral, which the code does not bound     *)
    MaxCalls, MaxStarts,  (* bounds: remote calls, starts of the encoder   *)
    MaxMisreads,          (* bound: reads of offsets that fail or are stale*)
    None

ASSUME PositionAssumption ==
    /\ Goals \subseteq Int /\ Steps \subseteq Int
    /\ Gains \subseteq [p : Int, i : Int, d : Int, axis : BOOLEAN]
    /\ Dirs \subseteq {1, -1} /\ Offsets \subseteq Int
    /\ {GainUnit, FirstDt} \subseteq Nat \ {0}
    /\ {Lim, Tol, ITermMax, MaxCalls, MaxStarts, MaxMisreads} \subseteq Nat
    /\ Garbage \subseteq Int
    /\ None \notin Targets \cup Int \cup {"WORKING", "READY"}

VARIABLES
    pid,       (* pid_targets                                              *)
    working,   (* pid_targets_working                                      *)
    status,    (* the last PIDStatus emitted for each target               *)
    motion,    (* the threads of motions                                   *)
    where,     (* where the stages are, as the encoder counts              *)
    dir,       (* how the encoders are mounted                             *)
    offset,    (* the angle offsets in the database                        *)
    enc,       (* the encoder's thread                                     *)
    inited,    (* inited_axes: the encoder was set up without error        *)
    last,      (* the last sample in outbound_data_queue                   *)
    seen,      (* waiting threads since whose wait began a sample was taken*)
    blind,     (* waiting threads in part of whose wait none was to come   *)
    calls, starts, misreads,
    disturbed, (* history: targets whose gains were set during a motion    *)
    overtaken, (* history: targets on which a motion was started while an  *)
               (* earlier one had not reported yet                         *)
    tainted,   (* history: motions misled or displaced from outside        *)
    misplaced  (* history: a motion that was not ended out of place        *)

pidVars == <<pid, working, status>>
stageVars == <<where, dir, offset>>
encVars == <<enc, inited, last, starts, misreads>>
history == <<disturbed, overtaken, tainted, misplaced>>
vars == <<pidVars, motion, stageVars, encVars, seen, blind, calls, history>>

Positions == -Lim..Lim
Abs(x) == IF x < 0 THEN -x ELSE x
Clamp(x, lim) == IF x > lim THEN lim ELSE IF x < -lim THEN -lim ELSE x
NoMotion == [pc |-> "off", on |-> None, goal |-> 0, pos |-> 0, pass |-> 0]
(* The motions of a target, and those that have not let go of it.          *)
On(t) == {m \in Movers : motion[m].on = t}
Active(t) == {m \in On(t) : motion[m].pc # "report"}
(* Where a stage is, with the offset of its angle.                         *)
Angle(t) == where[t] + offset[t]
Waiting == {m \in Movers : motion[m].pc \in {"wait", "rest"}}

Init ==
    /\ pid = [t \in Targets |-> None] /\ working = [t \in Targets |-> FALSE]
    /\ status = [t \in Targets |-> None]
    /\ motion = [m \in Movers |-> NoMotion]
    /\ where = [t \in Targets |-> 0] /\ dir \in [Targets -> Dirs]
    /\ offset \in [Targets -> Offsets]
    /\ enc = "off" /\ inited = FALSE /\ last = [t \in Targets |-> None]
    /\ seen = {} /\ blind = {} /\ calls = 0 /\ starts = 0 /\ misreads = 0
    /\ disturbed = {} /\ overtaken = {} /\ tainted = {} /\ misplaced = FALSE
-----------------------------------------------------------------------------
(* The encoder: Init, whose set-up may fail half way, the loop that waits  *)
(* for the reference marks, the loop that reads samples, and Terminate.    *)
EncoderStart ==
    /\ enc = "off" /\ starts < MaxStarts
    /\ enc' = "ref" /\ inited' \in BOOLEAN /\ starts' = starts + 1
    /\ UNCHANGED <<pidVars, motion, stageVars, last, misreads, seen, blind, calls, history>>

EncoderReferenced ==
    /\ enc = "ref"
    /\ enc' = "read"
    /\ UNCHANGED <<pidVars, motion, stageVars, inited, last, starts, misreads, seen, blind,
                   calls, history>>

(* Without axes there is nothing to push.  The offset comes from the       *)
(* database; a read that fails gives 0 for it, one of a stale cache entry  *)
(* an older offset, which misleads the motions that wait for the sample.   *)
Sample(at) ==
    /\ enc = "read" /\ inited
    /\ last' = at
    /\ seen' = Waiting
    /\ UNCHANGED <<pidVars, motion, stageVars, enc, inited, starts, blind, calls,
                   disturbed, overtaken, misplaced>>

EncoderRead ==
    /\ Sample([t \in Targets |-> Angle(t)])
    /\ UNCHANGED <<misreads, tainted>>

EncoderMisread ==
    /\ misreads < MaxMisreads /\ misreads' = misreads + 1
    /\ \E read \in [Targets -> Offsets \cup {0}] :
         Sample([t \in Targets |-> where[t] + read[t]])
    /\ tainted' = tainted \cup Waiting

EncoderStop ==
    /\ enc # "off"
    /\ enc' = "off"
    /\ blind' = Waiting
    /\ UNCHANGED <<pidVars, motion, stageVars, inited, last, starts, misreads, seen, calls,
                   history>>

(* InspectLastEncoderValues: an uninitialised value without a sample yet,  *)
(* and where no axis goes with the target.                                 *)
Inspect(t) == IF last[t] = None \/ ~pid[t].gain.axis THEN Garbage ELSE {last[t]}
Measuring == enc = "read" /\ inited
-----------------------------------------------------------------------------
(* Core::PID, with iTerm = Ki * integral and dTerm = Kd * le.  A target    *)
(* out of the range is replaced by 0.                                      *)
NewPID(g) == [gain |-> g, target |-> 0, dTerm |-> 0, iTerm |-> 0, timed |-> FALSE]

setTargetUnchecked(p, goal) == [p EXCEPT !.target = goal]

setTargetAndBias(p, goal) == [p EXCEPT !.target = IF goal \in Positions THEN goal ELSE 0]

calculateReversed(p, value) ==
    LET e == value - p.target
    IN  [pid |-> [p EXCEPT !.timed = TRUE], out |-> Clamp(p.gain.p * e, Lim * GainUnit)]

(* The output is a number of GainUnits of a unit.                          *)
calculate(p, value) ==
    LET e == p.target - value
        dt == IF p.timed THEN 1 ELSE FirstDt
        I == p.iTerm + p.gain.i * e * dt
        D == (p.gain.d * e - p.dTerm) \div dt
    IN  [pid |-> [p EXCEPT !.dTerm = p.gain.d * e, !.iTerm = I, !.timed = TRUE],
         out |-> Clamp(p.gain.p * e + I + D, Lim * GainUnit)]

(* A move is written with six decimals: the nearest whole number of units. *)
to_string(x) == (2 * x + GainUnit) \div (2 * GainUnit)
-----------------------------------------------------------------------------
(* The remote calls.  The controller refuses to leave the range.           *)
Call == calls < MaxCalls /\ calls' = calls + 1

Moved(t, d) ==
    LET to == where[t] + dir[t] * d
    IN  IF to \in Positions THEN [where EXCEPT ![t] = to] ELSE where

SetPIDControlVariables(t, g) ==
    /\ Call
    /\ pid' = [pid EXCEPT ![t] = NewPID(g)]
    /\ working' = [working EXCEPT ![t] = FALSE]
    /\ disturbed' = IF Active(t) # {} THEN disturbed \cup {t} ELSE disturbed
    /\ tainted' = tainted \cup Active(t)
    /\ UNCHANGED <<status, motion, stageVars, encVars, seen, blind, overtaken, misplaced>>

(* A new thread, detached. *)
StartMotion(t, goal) ==
    LET m == CHOOSE x \in Movers : motion[x].pc = "off"
    IN  /\ \E x \in Movers : motion[x].pc = "off"
        /\ working' = [working EXCEPT ![t] = TRUE]
        /\ status' = [status EXCEPT ![t] = "WORKING"]
        /\ motion' = [motion EXCEPT ![m] = [NoMotion EXCEPT !.pc = "look", !.on = t,
                                                            !.goal = goal]]
        /\ overtaken' = IF On(t) # {} THEN overtaken \cup {t} ELSE overtaken
        /\ tainted' = IF t \in disturbed THEN tainted \cup {m} ELSE tainted
        /\ UNCHANGED <<pid, stageVars, encVars, seen, blind, disturbed, misplaced>>

(* Refused without gains, without an axis to measure by, and while a       *)
(* motion of the target is working.                                        *)
MoveAbsolutePID(t, goal) ==
    /\ Call
    /\ pid[t] # None
    /\ pid[t].gain.axis
    /\ ~working[t]
    /\ StartMotion(t, goal)

MoveRelative(t, d) ==
    /\ Call
    /\ where' = Moved(t, d)
    /\ tainted' = tainted \cup Active(t)
    /\ UNCHANGED <<pidVars, motion, dir, offset, encVars, seen, blind, disturbed, overtaken,
                   misplaced>>

(* A client writes the offset of the angle.                                *)
WriteOffset(t, o) ==
    /\ Call
    /\ offset' = [offset EXCEPT ![t] = o]
    /\ tainted' = tainted \cup Active(t)
    /\ UNCHANGED <<pidVars, motion, where, dir, encVars, seen, blind, disturbed, overtaken,
                   misplaced>>
-----------------------------------------------------------------------------
(* The thread of a motion.  With the position measured it goes on moving,  *)
(* or rests for half a second; the second rest ends it.  pos is kept only  *)
(* while it is used.                                                       *)
MeasuredPasses(m, pos, pass, n) ==
    LET far == pass < n /\ Abs(motion[m].goal - pos) > Tol
    IN  motion' = [motion EXCEPT ![m].pos = IF far THEN pos ELSE 0, ![m].pass = pass,
                     ![m].pc = IF pass = n THEN "finish" ELSE IF far THEN "aim" ELSE "rest"]

MeasuredOnce(m, pos, pass) == MeasuredPasses(m, pos, pass, 1)

Measured(m, pos, pass) == MeasuredPasses(m, pos, pass, 2)

(* A wait ends, or another begins: it is blind if no sample is to come.    *)
Waits(m) ==
    /\ seen' = seen \ {m}
    /\ blind' = IF motion'[m].pc \in {"wait", "rest"} /\ ~Measuring
                THEN blind \cup {m} ELSE blind \ {m}

Look(m) ==
    /\ motion[m].pc = "look"
    /\ \E pos \in Inspect(motion[m].on) : Measured(m, pos, 0)
    /\ Waits(m)
    /\ UNCHANGED <<pidVars, stageVars, encVars, calls, history>>

Aim(m) ==
    /\ motion[m].pc = "aim"
    /\ pid' = [pid EXCEPT ![motion[m].on] = setTargetAndBias(@, motion[m].goal)]
    /\ motion' = [motion EXCEPT ![m].pc = "calculate"]
    /\ UNCHANGED <<working, status, stageVars, encVars, seen, blind, calls, history>>

(* IssueGenericCommandResponse returns when the stage has moved.           *)
CalculateAndMove(m) ==
    LET t == motion[m].on
        c == calculate(pid[t], motion[m].pos)
    IN  /\ motion[m].pc = "calculate"
        /\ Abs(c.pid.iTerm) <= ITermMax
        /\ pid' = [pid EXCEPT ![t] = c.pid]
        /\ where' = Moved(t, to_string(c.out))
        /\ motion' = [motion EXCEPT ![m].pc = "wait", ![m].pos = 0]
        /\ Waits(m)
        /\ UNCHANGED <<working, status, dir, offset, encVars, calls, history>>

(* Both waits are longer than the period of the encoder's trigger: unless  *)
(* it was not measuring for a part of the wait, there is a new sample.     *)
WaitAndInspect(m) ==
    /\ m \in Waiting
    /\ m \in seen \cup blind
    /\ \E pos \in Inspect(motion[m].on) :
         Measured(m, pos, motion[m].pass + (IF motion[m].pc = "rest" THEN 1 ELSE 0))
    /\ Waits(m)
    /\ tainted' = IF m \in seen THEN tainted ELSE tainted \cup {m}
    /\ UNCHANGED <<pidVars, stageVars, encVars, calls, disturbed, overtaken, misplaced>>

(* The flag first: from here on the next motion of the target may start,   *)
Release(m) ==
    LET t == motion[m].on
        error == motion[m].goal - Angle(t)
    IN  /\ motion[m].pc = "finish"
        /\ working' = [working EXCEPT ![t] = FALSE]
        /\ motion' = [motion EXCEPT ![m].pc = "report"]
        /\ disturbed' = IF Active(t) = {m} THEN disturbed \ {t} ELSE disturbed
        /\ misplaced' = (misplaced \/ (m \notin tainted /\ Abs(error) > Tol))
        /\ tainted' = tainted \ {m}
        /\ UNCHANGED <<pid, status, stageVars, encVars, seen, blind, calls, overtaken>>

(* and only then the event.                                                *)
Report(m) ==
    LET t == motion[m].on
    IN  /\ motion[m].pc = "report"
        /\ status' = [status EXCEPT ![t] = "READY"]
        /\ motion' = [motion EXCEPT ![m] = NoMotion]
        /\ overtaken' = IF On(t) = {m} THEN overtaken \ {t} ELSE overtaken
        /\ UNCHANGED <<pid, working, stageVars, encVars, seen, blind, calls, disturbed,
                       tainted, misplaced>>

MotionStep(m) ==
    Look(m) \/ Aim(m) \/ CalculateAndMove(m) \/ WaitAndInspect(m) \/ Release(m) \/ Report(m)

Next ==
    \/ EncoderStart \/ EncoderReferenced \/ EncoderRead \/ EncoderMisread \/ EncoderStop
    \/ \E t \in Targets : \/ \E g \in Gains : SetPIDControlVariables(t, g)
                          \/ \E goal \in Goals : MoveAbsolutePID(t, goal)
                          \/ \E d \in Steps : MoveRelative(t, d)
                          \/ \E o \in Offsets : WriteOffset(t, o)
    \/ \E m \in Movers : MotionStep(m)

(* The threads are scheduled and the trigger of the encoder keeps coming;  *)
(* no call is owed, nor that somebody moves the axes over their marks.     *)
Fairness == WF_vars(EncoderRead) /\ \A m \in Movers : WF_vars(MotionStep(m))

Spec == Init /\ [][Next]_vars /\ Fairness
-----------------------------------------------------------------------------
PIDs == [gain : Gains, target : Positions, dTerm : Int, iTerm : -ITermMax..ITermMax,
         timed : BOOLEAN]

(* Type invariant; the stages, and what the PIDs aim at, stay in the range *)
(* the PID was given.                                                      *)
TypeOK ==
    /\ pid \in [Targets -> PIDs \cup {None}]
    /\ where \in [Targets -> Positions] /\ dir \in [Targets -> Dirs]
    /\ offset \in [Targets -> Offsets] /\ last \in [Targets -> Int \cup {None}]
    /\ working \in [Targets -> BOOLEAN]
    /\ status \in [Targets -> {None, "WORKING", "READY"}]
    /\ motion \in [Movers -> [pc : {"off", "look", "aim", "calculate", "wait", "rest",
                                    "finish", "report"},
                              on : Targets \cup {None}, goal : Goals \cup {0},
                              pos : Int, pass : 0..2]]
    /\ enc \in {"off", "ref", "read"} /\ inited \in BOOLEAN /\ starts \in 0..MaxStarts
    /\ misreads \in 0..MaxMisreads /\ calls \in 0..MaxCalls
    /\ seen \subseteq Movers /\ blind \subseteq Movers
    /\ tainted \subseteq Movers /\ disturbed \subseteq Targets /\ overtaken \subseteq Targets
    /\ misplaced \in BOOLEAN

(* Unless the gains were set during a motion, a target is moved by at most *)
(* one motion, is flagged working exactly while it is, and computes its    *)
(* moves for the goal of that motion.  Unless a motion was started between *)
(* the two last steps of the one before it, the last status reported is    *)
(* WORKING exactly while the target has a motion.  And a motion that ends  *)
(* has its stage in place, although it may have begun with a sample from   *)
(* before an earlier move, unless it was misled or displaced.              *)
MotionSound ==
    /\ \A t \in Targets \ disturbed :
         /\ Cardinality(Active(t)) <= 1
         /\ working[t] <=> Active(t) # {}
         /\ \A m \in On(t) : motion[m].pc = "calculate" /\ motion[m].goal \in Positions
                               => pid[t].target = motion[m].goal
    /\ \A t \in Targets \ overtaken : status[t] = "WORKING" <=> On(t) # {}
    /\ ~misplaced

(* With the encoder measuring and a proportional gain of the sign that     *)
(* suits it, at most one, and large enough that an error beyond the        *)
(* precision asked for still gives a move, a motion to a position in the   *)
(* range of the stage comes to its end.                                    *)
Attainable(m) ==
    LET t == motion[m].on
        gain == dir[t] * pid[t].gain.p
    IN  /\ motion[m].pc # "off" /\ t \notin disturbed /\ pid[t].gain.axis
        /\ motion[m].goal \in Positions /\ motion[m].goal - offset[t] \in Positions
        /\ pid[t].gain.i = 0 /\ pid[t].gain.d = 0
        /\ gain <= GainUnit /\ 2 * gain * Tol >= GainUnit
MotionEnds ==
    \A m \in Movers : (Attainable(m) /\ Measuring) ~> (~Attainable(m) \/ ~Measuring)
=============================================================================
