----------------------------- MODULE Acquisition -----------------------------
(***************************************************************************)
(* DCS::DAQ: virtual channels, the voltage (AI), counter (CI) and pulse    *)
(* train (PTG) tasks of the DAQ device, the callbacks the device makes     *)
(* while a task runs, and the event loops that hand what the callbacks     *)
(* queued to the clients.  Remote calls come from one thread (cmd), the    *)
(* callbacks from the driver's thread, and every event loop is a thread.   *)
(*                                                                         *)
(* A queued EventData is [id, num]: which one it is, and its num_detected. *)
(***************************************************************************)
EXTENDS Integers, Sequences, PeakCount

CONSTANTS
    Names, Connectors,  (* names of virtual channels, of device channels   *)
    Requests,           (* <<type, connector>> of the channels asked for   *)
    CounterMod, U64,    (* 2^32 and 2^64: the counter's and a u64's range  *)
    MaxSamples,         (* INTERNAL_SAMP_SIZE: samples a buffer may hold   *)
    Buffers,            (* sample buffers a voltage callback may read      *)
    EdgesPerRead,       (* edges between two reads of the counter          *)
    ChannelNumbers,     (* arguments of SetMCANumChannels that it accepts  *)
    MCADefault,         (* MCA_NumChannels at the start                    *)
    BinsSize,           (* entries of MCACountEventData::bins              *)
    MaxCalls, MaxData,  (* bounds: calls that change something, data made  *)
    None

Types == {"Voltage", "Counter", "PTGen"}

ASSUME AcquisitionAssumption ==
    /\ Requests \subseteq Types \X Connectors
    /\ {CounterMod, U64, BinsSize} \subseteq Nat \ {0} /\ CounterMod <= U64
    /\ U64 % CounterMod = 0 /\ EdgesPerRead \subseteq 0..(CounterMod - 2)
    /\ {MaxCalls, MaxData} \subseteq Nat
    /\ ChannelNumbers \subseteq Nat /\ MCADefault \in ChannelNumbers
    /\ MaxSamples \in Nat /\ MaxSamples + 2 <= U64
    /\ Buffers \subseteq Seq(Nat) /\ \A s \in Buffers : Len(s) <= MaxSamples

VARIABLES
    channels,   (* virtual_channels                                        *)
    running,    (* voltage_task_running, count_task_running, as a set      *)
    usingPtg,   (* count_using_ptg                                         *)
    task,       (* what the device knows of each task                      *)
    mcaChannels,(* MCA_NumChannels                                         *)
    sig,        (* evt_loop_sig                                            *)
    mcaMode,    (* mca_mode                                                *)
    loop,       (* where each event loop is                                *)
    queue,      (* dcs_task_data, mca_task_data, cli_task_data             *)
    took,       (* what each loop has taken from its queue                 *)
    subscribed, (* the loops whose event a client is subscribed to         *)
    cmd,        (* where the thread of the remote calls is                 *)
    alive,      (* FALSE once the process has failed                       *)
    counter,    (* the device's counter                                    *)
    lastCount,  (* count_task_last_count                                   *)
    edges, total,    (* history: edges and sum of num_detected so far      *)
    calls, made,     (* calls so far, data the callbacks made              *)
    pushed, emitted, (* history: ids put in each queue, ids emitted        *)
    missed      (* history: loops that missed the notification to stop     *)

config == <<channels, mcaChannels, subscribed>>
taskVars == <<running, usingPtg, task>>
counts == <<counter, lastCount, edges, total>>
flow == <<queue, took, made, pushed, emitted>>
vars == <<channels, running, usingPtg, task, mcaChannels, sig, mcaMode, loop,
          queue, took, subscribed, cmd, alive, counter, lastCount, edges,
          total, calls, made, pushed, emitted, missed>>

Loops == {"dcs", "mca", "cli"}
Tasks == {"AI", "CI", "PTG"}
LoopPC == {"off", "test", "get", "park", "wait", "woken", "emit", "done"}
Sentinel == U64 - 1

CountVirtualChannelsOfType(type) ==
    Cardinality({n \in Names : channels[n] # None /\ channels[n].type = type})

(* The thread of the remote calls makes one more. *)
Call == alive /\ cmd = "idle" /\ calls < MaxCalls /\ calls' = calls + 1

Init ==
    /\ channels = [n \in Names |-> None] /\ mcaChannels = MCADefault
    /\ subscribed = {} /\ running = {} /\ usingPtg = FALSE /\ calls = 0
    /\ task = [k \in Tasks |-> "none"]
    /\ sig = FALSE /\ mcaMode = FALSE /\ loop = [l \in Loops |-> "off"]
    /\ queue = [l \in Loops |-> <<>>] /\ took = [l \in Loops |-> None]
    /\ cmd = "idle" /\ alive = TRUE /\ missed = {}
    /\ counter = 0 /\ lastCount = 0 /\ edges = 0 /\ total = 0 /\ made = 0
    /\ pushed = [l \in Loops |-> <<>>] /\ emitted = [l \in Loops |-> <<>>]
-----------------------------------------------------------------------------
(* Configuration, at any time.  A name or a connector already in use is    *)
(* refused.                                                                *)
NewChannel(n, type, hw) ==
    /\ Call
    /\ channels[n] = None
    /\ \A m \in Names : channels[m] # None => channels[m].hw # hw
    /\ channels' = [channels EXCEPT ![n] = [type |-> type, hw |-> hw]]
    /\ UNCHANGED <<taskVars, mcaChannels, subscribed, sig, mcaMode, loop, flow,
                   cmd, alive, counts, missed>>

NewAIVChannel(n, hw) == NewChannel(n, "Voltage", hw)
NewCIChannel(n, hw) == NewChannel(n, "Counter", hw)
NewPTGChannel(n, hw) == NewChannel(n, "PTGen", hw)

DeleteChannel(n) ==
    /\ Call
    /\ channels[n] # None
    /\ channels' = [channels EXCEPT ![n] = None]
    /\ UNCHANGED <<taskVars, mcaChannels, subscribed, sig, mcaMode, loop, flow,
                   cmd, alive, counts, missed>>

SetMCANumChannels(c) ==
    /\ Call
    /\ mcaChannels' = c
    /\ UNCHANGED <<taskVars, channels, subscribed, sig, mcaMode, loop, flow,
                   cmd, alive, counts, missed>>

Subscription(l) ==
    /\ Call
    /\ subscribed' = IF l \in subscribed THEN subscribed \ {l} ELSE subscribed \cup {l}
    /\ UNCHANGED <<taskVars, channels, mcaChannels, sig, mcaMode, loop, flow,
                   cmd, alive, counts, missed>>
-----------------------------------------------------------------------------
(* StartEventLoop(n): a loop of its own for the MCA only if n > 0. *)
StartEventLoop(n) ==
    /\ mcaMode' = (n > 0)
    /\ sig' = TRUE
    /\ loop' = [loop EXCEPT !["dcs"] = "test", !["cli"] = "test",
                            !["mca"] = IF n > 0 THEN "test" ELSE @]
    /\ missed' = {}

(* What can become of a task: an error of the device is logged and leaves  *)
(* a task that delivers nothing, but the caller does not hear of it, so    *)
(* the acquisition counts as running all the same.                         *)
HandleNiError == {"started", "failed"}

(* A task cannot be set up before a channel was added to it.               *)
AddTaskChannel(type) ==
    IF CountVirtualChannelsOfType(type) > 0 THEN HandleNiError ELSE {"failed"}

SetupTaskAI == \E s \in AddTaskChannel("Voltage") : task' = [task EXCEPT !["AI"] = s]

(* A PTG channel makes a second task. *)
SetupTaskCI(withPtg) ==
    \E s \in AddTaskChannel("Counter"), p \in AddTaskChannel("PTGen") :
      task' = [task EXCEPT !["CI"] = s, !["PTG"] = IF withPtg THEN p ELSE @]

(* StopTask and ClearTask, for each of ks. *)
ClearTasks(ks) == task' = [k \in Tasks |-> IF k \in ks THEN "none" ELSE task[k]]

StartAIAcquisitionBesideCI ==
    /\ Call /\ "AI" \notin running
    /\ StartEventLoop(mcaChannels)
    /\ CountVirtualChannelsOfType("Voltage") > 0 /\ SetupTaskAI
    /\ running' = running \cup {"AI"} /\ alive' = TRUE
    /\ UNCHANGED <<config, usingPtg, flow, cmd, counts>>

(* The samples per channel are INTERNAL_SAMP_SIZE divided by the number of *)
(* voltage channels, which ends the process if there is none.              *)
StartAIAcquisition ==
    /\ Call /\ running = {}
    /\ StartEventLoop(mcaChannels)
    /\ IF CountVirtualChannelsOfType("Voltage") > 0
       THEN SetupTaskAI /\ running' = {"AI"} /\ alive' = TRUE
       ELSE alive' = FALSE /\ UNCHANGED <<task, running>>
    /\ UNCHANGED <<config, usingPtg, flow, cmd, counts>>

StartCIAcquisitionKeepingCount ==
    /\ Call /\ running = {}
    /\ StartEventLoop(0)
    /\ usingPtg' = (CountVirtualChannelsOfType("PTGen") > 0)
    /\ SetupTaskCI(usingPtg')
    /\ running' = {"CI"}
    /\ counter' = 0 /\ edges' = 0 /\ total' = 0
    /\ UNCHANGED <<config, lastCount, flow, cmd, alive>>

StartCIAcquisition ==
    /\ Call /\ running = {}
    /\ StartEventLoop(0)
    /\ usingPtg' = (CountVirtualChannelsOfType("PTGen") > 0)
    /\ SetupTaskCI(usingPtg')
    /\ running' = {"CI"}
    /\ counter' = 0 /\ lastCount' = 0 /\ edges' = 0 /\ total' = 0
    /\ UNCHANGED <<config, flow, cmd, alive>>

(* The two ways to stop, up to StopEventLoop's evt_loop_sig.store. *)
StopAIAcquisition ==
    /\ Call /\ "AI" \in running
    /\ ClearTasks({"AI"})
    /\ running' = running \ {"AI"}
    /\ sig' = FALSE /\ cmd' = "notify"
    /\ UNCHANGED <<config, usingPtg, mcaMode, loop, flow, alive, counts, missed>>

StopCIAcquisition ==
    /\ Call /\ "CI" \in running
    /\ ClearTasks(IF usingPtg THEN {"CI", "PTG"} ELSE {"CI"})
    /\ running' = running \ {"CI"} /\ usingPtg' = FALSE
    /\ sig' = FALSE /\ cmd' = "notify"
    /\ UNCHANGED <<config, mcaMode, loop, flow, alive, counts, missed>>

NotifyUnblockMCAOnly ==
    /\ alive /\ cmd = "notify"
    /\ loop' = [loop EXCEPT !["mca"] = IF @ = "wait" THEN "woken" ELSE @]
    /\ missed' = {l \in Loops : loop[l] \in {"get", "park"}}
    /\ cmd' = "join"
    /\ UNCHANGED <<config, taskVars, calls, sig, mcaMode, flow, alive, counts>>

(* NotifyUnblockEventLoop: notify_one on each condition variable, without  *)
(* a flag or a lock.  A loop that has tested evt_loop_sig and does not     *)
(* wait yet misses it.                                                     *)
NotifyUnblockEventLoop ==
    /\ alive /\ cmd = "notify"
    /\ loop' = [l \in Loops |-> IF loop[l] = "wait" THEN "woken" ELSE loop[l]]
    /\ missed' = {l \in Loops : loop[l] \in {"get", "park"}}
    /\ cmd' = "join"
    /\ UNCHANGED <<config, taskVars, calls, sig, mcaMode, flow, alive, counts>>

StopEventLoop ==
    /\ alive /\ cmd = "join"
    /\ loop["dcs"] = "done" /\ loop["cli"] = "done"
    /\ mcaMode => loop["mca"] = "done"
    /\ loop' = [l \in Loops |-> "off"]
    /\ cmd' = "idle"
    /\ UNCHANGED <<config, taskVars, calls, sig, mcaMode, flow, alive, counts, missed>>
-----------------------------------------------------------------------------
(* pushToDCSTask, pushToMCATask, pushToClinometerEvt: one push for each of *)
(* the loops ls, and a notify_one.  The mutex is not held by any of them.  *)
PushWithoutNotify(ls, datum) ==
    /\ \A l \in ls : loop[l] # "park"
    /\ queue' = [l \in Loops |-> IF l \in ls THEN Append(queue[l], datum) ELSE queue[l]]
    /\ pushed' = [l \in Loops |-> IF l \in ls THEN Append(pushed[l], datum.id) ELSE pushed[l]]
    /\ loop' = loop

Push(ls, datum) ==
    /\ \A l \in ls : loop[l] # "park"
    /\ queue' = [l \in Loops |-> IF l \in ls THEN Append(queue[l], datum) ELSE queue[l]]
    /\ pushed' = [l \in Loops |-> IF l \in ls THEN Append(pushed[l], datum.id) ELSE pushed[l]]
    /\ loop' = [l \in Loops |-> IF l \in ls /\ loop[l] = "wait" THEN "woken" ELSE loop[l]]

(* The device has filled a buffer with the samples s. *)
VoltageEvent(s) ==
    /\ alive /\ task["AI"] = "started" /\ made < MaxData
    /\ made' = made + 1
    /\ Push(subscribed, [id |-> made', num |-> Len(countArrayPeak(s).maxima)])
    /\ UNCHANGED <<config, taskVars, calls, sig, mcaMode, took, emitted, cmd, alive,
                   counts, missed>>

DetectedSigned(now, last) == now - last

Detected(now, last) == (now - last) % U64

(* d edges since the last read of the counter, a u32 that wraps around;    *)
(* the difference is computed as a u64.  The last count is stored at the   *)
(* end of the callback, after requests to the control service: one step,   *)
(* since the driver runs the callbacks of a task one after the other and   *)
(* clears a task, which comes before the next is started, only once its    *)
(* callback has returned.                                                  *)
CountEvent(d) ==
    /\ alive /\ task["CI"] = "started" /\ made < MaxData
    /\ made' = made + 1
    /\ counter' = (counter + d) % CounterMod
    /\ LET num == Detected(counter', lastCount) IN
         /\ Push(subscribed \cap {"dcs"}, [id |-> made', num |-> num])
         /\ total' = (total + num) % U64
    /\ edges' = edges + d
    /\ lastCount' = counter'
    /\ UNCHANGED <<config, taskVars, calls, sig, mcaMode, took, emitted, cmd, alive, missed>>
-----------------------------------------------------------------------------
(* The loops DCSCountEvent and MCACountEvent. *)
At(l, here, there) == alive /\ loop[l] = here /\ loop' = [loop EXCEPT ![l] = there]

TestSignal(l) ==
    /\ At(l, "test", IF ~sig THEN "done" ELSE IF l = "cli" THEN "test" ELSE "get")
    /\ UNCHANGED <<config, taskVars, calls, sig, mcaMode, flow, cmd, alive, counts, missed>>

(* GetLastDCS_IVD, GetLastMCA_IVD: the mutex is held from the test of the  *)
(* queue until the wait, which gives it up.                                *)
TakeWithoutPop(l) ==
    /\ queue[l] # <<>>
    /\ took' = [took EXCEPT ![l] = Head(queue[l])]
    /\ queue' = queue

Take(l) ==
    /\ queue[l] # <<>>
    /\ took' = [took EXCEPT ![l] = Head(queue[l])]
    /\ queue' = [queue EXCEPT ![l] = Tail(@)]

GetAtOnce(l) ==
    /\ At(l, "get", "emit")
    /\ Take(l)
    /\ UNCHANGED <<config, taskVars, calls, sig, mcaMode, made, pushed, emitted, cmd,
                   alive, counts, missed>>

GetMustWait(l) ==
    /\ queue[l] = <<>>
    /\ At(l, "get", "park")
    /\ UNCHANGED <<config, taskVars, calls, sig, mcaMode, flow, cmd, alive, counts, missed>>

Wait(l) ==
    /\ At(l, "park", "wait")
    /\ UNCHANGED <<config, taskVars, calls, sig, mcaMode, flow, cmd, alive, counts, missed>>

SpuriousWakeup(l) ==
    /\ At(l, "wait", "woken")
    /\ UNCHANGED <<config, taskVars, calls, sig, mcaMode, flow, cmd, alive, counts, missed>>

(* Woken up with nothing there: num_detected says so. *)
GetAfterWait(l) ==
    /\ At(l, "woken", "emit")
    /\ \/ Take(l)
       \/ /\ queue[l] = <<>>
          /\ took' = [took EXCEPT ![l] = [id |-> 0, num |-> Sentinel]]
          /\ queue' = queue
    /\ UNCHANGED <<config, taskVars, calls, sig, mcaMode, made, pushed, emitted, cmd,
                   alive, counts, missed>>

(* The MCA loop writes one bin for each peak counted: with more of them    *)
(* than bins it writes past the end of its data.                           *)
EmitEvent(l) ==
    /\ At(l, "emit", "test")
    /\ emitted' = IF took[l].num = Sentinel THEN emitted
                  ELSE [emitted EXCEPT ![l] = Append(@, took[l].id)]
    /\ took' = [took EXCEPT ![l] = None]
    /\ alive' \in IF l = "mca" /\ took[l].num # Sentinel /\ took[l].num > BinsSize
                  THEN BOOLEAN ELSE {TRUE}
    /\ UNCHANGED <<config, taskVars, calls, sig, mcaMode, queue, made, pushed, cmd, counts, missed>>

LoopStep(l) ==
    \/ TestSignal(l) \/ GetAtOnce(l) \/ GetMustWait(l) \/ Wait(l)
    \/ GetAfterWait(l) \/ EmitEvent(l)

Next ==
    \/ \E n \in Names, r \in Requests :
         \/ r[1] = "Voltage" /\ NewAIVChannel(n, r[2])
         \/ r[1] = "Counter" /\ NewCIChannel(n, r[2])
         \/ r[1] = "PTGen" /\ NewPTGChannel(n, r[2])
    \/ \E n \in Names : DeleteChannel(n)
    \/ \E c \in ChannelNumbers : SetMCANumChannels(c)
    \/ \E l \in Loops : Subscription(l)
    \/ StartAIAcquisition \/ StartCIAcquisition
    \/ StopAIAcquisition \/ StopCIAcquisition
    \/ NotifyUnblockEventLoop \/ StopEventLoop
    \/ \E s \in Buffers : VoltageEvent(s)
    \/ \E d \in EdgesPerRead : CountEvent(d)
    \/ \E l \in Loops : LoopStep(l) \/ SpuriousWakeup(l)

(* The threads of the loops and the thread that stops them are scheduled;  *)
(* nothing obliges a client to call, the device to deliver or a wait to    *)
(* end for no reason.                                                      *)
Fairness ==
    /\ \A l \in Loops : WF_vars(LoopStep(l))
    /\ WF_vars(NotifyUnblockEventLoop) /\ WF_vars(StopEventLoop)

Spec == Init /\ [][Next]_vars /\ Fairness
-----------------------------------------------------------------------------
Data == [id : 0..MaxData, num : 0..Sentinel]

ASSUME NoneIsNoDatum == None \notin Data

(* Type invariant: the state of the acquisition statics, threads, queues.  *)
TypeOK ==
    /\ channels \in [Names -> [type : Types, hw : Connectors] \cup {None}]
    /\ mcaChannels \in ChannelNumbers /\ subscribed \subseteq Loops
    /\ running \subseteq {"AI", "CI"} /\ usingPtg \in BOOLEAN
    /\ task \in [Tasks -> {"started", "failed", "none"}]
    /\ sig \in BOOLEAN /\ mcaMode \in BOOLEAN /\ loop \in [Loops -> LoopPC]
    /\ queue \in [Loops -> Seq(Data)] /\ took \in [Loops -> Data \cup {None}]
    /\ {pushed, emitted} \subseteq [Loops -> Seq(1..MaxData)]
    /\ cmd \in {"idle", "notify", "join"} /\ alive \in BOOLEAN /\ missed \subseteq Loops
    /\ counter \in 0..(CounterMod - 1) /\ lastCount \in 0..(CounterMod - 1)
    /\ edges \in Nat /\ total \in 0..(U64 - 1)
    /\ calls \in 0..MaxCalls /\ made \in 0..MaxData

(* The refusals of StartAIAcquisition and StartCIAcquisition keep one set  *)
(* of loop threads: between calls the loops run exactly while one task is  *)
(* running, and a stopped acquisition leaves no task on the device, though *)
(* setting a task up may have failed half way.                             *)
LoopsMatchTasks ==
    alive /\ cmd = "idle" =>
      /\ Cardinality(running) <= 1 /\ sig = (running # {})
      /\ \A l \in {"dcs", "cli"} : (loop[l] = "off") = (running = {})
      /\ (loop["mca"] = "off") = (running = {} \/ ~mcaMode)
      /\ \A k \in Tasks : task[k] # "none" => running # {}

(* What GetLastDCS_IVD and GetLastMCA_IVD hand over is what the callbacks  *)
(* pushed: each datum once, in order, over all acquisitions, whatever the  *)
(* wake-ups, and none taken for the value that means "woken for nothing".  *)
DeliveredOnce ==
    \A l \in Loops :
      pushed[l] = emitted[l]
                  \o (IF took[l] = None \/ took[l].id = 0 THEN <<>> ELSE <<took[l].id>>)
                  \o [i \in 1..Len(queue[l]) |-> queue[l][i].id]

(* The num_detected of CountEvent add up, in u64 arithmetic, to the edges  *)
(* of this acquisition modulo the range of the counter, with nothing left  *)
(* of the acquisition before (count_task_last_count is reset).             *)
CountsAddUp == alive /\ "CI" \in running => total = edges % CounterMod

(* They add up to the edges themselves until the counter wraps around; the *)
(* difference of CountEvent then is a u64 below zero.                      *)
CountsExact == alive /\ "CI" \in running /\ edges < CounterMod => total = edges

AllCountedRight ==
    \A n \in 0..MaxSamples : \A s \in [1..n -> 0..(VHi + 1)] : CountedRight(s)

(* Whatever samples the next VoltageEvent reads, countArrayPeak finds      *)
(* exactly the stretches above vlo that stay within vhi, and for each its  *)
(* maximum and where that is first reached.                                *)
PeaksCounted == task["AI"] = "started" => AllCountedRight

(* While the loops run, everything the callbacks have queued is emitted.   *)
DataEmitted ==
    \A l \in {"dcs", "mca"} :
      (sig /\ loop[l] # "off" /\ emitted[l] # pushed[l])
        ~> (~sig \/ ~alive \/ emitted[l] = pushed[l])

(* Stopping an acquisition comes to its end unless a loop missed the only  *)
(* notification, which is sent without a lock or a flag, or the process    *)
(* failed.                                                                 *)
StopGetsThrough == (cmd # "idle") ~> (cmd = "idle" \/ missed # {} \/ ~alive)
=============================================================================
