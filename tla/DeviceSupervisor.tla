-------------------------- MODULE DeviceSupervisor --------------------------
(***************************************************************************)
(* manager/DeviceSupervisor.py: a watchdog looks at the processes of every *)
(* device and starts a restart task for a device that lost one; a restart  *)
(* closes the device's queue, stops what is left, starts everything again  *)
(* and opens the queue. An action is what a task does between two awaits.  *)
(***************************************************************************)
EXTENDS Naturals

CONSTANTS
  Device,      \* active devices, started by run()
  Transport,   \* devices with a transport process (socat)
  Adapter,     \* devices with an adapter process (rosserial)
  Failing,     \* awaits of a restart that may raise
  MaxFailures  \* how often the restarts of a device may fail (bound)

(* The awaits of a restart, each named for the call it waits for.          *)
Restarting == {"teardown", "stop", "cool", "transports", "adapters", "telemetry",
               "publishers"}

ASSUME SupervisorAssumption ==
  /\ Transport \subseteq Device /\ Adapter \subseteq Device /\ Failing \subseteq Restarting
  /\ MaxFailures \in Nat

VARIABLES
  transport,   \* transport_procs: alive, dead, or none for the empty tuple
  adapter,     \* adapter_procs
  stage,       \* the await of the device's restart task, idle without one
  locked,      \* restart_lock
  ready,       \* the scheduler's ready event, driven by the two hooks
  closing,     \* shutdown: no, teardown or stop of the next device, done, failed
  toStop,      \* devices that shutdown did not stop yet
  failures     \* restarts of the device that failed

supervisorVars == <<transport, adapter, stage, locked, ready, closing, toStop, failures>>

Process == {"alive", "dead", "none"}

(* created: the task exists and did not take its first step.               *)
RestartStage == Restarting \cup {"idle", "created"}

(* The type invariant also says when a device has processes, when its lock *)
(* is held, and that only a failed restart leaves the queue closed.        *)
SupervisorTypeOK ==
  /\ transport \in [Device -> Process]
  /\ adapter \in [Device -> Process]
  /\ stage \in [Device -> RestartStage]
  /\ locked \in [Device -> BOOLEAN]
  /\ ready \in [Device -> BOOLEAN]
  /\ closing \in {"no", "teardown", "stop", "done", "failed"}
  /\ toStop \subseteq Device
  /\ failures \in [Device -> 0..MaxFailures]
  /\ \A d \in Device : /\ transport[d] = "none" <=> d \notin Transport
                       /\ adapter[d] = "none" <=> d \notin Adapter
                       /\ locked[d] <=> stage[d] \in Restarting
                       /\ ~locked[d] /\ failures[d] = 0 => ready[d]

(* What start_transports() and start_adapters() of a driver return: a      *)
(* socat or rosserial process for the drivers that start one, and for the  *)
(* others the empty tuple, which counts as alive.                          *)
Launched(some, d) == IF d \in some THEN "alive" ELSE "none"

Started(some) == [d \in Device |-> Launched(some, d)]

(* run() started every device, and no process died so far.                 *)
SupervisorInit ==
  /\ transport = Started(Transport)
  /\ adapter = Started(Adapter)
  /\ stage = [d \in Device |-> "idle"]
  /\ locked = [d \in Device |-> FALSE]
  /\ ready = [d \in Device |-> TRUE]
  /\ closing = "no"
  /\ toStop = Device
  /\ failures = [d \in Device |-> 0]

(* not transports_alive() or not adapters_alive().                         *)
Dead(d) == "dead" \in {transport[d], adapter[d]}

(* The environment: a process exits, or the network takes it down.         *)
TransportDies(d) ==
  /\ transport[d] = "alive"
  /\ transport' = [transport EXCEPT ![d] = "dead"]
  /\ UNCHANGED <<adapter, stage, locked, ready, closing, toStop, failures>>

AdapterDies(d) ==
  /\ adapter[d] = "alive"
  /\ adapter' = [adapter EXCEPT ![d] = "dead"]
  /\ UNCHANGED <<transport, stage, locked, ready, closing, toStop, failures>>

---------------------------------------------------------------------------
(* The watchdog looks at all devices in one step and then sleeps; a task   *)
(* it created takes its first step before the next look. Fault variant:    *)
(* it passes over a device whose queue is closed.                          *)

LookedAtOpen == {d \in Device : ~locked[d] /\ ready[d]}
LookedAt == {d \in Device : ~locked[d]}

WatchdogLooks ==
  /\ closing = "no"
  /\ \A d \in Device : stage[d] # "created"
  /\ stage' = [d \in Device |-> IF d \in LookedAt /\ Dead(d) THEN "created" ELSE stage[d]]
  /\ UNCHANGED <<transport, adapter, locked, ready, closing, toStop, failures>>

---------------------------------------------------------------------------
(* _restart_device.                                                        *)

Goes(d, from, to) ==
  /\ stage[d] = from
  /\ stage' = [stage EXCEPT ![d] = to]

RestartBegins(d) ==
  /\ Goes(d, "created", "teardown")
  /\ locked' = [locked EXCEPT ![d] = TRUE]
  /\ ready' = [ready EXCEPT ![d] = FALSE]
  /\ UNCHANGED <<transport, adapter, closing, toStop, failures>>

TornDown(d) ==
  /\ Goes(d, "teardown", "stop")
  /\ UNCHANGED <<transport, adapter, locked, ready, closing, toStop, failures>>

(* _stop_procs of all_procs() ends when each ended or was killed. Fault    *)
(* variants: it forgets the processes it stopped; only the transports are  *)
(* stopped.                                                                *)
EndedForgotten(f, d) == [f EXCEPT ![d] = "none"]
Ended(f, d) == [f EXCEPT ![d] = IF @ = "alive" THEN "dead" ELSE @]

StopTransports(d) == transport' = Ended(transport, d) /\ UNCHANGED adapter
StopAllProcs(d) == transport' = Ended(transport, d) /\ adapter' = Ended(adapter, d)

ProcsStopped(d) ==
  /\ Goes(d, "stop", "cool")
  /\ StopAllProcs(d)
  /\ UNCHANGED <<locked, ready, closing, toStop, failures>>

Cooled(d) ==
  /\ Goes(d, "cool", "transports")
  /\ UNCHANGED <<transport, adapter, locked, ready, closing, toStop, failures>>

TransportsStarted(d) ==
  /\ Goes(d, "transports", "adapters")
  /\ transport' = [transport EXCEPT ![d] = Launched(Transport, d)]
  /\ UNCHANGED <<adapter, locked, ready, closing, toStop, failures>>

AdaptersStarted(d) ==
  /\ Goes(d, "adapters", "telemetry")
  /\ adapter' = [adapter EXCEPT ![d] = Launched(Adapter, d)]
  /\ UNCHANGED <<transport, locked, ready, closing, toStop, failures>>

TelemetrySetUp(d) ==
  /\ Goes(d, "telemetry", "publishers")
  /\ UNCHANGED <<transport, adapter, locked, ready, closing, toStop, failures>>

(* Fault variant: the queue is left closed.                                *)
ReadyUnchanged(d) == ready
ReadyAgain(d) == [ready EXCEPT ![d] = TRUE]

RestartEnds(d) ==
  /\ Goes(d, "publishers", "idle")
  /\ locked' = [locked EXCEPT ![d] = FALSE]
  /\ ready' = ReadyAgain(d)
  /\ UNCHANGED <<transport, adapter, closing, toStop, failures>>

(* An exception: _safe_restart logs it, the lock is released, and what was *)
(* done so far stays, the closed queue included.                           *)
RestartFails(d) ==
  /\ failures[d] < MaxFailures
  /\ stage[d] \in Failing
  /\ stage[d] = "adapters" => d \in Adapter
  /\ stage' = [stage EXCEPT ![d] = "idle"]
  /\ locked' = [locked EXCEPT ![d] = FALSE]
  /\ failures' = [failures EXCEPT ![d] = @ + 1]
  /\ UNCHANGED <<transport, adapter, ready, closing, toStop>>

(* The end of the server ends its tasks.                                   *)
RestartAdvances(d) == closing # "done" /\
  \/ RestartBegins(d) \/ TornDown(d) \/ ProcsStopped(d) \/ Cooled(d)
  \/ TransportsStarted(d) \/ AdaptersStarted(d) \/ TelemetrySetUp(d) \/ RestartEnds(d)

---------------------------------------------------------------------------
(* shutdown(): the watchdog ends, and the devices are stopped one after    *)
(* another. Restart tasks that run are neither cancelled nor awaited.      *)

ShutdownBegins ==
  /\ closing = "no"
  /\ closing' = "teardown"
  /\ UNCHANGED <<transport, adapter, stage, locked, ready, toStop, failures>>

ShutdownTearsDown ==
  /\ closing = "teardown"
  /\ closing' = "stop"
  /\ UNCHANGED <<transport, adapter, stage, locked, ready, toStop, failures>>

(* A teardown that raises ends the shutdown.                               *)
ShutdownFails ==
  /\ closing = "teardown"
  /\ "teardown" \in Failing
  /\ closing' = "failed"
  /\ UNCHANGED <<transport, adapter, stage, locked, ready, toStop, failures>>

ShutdownStops(d) ==
  /\ closing = "stop"
  /\ d \in toStop
  /\ StopAllProcs(d)
  /\ toStop' = toStop \ {d}
  /\ closing' = IF toStop' = {} THEN "done" ELSE "teardown"
  /\ UNCHANGED <<stage, locked, ready, failures>>

SupervisorNext ==
  \/ WatchdogLooks
  \/ \E d \in Device : TransportDies(d) \/ AdapterDies(d)
  \/ \E d \in Device : RestartAdvances(d) \/ RestartFails(d)
  \/ ShutdownBegins \/ ShutdownTearsDown \/ ShutdownFails
  \/ \E d \in Device : ShutdownStops(d)

SupervisorSpec == SupervisorInit /\ [][SupervisorNext]_supervisorVars

(* The watchdog looks every two seconds and tasks run; that restarts do    *)
(* not fail for ever is the bound on failures.                             *)
FairSupervisorSpec ==
  /\ SupervisorSpec
  /\ WF_supervisorVars(WatchdogLooks)
  /\ \A d \in Device : WF_supervisorVars(RestartAdvances(d))

---------------------------------------------------------------------------
(* Properties.                                                             *)

(* A process that lives is never replaced by a new one, or it would run on *)
(* unknown to the supervisor, holding the device's port.                   *)
NoProcessIsForgotten ==
  [][\A d \in Device : /\ TransportsStarted(d) => transport[d] # "alive"
                       /\ AdaptersStarted(d) => adapter[d] # "alive"]_supervisorVars

(* A dead process is replaced in the end by a restart of its device,       *)
(* although restarts fail and other processes of the device die meanwhile. *)
DeadIsReplaced ==
  \A d \in Device :
    /\ transport[d] = "dead" ~> transport[d] = "alive" \/ closing # "no"
    /\ adapter[d] = "dead" ~> adapter[d] = "alive" \/ closing # "no"

(* A queue that a restart closed opens again, although restarts fail, if   *)
(* they fail before the last process is started.                           *)
QueueReopens ==
  \A d \in Device : ~ready[d] ~> ready[d] \/ closing # "no"
=============================================================================
