------------------------- MODULE CommandScheduler -------------------------
(***************************************************************************)
(* manager/CommandScheduler.py: one priority queue and one worker task per *)
(* device, in one asyncio event loop. An action is the code a task or a    *)
(* caller runs between two suspension points, so that everything a worker  *)
(* does between settling a command and suspending again (skipping any      *)
(* number of cancelled commands, starting the next one) is one step.       *)
(* Logger.log and PriorityQueue.put (unbounded) never suspend.             *)
(***************************************************************************)
EXTENDS Integers, FiniteSets

CONSTANTS
  Device,     \* registered devices: all of them before start()
  Client,     \* client ids, those of procedures included
  Command,    \* command ids; each is made at most once (bounds the runs)
  Priority,   \* priorities a client may ask for
  None        \* no command, or a command not made yet

Info == [client : Client, devices : SUBSET Device, priority : Priority, stamp : Nat]

ASSUME SchedulerAssumption ==
  /\ IsFiniteSet(Device) /\ IsFiniteSet(Command)
  /\ Priority \subseteq Int
  /\ None \notin Command
  /\ None \notin Info

VARIABLES
  info,            \* the Command objects; stamp is the creation time
  queue,           \* queue[d]: commands in d's priority queue
  phase,           \* phase[d]: where the worker of d is suspended
  held,            \* held[d]: the command the worker of d took out, or None
  ready,           \* ready[d]: the device's asyncio.Event
  pendingCounts,   \* devices that still hold the command, 0 for no entry
  clientCommands,  \* commands tracked for a client
  cancelled,       \* command ids a worker must skip
  settled,         \* settled[d][c]: what on_command_settled reported
  driven,          \* driven[d]: commands that entered d's execute callback
  running          \* _running

vars == <<info, queue, phase, held, ready, pendingCounts, clientCommands,
          cancelled, settled, driven, running>>

(* idle       in queue.get()                                               *)
(* gate       in ready.wait()                                              *)
(* released   ready.wait() is over, the worker did not resume yet          *)
(* starting   exec_task exists but did not take its first step             *)
(* running    inside the execute callback                                  *)
(* cancelling exec_task.cancel() was called, exec_task did not see it yet  *)
(* finished   exec_task is done, the worker did not resume yet             *)
(* stopped    the worker task ended                                        *)
Executing == {"starting", "running", "cancelling", "finished"}
AtGate    == {"gate", "released"}
Phase     == {"idle", "stopped"} \cup AtGate \cup Executing
Outcome   == {"none", "skipped", "executed"}

TypeOK ==
  /\ info \in [Command -> Info \cup {None}]
  /\ queue \in [Device -> SUBSET Command]
  /\ phase \in [Device -> Phase]
  /\ held \in [Device -> Command \cup {None}]
  /\ ready \in [Device -> BOOLEAN]
  /\ pendingCounts \in [Command -> Nat]
  /\ clientCommands \in [Client -> SUBSET Command]
  /\ cancelled \in SUBSET Command
  /\ settled \in [Device -> [Command -> Outcome]]
  /\ driven \in [Device -> SUBSET Command]
  /\ running \in BOOLEAN

Init ==
  /\ info = [c \in Command |-> None]
  /\ queue = [d \in Device |-> {}]
  /\ phase = [d \in Device |-> "idle"]
  /\ held = [d \in Device |-> None]
  /\ ready = [d \in Device |-> TRUE]
  /\ pendingCounts = [c \in Command |-> 0]
  /\ clientCommands = [cl \in Client |-> {}]
  /\ cancelled = {}
  /\ settled = [d \in Device |-> [c \in Command |-> "none"]]
  /\ driven = [d \in Device |-> {}]
  /\ running = TRUE

---------------------------------------------------------------------------
(* The calls of the manager. None of them suspends.                        *)

Issued == {c \in Command : info[c] # None}

(* The queues a new command is put in. Fault variant: one is not counted.  *)
QueueCountOffByOne(ds) == Cardinality(ds) - 1
QueueCount(ds) == Cardinality(ds)

(* make_command and enqueue. The creation stamp orders equal priorities;   *)
(* the clock is taken to move between two commands.                        *)
Submit(c, cl, ds, p) ==
  /\ c \notin Issued
  /\ info' = [info EXCEPT ![c] = [client |-> cl, devices |-> ds, priority |-> p,
                                  stamp |-> Cardinality(Issued)]]
  /\ pendingCounts' = [pendingCounts EXCEPT ![c] = QueueCount(ds)]
  /\ clientCommands' = [clientCommands EXCEPT ![cl] = @ \cup {c}]
  /\ queue' = [d \in Device |-> IF d \in ds THEN queue[d] \cup {c} ELSE queue[d]]
  /\ UNCHANGED <<phase, held, ready, cancelled, settled, driven, running>>

(* cancel: the id is remembered whatever became of the command.            *)
Cancel(c) ==
  /\ c \in Issued
  /\ cancelled' = cancelled \cup {c}
  /\ UNCHANGED <<info, queue, phase, held, ready, pendingCounts, clientCommands,
                 settled, driven, running>>

CancelClientCommands(cl) ==
  /\ cancelled' = cancelled \cup clientCommands[cl]
  /\ clientCommands' = [clientCommands EXCEPT ![cl] = {}]
  /\ UNCHANGED <<info, queue, phase, held, ready, pendingCounts, settled, driven,
                 running>>

WithdrawAll ==
  /\ cancelled' = cancelled \cup UNION {clientCommands[cl] : cl \in Client}
  /\ clientCommands' = [cl \in Client |-> {}]

CancelAllPending ==
  /\ WithdrawAll
  /\ UNCHANGED <<info, queue, phase, held, ready, pendingCounts, settled, driven,
                 running>>

PauseDevice(d) ==
  /\ ready' = [ready EXCEPT ![d] = FALSE]
  /\ UNCHANGED <<info, queue, phase, held, pendingCounts, clientCommands, cancelled,
                 settled, driven, running>>

(* Fault variant of ResumeDevice: a worker at the gate is not woken.       *)
ResumeWithoutWaking(d) ==
  /\ ready' = [ready EXCEPT ![d] = TRUE]
  /\ UNCHANGED <<info, queue, phase, held, pendingCounts, clientCommands, cancelled,
                 settled, driven, running>>

(* Event.set() ends the wait of a worker at the gate, even if the event is *)
(* cleared again before the worker resumes.                                *)
ResumeDevice(d) ==
  /\ ready' = [ready EXCEPT ![d] = TRUE]
  /\ phase' = [phase EXCEPT ![d] = IF @ = "gate" THEN "released" ELSE @]
  /\ UNCHANGED <<info, queue, held, pendingCounts, clientCommands, cancelled,
                 settled, driven, running>>

(* exec_task.cancel() on the devices of ds that execute a command.         *)
CancelExec(ds) ==
  phase' = [d \in Device |-> IF d \in ds /\ phase[d] \in {"starting", "running"}
                               THEN "cancelling" ELSE phase[d]]

InterruptDevice(d) ==
  /\ CancelExec({d})
  /\ UNCHANGED <<info, queue, held, ready, pendingCounts, clientCommands, cancelled,
                 settled, driven, running>>

InterruptAllDevices ==
  /\ CancelExec(Device)
  /\ UNCHANGED <<info, queue, held, ready, pendingCounts, clientCommands, cancelled,
                 settled, driven, running>>

(* The cancellation of a worker that awaits exec_task goes to exec_task.   *)
Shutdown ==
  /\ running
  /\ running' = FALSE
  /\ ready' = [d \in Device |-> TRUE]
  /\ CancelExec(Device)
  /\ UNCHANGED <<info, queue, held, pendingCounts, clientCommands, cancelled, settled,
                 driven>>

---------------------------------------------------------------------------
(* The worker of a device.                                                 *)

(* Fault variant of Precedes: equal priorities are taken last in first out.*)
PrecedesLifo(b, c) ==
  \/ info[b].priority > info[c].priority
  \/ info[b].priority = info[c].priority /\ info[b].stamp > info[c].stamp

(* Command.__lt__: the higher priority first, then the older command.      *)
Precedes(b, c) ==
  \/ info[b].priority > info[c].priority
  \/ info[b].priority = info[c].priority /\ info[b].stamp < info[c].stamp

Firsts(cs) == {c \in cs : \A b \in cs : ~Precedes(b, c)}

(* The cancelled commands the worker of d takes and skips before it        *)
(* reaches one it may start. A paused device skips none: the worker waits  *)
(* with the first one it takes.                                            *)
Skippable(d) ==
  {c \in queue[d] : /\ ready[d]
                    /\ c \in cancelled
                    /\ \A b \in queue[d] : Precedes(b, c) => b \in cancelled}

(* The commands of cs that leave their last device.                        *)
(* Fault variant: the tracking of a command is dropped at its first device.*)
LeavingFirst(cs) == cs
LeavingLast(cs) == {c \in cs : pendingCounts[c] <= 1}

(* _on_command_done and on_command_settled for the commands cs that leave  *)
(* device d, those in ex as executed.                                      *)
Settle(d, cs, ex) ==
  LET last == LeavingLast(cs) IN
  /\ pendingCounts' = [c \in Command |->
                         IF c \in last THEN 0
                         ELSE IF c \in cs THEN pendingCounts[c] - 1
                         ELSE pendingCounts[c]]
  /\ cancelled' = cancelled \ last
  /\ clientCommands' = [cl \in Client |->
                          clientCommands[cl] \ {c \in last : info[c].client = cl}]
  /\ settled' = [settled EXCEPT ![d] = [c \in Command |->
                   IF c \in ex THEN "executed"
                   ELSE IF c \in cs THEN "skipped" ELSE settled[d][c]]]

(* The rest of the worker's run: skip, then take and start the next        *)
(* command, or wait for one, or wait at the gate of a paused device.       *)
TakeNext(d) ==
  LET rest == queue[d] \ Skippable(d) IN
  \/ /\ rest = {}
     /\ queue' = [queue EXCEPT ![d] = {}]
     /\ held' = [held EXCEPT ![d] = None]
     /\ phase' = [phase EXCEPT ![d] = "idle"]
  \/ \E c \in Firsts(rest) :
     /\ queue' = [queue EXCEPT ![d] = rest \ {c}]
     /\ held' = [held EXCEPT ![d] = c]
     /\ phase' = [phase EXCEPT ![d] = IF ready[d] THEN "starting" ELSE "gate"]

WorkerWakes(d) ==
  /\ running
  /\ phase[d] = "idle"
  /\ queue[d] # {}
  /\ Settle(d, Skippable(d), {})
  /\ TakeNext(d)
  /\ UNCHANGED <<info, ready, driven, running>>

(* The gate is open: the held command starts unless it was cancelled.      *)
WorkerPassesGate(d) ==
  /\ running
  /\ phase[d] = "released"
  /\ held[d] \notin cancelled
  /\ phase' = [phase EXCEPT ![d] = "starting"]
  /\ UNCHANGED <<info, queue, held, ready, pendingCounts, clientCommands, cancelled,
                 settled, driven, running>>

WorkerSkipsHeld(d) ==
  /\ running
  /\ phase[d] = "released"
  /\ held[d] \in cancelled
  /\ Settle(d, {held[d]} \cup Skippable(d), {})
  /\ TakeNext(d)
  /\ UNCHANGED <<info, ready, driven, running>>

(* exec_task takes its first step and enters the driver.                   *)
ExecBegins(d) ==
  /\ phase[d] = "starting"
  /\ phase' = [phase EXCEPT ![d] = "running"]
  /\ driven' = [driven EXCEPT ![d] = @ \cup {held[d]}]
  /\ UNCHANGED <<info, queue, held, ready, pendingCounts, clientCommands, cancelled,
                 settled, running>>

(* The driver returns, raises, or the cancellation reaches exec_task.      *)
ExecEnds(d) ==
  /\ phase[d] \in {"running", "cancelling"}
  /\ phase' = [phase EXCEPT ![d] = "finished"]
  /\ UNCHANGED <<info, queue, held, ready, pendingCounts, clientCommands, cancelled,
                 settled, driven, running>>

(* Fault variant of WorkerSettles: a command that ran is reported skipped. *)
WorkerSettlesSkipped(d) ==
  /\ running
  /\ phase[d] = "finished"
  /\ Settle(d, {held[d]} \cup Skippable(d), {})
  /\ TakeNext(d)
  /\ UNCHANGED <<info, ready, driven, running>>

WorkerSettles(d) ==
  /\ running
  /\ phase[d] = "finished"
  /\ Settle(d, {held[d]} \cup Skippable(d), {held[d]})
  /\ TakeNext(d)
  /\ UNCHANGED <<info, ready, driven, running>>

(* The command the worker of d holds. Fault variant: it is forgotten.      *)
HeldForgotten(d) == {}
HeldBy(d) == {held[d]} \ {None}

(* Where a shutdown can end a worker. Fault variant: not at the gate.      *)
StopsWhenUngated(d) == phase[d] \in {"idle", "finished"}
StopsWhen(d) == phase[d] \in {"idle", "finished"} \cup AtGate

(* After shutdown a worker ends at its next resumption and settles the     *)
(* command it holds; what is still queued stays there.                     *)
WorkerStops(d) ==
  /\ ~running
  /\ StopsWhen(d)
  /\ Settle(d, HeldBy(d), IF phase[d] = "finished" THEN HeldBy(d) ELSE {})
  /\ held' = [held EXCEPT ![d] = None]
  /\ phase' = [phase EXCEPT ![d] = "stopped"]
  /\ UNCHANGED <<info, queue, ready, driven, running>>

Worker(d) ==
  \/ WorkerWakes(d) \/ WorkerPassesGate(d) \/ WorkerSkipsHeld(d)
  \/ ExecBegins(d) \/ ExecEnds(d) \/ WorkerSettles(d) \/ WorkerStops(d)

Next ==
  \/ \E c \in Command, cl \in Client, ds \in SUBSET Device, p \in Priority :
       Submit(c, cl, ds, p)
  \/ \E c \in Command : Cancel(c)
  \/ \E cl \in Client : CancelClientCommands(cl)
  \/ CancelAllPending
  \/ \E d \in Device : PauseDevice(d) \/ ResumeDevice(d) \/ InterruptDevice(d)
  \/ InterruptAllDevices
  \/ Shutdown
  \/ \E d \in Device : Worker(d)

Spec == Init /\ [][Next]_vars

---------------------------------------------------------------------------
(* Properties.                                                             *)

(* Command c still has to leave device d.                                  *)
Present(c, d) == c \in queue[d] \/ held[d] = c

(* Command c has not started on device d and will, unless it is skipped.   *)
Waiting(c, d) == c \in queue[d] \/ (held[d] = c /\ phase[d] \in AtGate)

(* A worker holds a command exactly while it works on one, and ids are     *)
(* remembered only for commands that were made.                            *)
WorkerConsistent ==
  /\ \A d \in Device : held[d] = None <=> phase[d] \in {"idle", "stopped"}
  /\ cancelled \subseteq Issued
  /\ \A cl \in Client : clientCommands[cl] \subseteq Issued

(* The pending counter of a command, which decides when its cancellation   *)
(* and its client entry are dropped (_on_command_done), is the number of   *)
(* devices the command still has to leave.                                 *)
PendingIsExact ==
  \A c \in Command :
    pendingCounts[c] = Cardinality({d \in Device : Present(c, d)})

(* No command is lost and none is settled twice: on each target device a   *)
(* command is either queued, or held by the worker, or settled, and never  *)
(* on another device.                                                      *)
Conservation ==
  \A c \in Command, d \in Device :
    /\ c \in queue[d] => held[d] # c
    /\ Present(c, d) => settled[d][c] = "none"
    /\ (Present(c, d) \/ settled[d][c] # "none")
         <=> (c \in Issued /\ d \in info[c].devices)

(* A command that waits anywhere can be withdrawn by its client's          *)
(* disconnect and by stop_all: it is tracked for its client, or it is      *)
(* cancelled already. This is what cancel_client_commands and              *)
(* cancel_all_pending rely on.                                             *)
WaitingIsTracked ==
  \A c \in Command, d \in Device :
    Waiting(c, d) => c \in cancelled \/ c \in clientCommands[info[c].client]

(* What on_command_settled reports agrees with what the driver saw: a      *)
(* command reported as skipped never entered the driver, and one that      *)
(* entered it is running or reported as executed, never queued again.      *)
ReportsAgreeWithDriver ==
  \A c \in Command, d \in Device :
    c \in driven[d] => \/ settled[d][c] = "executed"
                       \/ held[d] = c /\ phase[d] \in Executing

(* Commands of one priority enter a device's driver in the order in which  *)
(* they were made: when one did, every older one has left the device, also *)
(* when the worker waited with one of them at the gate of a paused device. *)
FifoAmongEquals ==
  \A d \in Device : \A c \in driven[d], b \in Issued :
    /\ d \in info[b].devices
    /\ info[b].priority = info[c].priority
    /\ info[b].stamp < info[c].stamp
    => settled[d][b] # "none"

(* cancel_all_pending leaves no command waiting that a worker could still  *)
(* start: stop_all and the emergency stop depend on it.                    *)
CancelAllIsTotal ==
  [][CancelAllPending =>
       \A c \in Command, d \in Device : Waiting(c, d) => c \in cancelled']_vars

(* The same for the commands of one client when it disconnects.            *)
CancelClientIsTotal ==
  [][\A cl \in Client : CancelClientCommands(cl) =>
       \A c \in Issued, d \in Device :
         Waiting(c, d) /\ info[c].client = cl => c \in cancelled']_vars

(* The status of a command in the sense of CommandLifecycle.               *)
StatusOf(d, c) ==
  IF settled[d][c] # "none" THEN settled[d][c]
  ELSE IF ~Present(c, d) THEN "absent"
  ELSE IF ~Waiting(c, d) THEN "running"
  ELSE IF c \in cancelled THEN "revoked" ELSE "waiting"

Lifecycle == INSTANCE CommandLifecycle WITH
  status <- [d \in Device |-> [c \in Command |-> StatusOf(d, c)]],
  closed <- ~running

(* The scheduler implements the life cycle: a withdrawn command stays      *)
(* withdrawn on every device until it is skipped there, one command runs   *)
(* at a time, every command settles once, and only a shutdown skips one    *)
(* that nobody withdrew.                                                   *)
ImplementsLifecycle == Lifecycle!LifecycleSpec

(* Every command in a queue settles, unless the scheduler is shut down     *)
(* first: a command that is cancelled, or interrupted, or that a pause     *)
(* caught at the gate, does not leave its client waiting.                  *)
QueuedSettles ==
  \A c \in Command, d \in Device :
    c \in queue[d] ~> settled[d][c] # "none" \/ ~running

(* shutdown() comes back: every worker ends, whatever it was doing, and    *)
(* the command it held is settled.                                         *)
ShutdownEnds ==
  ~running ~> \A d \in Device : phase[d] = "stopped" /\ held[d] = None
===========================================================================
