-------------------------- MODULE RemoteLabManager --------------------------
(***************************************************************************)
(* manager/manager.py and manager/Procedures.py over the scheduler and the *)
(* access controller: what clients ask for, the three procedures that run  *)
(* on the server, the waiters of submit_command_wait, and stop_all.        *)
(*                                                                         *)
(* A procedure is one asyncio task; an action is what it does between two  *)
(* suspension points. Drivers appear as far as the emergency stop needs    *)
(* them: who published the setpoint that moves a device.                   *)
(***************************************************************************)
EXTENDS CommandScheduler

CONSTANTS
  User,          \* clients that are people
  Procedure,     \* procedure ids; each is minted at most once (bounds the runs)
  UserCommand,   \* command ids for people, the others are for procedures (bound)
  Registered,    \* names in the registry
  Exclusive,     \* devices that must be acquired
  Beeper,        \* devices whose driver supports "beep"
  SyncPriority   \* SyncTest._PRIORITY

ASSUME ManagerAssumption ==
  /\ Client = User \cup Procedure
  /\ User \cap Procedure = {}
  /\ UserCommand \subseteq Command
  /\ Registered \subseteq {"stop_all", "sync_test", "all_go_home"}
  /\ Exclusive \subseteq Device /\ Beeper \subseteq Device
  /\ SyncPriority \in Priority
  /\ None \notin Device \cup Client
  /\ Command \cap Client = {}

VARIABLES
  owner,    \* AccessController._device_owner
  waiters,  \* _command_waiters: devices a waiter still counts, 0 for no entry
  proc,     \* proc[p]: the run of procedure p
  woken,    \* procedures whose awaited event is set
  doomed,   \* procedures whose task was cancelled and did not see it yet
  mover,    \* mover[d]: whose nonzero setpoint the drive of d got last, or None
  halted    \* history: the commands and procedures that existed at a stop_all

managerVars == <<owner, waiters, proc, woken, doomed, mover, halted>>
allVars == <<vars, managerVars>>

Access == INSTANCE AccessController

(* absent   not started               report  awaits on_done or on_error   *)
(* created  the task exists           gone    ended                        *)
(* beep, left, right, verify          dropped cancelled before its first   *)
(*          the waits of SyncTest             step: no clean-up ever runs  *)
(* locate, drive                                                           *)
(*          the waits of AllGoHome                                         *)
Waits     == {"beep", "left", "right"}
Suspended == Waits \cup {"verify", "locate", "drive", "report"}
Stage     == Suspended \cup {"absent", "created", "gone", "dropped"}

Run == [name : Registered \cup {None}, by : User \cup {None}, at : Stage,
        taken : SUBSET Device,              \* devices it acquired
        todo : SUBSET Device,               \* AllGoHome: robots not driven yet
        robot : Device \cup {None},         \* AllGoHome: the robot it drives
        awaits : Command \cup {None}]       \* SyncTest: the command it awaits

NoRun == [name |-> None, by |-> None, at |-> "absent", taken |-> {}, todo |-> {},
          robot |-> None, awaits |-> None]

ManagerTypeOK ==
  /\ TypeOK
  /\ Access!OwnerTypeOK
  /\ waiters \in [Command -> Nat]
  /\ proc \in [Procedure -> Run]
  /\ woken \subseteq Procedure
  /\ doomed \subseteq Procedure
  /\ mover \in [Device -> Command \cup Procedure \cup {None}]
  /\ halted \subseteq Command \cup Procedure

ManagerInit ==
  /\ Init
  /\ Access!OwnerInit
  /\ waiters = [c \in Command |-> 0]
  /\ proc = [p \in Procedure |-> NoRun]
  /\ woken = {} /\ doomed = {}
  /\ mover = [d \in Device |-> None]
  /\ halted = {}

---------------------------------------------------------------------------
(* Procedure tasks.                                                        *)

(* task.cancel() on the tasks of ps. One that did not take its first step  *)
(* never runs; its entries in _running and _owners stay.                   *)
CancelTasks(ps) ==
  /\ proc' = [p \in Procedure |-> IF p \in ps /\ proc[p].at = "created"
                                    THEN [proc[p] EXCEPT !.at = "dropped"] ELSE proc[p]]
  /\ doomed' = doomed \cup {p \in ps : proc[p].at \in Suspended}

StartedBy(u) == {p \in Procedure : proc[p].by = u}

(* The awaited command left its last device, so its event is set.          *)
WakeAll(cs) == woken' = woken \cup {p \in Procedure : proc[p].awaits \in cs}

(* _on_command_settled for the commands that leave d in this step. Fault   *)
(* variant: only commands that ran are counted.                            *)
SettledExecuted(d) == {c \in Command : settled'[d][c] = "executed" /\ settled[d][c] = "none"}
SettledNow(d) == {c \in Command : settled'[d][c] # settled[d][c]}

OnSettled(d) ==
  /\ waiters' = [c \in Command |-> IF c \in SettledNow(d) /\ waiters[c] > 0
                                     THEN waiters[c] - 1 ELSE waiters[c]]
  /\ WakeAll({c \in SettledNow(d) : waiters[c] = 1})

---------------------------------------------------------------------------
(* What clients ask for.                                                   *)

(* submit_command.                                                         *)
UserSubmits(c, u, ds, p) ==
  /\ \A d \in ds : Access!CheckAccess(d, u)
  /\ Submit(c, u, ds, p)
  /\ UNCHANGED managerVars

UserCancels(c)     == Cancel(c) /\ UNCHANGED managerVars
UserInterrupts(d)  == InterruptDevice(d) /\ UNCHANGED managerVars

UserAcquires(u, d) ==
  /\ Access!Acquire({d}, u)
  /\ UNCHANGED <<vars, waiters, proc, woken, doomed, mover, halted>>

UserReleases(u, d) ==
  /\ Access!Release({d}, u)
  /\ UNCHANGED <<vars, waiters, proc, woken, doomed, mover, halted>>

(* on_client_disconnect.                                                   *)
UserDisconnects(u) ==
  /\ CancelClientCommands(u)
  /\ Access!ReleaseAll(u)
  /\ CancelTasks(StartedBy(u))
  /\ UNCHANGED <<waiters, woken, mover, halted>>

RunProcedure(p, u, name) ==
  /\ proc[p].at = "absent"
  /\ proc' = [proc EXCEPT ![p] = [NoRun EXCEPT !.name = name, !.by = u, !.at = "created"]]
  /\ UNCHANGED <<vars, owner, waiters, woken, doomed, mover, halted>>

CancelProcedure(p) ==
  /\ CancelTasks({p})
  /\ UNCHANGED <<vars, owner, waiters, woken, mover, halted>>

(* The supervisor's hooks, and the shutdown of the manager: it stops the   *)
(* scheduler and leaves the procedures running.                            *)
DeviceDown(d)   == PauseDevice(d) /\ UNCHANGED managerVars
DeviceUp(d)     == ResumeDevice(d) /\ UNCHANGED managerVars
ManagerShutdown == Shutdown /\ UNCHANGED managerVars

---------------------------------------------------------------------------
(* Workers and drivers.                                                    *)

WorkerAdvances(d) ==
  /\ \/ WorkerWakes(d) \/ WorkerPassesGate(d) \/ WorkerSkipsHeld(d)
     \/ WorkerSettles(d) \/ WorkerStops(d)
  /\ OnSettled(d)
  /\ UNCHANGED <<owner, proc, doomed, mover, halted>>

(* A driver publishes the setpoint of a motion command at once, or a stop, *)
(* or leaves the drive alone.                                              *)
DriverStarts(d) ==
  /\ ExecBegins(d)
  /\ \E m \in {held[d], None, mover[d]} : mover' = [mover EXCEPT ![d] = m]
  /\ UNCHANGED <<owner, waiters, proc, woken, doomed, halted>>

(* It repeats the setpoint while the command runs.                         *)
DriverStreams(d) ==
  /\ phase[d] = "running"
  /\ mover[d] # held[d]
  /\ mover' = [mover EXCEPT ![d] = held[d]]
  /\ UNCHANGED <<vars, owner, waiters, proc, woken, doomed, halted>>

(* A timed motion ends with a stop, interrupted or not; a HOLD setpoint    *)
(* stays, and so does what somebody else published.                        *)
DriverEnds(d) ==
  /\ ExecEnds(d)
  /\ \E m \in {None, mover[d]} : mover' = [mover EXCEPT ![d] = m]
  /\ UNCHANGED <<owner, waiters, proc, woken, doomed, halted>>

---------------------------------------------------------------------------
(* StopAll.run, in one step. Fault variants: the commands that run are not *)
(* interrupted, or the other procedures are not cancelled.                 *)

StopPending ==
  /\ WithdrawAll
  /\ waiters' = [c \in Command |-> 0]
  /\ WakeAll({c \in Command : waiters[c] > 0})

StopMotion ==
  /\ mover' = [d \in Device |-> None]
  /\ halted' = Issued \cup {q \in Procedure : proc[q].at # "absent"}

UncancelledOthers(p) == {}
Others(p) == Procedure \ {p}

UninterruptedDevices == {}
InterruptedDevices == Device

StopAllRuns(p) ==
  /\ proc[p].at = "created" /\ proc[p].name = "stop_all"
  /\ StopPending
  /\ CancelExec(InterruptedDevices)
  /\ LET others == Others(p) IN
     /\ doomed' = doomed \cup {q \in others : proc[q].at \in Suspended}
     /\ proc' = [q \in Procedure |->
                   IF q = p THEN [proc[q] EXCEPT !.at = "report"]
                   ELSE IF q \in others /\ proc[q].at = "created"
                     THEN [proc[q] EXCEPT !.at = "dropped"] ELSE proc[q]]
  /\ StopMotion
  /\ UNCHANGED <<info, queue, held, ready, pendingCounts, settled, driven, running, owner>>

---------------------------------------------------------------------------
(* SyncTest.run.                                                           *)

Reachable(p) == {d \in Device : Access!Acquirable(d, p)}

(* submit_command_wait of the next phase on ds.                            *)
SyncSubmits(p, phaseName, taken, ds) ==
  \E c \in Command \ UserCommand :
    /\ Submit(c, p, ds, SyncPriority)
    /\ waiters' = [waiters EXCEPT ![c] = Cardinality(ds)]
    /\ woken' = woken \ {p}
    /\ proc' = [proc EXCEPT ![p].at = phaseName, ![p].taken = taken, ![p].awaits = c]

SyncStarts(p) ==
  /\ proc[p].at = "created" /\ proc[p].name = "sync_test"
  /\ LET taken == Reachable(p) IN
     /\ taken # {}
     /\ Access!Acquire(Device, p)
     /\ IF taken \cap Beeper # {} THEN SyncSubmits(p, "beep", taken, taken \cap Beeper)
                                  ELSE SyncSubmits(p, "left", taken, taken)
  /\ UNCHANGED <<doomed, mover, halted>>

(* The awaited command settled everywhere: the next spin on all devices.   *)
SyncAdvances(p) ==
  /\ p \in woken \ doomed
  /\ \/ proc[p].at = "beep" /\ SyncSubmits(p, "left", proc[p].taken, proc[p].taken)
     \/ proc[p].at = "left" /\ SyncSubmits(p, "right", proc[p].taken, proc[p].taken)
  /\ UNCHANGED <<owner, doomed, mover, halted>>

SyncVerifies(p) ==
  /\ p \in woken \ doomed
  /\ proc[p].at = "right"
  /\ proc' = [proc EXCEPT ![p].at = "verify", ![p].awaits = None]
  /\ woken' = woken \ {p}
  /\ UNCHANGED <<vars, owner, waiters, doomed, mover, halted>>

(* Every robot is heard, or some is not and the run fails.                 *)
SyncEnds(p) ==
  /\ p \notin doomed
  /\ proc[p].at = "verify"
  /\ Access!Release(proc[p].taken, p)
  /\ proc' = [proc EXCEPT ![p].at = "report", ![p].taken = {}]
  /\ UNCHANGED <<vars, waiters, woken, doomed, mover, halted>>

(* Nothing can be acquired: both procedures end at once.                   *)
FindsNothing(p) ==
  /\ \/ proc[p].at = "created" /\ proc[p].name = "sync_test"
     \/ proc[p].at = "locate" /\ p \notin doomed
  /\ Reachable(p) = {}
  /\ proc' = [proc EXCEPT ![p].at = "report"]
  /\ UNCHANGED <<vars, owner, waiters, woken, doomed, mover, halted>>

---------------------------------------------------------------------------
(* AllGoHome.run. The configuration names every device.                    *)

(* The map is invalid, or the cameras are opened in a thread.              *)
HomeStarts(p) ==
  /\ proc[p].at = "created" /\ proc[p].name = "all_go_home"
  /\ \E at \in {"locate", "report"} : proc' = [proc EXCEPT ![p].at = at]
  /\ UNCHANGED <<vars, owner, waiters, woken, doomed, mover, halted>>

HomeAcquires(p) ==
  /\ p \notin doomed
  /\ proc[p].at = "locate"
  /\ \E d \in Reachable(p) :
       proc' = [proc EXCEPT ![p].at = "drive", ![p].taken = Reachable(p),
                            ![p].todo = Reachable(p) \ {d}, ![p].robot = d]
  /\ Access!Acquire(Device, p)
  /\ UNCHANGED <<vars, waiters, woken, doomed, mover, halted>>

(* One turn of the control loop publishes a setpoint.                      *)
HomeSteers(p) ==
  /\ p \notin doomed
  /\ proc[p].at = "drive"
  /\ mover[proc[p].robot] # p
  /\ mover' = [mover EXCEPT ![proc[p].robot] = p]
  /\ UNCHANGED <<vars, owner, waiters, proc, woken, doomed, halted>>

(* The robot arrived or ran out of time, and is stopped; or it could not   *)
(* start, and nothing is published.                                        *)
Parked(p) == {[mover EXCEPT ![proc[p].robot] = None]}
             \cup (IF mover[proc[p].robot] = p THEN {} ELSE {mover})

HomeDrivesNext(p) ==
  /\ p \notin doomed
  /\ proc[p].at = "drive"
  /\ mover' \in Parked(p)
  /\ \E d \in proc[p].todo :
       proc' = [proc EXCEPT ![p].todo = @ \ {d}, ![p].robot = d]
  /\ UNCHANGED <<vars, owner, waiters, woken, doomed, halted>>

(* The last robot is done. The finally block stops and releases them all.  *)
StopTaken(p) == [d \in Device |-> IF d \in proc[p].taken THEN None ELSE mover[d]]

HomeEnds(p) ==
  /\ p \notin doomed
  /\ proc[p].at = "drive" /\ proc[p].todo = {}
  /\ mover' = StopTaken(p)
  /\ Access!Release(proc[p].taken, p)
  /\ proc' = [proc EXCEPT ![p].at = "report", ![p].taken = {}, ![p].robot = None]
  /\ UNCHANGED <<vars, waiters, woken, doomed, halted>>

---------------------------------------------------------------------------
(* _run_wrapper: the clean-up after the run, reported or cancelled. Fault  *)
(* variant: a cancelled run keeps its locks.                               *)

ReleasedKept(p) == IF p \in doomed THEN {} ELSE Device
ReleasedAtEnd(p) == Device

CleanUp(p) ==
  /\ CancelClientCommands(p)
  /\ Access!Release(ReleasedAtEnd(p), p)
  /\ proc' = [proc EXCEPT ![p] = [NoRun EXCEPT !.name = proc[p].name, !.at = "gone"]]
  /\ doomed' = doomed \ {p}
  /\ woken' = woken \ {p}
  /\ UNCHANGED <<waiters, halted>>

ProcReports(p) ==
  /\ p \notin doomed
  /\ proc[p].at = "report"
  /\ CleanUp(p)
  /\ UNCHANGED mover

(* The task sees its cancellation. AllGoHome stops the robots it took.     *)
ProcUnwinds(p) ==
  /\ p \in doomed
  /\ CleanUp(p)
  /\ mover' = IF proc[p].at = "drive" THEN StopTaken(p) ELSE mover

ProcAdvances(p) ==
  \/ StopAllRuns(p)
  \/ SyncStarts(p) \/ SyncAdvances(p) \/ SyncVerifies(p) \/ SyncEnds(p)
  \/ FindsNothing(p)
  \/ HomeStarts(p) \/ HomeAcquires(p) \/ HomeDrivesNext(p) \/ HomeEnds(p)
  \/ ProcReports(p) \/ ProcUnwinds(p)

DeviceAdvances(d) == WorkerAdvances(d) \/ DriverStarts(d) \/ DriverEnds(d)

ManagerNext ==
  \/ \E c \in UserCommand, u \in User, ds \in SUBSET Device, p \in Priority :
       UserSubmits(c, u, ds, p)
  \/ \E c \in Command : UserCancels(c)
  \/ \E d \in Device : UserInterrupts(d) \/ DeviceDown(d) \/ DeviceUp(d)
  \/ \E u \in User, d \in Device : UserAcquires(u, d) \/ UserReleases(u, d)
  \/ \E u \in User : UserDisconnects(u)
  \/ \E p \in Procedure, u \in User, name \in Registered : RunProcedure(p, u, name)
  \/ \E p \in Procedure : CancelProcedure(p)
  \/ ManagerShutdown
  \/ \E d \in Device : DeviceAdvances(d) \/ DriverStreams(d)
  \/ \E p \in Procedure : ProcAdvances(p) \/ HomeSteers(p)

ManagerSpec == ManagerInit /\ [][ManagerNext]_allVars

(* The event loop runs what can run, drivers return, a paused device is    *)
(* resumed, the cameras open and the control loop of AllGoHome is bounded  *)
(* (max_time_s).                                                           *)
FairManagerSpec ==
  /\ ManagerSpec
  /\ \A d \in Device : WF_allVars(DeviceAdvances(d)) /\ WF_allVars(DeviceUp(d))
  /\ \A p \in Procedure : WF_allVars(ProcAdvances(p))

---------------------------------------------------------------------------
(* Properties.                                                             *)

(* stop_all holds: no device is moved by a command that was made, or by a  *)
(* procedure that was started, before the last stop_all. A driver that     *)
(* still streams, a HOLD setpoint, a control loop about to publish and a   *)
(* self-test about to submit its next spin are all stopped for good.       *)
StopHolds == \A d \in Device : mover[d] \notin halted

(* Nor does a command made before a stop_all enter a driver after it, also *)
(* on a device whose queue was paused at that moment.                      *)
HaltedNeverStart ==
  [][\A d \in Device : (driven'[d] \ driven[d]) \cap halted = {}]_allVars

(* "each phase is submitted to ALL devices at once and awaited, so the     *)
(* fleet stays in lockstep": when a procedure makes a command, its older   *)
(* ones have left every device, whatever was cancelled or interrupted.     *)
Lockstep ==
  \A b, c \in Issued :
    /\ info[c].client \in Procedure
    /\ info[b].client = info[c].client
    /\ info[b].stamp < info[c].stamp
    => \A d \in info[b].devices : settled[d][b] # "none"

(* No wake-up is lost: a procedure that awaits a command is woken already, *)
(* or its waiter counts exactly the devices the command has to leave.      *)
WaiterIsExact ==
  \A p \in Procedure : proc[p].at \in Waits =>
    LET c == proc[p].awaits IN
    p \in woken \/ (waiters[c] > 0 /\ waiters[c] = pendingCounts[c])

(* A device held by a procedure is held by one that still runs and will    *)
(* release it: no cancelled, failed or finished run keeps a lock.          *)
LocksHaveHolders ==
  \A d \in Device : owner[d] \in Procedure =>
    proc[owner[d]].at \in Suspended \ {"report"} /\ d \in proc[owner[d]].taken

(* Every procedure that was started ends, and nothing it acquired stays    *)
(* locked, unless the server is shut down first: it does not hang on a     *)
(* command that was cancelled, interrupted or caught by a restart.         *)
ProceduresEnd ==
  \A p \in Procedure :
    proc[p].at = "created" ~>
      \/ proc[p].at \in {"gone", "dropped"} /\ \A d \in Device : owner[d] # p
      \/ ~running

(* "guarantees nobody else is driving it at the same time": the command    *)
(* that runs on an exclusive device is the owner's.                        *)
OwnerDrives ==
  \A d \in Exclusive :
    phase[d] = "running" /\ owner[d] # None => info[held[d]].client = owner[d]
=============================================================================
