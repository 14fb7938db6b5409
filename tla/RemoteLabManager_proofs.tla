---------------------- MODULE RemoteLabManager_proofs ----------------------
(***************************************************************************)
(* Machine-checked proofs about RemoteLabManager, for any finite sets of   *)
(* devices and commands and any users and procedures: what stop_all stops  *)
(* stays stopped, a lock of a procedure has a holder that will release it, *)
(* and the phases of the self-test stay in lockstep.                       *)
(***************************************************************************)
EXTENDS RemoteLabManager, CommandScheduler_proofs

---------------------------------------------------------------------------
(* The scheduler in the manager. Every step of the manager is a step of    *)
(* the scheduler, or none, with one exception: StopAll.run withdraws the   *)
(* waiting commands and interrupts the running ones before it suspends.    *)

SchedulerStops ==
  /\ WithdrawAll
  /\ CancelExec(Device)
  /\ UNCHANGED <<info, queue, held, ready, pendingCounts, settled, driven, running>>

(* The variables of the manager itself have their types.                   *)
ManagerTypes ==
  /\ Access!OwnerTypeOK
  /\ waiters \in [Command -> Nat]
  /\ proc \in [Procedure -> Run]
  /\ woken \subseteq Procedure
  /\ doomed \subseteq Procedure
  /\ mover \in [Device -> Command \cup Procedure \cup {None}]
  /\ halted \subseteq Command \cup Procedure

(* That a new command is one for devices, which the scheduler's invariant  *)
(* needs, follows from the types of the manager; that what moves a device  *)
(* is a command, from the scheduler's.                                     *)
BaseInv == OrderInv /\ ManagerTypes

LEMMA SyncSubmitsOne ==
  ASSUME ManagerTypes, NEW p \in Procedure, NEW at, NEW taken, NEW ds \in SUBSET Device,
         SyncSubmits(p, at, taken, ds)
  PROVE  \E c \in Command, cl \in Client, es \in SUBSET Device, n \in Priority :
           Submit(c, cl, es, n)
<1>1. p \in Client /\ SyncPriority \in Priority
  BY ManagerAssumption
<1>2. PICK c \in Command : Submit(c, p, ds, SyncPriority)
  BY DEF SyncSubmits
<1>. QED BY <1>1, <1>2

(* What the procedures submit for is a set of devices.                     *)
LEMMA TakenAreDevices ==
  ASSUME ManagerTypes, NEW p \in Procedure
  PROVE  proc[p].taken \in SUBSET Device /\ Reachable(p) \in SUBSET Device
BY DEF ManagerTypes, Run, Reachable

(* A procedure uses the scheduler through its interface.                   *)
LEMMA ProcedureSteps ==
  ASSUME ManagerTypes, NEW p \in Procedure
  PROVE  /\ SyncStarts(p) \/ SyncAdvances(p) => Next
         /\ CleanUp(p) => Next
<1>1. ASSUME SyncStarts(p) \/ SyncAdvances(p)
      PROVE  Next
  <2>1. \A at, taken, ds : SyncSubmits(p, at, taken, ds) /\ ds \in SUBSET Device => Next
    BY SyncSubmitsOne DEF Next
  <2>2. CASE SyncStarts(p)
    <3>1. Reachable(p) \in SUBSET Device /\ Reachable(p) \cap Beeper \in SUBSET Device
      BY TakenAreDevices
    <3>2. \/ SyncSubmits(p, "beep", Reachable(p), Reachable(p) \cap Beeper)
          \/ SyncSubmits(p, "left", Reachable(p), Reachable(p))
      BY <2>2, Zenon DEF SyncStarts
    <3>. QED BY <2>1, <3>1, <3>2
  <2>3. CASE SyncAdvances(p)
    BY <2>1, <2>3, TakenAreDevices DEF SyncAdvances
  <2>. QED BY <1>1, <2>2, <2>3
<1>2. ASSUME CleanUp(p)
      PROVE  Next
  <2>1. p \in Client /\ CancelClientCommands(p)
    BY <1>2, ManagerAssumption DEF CleanUp
  <2>. QED BY <2>1 DEF Next
<1>. QED BY <1>1, <1>2

LEMMA SchedulerSteps ==
  ASSUME ManagerTypes, [ManagerNext]_allVars
  PROVE  [Next]_vars \/ SchedulerStops
<1>1. ASSUME NEW c \in UserCommand, NEW u \in User, NEW ds \in SUBSET Device,
             NEW n \in Priority, UserSubmits(c, u, ds, n)
      PROVE  Next
  <2>1. c \in Command /\ u \in Client /\ Submit(c, u, ds, n)
    BY <1>1, ManagerAssumption DEF UserSubmits
  <2>. QED BY <2>1 DEF Next
<1>2. ASSUME NEW c \in Command, UserCancels(c)
      PROVE  Next
  BY <1>2 DEF UserCancels, Next
<1>3. ASSUME NEW d \in Device, UserInterrupts(d) \/ DeviceDown(d) \/ DeviceUp(d)
      PROVE  Next
  BY <1>3 DEF UserInterrupts, DeviceDown, DeviceUp, Next
<1>4. ASSUME NEW cl \in Client, CancelClientCommands(cl)
      PROVE  Next
  BY <1>4 DEF Next
<1>5. ASSUME NEW u \in User, UserDisconnects(u)
      PROVE  Next
  BY <1>4, <1>5, ManagerAssumption DEF UserDisconnects
<1>6. ASSUME ManagerShutdown
      PROVE  Next
  BY <1>6 DEF ManagerShutdown, Next
<1>7. ASSUME NEW d \in Device, DeviceAdvances(d) \/ DriverStreams(d)
      PROVE  [Next]_vars
  <2>1. CASE WorkerAdvances(d)
    BY <2>1 DEF WorkerAdvances, Worker, Next
  <2>2. CASE DriverStarts(d)
    BY <2>2 DEF DriverStarts, Worker, Next
  <2>3. CASE DriverEnds(d)
    BY <2>3 DEF DriverEnds, Worker, Next
  <2>4. CASE DriverStreams(d)
    BY <2>4 DEF DriverStreams
  <2>. QED BY <1>7, <2>1, <2>2, <2>3, <2>4 DEF DeviceAdvances
<1>8. ASSUME NEW p \in Procedure, StopAllRuns(p)
      PROVE  SchedulerStops
  BY <1>8 DEF StopAllRuns, StopPending, SchedulerStops, InterruptedDevices
<1>11. ASSUME NEW p \in Procedure, ProcAdvances(p) \/ HomeSteers(p)
       PROVE  [Next]_vars \/ SchedulerStops
  <2>1. CASE \/ SyncVerifies(p) \/ SyncEnds(p) \/ FindsNothing(p) \/ HomeStarts(p)
             \/ HomeAcquires(p) \/ HomeDrivesNext(p) \/ HomeEnds(p) \/ HomeSteers(p)
    BY <2>1 DEF SyncVerifies, SyncEnds, FindsNothing, HomeStarts, HomeAcquires,
       HomeDrivesNext, HomeEnds, HomeSteers
  <2>2. CASE ProcReports(p) \/ ProcUnwinds(p)
    BY <2>2, ProcedureSteps DEF ProcReports, ProcUnwinds
  <2>. QED BY <1>8, <1>11, <2>1, <2>2, ProcedureSteps DEF ProcAdvances
<1>12. ASSUME \/ \E u \in User, d \in Device : UserAcquires(u, d) \/ UserReleases(u, d)
              \/ \E p \in Procedure, u \in User, name \in Registered :
                   RunProcedure(p, u, name)
              \/ \E p \in Procedure : CancelProcedure(p)
              \/ UNCHANGED allVars
       PROVE  UNCHANGED vars
  BY <1>12 DEF UserAcquires, UserReleases, RunProcedure, CancelProcedure, allVars
<1>. QED
  BY <1>1, <1>2, <1>3, <1>5, <1>6, <1>7, <1>11, <1>12 DEF ManagerNext

(* Withdrawing and interrupting in one step keeps the scheduler's tables   *)
(* exact and the order of its commands.                                    *)
LEMMA StopsOrder ==
  ASSUME OrderInv, SchedulerStops
  PROVE  OrderInv'
<1>. USE SchedulerAssumption
<1>1. TrackInv /\ TypeInv /\ TypeOK /\ WorkerConsistent
  BY DEF OrderInv, TrackInv, TypeInv
<1>2. \A d \in Device : /\ phase[d] \in Executing <=> phase'[d] \in Executing
                        /\ phase'[d] \in AtGate => phase[d] \in AtGate
                        /\ phase'[d] \in Phase
                        /\ phase'[d] \in {"idle", "stopped"} <=> phase[d] \in {"idle", "stopped"}
  BY <1>1 DEF SchedulerStops, CancelExec, Executing, AtGate, Phase, TypeOK
<1>3. \A cl \in Client : clientCommands[cl] \subseteq Issued
  BY <1>1 DEF WorkerConsistent
<1>4. cancelled' \subseteq Issued /\ Issued' = Issued /\ Issued \subseteq Command
  BY <1>1, <1>3 DEF SchedulerStops, WithdrawAll, WorkerConsistent, Issued
<1>5. phase' \in [Device -> Phase]
  BY <1>2 DEF SchedulerStops, CancelExec
<1>6. clientCommands' \in [Client -> SUBSET Command]
      /\ \A cl \in Client : clientCommands'[cl] = {}
  BY DEF SchedulerStops, WithdrawAll
<1>7. TypeInv'
  <2>1. TypeOK'
    BY <1>1, <1>4, <1>5, <1>6 DEF SchedulerStops, TypeOK
  <2>2. WorkerConsistent'
    BY <1>1, <1>2, <1>4, <1>6 DEF SchedulerStops, WorkerConsistent
  <2>. QED BY <2>1, <2>2 DEF TypeInv
<1>8. \A c \in Issued : info[c].client \in Client
  BY <1>1 DEF Issued, TypeOK, Info
<1>9. \A c \in Command, d \in Device : Waiting(c, d) => c \in Issued
  BY <1>1 DEF TrackInv, Conservation, Waiting, Present
<1>10. TrackInv'
  <2>1. \A c \in Command, d \in Device :
          Waiting(c, d) => c \in cancelled'
    BY <1>1, <1>8, <1>9 DEF SchedulerStops, WithdrawAll, TrackInv, WaitingIsTracked
  <2>. QED BY <1>1, <1>2, <1>7, <2>1, StillTrackInv DEF SchedulerStops
<1>11. \A d \in Device : Taken(d)' \subseteq Taken(d)
  BY DEF SchedulerStops, Taken
<1>. QED BY <1>10, <1>11, StillOrder DEF SchedulerStops

(* Making commands, cancelling tasks and counting what settled keep types. *)
LEMMA SyncSubmitsTypes ==
  ASSUME BaseInv, NEW p \in Procedure, NEW at \in Waits, NEW taken \in SUBSET Device,
         NEW ds \in SUBSET Device, SyncSubmits(p, at, taken, ds)
  PROVE  /\ waiters' \in [Command -> Nat] /\ woken' \subseteq Procedure
         /\ proc' \in [Procedure -> Run]
<1>1. PICK c \in Command :
        /\ waiters' = [waiters EXCEPT ![c] = Cardinality(ds)]
        /\ woken' = woken \ {p}
        /\ proc' = [proc EXCEPT ![p].at = at, ![p].taken = taken, ![p].awaits = c]
  BY DEF SyncSubmits
<1>2. Cardinality(ds) \in Nat
  BY CardinalityType DEF QueueCount
<1>3. [[[proc[p] EXCEPT !.at = at] EXCEPT !.taken = taken] EXCEPT !.awaits = c] \in Run
  <2>1. proc[p] \in Run
    BY DEF BaseInv, ManagerTypes
  <2>2. at \in Stage
    BY DEF Stage, Suspended
  <2>3. ASSUME NEW r \in Run
        PROVE  [[[r EXCEPT !.at = at] EXCEPT !.taken = taken] EXCEPT !.awaits = c] \in Run
    BY <2>2 DEF Run
  <2>. QED BY <2>1, <2>3
<1>4. proc' \in [Procedure -> Run]
  BY <1>1, <1>3 DEF BaseInv, ManagerTypes
<1>. QED BY <1>1, <1>2, <1>4 DEF BaseInv, ManagerTypes

LEMMA CancelTasksTypes ==
  ASSUME ManagerTypes, NEW ps \in SUBSET Procedure, CancelTasks(ps)
  PROVE  proc' \in [Procedure -> Run] /\ doomed' \subseteq Procedure
BY DEF ManagerTypes, CancelTasks, Run, Stage

LEMMA CleanUpTypes ==
  ASSUME ManagerTypes, NEW p \in Procedure, CleanUp(p)
  PROVE  /\ Access!OwnerTypeOK' /\ proc' \in [Procedure -> Run]
         /\ doomed' \subseteq Procedure /\ woken' \subseteq Procedure
<1>1. [NoRun EXCEPT !.name = proc[p].name, !.at = "gone"] \in Run
  BY DEF ManagerTypes, Run, NoRun, Stage
<1>2. Access!OwnerTypeOK'
  BY DEF ManagerTypes, CleanUp, Access!OwnerTypeOK, Access!Release, Access!Released
<1>. QED BY <1>1, <1>2 DEF ManagerTypes, CleanUp

(* No step of the manager breaks the type of one of its variables.         *)
LEMMA StepTypes == BaseInv /\ [ManagerNext]_allVars => ManagerTypes'
<1> SUFFICES ASSUME BaseInv, [ManagerNext]_allVars PROVE ManagerTypes'
  OBVIOUS
<1>. USE ManagerAssumption
<1>1. ManagerTypes /\ TypeOK /\ WorkerConsistent
  BY DEF BaseInv, OrderInv, TrackInv, TypeInv
<1>2. ASSUME UNCHANGED managerVars
      PROVE  ManagerTypes'
  BY <1>1, <1>2 DEF managerVars, ManagerTypes, Access!OwnerTypeOK
<1>3. ASSUME NEW u \in User, NEW d \in Device, UserAcquires(u, d) \/ UserReleases(u, d)
      PROVE  ManagerTypes'
  BY <1>1, <1>3 DEF UserAcquires, UserReleases, ManagerTypes, Access!OwnerTypeOK,
     Access!Acquire, Access!Acquired, Access!Release, Access!Released
<1>4. ASSUME NEW u \in User, UserDisconnects(u)
      PROVE  ManagerTypes'
  <2>1. StartedBy(u) \in SUBSET Procedure
    BY DEF StartedBy
  <2>2. proc' \in [Procedure -> Run] /\ doomed' \subseteq Procedure
    BY <1>1, <1>4, <2>1, CancelTasksTypes DEF UserDisconnects
  <2>3. Access!OwnerTypeOK'
    BY <1>1, <1>4 DEF UserDisconnects, ManagerTypes, Access!OwnerTypeOK,
       Access!ReleaseAll, Access!Release, Access!Released
  <2>. QED BY <1>1, <1>4, <2>2, <2>3 DEF UserDisconnects, ManagerTypes
<1>5. ASSUME NEW p \in Procedure, NEW u \in User, NEW name \in Registered,
             RunProcedure(p, u, name)
      PROVE  ManagerTypes'
  <2>1. [NoRun EXCEPT !.name = name, !.by = u, !.at = "created"] \in Run
    BY DEF Run, NoRun, Stage
  <2>. QED BY <1>1, <1>5, <2>1 DEF RunProcedure, ManagerTypes, Access!OwnerTypeOK
<1>6. ASSUME NEW p \in Procedure, CancelProcedure(p)
      PROVE  ManagerTypes'
  <2>1. proc' \in [Procedure -> Run] /\ doomed' \subseteq Procedure
    BY <1>1, <1>6, CancelTasksTypes DEF CancelProcedure
  <2>. QED BY <1>1, <1>6, <2>1 DEF CancelProcedure, ManagerTypes, Access!OwnerTypeOK
<1>7. ASSUME NEW d \in Device, WorkerAdvances(d)
      PROVE  ManagerTypes'
  <2>1. waiters' \in [Command -> Nat] /\ woken' \subseteq Procedure
    BY <1>1, <1>7 DEF WorkerAdvances, OnSettled, WakeAll, ManagerTypes
  <2>. QED BY <1>1, <1>7, <2>1 DEF WorkerAdvances, ManagerTypes, Access!OwnerTypeOK
<1>8. ASSUME NEW d \in Device, DriverStarts(d) \/ DriverStreams(d) \/ DriverEnds(d)
      PROVE  ManagerTypes'
  <2>1. phase[d] \in {"starting", "running"} => held[d] \in Command
    BY <1>1 DEF TypeOK, WorkerConsistent
  <2>2. mover' \in [Device -> Command \cup Procedure \cup {None}]
    BY <1>1, <1>8, <2>1
       DEF DriverStarts, DriverStreams, DriverEnds, ExecBegins, ManagerTypes
  <2>. QED BY <1>1, <1>8, <2>2
       DEF DriverStarts, DriverStreams, DriverEnds, ManagerTypes, Access!OwnerTypeOK
<1>9. ASSUME NEW p \in Procedure, StopAllRuns(p)
      PROVE  ManagerTypes'
  <2>1. halted' \subseteq Command \cup Procedure
    BY <1>9 DEF StopAllRuns, StopMotion, Issued
  <2>2. proc' \in [Procedure -> Run]
    BY <1>1, <1>9 DEF StopAllRuns, ManagerTypes, Run, Stage, Suspended
  <2>3. waiters' \in [Command -> Nat] /\ woken' \subseteq Procedure /\ doomed' \subseteq Procedure
    BY <1>1, <1>9 DEF StopAllRuns, StopPending, WakeAll, Others, ManagerTypes
  <2>. QED BY <1>1, <1>9, <2>1, <2>2, <2>3
       DEF StopAllRuns, StopMotion, ManagerTypes, Access!OwnerTypeOK
<1>10. ASSUME NEW p \in Procedure, SyncStarts(p) \/ SyncAdvances(p)
       PROVE  ManagerTypes'
  <2>1. \A at \in Waits, taken \in SUBSET Device, ds \in SUBSET Device :
          SyncSubmits(p, at, taken, ds) =>
            /\ waiters' \in [Command -> Nat] /\ woken' \subseteq Procedure
            /\ proc' \in [Procedure -> Run]
    BY SyncSubmitsTypes
  <2>2. "beep" \in Waits /\ "left" \in Waits /\ "right" \in Waits
    BY DEF Waits
  <2>3. CASE SyncStarts(p)
    <3>1. Reachable(p) \in SUBSET Device /\ Reachable(p) \cap Beeper \in SUBSET Device
      BY <1>1, TakenAreDevices
    <3>2. \/ SyncSubmits(p, "beep", Reachable(p), Reachable(p) \cap Beeper)
          \/ SyncSubmits(p, "left", Reachable(p), Reachable(p))
      BY <2>3, Zenon DEF SyncStarts
    <3>3. Access!OwnerTypeOK'
      BY <1>1, <2>3 DEF SyncStarts, ManagerTypes, Access!OwnerTypeOK, Access!Acquire,
         Access!Acquired
    <3>4. UNCHANGED <<doomed, mover, halted>>
      BY <2>3 DEF SyncStarts
    <3>. QED BY <1>1, <2>1, <2>2, <3>1, <3>2, <3>3, <3>4 DEF ManagerTypes
  <2>4. CASE SyncAdvances(p)
    <3>1. proc[p].taken \in SUBSET Device
      BY <1>1, TakenAreDevices
    <3>2. /\ waiters' \in [Command -> Nat] /\ woken' \subseteq Procedure
          /\ proc' \in [Procedure -> Run]
      BY <2>1, <2>2, <2>4, <3>1 DEF SyncAdvances
    <3>. QED BY <1>1, <2>4, <3>2 DEF SyncAdvances, ManagerTypes, Access!OwnerTypeOK
  <2>. QED BY <1>10, <2>3, <2>4
<1>11. ASSUME NEW p \in Procedure, SyncVerifies(p) \/ FindsNothing(p) \/ HomeStarts(p)
       PROVE  ManagerTypes'
  <2>1. proc' \in [Procedure -> Run] /\ woken' \subseteq Procedure
    BY <1>1, <1>11 DEF SyncVerifies, FindsNothing, HomeStarts, ManagerTypes, Run, Stage,
       Suspended
  <2>. QED BY <1>1, <1>11, <2>1
       DEF SyncVerifies, FindsNothing, HomeStarts, ManagerTypes, Access!OwnerTypeOK
<1>12. ASSUME NEW p \in Procedure, SyncEnds(p) \/ HomeAcquires(p) \/ HomeEnds(p)
       PROVE  ManagerTypes'
  <2>1. Access!OwnerTypeOK'
    <3>1. CASE HomeAcquires(p)
      BY <1>1, <3>1 DEF HomeAcquires, ManagerTypes, Access!OwnerTypeOK, Access!Acquire,
         Access!Acquired
    <3>2. CASE SyncEnds(p) \/ HomeEnds(p)
      <4>1. PICK ds : Access!Release(ds, p)
        BY <3>2 DEF SyncEnds, HomeEnds
      <4>. QED BY <1>1, <4>1 DEF ManagerTypes, Access!OwnerTypeOK, Access!Release,
           Access!Released
    <3>. QED BY <1>12, <3>1, <3>2
  <2>2. proc' \in [Procedure -> Run]
    <3>1. CASE SyncEnds(p) \/ HomeEnds(p)
      BY <1>1, <3>1 DEF SyncEnds, HomeEnds, ManagerTypes, Run, Stage, Suspended
    <3>2. CASE HomeAcquires(p)
      <4>. DEFINE ds == Reachable(p)
      <4>1. ds \in SUBSET Device
        BY <1>1, TakenAreDevices
      <4>2. PICK d \in ds :
              proc' = [proc EXCEPT ![p].at = "drive", ![p].taken = ds,
                                   ![p].todo = ds \ {d}, ![p].robot = d]
        BY <3>2 DEF HomeAcquires
      <4>. HIDE DEF ds
      <4>3. /\ proc[p] \in Run /\ "drive" \in Stage
            /\ d \in Device \cup {None} /\ ds \ {d} \in SUBSET Device
        BY <1>1, <4>1 DEF ManagerTypes, Stage, Suspended
      <4>4. [[[[proc[p] EXCEPT !.at = "drive"] EXCEPT !.taken = ds]
                EXCEPT !.todo = ds \ {d}] EXCEPT !.robot = d] \in Run
        BY <4>1, <4>3 DEF Run
      <4>. QED BY <1>1, <4>2, <4>4 DEF ManagerTypes
    <3>. QED BY <1>12, <3>1, <3>2
  <2>3. mover' \in [Device -> Command \cup Procedure \cup {None}]
    BY <1>1, <1>12 DEF SyncEnds, HomeAcquires, HomeEnds, StopTaken, ManagerTypes
  <2>. QED BY <1>1, <1>12, <2>1, <2>2, <2>3 DEF SyncEnds, HomeAcquires, HomeEnds, ManagerTypes
<1>13. ASSUME NEW p \in Procedure, HomeSteers(p) \/ HomeDrivesNext(p)
       PROVE  ManagerTypes'
  <2>1. proc' \in [Procedure -> Run]
    <3>1. CASE HomeSteers(p)
      BY <1>1, <3>1 DEF HomeSteers, ManagerTypes
    <3>2. CASE HomeDrivesNext(p)
      <4>1. PICK d \in proc[p].todo :
              proc' = [proc EXCEPT ![p].todo = @ \ {d}, ![p].robot = d]
        BY <3>2 DEF HomeDrivesNext
      <4>2. proc[p].todo \in SUBSET Device /\ d \in Device
        BY <1>1 DEF ManagerTypes, Run
      <4>3. /\ \A r \in Run, ds \in SUBSET Device, e \in Device :
                  [[r EXCEPT !.todo = ds] EXCEPT !.robot = e] \in Run
            /\ proc[p] \in Run /\ proc[p].todo \ {d} \in SUBSET Device
        <5>1. \A r \in Run, ds \in SUBSET Device, e \in Device :
                  [[r EXCEPT !.todo = ds] EXCEPT !.robot = e] \in Run
          BY DEF Run
        <5>2. proc[p] \in Run
          BY <1>1 DEF ManagerTypes
        <5>. QED BY <4>2, <5>1, <5>2
      <4>. DEFINE ds == proc[p].todo \ {d}
      <4>4. proc' = [proc EXCEPT ![p] = [[proc[p] EXCEPT !.todo = ds] EXCEPT !.robot = d]]
        BY <4>1
      <4>5. [[proc[p] EXCEPT !.todo = ds] EXCEPT !.robot = d] \in Run
        BY <4>2, <4>3
      <4>. QED BY <1>1, <4>4, <4>5 DEF ManagerTypes
    <3>. QED BY <1>13, <3>1, <3>2
  <2>2. mover' \in [Device -> Command \cup Procedure \cup {None}]
    BY <1>1, <1>13 DEF HomeSteers, HomeDrivesNext, Parked, ManagerTypes
  <2>. QED BY <1>1, <1>13, <2>1, <2>2
       DEF HomeSteers, HomeDrivesNext, ManagerTypes, Access!OwnerTypeOK
<1>14. ASSUME NEW p \in Procedure, ProcReports(p) \/ ProcUnwinds(p)
       PROVE  ManagerTypes'
  <2>1. CleanUp(p) /\ UNCHANGED <<waiters, halted>>
    BY <1>14 DEF ProcReports, ProcUnwinds, CleanUp
  <2>2. mover' \in [Device -> Command \cup Procedure \cup {None}]
    BY <1>1, <1>14 DEF ProcReports, ProcUnwinds, StopTaken, ManagerTypes
  <2>. QED BY <1>1, <2>1, <2>2, CleanUpTypes DEF ManagerTypes
<1>15. ASSUME NEW p \in Procedure, ProcAdvances(p)
       PROVE  ManagerTypes'
  BY <1>9, <1>10, <1>11, <1>12, <1>13, <1>14, <1>15 DEF ProcAdvances
<1>16. ASSUME NEW d \in Device, DeviceAdvances(d)
       PROVE  ManagerTypes'
  BY <1>7, <1>8, <1>16 DEF DeviceAdvances
<1>17. ASSUME \/ \E c \in UserCommand, u \in User, ds \in SUBSET Device, n \in Priority :
                   UserSubmits(c, u, ds, n)
              \/ \E c \in Command : UserCancels(c)
              \/ \E d \in Device : UserInterrupts(d) \/ DeviceDown(d) \/ DeviceUp(d)
              \/ ManagerShutdown
              \/ UNCHANGED allVars
       PROVE  UNCHANGED managerVars
  BY <1>17 DEF UserSubmits, UserCancels, UserInterrupts, DeviceDown, DeviceUp,
     ManagerShutdown, allVars
<1>. QED
  BY <1>2, <1>3, <1>4, <1>5, <1>6, <1>8, <1>13, <1>15, <1>16, <1>17 DEF ManagerNext

LEMMA InitBase == ManagerInit => BaseInv
<1> SUFFICES ASSUME ManagerInit PROVE BaseInv
  OBVIOUS
<1>1. OrderInv
  BY InitTrackInv, SchedulerAssumption DEF ManagerInit, Init, OrderInv, Taken, Issued
<1>2. ManagerTypes
  BY DEF ManagerInit, ManagerTypes, Access!OwnerInit, Access!OwnerTypeOK, Run, NoRun, Stage
<1>. QED BY <1>1, <1>2 DEF BaseInv

LEMMA StepBase == BaseInv /\ [ManagerNext]_allVars => BaseInv'
BY StepTypes, SchedulerSteps, StepOrder, StopsOrder DEF BaseInv

(* Every variable of the manager and of the scheduler in it keeps its type.*)
THEOREM ManagerTypeCorrect == ManagerSpec => []ManagerTypeOK
<1>1. BaseInv => ManagerTypeOK
  BY DEF BaseInv, OrderInv, TrackInv, TypeInv, ManagerTypes, ManagerTypeOK
<1>. QED BY <1>1, InitBase, StepBase, PTL DEF ManagerSpec

(* The scheduler keeps its promises inside the manager, although stop_all  *)
(* does two of its calls in one step: no command is lost or settled twice, *)
(* the counters are exact, what waits can be withdrawn, and commands of    *)
(* one priority keep their order.                                          *)
THEOREM SchedulerKeepsItsPromises ==
  ManagerSpec => [](Conservation /\ PendingIsExact /\ WaitingIsTracked
                    /\ ReportsAgreeWithDriver /\ FifoAmongEquals)
<1>1. BaseInv => Conservation /\ PendingIsExact /\ WaitingIsTracked
                   /\ ReportsAgreeWithDriver /\ FifoAmongEquals
  BY DEF BaseInv, OrderInv, TrackInv, FifoAmongEquals, Taken, Older
<1>. QED BY <1>1, InitBase, StepBase, PTL DEF ManagerSpec

(* So does the refinement: with stop_all as one step, and with procedures  *)
(* as clients, every command still goes through its life cycle as          *)
(* CommandLifecycle states it. Stopping withdraws all that is tracked.     *)
THEOREM ManagerImplementsLifecycle == ManagerSpec => ImplementsLifecycle
<1>1. ASSUME BaseInv, [ManagerNext]_allVars
      PROVE  [Lifecycle!LifecycleNext]_(Lifecycle!lifecycleVars)
  <2>1. TrackInv /\ TypeOK /\ ManagerTypes
    BY <1>1 DEF BaseInv, OrderInv, TrackInv, TypeInv
  <2>2. CASE [Next]_vars
    BY <2>1, <2>2, StepRefines
  <2>3. CASE SchedulerStops
    <3>. DEFINE all == UNION {clientCommands[cl] : cl \in Client}
    <3>1. all \in SUBSET Command
      BY <2>1 DEF TypeOK
    <3>2. cancelled' = cancelled \cup all /\ UNCHANGED <<queue, held, settled, running>>
      BY <2>3 DEF SchedulerStops, WithdrawAll
    <3>3. \A d \in Device : phase'[d] \in AtGate <=> phase[d] \in AtGate
      BY <2>3 DEF SchedulerStops, CancelExec, AtGate
    <3>. HIDE DEF all
    <3>4. Lifecycle!Revoke(all)
      BY <2>1, <3>1, <3>2, <3>3, StillStatus DEF Lifecycle!Revoke
    <3>. QED BY <3>1, <3>4 DEF Lifecycle!LifecycleNext
  <2>. QED BY <1>1, <2>1, <2>2, <2>3, SchedulerSteps
<1>2. ManagerInit => Init
  BY DEF ManagerInit
<1>. QED
  BY <1>1, <1>2, InitBase, StepBase, InitRefines, PTL
     DEF ManagerSpec, ImplementsLifecycle, Lifecycle!LifecycleSpec

---------------------------------------------------------------------------
(* The locks of procedures. LocksHaveHolders is inductive: each way a run  *)
(* ends, releases what its entry says it took, or everything it owns.      *)

(* p is at a wait at which it may hold locks.                              *)
Holding(p) == proc[p].at \in Suspended \ {"report"}

(* Locks are as they were or dropped, and the runs that still hold some    *)
(* are where they may.                                                     *)
LEMMA StillLocks ==
  ASSUME LocksHaveHolders,
         \A d \in Device : owner'[d] \in Procedure =>
           /\ owner'[d] = owner[d]
           /\ Holding(owner[d]) =>
                Holding(owner[d])' /\ proc'[owner[d]].taken = proc[owner[d]].taken
  PROVE  LocksHaveHolders'
BY DEF LocksHaveHolders, Holding

(* p releases every lock it has.                                           *)
LEMMA EndLocks ==
  ASSUME ManagerTypes, LocksHaveHolders, NEW p \in Procedure,
         \A q \in Procedure \ {p} : proc'[q] = proc[q],
         \/ Access!Release(Device, p)
         \/ Access!Release(proc[p].taken, p)
  PROVE  LocksHaveHolders'
<1>1. None \notin Procedure
  BY ManagerAssumption
<1>2. \A d \in Device : owner[d] = p => d \in proc[p].taken
  BY DEF LocksHaveHolders
<1>3. \A d \in Device : owner'[d] = IF owner[d] = p THEN None ELSE owner[d]
  BY <1>2 DEF Access!Release, Access!Released
<1>. QED BY <1>1, <1>3, StillLocks DEF Holding

(* p acquires what it can reach, all the devices, and keeps the list.      *)
LEMMA AcquireLocks ==
  ASSUME ManagerTypes, LocksHaveHolders, NEW p \in Procedure, Access!Acquire(Device, p),
         \A q \in Procedure \ {p} : proc'[q] = proc[q],
         proc'[p].at \in Suspended \ {"report"}, proc'[p].taken = Reachable(p)
  PROVE  LocksHaveHolders'
<1>1. \A d \in Device : owner'[d] = owner[d] \/ (owner'[d] = p /\ d \in Reachable(p))
  BY DEF Access!Acquire, Access!Acquired, Reachable
<1>2. \A d \in Device : owner[d] = p => d \in Reachable(p)
  BY DEF Reachable, Access!Acquirable
<1>. QED BY <1>1, <1>2 DEF LocksHaveHolders

(* A user, or the cancellation of tasks, takes no lock from a procedure.   *)
LEMMA UserLocks ==
  ASSUME ManagerTypes, LocksHaveHolders, NEW u \in User, NEW ds \in SUBSET Device,
         Access!Acquire(ds, u) \/ Access!Release(ds, u),
         proc' = proc \/ \E ps : CancelTasks(ps)
  PROVE  LocksHaveHolders'
<1>1. u \notin Procedure /\ None \notin Procedure
  BY ManagerAssumption
<1>2. \A d \in Device : owner'[d] \in Procedure => owner'[d] = owner[d]
  BY <1>1 DEF Access!Acquire, Access!Acquired, Access!Release, Access!Released
<1>3. \A q \in Procedure : Holding(q) => proc'[q] = proc[q]
  BY DEF CancelTasks, Holding, Suspended, Waits
<1>. QED BY <1>2, <1>3, StillLocks DEF Holding

LEMMA StepLocks == BaseInv /\ LocksHaveHolders /\ [ManagerNext]_allVars => LocksHaveHolders'
<1> SUFFICES ASSUME BaseInv, LocksHaveHolders, [ManagerNext]_allVars
             PROVE  LocksHaveHolders'
  OBVIOUS
<1>1. ManagerTypes
  BY DEF BaseInv
<1>2. ASSUME UNCHANGED <<owner, proc>>
      PROVE  LocksHaveHolders'
  BY <1>2, StillLocks DEF Holding
<1>3. ASSUME owner' = owner, NEW p \in Procedure, ~Holding(p),
             \A q \in Procedure \ {p} : Holding(q) => proc'[q] = proc[q]
      PROVE  LocksHaveHolders'
  BY <1>3 DEF LocksHaveHolders, Holding
<1>4. ASSUME owner' = owner, NEW p \in Procedure, Holding(p) => Holding(p)',
             proc'[p].taken = proc[p].taken, \A q \in Procedure \ {p} : proc'[q] = proc[q]
      PROVE  LocksHaveHolders'
  BY <1>4, StillLocks DEF Holding
<1>5. ASSUME NEW u \in User, NEW d \in Device, UserAcquires(u, d) \/ UserReleases(u, d)
      PROVE  LocksHaveHolders'
  BY <1>1, <1>5, UserLocks DEF UserAcquires, UserReleases
<1>6. ASSUME NEW u \in User, UserDisconnects(u)
      PROVE  LocksHaveHolders'
  BY <1>1, <1>6, UserLocks DEF UserDisconnects, Access!ReleaseAll
<1>7. ASSUME NEW p \in Procedure, NEW u \in User, NEW name \in Registered,
             RunProcedure(p, u, name)
      PROVE  LocksHaveHolders'
  BY <1>1, <1>3, <1>7 DEF RunProcedure, Holding, Suspended, Waits, ManagerTypes
<1>8. ASSUME NEW p \in Procedure, CancelProcedure(p)
      PROVE  LocksHaveHolders'
  <2>1. \A q \in Procedure : Holding(q) => proc'[q] = proc[q]
    BY <1>8 DEF CancelProcedure, CancelTasks, Holding, Suspended, Waits
  <2>. QED BY <1>8, <2>1, StillLocks DEF CancelProcedure, Holding
<1>9. ASSUME NEW d \in Device, DeviceAdvances(d) \/ DriverStreams(d)
      PROVE  UNCHANGED <<owner, proc>>
  BY <1>9 DEF DeviceAdvances, DriverStreams, WorkerAdvances, DriverStarts, DriverEnds
<1>10. ASSUME NEW p \in Procedure, StopAllRuns(p)
       PROVE  LocksHaveHolders'
  <2>1. /\ ~Holding(p) /\ owner' = owner
        /\ \A q \in Procedure \ {p} : Holding(q) => proc'[q] = proc[q]
    BY <1>10 DEF StopAllRuns, Holding, Suspended, Waits
  <2>. QED BY <1>3, <2>1
<1>11. ASSUME NEW p \in Procedure, SyncStarts(p)
       PROVE  LocksHaveHolders'
  <2>1. PICK at \in Waits : \E c :
          /\ proc' = [proc EXCEPT ![p].at = at, ![p].taken = Reachable(p), ![p].awaits = c]
          /\ Access!Acquire(Device, p)
    <3>1. \A at, ds : SyncSubmits(p, at, Reachable(p), ds) =>
            \E c : proc' = [proc EXCEPT ![p].at = at, ![p].taken = Reachable(p), ![p].awaits = c]
      BY DEF SyncSubmits
    <3>2. "beep" \in Waits /\ "left" \in Waits
      BY DEF Waits
    <3>3. /\ \/ SyncSubmits(p, "beep", Reachable(p), Reachable(p) \cap Beeper)
             \/ SyncSubmits(p, "left", Reachable(p), Reachable(p))
          /\ Access!Acquire(Device, p)
      BY <1>11, Zenon DEF SyncStarts
    <3>. QED BY <3>1, <3>2, <3>3
  <2>2. proc'[p].at = at /\ proc'[p].taken = Reachable(p)
    BY <1>1, <2>1 DEF ManagerTypes, Run
  <2>. QED BY <1>1, <2>1, <2>2, AcquireLocks DEF Suspended, Waits, ManagerTypes
<1>12. ASSUME NEW p \in Procedure, SyncAdvances(p)
       PROVE  LocksHaveHolders'
  <2>1. PICK at \in Waits : \E c :
          proc' = [proc EXCEPT ![p].at = at, ![p].taken = proc[p].taken, ![p].awaits = c]
    BY <1>12 DEF SyncAdvances, SyncSubmits, Waits
  <2>2. proc'[p].at = at /\ proc'[p].taken = proc[p].taken /\ owner' = owner
    BY <1>1, <1>12, <2>1 DEF SyncAdvances, ManagerTypes, Run
  <2>. QED BY <1>1, <1>4, <2>1, <2>2 DEF Holding, Suspended, Waits, ManagerTypes
<1>13. ASSUME NEW p \in Procedure, SyncVerifies(p) \/ HomeDrivesNext(p)
       PROVE  LocksHaveHolders'
  <2>1. /\ Holding(p)' /\ proc'[p].taken = proc[p].taken /\ owner' = owner
        /\ \A q \in Procedure \ {p} : proc'[q] = proc[q]
    <3>1. CASE SyncVerifies(p)
      BY <1>1, <3>1 DEF SyncVerifies, Holding, Suspended, ManagerTypes, Run
    <3>2. CASE HomeDrivesNext(p)
      BY <1>1, <3>2 DEF HomeDrivesNext, Holding, Suspended, ManagerTypes, Run
    <3>. QED BY <1>13, <3>1, <3>2
  <2>. QED BY <1>4, <2>1
<1>14. ASSUME NEW p \in Procedure, SyncEnds(p) \/ HomeEnds(p)
       PROVE  LocksHaveHolders'
  BY <1>1, <1>14, EndLocks DEF SyncEnds, HomeEnds, ManagerTypes
<1>15. ASSUME NEW p \in Procedure, FindsNothing(p) \/ HomeStarts(p)
       PROVE  LocksHaveHolders'
  <2>1. owner' = owner /\ \A q \in Procedure \ {p} : proc'[q] = proc[q]
    BY <1>1, <1>15 DEF FindsNothing, HomeStarts, ManagerTypes
  <2>2. \A d \in Device : owner[d] # p
    <3>1. CASE Holding(p)
      <4>1. Reachable(p) = {}
        BY <1>15, <3>1 DEF FindsNothing, HomeStarts, Holding, Suspended, Waits
      <4>. QED BY <4>1 DEF Reachable, Access!Acquirable
    <3>2. CASE ~Holding(p)
      BY <3>2 DEF LocksHaveHolders, Holding
    <3>. QED BY <3>1, <3>2
  <2>. QED BY <2>1, <2>2, StillLocks DEF Holding
<1>16. ASSUME NEW p \in Procedure, HomeAcquires(p)
       PROVE  LocksHaveHolders'
  <2>1. /\ proc'[p].at = "drive" /\ proc'[p].taken = Reachable(p)
        /\ \A q \in Procedure \ {p} : proc'[q] = proc[q]
    BY <1>1, <1>16 DEF HomeAcquires, ManagerTypes, Run
  <2>. QED BY <1>1, <1>16, <2>1, AcquireLocks DEF HomeAcquires, Suspended
<1>17. ASSUME NEW p \in Procedure, ProcReports(p) \/ ProcUnwinds(p)
       PROVE  LocksHaveHolders'
  <2>1. CleanUp(p)
    BY <1>17 DEF ProcReports, ProcUnwinds
  <2>. QED BY <1>1, <2>1, EndLocks DEF CleanUp, ReleasedAtEnd, ManagerTypes
<1>18. ASSUME NEW p \in Procedure, ProcAdvances(p)
       PROVE  LocksHaveHolders'
  BY <1>10, <1>11, <1>12, <1>13, <1>14, <1>15, <1>16, <1>17, <1>18 DEF ProcAdvances
<1>19. ASSUME \/ \E c \in UserCommand, u \in User, ds \in SUBSET Device, n \in Priority :
                   UserSubmits(c, u, ds, n)
              \/ \E c \in Command : UserCancels(c)
              \/ \E d \in Device : UserInterrupts(d) \/ DeviceDown(d) \/ DeviceUp(d)
              \/ ManagerShutdown
              \/ UNCHANGED allVars
              \/ \E p \in Procedure : HomeSteers(p)
       PROVE  UNCHANGED <<owner, proc>>
  BY <1>19 DEF UserSubmits, UserCancels, UserInterrupts, DeviceDown, DeviceUp,
     ManagerShutdown, allVars, managerVars, HomeSteers
<1>. QED
  BY <1>2, <1>5, <1>6, <1>7, <1>8, <1>9, <1>18, <1>19 DEF ManagerNext

(* No lock of a procedure outlives its run: whichever way a run ends, is   *)
(* cancelled or fails, the devices it acquired are free again, and a       *)
(* device that a procedure owns is one that its run knows it took.         *)
THEOREM NoLockIsOrphaned == ManagerSpec => []LocksHaveHolders
<1>1. ManagerInit => LocksHaveHolders
  BY ManagerAssumption DEF ManagerInit, Access!OwnerInit, LocksHaveHolders
<1>. QED BY <1>1, InitBase, StepBase, StepLocks, PTL DEF ManagerSpec

---------------------------------------------------------------------------
(* stop_all. StopHolds says who moves the devices. That it stays so needs  *)
(* all that could publish later: a command that waits is cancelled, one    *)
(* that a worker holds is not in the driver and cannot get there, and a    *)
(* procedure is over or does not survive its next resumption.              *)

HaltedExist ==
  halted \subseteq Issued \cup {p \in Procedure : proc[p].at # "absent"}

HaltedCommands ==
  \A c \in Command \cap halted, d \in Device :
    /\ Waiting(c, d) => c \in cancelled
    /\ held[d] = c => phase[d] \notin {"starting", "running"}

HaltedProcedures ==
  \A p \in Procedure \cap halted :
    proc[p].at \in {"report", "gone", "dropped"} \/ p \in doomed

StopInv == HaltedExist /\ HaltedCommands /\ HaltedProcedures /\ StopHolds

(* Commands are never unmade.                                              *)
LEMMA IssuedStay ==
  ASSUME TypeOK, [Next]_vars \/ SchedulerStops
  PROVE  Issued \subseteq Issued'
<1>1. CASE UNCHANGED info
  BY <1>1 DEF Issued
<1>2. ASSUME NEW c \in Command, NEW cl \in Client, NEW ds \in SUBSET Device,
             NEW n \in Priority, Submit(c, cl, ds, n)
      PROVE  Issued \subseteq Issued'
  <2>1. c \notin Issued /\ \A b \in Command \ {c} : info'[b] = info[b]
    BY <1>2 DEF Submit, TypeOK
  <2>. QED BY <2>1 DEF Issued
<1>3. \/ UNCHANGED info
      \/ \E c \in Command, cl \in Client, ds \in SUBSET Device, n \in Priority :
           Submit(c, cl, ds, n)
  <2>1. ASSUME NEW d \in Device, Worker(d)
        PROVE  UNCHANGED info
    BY <2>1 DEF Worker, WorkerWakes, WorkerPassesGate, WorkerSkipsHeld, ExecBegins,
       ExecEnds, WorkerSettles, WorkerStops
  <2>2. ASSUME \/ \E c \in Command : Cancel(c)
               \/ \E cl \in Client : CancelClientCommands(cl)
               \/ CancelAllPending
               \/ \E d \in Device : PauseDevice(d) \/ ResumeDevice(d) \/ InterruptDevice(d)
               \/ InterruptAllDevices \/ Shutdown \/ UNCHANGED vars \/ SchedulerStops
        PROVE  UNCHANGED info
    BY <2>2 DEF Cancel, CancelClientCommands, CancelAllPending, PauseDevice, ResumeDevice,
       InterruptDevice, InterruptAllDevices, Shutdown, vars, SchedulerStops
  <2>. QED BY <2>1, <2>2 DEF Next
<1>. QED BY <1>1, <1>2, <1>3

(* A worker that settles commands and takes the next one starts none that  *)
(* a stop_all found, and forgets no cancellation that is still needed.     *)
LEMMA RunHalted ==
  ASSUME TrackInv, HaltedCommands, halted' = halted, NEW d \in Device, NEW cs, NEW ex,
         WorkerRun(d, cs, ex),
         TakeNext(d) \/ phase'[d] = "stopped"
  PROVE  HaltedCommands'
<1>. USE DEF TrackInv
<1> SUFFICES ASSUME NEW c \in Command \cap halted, NEW e \in Device
             PROVE  /\ Waiting(c, e)' => c \in cancelled'
                    /\ held'[e] = c => phase'[e] \notin {"starting", "running"}
  BY DEF HaltedCommands
<1>1. Waiting(c, e)' => Waiting(c, e) /\ Present(c, e)'
  <2>1. CASE e = d
    BY <2>1 DEF WorkerRun, Waiting, Present
  <2>2. CASE e # d
    BY <2>2 DEF WorkerRun, Waiting, Present
  <2>. QED BY <2>1, <2>2
<1>2. Waiting(c, e)' => c \in cancelled'
  <2>1. Present(c, e)' => c \notin LeavingLast(cs)
    BY RunHolders
  <2>2. cancelled' = cancelled \ LeavingLast(cs)
    BY DEF WorkerRun, Settle
  <2>. QED BY <1>1, <2>1, <2>2 DEF HaltedCommands
<1>3. ASSUME held'[e] = c, phase'[e] \in {"starting", "running"}
      PROVE  FALSE
  <2>1. CASE e # d
    BY <1>3, <2>1 DEF WorkerRun, HaltedCommands
  <2>2. CASE e = d
    <3>1. TakeNext(d)
      BY <1>3, <2>2
    <3>2. Present(c, d)' /\ ~Waiting(c, d)'
      BY <1>3, <2>2, <3>1, TakeNextPresence DEF Present, Waiting, AtGate
    <3>3. c \in queue[d] \ Skippable(d)
      BY <3>1, <3>2, TakeNextPresence
    <3>4. c \notin cancelled
      BY <3>1, <3>2, <3>3, TakeNextStartsLive
    <3>. QED BY <3>3, <3>4 DEF HaltedCommands, Waiting
  <2>. QED BY <2>1, <2>2
<1>. QED BY <1>2, <1>3

(* A step after which no more waits, or runs, than before, and whose       *)
(* cancelled ids have not become fewer.                                    *)
LEMMA StillHalted ==
  ASSUME HaltedCommands, halted' = halted, cancelled \subseteq cancelled',
         \A c \in Command \cap halted, d \in Device :
           /\ Waiting(c, d)' => Waiting(c, d)
           /\ held'[d] = c /\ phase'[d] \in {"starting", "running"} =>
                held[d] = c /\ phase[d] \in {"starting", "running"}
  PROVE  HaltedCommands'
BY DEF HaltedCommands

LEMMA StepHaltedCommands ==
  ASSUME TrackInv, HaltedCommands, Command \cap halted \subseteq Issued,
         halted' = halted, [Next]_vars
  PROVE  HaltedCommands'
<1>1. TypeOK /\ WorkerConsistent
  BY DEF TrackInv, TypeInv
<1>2. ASSUME NEW c \in Command, NEW cl \in Client, NEW ds \in SUBSET Device,
             NEW n \in Priority, Submit(c, cl, ds, n)
      PROVE  HaltedCommands'
  <2>1. c \notin halted
    BY <1>2 DEF Submit
  <2>2. \A b \in Command \ {c}, d \in Device : Waiting(b, d)' <=> Waiting(b, d)
    BY <1>1, <1>2 DEF Submit, Waiting, TypeOK
  <2>. QED BY <1>2, <2>1, <2>2, StillHalted DEF Submit
<1>3. ASSUME NEW c \in Command, Cancel(c)
      PROVE  HaltedCommands'
  BY <1>3, StillHalted DEF Cancel, Waiting
<1>4. ASSUME \/ \E cl \in Client : CancelClientCommands(cl)
             \/ CancelAllPending
             \/ \E d \in Device : PauseDevice(d)
             \/ UNCHANGED vars
      PROVE  HaltedCommands'
  BY <1>4, StillHalted DEF CancelClientCommands, CancelAllPending, WithdrawAll,
     PauseDevice, vars, Waiting
<1>5. ASSUME NEW d \in Device, ResumeDevice(d)
      PROVE  HaltedCommands'
  BY <1>1, <1>5, StillHalted DEF ResumeDevice, Waiting, AtGate, TypeOK
<1>6. ASSUME \/ \E d \in Device : InterruptDevice(d)
             \/ InterruptAllDevices \/ Shutdown
      PROVE  HaltedCommands'
  <2>1. PICK ds : CancelExec(ds)
    BY <1>6 DEF InterruptDevice, InterruptAllDevices, Shutdown
  <2>2. UNCHANGED <<queue, held, cancelled>>
    BY <1>6 DEF InterruptDevice, InterruptAllDevices, Shutdown
  <2>3. \A d \in Device : /\ phase'[d] \in AtGate => phase[d] \in AtGate
                          /\ phase'[d] \in {"starting", "running"} => phase'[d] = phase[d]
    BY <2>1 DEF CancelExec, AtGate
  <2>. QED BY <2>2, <2>3, StillHalted DEF Waiting
<1>7. ASSUME NEW d \in Device, Worker(d)
      PROVE  HaltedCommands'
  <2>1. CASE WorkerWakes(d) \/ WorkerSkipsHeld(d) \/ WorkerSettles(d) \/ WorkerStops(d)
    <3>1. PICK cs, ex : WorkerRun(d, cs, ex)
      BY <2>1, WorkerRuns
    <3>2. TakeNext(d) \/ phase'[d] = "stopped"
      BY <1>1, <2>1 DEF WorkerWakes, WorkerSkipsHeld, WorkerSettles, WorkerStops, TypeOK
    <3>. QED BY <3>1, <3>2, RunHalted
  <2>2. CASE WorkerPassesGate(d)
    <3>1. /\ phase[d] = "released" /\ held[d] \notin cancelled
          /\ UNCHANGED <<queue, held, cancelled>>
          /\ phase' = [phase EXCEPT ![d] = "starting"]
      BY <2>2 DEF WorkerPassesGate
    <3>2. held[d] \in Command
      BY <1>1, <3>1 DEF TypeOK, WorkerConsistent
    <3>3. held[d] \notin halted
      BY <3>1, <3>2 DEF HaltedCommands, Waiting, AtGate
    <3>. QED BY <1>1, <3>1, <3>3, StillHalted DEF Waiting, AtGate, TypeOK
  <2>3. CASE ExecBegins(d) \/ ExecEnds(d)
    BY <1>1, <2>3, StillHalted DEF ExecBegins, ExecEnds, Waiting, AtGate, TypeOK
  <2>. QED BY <1>7, <2>1, <2>2, <2>3 DEF Worker
<1>. QED BY <1>2, <1>3, <1>4, <1>5, <1>6, <1>7 DEF Next

(* After a stop_all nothing waits that is not cancelled, no driver runs,   *)
(* and the other procedures are over or cancelled.                         *)
LEMMA StopAllStops ==
  ASSUME BaseInv, NEW p \in Procedure, StopAllRuns(p)
  PROVE  StopInv'
<1>. USE ManagerAssumption, SchedulerAssumption
<1>1. TrackInv /\ TypeOK /\ ManagerTypes /\ WaitingIsTracked
  BY DEF BaseInv, OrderInv, TrackInv, TypeInv
<1>2. /\ SchedulerStops /\ Issued' = Issued
      /\ mover' = [d \in Device |-> None]
      /\ halted' = Issued \cup {q \in Procedure : proc[q].at # "absent"}
  BY DEF StopAllRuns, StopPending, StopMotion, SchedulerStops, InterruptedDevices, Issued
<1>3. \A q \in Procedure :
        /\ proc[q].at # "absent" => proc'[q].at # "absent"
        /\ proc[q].at # "absent" =>
             proc'[q].at \in {"report", "gone", "dropped"} \/ q \in doomed'
  <2> SUFFICES ASSUME NEW q \in Procedure, proc[q].at # "absent"
               PROVE  /\ proc'[q].at # "absent"
                      /\ proc'[q].at \in {"report", "gone", "dropped"} \/ q \in doomed'
    OBVIOUS
  <2>0. proc[q] \in Run /\ proc[q].at \in Stage
    BY <1>1 DEF ManagerTypes, Run
  <2>1. CASE q = p
    <3>1. proc'[q].at = "report"
      BY <2>0, <2>1 DEF StopAllRuns, Run
    <3>. QED BY <3>1
  <2>2. CASE q # p /\ proc[q].at = "created"
    <3>1. proc'[q].at = "dropped"
      BY <2>0, <2>2 DEF StopAllRuns, Others, Run
    <3>. QED BY <3>1
  <2>3. CASE q # p /\ proc[q].at # "created"
    <3>1. proc'[q] = proc[q] /\ (proc[q].at \in Suspended => q \in doomed')
      BY <2>3 DEF StopAllRuns, Others
    <3>. QED BY <2>0, <2>3, <3>1 DEF Stage
  <2>. QED BY <2>1, <2>2, <2>3
<1>4. HaltedExist'
  BY <1>2, <1>3 DEF HaltedExist
<1>5. HaltedCommands'
  <2>1. ASSUME NEW c \in Command, NEW d \in Device, Waiting(c, d)'
        PROVE  c \in cancelled'
    <3>1. Waiting(c, d)
      BY <1>2, <2>1 DEF SchedulerStops, CancelExec, Waiting, AtGate
    <3>2. c \in Issued
      BY <1>1, <3>1 DEF TrackInv, Conservation, Waiting, Present
    <3>3. info[c].client \in Client
      BY <1>1, <3>2 DEF Issued, TypeOK, Info
    <3>. QED BY <1>1, <1>2, <3>1, <3>3 DEF WaitingIsTracked, SchedulerStops, WithdrawAll
  <2>2. \A d \in Device : phase'[d] \notin {"starting", "running"}
    BY <1>2 DEF SchedulerStops, CancelExec
  <2>. QED BY <2>1, <2>2 DEF HaltedCommands
<1>6. HaltedProcedures'
  <2>1. \A q \in Procedure \cap halted' : proc[q].at # "absent"
    BY <1>2 DEF Issued
  <2>. QED BY <1>3, <2>1 DEF HaltedProcedures
<1>7. StopHolds'
  BY <1>2 DEF StopHolds, Issued
<1>. QED BY <1>4, <1>5, <1>6, <1>7 DEF StopInv

(* Any other step: a procedure that goes on is not halted, and what moves  *)
(* a device now moved it before, or is not halted.                         *)
LEMMA StillStopped ==
  ASSUME BaseInv, StopInv, halted' = halted, [Next]_vars,
         \A q \in Procedure :
           /\ proc[q].at # "absent" => proc'[q].at # "absent"
           /\ q \in halted =>
                \/ proc'[q].at \in {"report", "gone", "dropped"}
                \/ q \in doomed'
         ,
         \A d \in Device : mover'[d] = mover[d] \/ mover'[d] \notin halted
  PROVE  StopInv'
<1>1. TrackInv /\ TypeOK
  BY DEF BaseInv, OrderInv, TrackInv, TypeInv
<1>2. Command \cap Procedure = {}
  BY ManagerAssumption
<1>3. HaltedExist'
  BY <1>1, IssuedStay DEF StopInv, HaltedExist
<1>4. HaltedCommands'
  <2>1. Command \cap halted \subseteq Issued
    BY <1>2 DEF StopInv, HaltedExist
  <2>. QED BY <1>1, <2>1, StepHaltedCommands DEF StopInv
<1>5. HaltedProcedures' /\ StopHolds'
  BY DEF StopInv, HaltedProcedures, StopHolds
<1>. QED BY <1>3, <1>4, <1>5 DEF StopInv

LEMMA StepStop == BaseInv /\ StopInv /\ [ManagerNext]_allVars => StopInv'
<1> SUFFICES ASSUME BaseInv, StopInv, [ManagerNext]_allVars
             PROVE  StopInv'
  OBVIOUS
<1>. USE ManagerAssumption, SchedulerAssumption
<1>1. ManagerTypes /\ TypeOK /\ WorkerConsistent
  BY DEF BaseInv, OrderInv, TrackInv, TypeInv
<1>2. None \notin halted /\ halted \subseteq Command \cup Procedure
  BY <1>1 DEF ManagerTypes
<1>3. [Next]_vars \/ SchedulerStops
  BY <1>1, SchedulerSteps
<1>4. \A q \in Procedure : q \in halted => /\ proc[q].at # "absent"
                                           /\ \/ proc[q].at \in {"report", "gone", "dropped"}
                                              \/ q \in doomed
  BY DEF StopInv, HaltedExist, HaltedProcedures, Issued
<1>5. ASSUME UNCHANGED <<proc, doomed, mover, halted>>, [Next]_vars
      PROVE  StopInv'
  BY <1>4, <1>5, StillStopped
<1>6. ASSUME NEW ps \in SUBSET Procedure, CancelTasks(ps), UNCHANGED <<mover, halted>>,
             [Next]_vars
      PROVE  StopInv'
  <2>1. \A q \in Procedure : proc'[q] = proc[q] \/ proc'[q].at = "dropped"
    BY <1>1, <1>6 DEF CancelTasks, ManagerTypes, Run
  <2>2. doomed \subseteq doomed'
    BY <1>6 DEF CancelTasks
  <2>. QED BY <1>4, <1>6, <2>1, <2>2, StillStopped
<1>7. ASSUME NEW p \in Procedure, p \notin halted \/ p \in doomed,
             UNCHANGED <<doomed, halted>>,
             proc'[p].at # "absent", \A q \in Procedure \ {p} : proc'[q] = proc[q],
             \A d \in Device :
               mover'[d] \in {mover[d], None} \/ (mover'[d] = p /\ p \notin halted),
             [Next]_vars
      PROVE  StopInv'
  BY <1>2, <1>4, <1>7, StillStopped
<1>7a. ASSUME NEW p \in Procedure, p \notin halted \/ p \in doomed,
              UNCHANGED <<doomed, mover, halted>>,
              proc'[p].at # "absent", \A q \in Procedure \ {p} : proc'[q] = proc[q],
              [Next]_vars
       PROVE  StopInv'
  BY <1>4, <1>7a, StillStopped
<1>8. \A p \in Procedure : proc[p].at \notin {"report", "gone", "dropped"} =>
        p \notin halted \/ p \in doomed
  BY <1>4
<1>9. ASSUME NEW u \in User, UserDisconnects(u)
      PROVE  StopInv'
  <2>1. [Next]_vars
    <3>1. u \in Client
      OBVIOUS
    <3>. QED BY <1>9, <3>1 DEF UserDisconnects, Next
  <2>. QED BY <1>6, <1>9, <2>1 DEF UserDisconnects, StartedBy
<1>10. ASSUME NEW p \in Procedure, CancelProcedure(p)
       PROVE  StopInv'
  <2>1. [Next]_vars /\ UNCHANGED <<mover, halted>> /\ CancelTasks({p})
    BY <1>10 DEF CancelProcedure
  <2>. QED BY <1>6, <2>1
<1>11. ASSUME NEW p \in Procedure, NEW u \in User, NEW name \in Registered,
              RunProcedure(p, u, name)
       PROVE  StopInv'
  <2>1. p \notin halted
    BY <1>4, <1>11 DEF RunProcedure
  <2>2. proc'[p].at # "absent"
    BY <1>1, <1>11 DEF RunProcedure, ManagerTypes, NoRun
  <2>. QED BY <1>1, <1>7, <1>11, <2>1, <2>2 DEF RunProcedure, ManagerTypes
<1>12. ASSUME NEW d \in Device, DeviceAdvances(d) \/ DriverStreams(d)
       PROVE  StopInv'
  <2>1. [Next]_vars
    BY <1>12 DEF DeviceAdvances, DriverStreams, WorkerAdvances, DriverStarts, DriverEnds,
       Worker, Next
  <2>2. UNCHANGED <<proc, doomed, halted>>
    BY <1>12 DEF DeviceAdvances, DriverStreams, WorkerAdvances, DriverStarts, DriverEnds
  <2>3. phase[d] \in {"starting", "running"} => held[d] \notin halted
    <3>1. phase[d] \in {"starting", "running"} => held[d] \in Command
      BY <1>1 DEF TypeOK, WorkerConsistent
    <3>. QED BY <3>1 DEF StopInv, HaltedCommands
  <2>4. \A e \in Device : mover'[e] = mover[e] \/ mover'[e] \notin halted
    <3>1. CASE WorkerAdvances(d)
      BY <3>1 DEF WorkerAdvances
    <3>2. CASE DriverStarts(d) \/ DriverEnds(d) \/ DriverStreams(d)
      <4>1. PICK m \in {held[d], None, mover[d]} :
              /\ mover' = [mover EXCEPT ![d] = m]
              /\ m = held[d] => phase[d] \in {"starting", "running"} \/ m \in {None, mover[d]}
        BY <3>2 DEF DriverStarts, DriverEnds, DriverStreams, ExecBegins
      <4>. QED BY <1>1, <1>2, <2>3, <4>1 DEF ManagerTypes
    <3>. QED BY <1>12, <3>1, <3>2 DEF DeviceAdvances
  <2>. QED BY <1>4, <2>1, <2>2, <2>4, StillStopped
<1>13. ASSUME NEW p \in Procedure, StopAllRuns(p)
       PROVE  StopInv'
  BY <1>13, StopAllStops
<1>14. ASSUME NEW p \in Procedure, SyncStarts(p) \/ SyncAdvances(p)
       PROVE  StopInv'
  <2>1. Next
    BY <1>1, <1>14, ProcedureSteps
  <2>2. p \notin halted \/ p \in doomed
    BY <1>8, <1>14 DEF SyncStarts, SyncAdvances
  <2>3. \E at \in Waits : \E c, taken :
          proc' = [proc EXCEPT ![p].at = at, ![p].taken = taken, ![p].awaits = c]
    <3>2. \E at \in {"beep", "left", "right"} : \E taken, ds : SyncSubmits(p, at, taken, ds)
      BY <1>14, Zenon DEF SyncStarts, SyncAdvances
    <3>3. PICK at \in {"beep", "left", "right"} : \E taken, ds : SyncSubmits(p, at, taken, ds)
      BY <3>2
    <3>4. PICK taken, ds : SyncSubmits(p, at, taken, ds)
      BY <3>3
    <3>5. PICK c : proc' = [proc EXCEPT ![p].at = at, ![p].taken = taken, ![p].awaits = c]
      BY <3>4 DEF SyncSubmits
    <3>. QED BY <3>5 DEF Waits
  <2>4. proc'[p].at # "absent" /\ \A q \in Procedure \ {p} : proc'[q] = proc[q]
    BY <1>1, <2>3 DEF ManagerTypes, Run, Waits
  <2>5. UNCHANGED <<doomed, mover, halted>>
    BY <1>14 DEF SyncStarts, SyncAdvances
  <2>6. [Next]_vars
    BY <2>1, <2>5
  <2>. QED BY <1>7a, <2>2, <2>4, <2>5, <2>6
<1>15. ASSUME NEW p \in Procedure,
              \/ SyncVerifies(p) \/ SyncEnds(p) \/ FindsNothing(p) \/ HomeStarts(p)
              \/ HomeAcquires(p)
       PROVE  StopInv'
  <2>1. p \notin halted \/ p \in doomed
    BY <1>8, <1>15 DEF SyncVerifies, SyncEnds, FindsNothing, HomeStarts, HomeAcquires
  <2>2. UNCHANGED <<vars, doomed, mover, halted>>
    BY <1>15 DEF SyncVerifies, SyncEnds, FindsNothing, HomeStarts, HomeAcquires
  <2>3. proc'[p].at # "absent" /\ \A q \in Procedure \ {p} : proc'[q] = proc[q]
    <3>1. CASE SyncVerifies(p)
      BY <1>1, <3>1 DEF SyncVerifies, ManagerTypes, Run
    <3>2. CASE SyncEnds(p)
      BY <1>1, <3>2 DEF SyncEnds, ManagerTypes, Run
    <3>3. CASE FindsNothing(p) \/ HomeStarts(p)
      BY <1>1, <3>3 DEF FindsNothing, HomeStarts, ManagerTypes, Run
    <3>4. CASE HomeAcquires(p)
      BY <1>1, <3>4 DEF HomeAcquires, ManagerTypes, Run
    <3>. QED BY <1>15, <3>1, <3>2, <3>3, <3>4
  <2>4. [Next]_vars
    BY <2>2
  <2>. QED BY <1>7a, <2>1, <2>2, <2>3, <2>4
<1>16. ASSUME NEW p \in Procedure, HomeSteers(p) \/ HomeDrivesNext(p) \/ HomeEnds(p)
       PROVE  StopInv'
  <2>1. p \notin halted
    BY <1>4, <1>16 DEF HomeSteers, HomeDrivesNext, HomeEnds
  <2>2. UNCHANGED <<vars, doomed, halted>>
    BY <1>16 DEF HomeSteers, HomeDrivesNext, HomeEnds
  <2>3. proc'[p].at # "absent" /\ \A q \in Procedure \ {p} : proc'[q] = proc[q]
    <3>1. CASE HomeSteers(p)
      BY <1>1, <3>1 DEF HomeSteers
    <3>2. CASE HomeDrivesNext(p)
      BY <1>1, <3>2 DEF HomeDrivesNext, ManagerTypes, Run
    <3>3. CASE HomeEnds(p)
      BY <1>1, <3>3 DEF HomeEnds, ManagerTypes, Run
    <3>. QED BY <1>16, <3>1, <3>2, <3>3
  <2>4. \A d \in Device : mover'[d] \in {mover[d], None, p}
    BY <1>1, <1>16 DEF HomeSteers, HomeDrivesNext, HomeEnds, Parked, StopTaken, ManagerTypes
  <2>. QED BY <1>7, <2>1, <2>2, <2>3, <2>4
<1>17. ASSUME NEW p \in Procedure, ProcReports(p) \/ ProcUnwinds(p)
       PROVE  StopInv'
  <2>1. CleanUp(p) /\ Next
    BY <1>1, <1>17, ProcedureSteps DEF ProcReports, ProcUnwinds
  <2>2. /\ halted' = halted /\ doomed' = doomed \ {p} /\ proc'[p].at = "gone"
        /\ \A q \in Procedure \ {p} : proc'[q] = proc[q]
    BY <1>1, <2>1 DEF CleanUp, ManagerTypes, Run, NoRun
  <2>3. \A d \in Device : mover'[d] \in {mover[d], None}
    BY <1>1, <1>17 DEF ProcReports, ProcUnwinds, StopTaken, ManagerTypes
  <2>. QED BY <1>2, <1>4, <2>1, <2>2, <2>3, StillStopped
<1>18. ASSUME NEW p \in Procedure, ProcAdvances(p)
       PROVE  StopInv'
  BY <1>13, <1>14, <1>15, <1>16, <1>17, <1>18 DEF ProcAdvances
<1>19. ASSUME \/ \E c \in UserCommand, u \in User, ds \in SUBSET Device, n \in Priority :
                   UserSubmits(c, u, ds, n)
              \/ \E c \in Command : UserCancels(c)
              \/ \E d \in Device : UserInterrupts(d) \/ DeviceDown(d) \/ DeviceUp(d)
              \/ \E u \in User, d \in Device : UserAcquires(u, d) \/ UserReleases(u, d)
              \/ ManagerShutdown
              \/ UNCHANGED allVars
       PROVE  StopInv'
  <2>1. UNCHANGED <<proc, doomed, mover, halted>>
    BY <1>19 DEF UserSubmits, UserCancels, UserInterrupts, DeviceDown, DeviceUp,
       UserAcquires, UserReleases, ManagerShutdown, allVars, managerVars
  <2>2. [Next]_vars
    <3>1. ASSUME NEW c \in UserCommand, NEW u \in User, NEW ds \in SUBSET Device,
                 NEW n \in Priority, UserSubmits(c, u, ds, n)
          PROVE  Next
      <4>1. c \in Command /\ u \in Client /\ Submit(c, u, ds, n)
        BY <3>1 DEF UserSubmits
      <4>. QED BY <4>1 DEF Next
    <3>2. ASSUME \/ \E c \in Command : UserCancels(c)
                 \/ \E d \in Device : UserInterrupts(d) \/ DeviceDown(d) \/ DeviceUp(d)
                 \/ ManagerShutdown
          PROVE  Next
      BY <3>2 DEF UserCancels, UserInterrupts, DeviceDown, DeviceUp, ManagerShutdown, Next
    <3>3. ASSUME \/ \E u \in User, d \in Device : UserAcquires(u, d) \/ UserReleases(u, d)
                 \/ UNCHANGED allVars
          PROVE  UNCHANGED vars
      BY <3>3 DEF UserAcquires, UserReleases, allVars
    <3>. QED BY <1>19, <3>1, <3>2, <3>3
  <2>. QED BY <1>5, <2>1, <2>2
<1>. QED
  BY <1>9, <1>10, <1>11, <1>12, <1>16, <1>18, <1>19 DEF ManagerNext

LEMMA InitStop == ManagerInit => StopInv
BY SchedulerAssumption
   DEF ManagerInit, StopInv, HaltedExist, HaltedCommands, HaltedProcedures, StopHolds

(* stop_all stops what it finds: until a newer command or procedure moves  *)
(* it, no device is moved by anything that existed at the last stop_all.   *)
THEOREM StopAllHolds == ManagerSpec => []StopHolds
<1>1. StopInv => StopHolds
  BY DEF StopInv
<1>. QED BY <1>1, InitBase, StepBase, InitStop, StepStop, PTL DEF ManagerSpec

(* And it stops what waits: no command that was made before a stop_all     *)
(* enters a driver after it.                                               *)
THEOREM StopAllIsFinal == ManagerSpec => HaltedNeverStart
<1>1. ASSUME BaseInv, StopInv, [ManagerNext]_allVars
      PROVE  [\A d \in Device : (driven'[d] \ driven[d]) \cap halted = {}]_allVars
  <2>1. TypeOK /\ WorkerConsistent /\ ManagerTypes
    BY <1>1 DEF BaseInv, OrderInv, TrackInv, TypeInv
  <2>2. ASSUME NEW d \in Device, ExecBegins(d)
        PROVE  \A e \in Device : (driven'[e] \ driven[e]) \cap halted = {}
    <3>1. phase[d] = "starting" /\ held[d] \in Command
      BY <2>1, <2>2 DEF ExecBegins, TypeOK, WorkerConsistent
    <3>2. held[d] \notin halted
      BY <1>1, <3>1 DEF StopInv, HaltedCommands
    <3>. QED BY <2>1, <2>2, <3>2 DEF ExecBegins, TypeOK
  <2>3. driven' = driven \/ \E d \in Device : ExecBegins(d)
    <3>1. ASSUME NEW d \in Device, Worker(d)
          PROVE  driven' = driven \/ ExecBegins(d)
      BY <3>1 DEF Worker, WorkerWakes, WorkerPassesGate, WorkerSkipsHeld, ExecEnds,
         WorkerSettles, WorkerStops
    <3>2. ASSUME \/ \E c \in Command, cl \in Client, ds \in SUBSET Device, n \in Priority :
                      Submit(c, cl, ds, n)
                 \/ \E c \in Command : Cancel(c)
                 \/ \E cl \in Client : CancelClientCommands(cl)
                 \/ CancelAllPending
                 \/ \E d \in Device : PauseDevice(d) \/ ResumeDevice(d) \/ InterruptDevice(d)
                 \/ InterruptAllDevices \/ Shutdown \/ UNCHANGED vars \/ SchedulerStops
          PROVE  driven' = driven
      BY <3>2 DEF Submit, Cancel, CancelClientCommands, CancelAllPending, PauseDevice,
         ResumeDevice, InterruptDevice, InterruptAllDevices, Shutdown, vars, SchedulerStops
    <3>. QED BY <1>1, <2>1, <3>1, <3>2, SchedulerSteps DEF Next
  <2>. QED BY <2>2, <2>3
<1>. QED BY <1>1, InitBase, StepBase, InitStop, StepStop, PTL DEF ManagerSpec, HaltedNeverStart

---------------------------------------------------------------------------
(* The self-test. Its phases stay in lockstep because a run makes its next *)
(* command only when it was woken, and it is woken exactly when the        *)
(* command it awaits has left its last device: the waiter's counter and    *)
(* the scheduler's agree, and whatever else wakes a run also cancels it.   *)

(* Command c left every device.                                            *)
Left(c) == \A d \in info[c].devices : settled[d][c] # "none"

Awaiting ==
  \A p \in Procedure :
    /\ proc[p].at \in Waits => /\ proc[p].taken # {}
                               /\ proc[p].awaits \in Issued
                               /\ p \in woken \/ waiters[proc[p].awaits] > 0
    /\ proc[p].at \notin Waits => proc[p].awaits = None

Counted == \A c \in Command : waiters[c] > 0 => waiters[c] = pendingCounts[c]

(* A run whose command is still somewhere awaits it, or makes no more.     *)
OneAtATime ==
  \A c \in Issued : info[c].client \in Procedure =>
    LET p == info[c].client IN
    \/ Left(c) \/ p \in doomed \/ proc[p].at = "gone"
    \/ proc[p].at \in Waits /\ proc[p].awaits = c /\ p \notin woken

SyncInv == Awaiting /\ Counted /\ OneAtATime /\ Lockstep

(* A step that settles nothing and makes nothing, in which a run stays     *)
(* where it is, or leaves its waits after its command left.                *)
LEMMA StillSync ==
  ASSUME SyncInv, UNCHANGED <<info, settled, pendingCounts, waiters>>,
         \A q \in Procedure :
           \/ /\ proc'[q] = proc[q] /\ (q \in woken' <=> q \in woken)
              /\ q \in doomed => q \in doomed'
           \/ /\ proc'[q].at \notin Waits /\ proc'[q].awaits = None
              /\ \/ proc'[q].at = "gone"
                 \/ /\ q \in doomed => q \in doomed'
                    /\ proc[q].at \notin Waits \cup {"gone"} \/ q \in woken
                    /\ proc[q].at # "gone"
  PROVE  SyncInv'
<1>1. Issued' = Issued /\ \A c : Left(c)' <=> Left(c)
  BY DEF Issued, Left
<1>2. Awaiting'
  <2> SUFFICES ASSUME NEW q \in Procedure
               PROVE  /\ proc'[q].at \in Waits => /\ proc'[q].taken # {}
                                                  /\ proc'[q].awaits \in Issued'
                                                  /\ \/ q \in woken'
                                                     \/ waiters'[proc'[q].awaits] > 0
                      /\ proc'[q].at \notin Waits => proc'[q].awaits = None
    BY DEF Awaiting
  <2>1. CASE proc'[q] = proc[q] /\ (q \in woken' <=> q \in woken)
    BY <1>1, <2>1 DEF SyncInv, Awaiting
  <2>2. CASE proc'[q].at \notin Waits /\ proc'[q].awaits = None
    BY <2>2
  <2>. QED BY <2>1, <2>2
<1>3. OneAtATime'
  <2> SUFFICES ASSUME NEW c \in Issued, info[c].client \in Procedure, ~Left(c)
               PROVE  LET p == info[c].client IN
                      \/ p \in doomed' \/ proc'[p].at = "gone"
                      \/ proc'[p].at \in Waits /\ proc'[p].awaits = c /\ p \notin woken'
    BY <1>1 DEF OneAtATime
  <2>. DEFINE p == info[c].client
  <2>1. \/ p \in doomed \/ proc[p].at = "gone"
        \/ proc[p].at \in Waits /\ proc[p].awaits = c /\ p \notin woken
    BY DEF SyncInv, OneAtATime
  <2>2. "gone" \notin Waits /\ p \in Procedure
    BY DEF Waits
  <2>. HIDE DEF p
  <2>3. \/ p \in doomed' \/ proc'[p].at = "gone"
        \/ proc'[p].at \in Waits /\ proc'[p].awaits = c /\ p \notin woken'
    <3>1. CASE proc'[p] = proc[p] /\ (p \in woken' <=> p \in woken)
               /\ (p \in doomed => p \in doomed')
      BY <2>1, <3>1
    <3>2. CASE proc'[p].at = "gone"
      BY <3>2
    <3>3. CASE /\ p \in doomed => p \in doomed'
               /\ proc[p].at \notin Waits \cup {"gone"} \/ p \in woken
               /\ proc[p].at # "gone"
      BY <2>1, <3>3
    <3>. QED BY <2>2, <3>1, <3>2, <3>3
  <2>. QED BY <2>3 DEF p
<1>4. Counted' /\ Lockstep'
  BY <1>1 DEF SyncInv, Counted, Lockstep
<1>. QED BY <1>2, <1>3, <1>4 DEF SyncInv

(* What a run of a worker reports as settled is what leaves the device,    *)
(* and the counters of these commands go down by one.                      *)
LEMMA RunSettles ==
  ASSUME TrackInv, NEW d \in Device, NEW cs, NEW ex, WorkerRun(d, cs, ex)
  PROVE  /\ SettledNow(d) = cs
         /\ \A c \in cs : pendingCounts[c] > 0 /\ pendingCounts'[c] = pendingCounts[c] - 1
         /\ \A c \in Command \ cs : pendingCounts'[c] = pendingCounts[c]
         /\ \A e \in Device, c \in Command : settled[e][c] # "none" => settled'[e][c] # "none"
<1>. USE DEF TrackInv, TypeInv, TypeOK
<1>1. /\ cs \subseteq Command /\ ex \subseteq cs
      /\ \A c \in cs : Present(c, d)
  BY DEF WorkerRun
<1>2. /\ \A c \in Command : settled'[d][c] = IF c \in ex THEN "executed"
                                            ELSE IF c \in cs THEN "skipped"
                                            ELSE settled[d][c]
      /\ \A e \in Device \ {d}, c \in Command : settled'[e][c] = settled[e][c]
  BY DEF WorkerRun, Settle
<1>3. \A c \in cs : settled[d][c] = "none"
  BY <1>1 DEF Conservation
<1>4. SettledNow(d) = cs
  BY <1>1, <1>2, <1>3 DEF SettledNow
<1>5. ASSUME NEW c \in cs
      PROVE  pendingCounts[c] \in Nat /\ pendingCounts[c] > 0
  <2>1. d \in Holders(c)
    BY <1>1 DEF Holders
  <2>2. pendingCounts[c] = Cardinality(Holders(c))
    BY <1>1 DEF PendingIsExact, Holders
  <2>3. Cardinality(Holders(c)) # 0
    BY <2>1, HoldersFinite, FS_EmptySet
  <2>. QED BY <2>2, <2>3, HoldersFinite
<1>6. \A c \in Command : pendingCounts'[c] = IF c \in cs /\ pendingCounts[c] <= 1 THEN 0
                                             ELSE IF c \in cs THEN pendingCounts[c] - 1
                                             ELSE pendingCounts[c]
  BY <1>1 DEF WorkerRun, Settle, LeavingLast
<1>7. \A c \in cs : pendingCounts'[c] = pendingCounts[c] - 1
  BY <1>1, <1>5, <1>6
<1>8. \A e \in Device, c \in Command : settled[e][c] # "none" => settled'[e][c] # "none"
  BY <1>2
<1>. QED BY <1>4, <1>5, <1>6, <1>7, <1>8

(* A command of which no device is counted any more left them all.         *)
LEMMA NoneIsLeft ==
  ASSUME TrackInv', NEW c \in Issued', pendingCounts'[c] = 0
  PROVE  Left(c)'
<1>1. c \in Command /\ info'[c].devices \subseteq Device
  BY DEF Issued, TrackInv, TypeInv, TypeOK, Info
<1>2. Cardinality({d \in Device : Present(c, d)'}) = 0
  BY <1>1 DEF TrackInv, PendingIsExact
<1>3. {d \in Device : Present(c, d)'} = {}
  <2>1. IsFiniteSet({d \in Device : Present(c, d)'})
    BY SchedulerAssumption, FS_Subset
  <2>. QED BY <1>2, <2>1, FS_EmptySet
<1>. QED BY <1>1, <1>3 DEF Left, TrackInv, Conservation

(* A command that was not made is counted nowhere.                         *)
LEMMA NewIsUncounted ==
  ASSUME TrackInv, NEW c \in Command \ Issued
  PROVE  pendingCounts[c] = 0
<1>1. Holders(c) = {}
  BY DEF Holders, TrackInv, Conservation
<1>2. Cardinality(Holders(c)) = 0
  BY <1>1, FS_EmptySet
<1>. QED BY <1>2 DEF TrackInv, PendingIsExact, Holders

(* A worker settles commands, and the waiters are told.                    *)
LEMMA SettlesSync ==
  ASSUME BaseInv, SyncInv, TrackInv', NEW d \in Device, NEW cs, NEW ex,
         WorkerRun(d, cs, ex), OnSettled(d), UNCHANGED <<proc, doomed>>
  PROVE  SyncInv'
<1>1. TrackInv /\ ManagerTypes
  BY DEF BaseInv, OrderInv
<1>2. info' = info /\ Issued' = Issued /\ Issued \subseteq Command /\ cs \subseteq Command
  BY DEF WorkerRun, Issued
<1>3. \A c \in Command : waiters'[c] = IF c \in cs /\ waiters[c] > 0 THEN waiters[c] - 1
                                       ELSE waiters[c]
  BY <1>1, RunSettles DEF OnSettled
<1>4. woken' = woken \cup {p \in Procedure : proc[p].awaits \in {c \in cs : waiters[c] = 1}}
  BY <1>1, RunSettles DEF OnSettled, WakeAll
<1>5. \A c \in Command : waiters[c] \in Nat
  BY <1>1 DEF ManagerTypes
<1>6. Counted'
  <2> SUFFICES ASSUME NEW c \in Command, waiters'[c] > 0
               PROVE  waiters'[c] = pendingCounts'[c]
    BY DEF Counted
  <2>1. waiters[c] > 0 /\ waiters[c] = pendingCounts[c]
    BY <1>3, <1>5 DEF SyncInv, Counted
  <2>. QED BY <1>1, <1>3, <2>1, RunSettles
<1>7. Awaiting'
  <2> SUFFICES ASSUME NEW p \in Procedure, proc[p].at \in Waits
               PROVE  p \in woken' \/ waiters'[proc[p].awaits] > 0
    BY <1>2 DEF SyncInv, Awaiting
  <2>1. proc[p].awaits \in Command /\ (p \in woken \/ waiters[proc[p].awaits] > 0)
    BY <1>2 DEF SyncInv, Awaiting
  <2>. QED BY <1>3, <1>4, <1>5, <2>1
<1>8. \A c \in Issued : Left(c) => Left(c)'
  <2>1. \A c \in Issued : info[c].devices \subseteq Device
    BY <1>1 DEF Issued, TrackInv, TypeInv, TypeOK, Info
  <2>. QED BY <1>1, <1>2, <2>1, RunSettles DEF Left
<1>9. OneAtATime'
  <2> SUFFICES ASSUME NEW c \in Issued, NEW p \in Procedure, info[c].client = p,
                      proc[p].at \in Waits, proc[p].awaits = c, p \notin woken, p \in woken'
               PROVE  Left(c)'
    BY <1>2, <1>8 DEF SyncInv, OneAtATime
  <2>1. c \in cs /\ waiters[c] = 1
    BY <1>4
  <2>2. pendingCounts[c] = 1
    BY <1>2, <2>1 DEF SyncInv, Counted
  <2>3. pendingCounts'[c] = 0
    BY <1>1, <2>1, <2>2, RunSettles
  <2>. QED BY <1>2, <2>3, NoneIsLeft
<1>10. Lockstep'
  <2>1. \A c \in Issued : info[c].devices \subseteq Device
    BY <1>1 DEF Issued, TrackInv, TypeInv, TypeOK, Info
  <2>. QED BY <1>1, <1>2, <2>1, RunSettles DEF SyncInv, Lockstep
<1>. QED BY <1>6, <1>7, <1>9, <1>10 DEF SyncInv

(* What making a command changes of the tables.                            *)
LEMMA SubmitMakes ==
  ASSUME TypeOK, NEW c \in Command, NEW cl \in Client, NEW ds \in SUBSET Device,
         NEW n \in Priority, Submit(c, cl, ds, n)
  PROVE  /\ c \notin Issued /\ Issued' = Issued \cup {c} /\ settled' = settled
         /\ info'[c].client = cl /\ info'[c].devices = ds
         /\ info'[c].stamp = Cardinality(Issued)
         /\ \A b \in Issued : b # c /\ info'[b] = info[b]
         /\ \A b \in Issued : Left(b)' <=> Left(b)
         /\ pendingCounts'[c] = Cardinality(ds)
         /\ \A b \in Command \ {c} : pendingCounts'[b] = pendingCounts[b]
<1>. DEFINE new == [client |-> cl, devices |-> ds, priority |-> n,
                    stamp |-> Cardinality(Issued)]
<1>1. new \in Info /\ new # None
  BY CardinalityType, SchedulerAssumption DEF Info
<1>2. new.client = cl /\ new.devices = ds /\ new.stamp = Cardinality(Issued)
  OBVIOUS
<1>3. info'[c] = new /\ \A b \in Command \ {c} : info'[b] = info[b]
  BY DEF Submit, TypeOK
<1>. HIDE DEF new
<1>4. c \notin Issued /\ Issued' = Issued \cup {c}
  BY <1>1, <1>3 DEF Issued, Submit
<1>5. \A b \in Issued : b # c /\ info'[b] = info[b]
  BY <1>3, <1>4 DEF Issued
<1>6. settled' = settled
  BY DEF Submit
<1>7. /\ pendingCounts'[c] = Cardinality(ds)
      /\ \A b \in Command \ {c} : pendingCounts'[b] = pendingCounts[b]
  BY DEF Submit, TypeOK, QueueCount
<1>8. \A b \in Issued : Left(b)' <=> Left(b)
  BY <1>5, <1>6 DEF Left
<1>. QED BY <1>2, <1>3, <1>4, <1>5, <1>6, <1>7, <1>8

(* The older commands of a client have left: a new one keeps the lockstep. *)
LEMMA SubmitLockstep ==
  ASSUME BaseInv, Lockstep, NEW c \in Command, NEW cl \in Client,
         NEW ds \in SUBSET Device, NEW n \in Priority, Submit(c, cl, ds, n),
         cl \in Procedure => \A b \in Issued : info[b].client = cl => Left(b)
  PROVE  Lockstep'
<1>1. TypeOK
  BY DEF BaseInv, OrderInv, TrackInv, TypeInv
<1>2. \A b \in Issued : info[b].stamp < Cardinality(Issued) /\ info[b].stamp \in Nat
  BY <1>1, SchedulerAssumption DEF BaseInv, OrderInv, TypeOK, Issued, Info
<1>3. Cardinality(Issued) \in Nat
  BY CardinalityType
<1> SUFFICES ASSUME NEW a \in Issued', NEW b \in Issued', info'[b].client \in Procedure,
                    info'[a].client = info'[b].client, info'[a].stamp < info'[b].stamp
             PROVE  \A d \in info'[a].devices : settled'[d][a] # "none"
  BY DEF Lockstep
<1>4. /\ c \notin Issued /\ Issued' = Issued \cup {c} /\ settled' = settled
      /\ info'[c].client = cl /\ info'[c].stamp = Cardinality(Issued)
      /\ \A e \in Issued : info'[e] = info[e]
  BY <1>1, SubmitMakes
<1>5. CASE a \in Issued /\ b \in Issued
  BY <1>4, <1>5 DEF Lockstep
<1>6. CASE a \in Issued /\ b = c
  BY <1>4, <1>6 DEF Left
<1>7. CASE a = c
  BY <1>2, <1>3, <1>4, <1>7
<1>. QED BY <1>4, <1>5, <1>6, <1>7

(* A command of a user is none of a procedure's.                           *)
LEMMA UserSubmitSync ==
  ASSUME BaseInv, SyncInv, NEW c \in UserCommand, NEW u \in User, NEW ds \in SUBSET Device,
         NEW n \in Priority, UserSubmits(c, u, ds, n)
  PROVE  SyncInv'
<1>1. TrackInv /\ TypeOK /\ ManagerTypes
  BY DEF BaseInv, OrderInv, TrackInv, TypeInv
<1>2. /\ c \in Command /\ u \in Client /\ u \notin Procedure /\ Submit(c, u, ds, n)
      /\ UNCHANGED <<waiters, proc, woken, doomed>>
  BY ManagerAssumption DEF UserSubmits, managerVars
<1>3. /\ c \notin Issued /\ Issued' = Issued \cup {c} /\ info'[c].client = u
      /\ \A b \in Issued : info'[b] = info[b]
      /\ \A b \in Issued : Left(b)' <=> Left(b)
      /\ \A b \in Command \ {c} : pendingCounts'[b] = pendingCounts[b]
  BY <1>1, <1>2, SubmitMakes
<1>4. Counted'
  <2>1. waiters[c] \in Nat /\ pendingCounts[c] = 0
    BY <1>1, <1>2, <1>3, NewIsUncounted DEF ManagerTypes
  <2>2. ~(waiters[c] > 0)
    BY <1>2, <2>1 DEF SyncInv, Counted
  <2>. QED BY <1>2, <1>3, <2>2 DEF SyncInv, Counted
<1>5. Awaiting'
  BY <1>2, <1>3 DEF SyncInv, Awaiting
<1>6. OneAtATime'
  BY <1>2, <1>3 DEF SyncInv, OneAtATime
<1>7. Lockstep'
  BY <1>2, SubmitLockstep DEF SyncInv
<1>. QED BY <1>4, <1>5, <1>6, <1>7 DEF SyncInv

(* A procedure makes its next command, for some device, when the last one  *)
(* left every device.                                                      *)
LEMMA SyncSubmitsSync ==
  ASSUME BaseInv, SyncInv, NEW p \in Procedure, NEW at \in Waits,
         NEW taken \in SUBSET Device, NEW ds \in SUBSET Device,
         SyncSubmits(p, at, taken, ds), taken # {}, ds # {}, doomed' = doomed,
         \A b \in Issued : info[b].client = p => Left(b)
  PROVE  SyncInv'
<1>1. TrackInv /\ TypeOK /\ ManagerTypes
  BY DEF BaseInv, OrderInv, TrackInv, TypeInv
<1>2. PICK c \in Command :
        /\ Submit(c, p, ds, SyncPriority)
        /\ waiters' = [waiters EXCEPT ![c] = Cardinality(ds)]
        /\ woken' = woken \ {p}
        /\ proc' = [proc EXCEPT ![p].at = at, ![p].taken = taken, ![p].awaits = c]
  BY DEF SyncSubmits
<1>3. p \in Client /\ SyncPriority \in Priority /\ None \notin Command
  BY ManagerAssumption, SchedulerAssumption
<1>4. /\ c \notin Issued /\ Issued' = Issued \cup {c} /\ info'[c].client = p
      /\ \A b \in Issued : b # c /\ info'[b] = info[b]
      /\ \A b \in Issued : Left(b)' <=> Left(b)
      /\ pendingCounts'[c] = Cardinality(ds)
      /\ \A b \in Command \ {c} : pendingCounts'[b] = pendingCounts[b]
  BY <1>1, <1>2, <1>3, SubmitMakes
<1>5. /\ proc'[p].at = at /\ proc'[p].taken = taken /\ proc'[p].awaits = c
      /\ \A q \in Procedure \ {p} : proc'[q] = proc[q]
  BY <1>1, <1>2 DEF ManagerTypes, Run
<1>6. /\ waiters'[c] = Cardinality(ds) /\ Cardinality(ds) > 0
      /\ \A b \in Command \ {c} : waiters'[b] = waiters[b]
  <2>1. Cardinality(ds) \in Nat /\ Cardinality(ds) # 0
    <3>1. IsFiniteSet(ds)
      BY SchedulerAssumption, FS_Subset
    <3>. QED BY <3>1, FS_EmptySet, FS_CardinalityType
  <2>2. /\ waiters'[c] = Cardinality(ds)
        /\ \A b \in Command \ {c} : waiters'[b] = waiters[b]
    BY <1>1, <1>2 DEF ManagerTypes
  <2>. QED BY <2>1, <2>2
<1>7. Counted'
  <2> SUFFICES ASSUME NEW b \in Command, waiters'[b] > 0
               PROVE  waiters'[b] = pendingCounts'[b]
    BY DEF Counted
  <2>1. CASE b = c
    BY <1>4, <1>6, <2>1
  <2>2. CASE b # c
    BY <1>4, <1>6, <2>2 DEF SyncInv, Counted
  <2>. QED BY <2>1, <2>2
<1>8. Awaiting'
  <2> SUFFICES ASSUME NEW q \in Procedure
               PROVE  /\ proc'[q].at \in Waits => /\ proc'[q].taken # {}
                                                  /\ proc'[q].awaits \in Issued'
                                                  /\ \/ q \in woken'
                                                     \/ waiters'[proc'[q].awaits] > 0
                      /\ proc'[q].at \notin Waits => proc'[q].awaits = None
    BY DEF Awaiting
  <2>1. CASE q = p
    BY <1>4, <1>5, <1>6, <2>1
  <2>2. CASE q # p
    <3>1. proc'[q] = proc[q] /\ (q \in woken => q \in woken')
      BY <1>2, <1>5, <2>2
    <3>2. \A b \in Issued : waiters'[b] = waiters[b]
      BY <1>4, <1>6 DEF Issued
    <3>. QED BY <1>4, <3>1, <3>2 DEF SyncInv, Awaiting
  <2>. QED BY <2>1, <2>2
<1>9. OneAtATime'
  <2> SUFFICES ASSUME NEW b \in Issued', NEW q \in Procedure, info'[b].client = q
               PROVE  \/ Left(b)' \/ q \in doomed \/ proc'[q].at = "gone"
                      \/ proc'[q].at \in Waits /\ proc'[q].awaits = b /\ q \notin woken'
    BY DEF OneAtATime
  <2>1. CASE b = c
    BY <1>2, <1>4, <1>5, <2>1
  <2>2. CASE b # c /\ q = p
    BY <1>4, <2>2
  <2>3. CASE b # c /\ q # p
    <3>1. b \in Issued /\ info[b].client = q /\ (Left(b)' <=> Left(b))
      BY <1>4, <2>3
    <3>2. proc'[q] = proc[q] /\ (q \in woken' <=> q \in woken)
      BY <1>2, <1>5, <2>3
    <3>. QED BY <3>1, <3>2 DEF SyncInv, OneAtATime
  <2>. QED BY <2>1, <2>2, <2>3
<1>10. Lockstep'
  BY <1>2, <1>3, SubmitLockstep DEF SyncInv
<1>. QED BY <1>7, <1>8, <1>9, <1>10 DEF SyncInv

(* stop_all wakes every run that awaits a command, and cancels them all.   *)
LEMMA StopAllSync ==
  ASSUME BaseInv, SyncInv, NEW p \in Procedure, StopAllRuns(p)
  PROVE  SyncInv'
<1>1. ManagerTypes
  BY DEF BaseInv
<1>2. /\ UNCHANGED <<info, settled, pendingCounts>>
      /\ waiters' = [c \in Command |-> 0]
      /\ woken' = woken \cup {q \in Procedure : proc[q].awaits \in {c \in Command : waiters[c] > 0}}
      /\ doomed' = doomed \cup {q \in Procedure \ {p} : proc[q].at \in Suspended}
  BY DEF StopAllRuns, StopPending, WakeAll, Others
<1>3. Issued' = Issued /\ Issued \subseteq Command /\ \A c : Left(c)' <=> Left(c)
  BY <1>2 DEF Issued, Left
<1>4. ASSUME NEW q \in Procedure
      PROVE  \/ proc'[q] = proc[q] /\ (proc[q].at \in Waits => q \in woken' /\ q \in doomed')
             \/ /\ proc[q].at = "created" /\ proc'[q].at \in {"report", "dropped"}
                /\ proc'[q].awaits = proc[q].awaits
  <2>1. CASE q = p \/ proc[q].at = "created"
    <3>1. proc[q].at = "created"
      BY <2>1 DEF StopAllRuns
    <3>. QED BY <1>1, <3>1 DEF StopAllRuns, Others, ManagerTypes, Run
  <2>2. CASE q # p /\ proc[q].at # "created"
    <3>1. proc'[q] = proc[q]
      BY <2>2 DEF StopAllRuns, Others
    <3>2. ASSUME proc[q].at \in Waits
          PROVE  q \in woken' /\ q \in doomed'
      <4>1. q \in doomed'
        BY <1>2, <2>2, <3>2 DEF Suspended
      <4>2. q \in woken \/ waiters[proc[q].awaits] > 0
        BY <3>2 DEF SyncInv, Awaiting
      <4>3. proc[q].awaits \in Command
        BY <1>3, <3>2 DEF SyncInv, Awaiting
      <4>. QED BY <1>2, <4>1, <4>2, <4>3
    <3>. QED BY <3>1, <3>2
  <2>. QED BY <2>1, <2>2
<1>5. Awaiting'
  <2> SUFFICES ASSUME NEW q \in Procedure
               PROVE  /\ proc'[q].at \in Waits => /\ proc'[q].taken # {}
                                                  /\ proc'[q].awaits \in Issued'
                                                  /\ q \in woken'
                      /\ proc'[q].at \notin Waits => proc'[q].awaits = None
    BY DEF Awaiting
  <2>. QED BY <1>3, <1>4 DEF SyncInv, Awaiting, Waits
<1>6. Counted'
  BY <1>2 DEF Counted
<1>7. OneAtATime'
  <2> SUFFICES ASSUME NEW b \in Issued, NEW q \in Procedure, info[b].client = q, ~Left(b)
               PROVE  q \in doomed' \/ proc'[q].at = "gone"
    BY <1>2, <1>3 DEF OneAtATime
  <2>1. q \in doomed \/ proc[q].at = "gone" \/ proc[q].at \in Waits
    BY DEF SyncInv, OneAtATime
  <2>2. q \in doomed => q \in doomed'
    BY <1>2
  <2>. QED BY <1>4, <2>1, <2>2 DEF Waits
<1>8. Lockstep'
  BY <1>2, <1>3 DEF SyncInv, Lockstep
<1>. QED BY <1>5, <1>6, <1>7, <1>8 DEF SyncInv

(* Only tasks that took their first step are told of a cancellation.       *)
DoomedLate == \A p \in Procedure : proc[p].at \in {"absent", "created"} => p \notin doomed

LEMMA StepDoomed == ManagerTypes /\ DoomedLate /\ [ManagerNext]_allVars => DoomedLate'
<1> SUFFICES ASSUME ManagerTypes, DoomedLate, [ManagerNext]_allVars
             PROVE  DoomedLate'
  OBVIOUS
<1>1. {"absent", "created"} \cap Suspended = {}
  BY DEF Suspended, Waits
<1>2. ASSUME UNCHANGED <<proc, doomed>>
      PROVE  DoomedLate'
  BY <1>2 DEF DoomedLate
<1>3. ASSUME NEW p \in Procedure, UNCHANGED doomed, proc'[p].at \notin {"absent", "created"},
             \A q \in Procedure \ {p} : proc'[q] = proc[q]
      PROVE  DoomedLate'
  BY <1>3 DEF DoomedLate
<1>4. ASSUME NEW ps, CancelTasks(ps)
      PROVE  DoomedLate'
  <2>1. \A q \in Procedure : proc'[q] = proc[q] \/ proc'[q].at = "dropped"
    BY <1>4 DEF CancelTasks, ManagerTypes, Run
  <2>2. \A q \in Procedure : q \in doomed' => q \in doomed \/ proc[q].at \in Suspended
    BY <1>4 DEF CancelTasks
  <2>. QED BY <1>1, <2>1, <2>2 DEF DoomedLate
<1>5. ASSUME NEW p \in Procedure, NEW u \in User, NEW name \in Registered,
             RunProcedure(p, u, name)
      PROVE  DoomedLate'
  <2>1. p \notin doomed /\ doomed' = doomed
    BY <1>5 DEF RunProcedure, DoomedLate
  <2>2. \A q \in Procedure \ {p} : proc'[q] = proc[q]
    BY <1>5 DEF RunProcedure, ManagerTypes
  <2>. QED BY <2>1, <2>2 DEF DoomedLate
<1>6. ASSUME NEW p \in Procedure, StopAllRuns(p)
      PROVE  DoomedLate'
  <2>1. \A q \in Procedure : proc'[q] = proc[q] \/ proc'[q].at \in {"report", "dropped"}
    BY <1>6 DEF StopAllRuns, ManagerTypes, Run
  <2>2. \A q \in Procedure : q \in doomed' => q \in doomed \/ proc[q].at \in Suspended
    BY <1>6 DEF StopAllRuns
  <2>. QED BY <1>1, <2>1, <2>2 DEF DoomedLate
<1>7. ASSUME NEW p \in Procedure, SyncStarts(p) \/ SyncAdvances(p)
      PROVE  DoomedLate'
  <2>1. PICK at \in {"beep", "left", "right"} : \E taken, ds : SyncSubmits(p, at, taken, ds)
    BY <1>7, Zenon DEF SyncStarts, SyncAdvances
  <2>2. PICK taken, ds : SyncSubmits(p, at, taken, ds)
    BY <2>1
  <2>3. PICK c : proc' = [proc EXCEPT ![p].at = at, ![p].taken = taken, ![p].awaits = c]
    BY <2>2 DEF SyncSubmits
  <2>4. /\ proc'[p].at \notin {"absent", "created"} /\ doomed' = doomed
        /\ \A q \in Procedure \ {p} : proc'[q] = proc[q]
    <3>1. proc'[p].at = at
      BY <2>3 DEF ManagerTypes, Run
    <3>2. doomed' = doomed
      BY <1>7 DEF SyncStarts, SyncAdvances
    <3>. QED BY <2>3, <3>1, <3>2 DEF ManagerTypes
  <2>. QED BY <1>3, <2>4
<1>8. ASSUME NEW p \in Procedure,
             \/ SyncVerifies(p) \/ SyncEnds(p) \/ FindsNothing(p) \/ HomeStarts(p)
             \/ HomeAcquires(p) \/ HomeDrivesNext(p) \/ HomeEnds(p)
      PROVE  DoomedLate'
  <2>1. doomed' = doomed
    BY <1>8 DEF SyncVerifies, SyncEnds, FindsNothing, HomeStarts, HomeAcquires,
       HomeDrivesNext, HomeEnds
  <2>2. proc'[p].at \notin {"absent", "created"} /\ \A q \in Procedure \ {p} : proc'[q] = proc[q]
    <3>1. CASE SyncVerifies(p)
      BY <3>1 DEF SyncVerifies, ManagerTypes, Run
    <3>2. CASE SyncEnds(p)
      BY <3>2 DEF SyncEnds, ManagerTypes, Run
    <3>3. CASE FindsNothing(p) \/ HomeStarts(p)
      BY <3>3 DEF FindsNothing, HomeStarts, ManagerTypes, Run
    <3>4. CASE HomeAcquires(p)
      BY <3>4 DEF HomeAcquires, ManagerTypes, Run
    <3>5. CASE HomeDrivesNext(p)
      BY <3>5 DEF HomeDrivesNext, ManagerTypes, Run
    <3>6. CASE HomeEnds(p)
      BY <3>6 DEF HomeEnds, ManagerTypes, Run
    <3>. QED BY <1>8, <3>1, <3>2, <3>3, <3>4, <3>5, <3>6
  <2>. QED BY <1>3, <2>1, <2>2
<1>9. ASSUME NEW p \in Procedure, ProcReports(p) \/ ProcUnwinds(p)
      PROVE  DoomedLate'
  <2>1. CleanUp(p)
    BY <1>9 DEF ProcReports, ProcUnwinds
  <2>2. /\ proc'[p].at = "gone" /\ doomed' \subseteq doomed
        /\ \A q \in Procedure \ {p} : proc'[q] = proc[q]
    BY <2>1 DEF CleanUp, ManagerTypes, Run, NoRun
  <2>. QED BY <2>2 DEF DoomedLate
<1>10. ASSUME NEW p \in Procedure, ProcAdvances(p)
       PROVE  DoomedLate'
  BY <1>6, <1>7, <1>8, <1>9, <1>10 DEF ProcAdvances
<1>11. ASSUME \/ \E c \in UserCommand, u \in User, ds \in SUBSET Device, n \in Priority :
                   UserSubmits(c, u, ds, n)
              \/ \E c \in Command : UserCancels(c)
              \/ \E d \in Device : UserInterrupts(d) \/ DeviceDown(d) \/ DeviceUp(d)
              \/ \E u \in User, d \in Device : UserAcquires(u, d) \/ UserReleases(u, d)
              \/ ManagerShutdown
              \/ \E p \in Procedure : HomeSteers(p)
              \/ UNCHANGED allVars
       PROVE  UNCHANGED <<proc, doomed>>
  BY <1>11 DEF UserSubmits, UserCancels, UserInterrupts, DeviceDown, DeviceUp,
     UserAcquires, UserReleases, ManagerShutdown, HomeSteers, allVars, managerVars
<1>12. ASSUME NEW d \in Device, DeviceAdvances(d) \/ DriverStreams(d)
       PROVE  UNCHANGED <<proc, doomed>>
  BY <1>12 DEF DeviceAdvances, DriverStreams, WorkerAdvances, DriverStarts, DriverEnds
<1>13. ASSUME \/ \E u \in User : UserDisconnects(u)
              \/ \E p \in Procedure : CancelProcedure(p)
       PROVE  \E ps : CancelTasks(ps)
  BY <1>13 DEF UserDisconnects, CancelProcedure
<1>. QED
  BY <1>2, <1>4, <1>5, <1>10, <1>11, <1>12, <1>13 DEF ManagerNext

LEMMA StepSync == BaseInv /\ DoomedLate /\ SyncInv /\ [ManagerNext]_allVars => SyncInv'
<1> SUFFICES ASSUME BaseInv, DoomedLate, SyncInv, [ManagerNext]_allVars
             PROVE  SyncInv'
  OBVIOUS
<1>1. TrackInv /\ TypeOK /\ ManagerTypes /\ TrackInv'
  BY StepBase DEF BaseInv, OrderInv, TrackInv, TypeInv
<1>2. ASSUME UNCHANGED <<info, settled, pendingCounts, waiters, proc, woken, doomed>>
      PROVE  SyncInv'
  BY <1>2, StillSync
<1>3. ASSUME UNCHANGED <<info, settled, pendingCounts, waiters, woken, doomed>>,
             NEW p \in Procedure, \A q \in Procedure \ {p} : proc'[q] = proc[q],
             proc[p].at \notin Waits \cup {"gone"}, proc'[p].at \notin Waits,
             proc'[p].awaits = proc[p].awaits
      PROVE  SyncInv'
  <2>1. proc[p].awaits = None
    BY <1>3 DEF SyncInv, Awaiting
  <2>. QED BY <1>3, <2>1, StillSync
<1>4. ASSUME UNCHANGED <<info, settled, pendingCounts, waiters, woken>>,
             NEW ps \in SUBSET Procedure, CancelTasks(ps)
      PROVE  SyncInv'
  <2>1. doomed \subseteq doomed'
    BY <1>4 DEF CancelTasks
  <2>2. ASSUME NEW q \in Procedure
        PROVE  \/ proc'[q] = proc[q]
               \/ /\ proc[q].at = "created" /\ proc'[q].at = "dropped"
                  /\ proc'[q].awaits = None
    <3>1. CASE q \in ps /\ proc[q].at = "created"
      <4>1. proc[q].awaits = None
        BY <3>1 DEF SyncInv, Awaiting, Waits
      <4>. QED BY <1>1, <1>4, <3>1, <4>1 DEF CancelTasks, ManagerTypes, Run
    <3>2. CASE ~(q \in ps /\ proc[q].at = "created")
      BY <1>4, <3>2 DEF CancelTasks
    <3>. QED BY <3>1, <3>2
  <2>3. {"created", "dropped"} \cap (Waits \cup {"gone"}) = {}
    BY DEF Waits
  <2>4. ASSUME NEW q \in Procedure
        PROVE  \/ proc'[q] = proc[q]
               \/ /\ proc[q].at \notin Waits \cup {"gone"} /\ proc'[q].at \notin Waits
                  /\ proc[q].at # "gone" /\ proc'[q].awaits = None
    BY <2>2, <2>3
  <2>. QED BY <1>4, <2>1, <2>4, StillSync
<1>5. ASSUME NEW u \in User, UserDisconnects(u)
      PROVE  SyncInv'
  BY <1>4, <1>5 DEF UserDisconnects, CancelClientCommands, StartedBy
<1>6. ASSUME NEW p \in Procedure, CancelProcedure(p)
      PROVE  SyncInv'
  <2>1. UNCHANGED <<info, settled, pendingCounts, waiters, woken>> /\ CancelTasks({p})
    BY <1>6 DEF CancelProcedure, vars
  <2>. QED BY <1>4, <2>1
<1>7. ASSUME NEW p \in Procedure, NEW u \in User, NEW name \in Registered,
             RunProcedure(p, u, name)
      PROVE  SyncInv'
  <2>1. proc[p].awaits = None
    BY <1>7 DEF RunProcedure, SyncInv, Awaiting, Waits
  <2>. QED BY <1>1, <1>3, <1>7, <2>1 DEF RunProcedure, vars, ManagerTypes, NoRun, Waits
<1>8. ASSUME NEW d \in Device, WorkerAdvances(d)
      PROVE  SyncInv'
  <2>1. OnSettled(d) /\ UNCHANGED <<proc, doomed>>
    BY <1>8 DEF WorkerAdvances
  <2>2. CASE WorkerWakes(d) \/ WorkerSkipsHeld(d) \/ WorkerSettles(d) \/ WorkerStops(d)
    <3>1. PICK cs, ex : WorkerRun(d, cs, ex)
      BY <1>1, <2>2, WorkerRuns
    <3>. QED BY <1>1, <2>1, <3>1, SettlesSync
  <2>3. CASE WorkerPassesGate(d)
    <3>1. UNCHANGED <<info, settled, pendingCounts>>
      BY <2>3 DEF WorkerPassesGate
    <3>2. SettledNow(d) = {}
      BY <3>1 DEF SettledNow
    <3>3. waiters' = waiters /\ woken' = woken
      BY <1>1, <2>1, <3>2 DEF OnSettled, WakeAll, ManagerTypes
    <3>. QED BY <1>2, <2>1, <3>1, <3>3
  <2>. QED BY <1>8, <2>2, <2>3 DEF WorkerAdvances
<1>9. ASSUME NEW d \in Device, DriverStarts(d) \/ DriverStreams(d) \/ DriverEnds(d)
      PROVE  SyncInv'
  BY <1>2, <1>9 DEF DriverStarts, DriverStreams, DriverEnds, ExecBegins, ExecEnds, vars
<1>10. ASSUME NEW p \in Procedure, SyncStarts(p)
       PROVE  SyncInv'
  <2>1. \A b \in Issued : info[b].client = p => Left(b)
    BY <1>10 DEF SyncStarts, SyncInv, OneAtATime, Waits, DoomedLate
  <2>2. Reachable(p) \in SUBSET Device /\ Reachable(p) # {} /\ doomed' = doomed
    BY <1>1, <1>10, TakenAreDevices DEF SyncStarts
  <2>3. CASE /\ Reachable(p) \cap Beeper # {}
             /\ SyncSubmits(p, "beep", Reachable(p), Reachable(p) \cap Beeper)
    BY <2>1, <2>2, <2>3, SyncSubmitsSync DEF Waits
  <2>4. CASE SyncSubmits(p, "left", Reachable(p), Reachable(p))
    BY <2>1, <2>2, <2>4, SyncSubmitsSync DEF Waits
  <2>. QED BY <1>10, <2>3, <2>4, Zenon DEF SyncStarts
<1>11. ASSUME NEW p \in Procedure, SyncAdvances(p)
       PROVE  SyncInv'
  <2>1. /\ p \in woken \ doomed /\ proc[p].at \in {"beep", "left"} /\ doomed' = doomed
        /\ \E at \in Waits : SyncSubmits(p, at, proc[p].taken, proc[p].taken)
    BY <1>11 DEF SyncAdvances, Waits
  <2>2. \A b \in Issued : info[b].client = p => Left(b)
    BY <2>1 DEF SyncInv, OneAtATime
  <2>3. proc[p].taken \in SUBSET Device /\ proc[p].taken # {}
    BY <1>1, <2>1, TakenAreDevices DEF SyncInv, Awaiting, Waits
  <2>. QED BY <2>1, <2>2, <2>3, SyncSubmitsSync
<1>12. ASSUME NEW p \in Procedure, SyncVerifies(p)
       PROVE  SyncInv'
  <2>1. /\ p \in woken \ doomed /\ proc[p].at = "right" /\ woken' = woken \ {p}
        /\ UNCHANGED <<info, settled, pendingCounts, waiters, doomed>>
    BY <1>12 DEF SyncVerifies, vars
  <2>2. /\ proc'[p].at = "verify" /\ proc'[p].awaits = None
        /\ \A q \in Procedure \ {p} : proc'[q] = proc[q]
    BY <1>1, <1>12 DEF SyncVerifies, ManagerTypes, Run
  <2>3. "verify" \notin Waits
    BY DEF Waits
  <2>. QED BY <2>1, <2>2, <2>3, StillSync
<1>13. ASSUME NEW p \in Procedure,
              \/ SyncEnds(p) \/ FindsNothing(p) \/ HomeStarts(p) \/ HomeAcquires(p)
              \/ HomeDrivesNext(p) \/ HomeEnds(p)
       PROVE  SyncInv'
  <2>1. /\ UNCHANGED <<info, settled, pendingCounts, waiters, woken, doomed>>
        /\ proc[p].at \in {"created", "verify", "locate", "drive"}
    BY <1>13 DEF SyncEnds, FindsNothing, HomeStarts, HomeAcquires, HomeDrivesNext, HomeEnds,
       vars
  <2>2. /\ proc'[p].at \in {"report", "locate", "drive"} /\ proc'[p].awaits = proc[p].awaits
        /\ \A q \in Procedure \ {p} : proc'[q] = proc[q]
    <3>1. CASE SyncEnds(p)
      BY <1>1, <3>1 DEF SyncEnds, ManagerTypes, Run
    <3>2. CASE FindsNothing(p) \/ HomeStarts(p)
      BY <1>1, <3>2 DEF FindsNothing, HomeStarts, ManagerTypes, Run
    <3>3. CASE HomeAcquires(p)
      BY <1>1, <3>3 DEF HomeAcquires, ManagerTypes, Run
    <3>4. CASE HomeDrivesNext(p)
      BY <1>1, <3>4 DEF HomeDrivesNext, ManagerTypes, Run
    <3>5. CASE HomeEnds(p)
      BY <1>1, <3>5 DEF HomeEnds, ManagerTypes, Run
    <3>. QED BY <1>13, <3>1, <3>2, <3>3, <3>4, <3>5
  <2>3. {"created", "verify", "locate", "drive", "report"} \cap (Waits \cup {"gone"}) = {}
    BY DEF Waits
  <2>. QED BY <1>3, <2>1, <2>2, <2>3
<1>14. ASSUME NEW p \in Procedure, ProcReports(p) \/ ProcUnwinds(p)
       PROVE  SyncInv'
  <2>1. CleanUp(p)
    BY <1>14 DEF ProcReports, ProcUnwinds
  <2>2. /\ UNCHANGED <<info, settled, pendingCounts, waiters>>
        /\ woken' = woken \ {p} /\ doomed' = doomed \ {p}
    BY <2>1 DEF CleanUp, CancelClientCommands
  <2>3. /\ proc'[p].at = "gone" /\ proc'[p].awaits = None
        /\ \A q \in Procedure \ {p} : proc'[q] = proc[q]
    BY <1>1, <2>1 DEF CleanUp, ManagerTypes, Run, NoRun
  <2>4. "gone" \notin Waits
    BY DEF Waits
  <2>. QED BY <2>2, <2>3, <2>4, StillSync
<1>15. ASSUME NEW p \in Procedure, ProcAdvances(p)
       PROVE  SyncInv'
  BY <1>10, <1>11, <1>12, <1>13, <1>14, <1>15, StopAllSync DEF ProcAdvances
<1>16. ASSUME \/ \E c \in Command : UserCancels(c)
              \/ \E d \in Device : UserInterrupts(d) \/ DeviceDown(d) \/ DeviceUp(d)
              \/ \E u \in User, d \in Device : UserAcquires(u, d) \/ UserReleases(u, d)
              \/ ManagerShutdown
              \/ \E p \in Procedure : HomeSteers(p)
              \/ UNCHANGED allVars
       PROVE  UNCHANGED <<info, settled, pendingCounts, waiters, proc, woken, doomed>>
  BY <1>16 DEF UserCancels, Cancel, UserInterrupts, InterruptDevice, DeviceDown, PauseDevice,
     DeviceUp, ResumeDevice, UserAcquires, UserReleases, ManagerShutdown, Shutdown, HomeSteers,
     allVars, managerVars, vars
<1>. QED
  BY <1>2, <1>5, <1>6, <1>7, <1>8, <1>9, <1>15, <1>16, UserSubmitSync
     DEF ManagerNext, DeviceAdvances

LEMMA InitSync == ManagerInit => SyncInv /\ DoomedLate
BY SchedulerAssumption
   DEF ManagerInit, Init, SyncInv, Awaiting, Counted, OneAtATime, Lockstep, DoomedLate, NoRun,
       Waits, Issued

LEMMA AlwaysSync == ManagerSpec => []SyncInv
<1>1. BaseInv => ManagerTypes
  BY DEF BaseInv
<1>. QED BY <1>1, InitBase, StepBase, InitSync, StepDoomed, StepSync, PTL DEF ManagerSpec

(* The fleet stays in lockstep: whatever is cancelled, interrupted, paused *)
(* or stopped meanwhile, a procedure makes no command before its last one  *)
(* left every device.                                                      *)
THEOREM PhasesStayInLockstep == ManagerSpec => []Lockstep
<1>1. SyncInv => Lockstep
  BY DEF SyncInv
<1>. QED BY <1>1, AlwaysSync, PTL

(* submit_command_wait loses no wake-up: its counter is the scheduler's    *)
(* pending counter until it is woken.                                      *)
THEOREM NoWakeUpIsLost == ManagerSpec => []WaiterIsExact
<1>1. SyncInv => WaiterIsExact
  <2> SUFFICES ASSUME SyncInv, NEW p \in Procedure, proc[p].at \in Waits, p \notin woken
               PROVE  /\ waiters[proc[p].awaits] > 0
                      /\ waiters[proc[p].awaits] = pendingCounts[proc[p].awaits]
    BY DEF WaiterIsExact
  <2>. QED BY DEF SyncInv, Awaiting, Counted, Issued
<1>. QED BY <1>1, AlwaysSync, PTL
===========================================================================
