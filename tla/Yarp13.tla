------------------------------- MODULE Yarp13 -------------------------------
(***************************************************************************)
(* One yarp-13 from the driver on the server to its actuators: the driver, *)
(* the line, which loses frames, and the robot's program, which forgets a  *)
(* stored command when the next one comes too early.                       *)
(***************************************************************************)
EXTENDS Yarp13Driver, Yarp13Firmware

CONSTANTS
  Surroundings, \* the reflexes that may act at the same time
  MaxCommands, \* bound: commands
  MaxEvents,   \* bound: calls, restarts and changes around the robot
  MaxLost      \* how many frames the repeats of a stop make up for

ASSUME SurroundingsAssumption == Surroundings \subseteq SUBSET Reflex

(* The driver's TailLen is 6.                                              *)
ASSUME LossAssumption == MaxLost \in Nat /\ MaxLost < TailLen

VARIABLES
  commands, events,
  lost     \* history: frames that the line lost and halts that the robot
           \* ignored, up to MaxLost + 1

vars == <<driverVars, robotVars, commands, events, lost>>

TypeOK ==
  /\ DriverTypeOK /\ RobotTypeOK
  /\ commands \in 0..MaxCommands /\ events \in 0..MaxEvents
  /\ lost \in 0..(MaxLost + 1)

Init ==
  /\ DriverInit /\ RobotInit
  /\ commands = 0 /\ events = 0 /\ lost = 0

Event == events < MaxEvents /\ events' = events + 1 /\ UNCHANGED commands
Loss == lost' = IF lost <= MaxLost THEN lost + 1 ELSE lost

---------------------------------------------------------------------------
Command(name) ==
  /\ commands < MaxCommands
  /\ commands' = commands + 1
  /\ ExecuteCommand(name)
  /\ UNCHANGED <<robotVars, events, lost>>

StopAll == Event /\ EmergencyStop /\ UNCHANGED <<robotVars, lost>>

DriverCalled ==
  /\ Event
  /\ Interrupt \/ TeardownTelemetry \/ \E f \in {"go", "halt"} : SetVelocity(f)
  /\ UNCHANGED <<robotVars, lost>>

DriverWorks ==
  /\ CommandResumes \/ DeadmanFires \/ \E s \in Slot : TailPublishes(s)
  /\ UNCHANGED <<robotVars, commands, events, lost>>

FrameLost ==
  /\ line # <<>>
  /\ Loss
  /\ line' = Tail(line)
  /\ UNCHANGED <<cmd, tail, promise, told, halted, robotVars, commands, events>>

(* A frame arrives.  A velocity is ignored at low voltage.  A command that *)
(* was not carried out yet is replaced, which nothing makes up for.        *)
FrameArrives ==
  /\ line # <<>>
  /\ Receive(Head(line))
  /\ IF Head(line) = "halt" /\ "power" \in status THEN Loss ELSE UNCHANGED lost
  /\ line' = Tail(line)
  /\ UNCHANGED <<cmd, tail, promise, told, halted, commands, events>>

RobotPasses == Pass /\ UNCHANGED <<driverVars, commands, events, lost>>

RobotTicks ==
  /\ Tick(status)
  /\ UNCHANGED <<driverVars, commands, events, lost>>

SurroundingsChange ==
  /\ Event
  /\ \E sensed \in Surroundings : Tick(sensed)
  /\ UNCHANGED <<driverVars, lost>>

Next ==
  \/ \E name \in CommandName : Command(name)
  \/ StopAll \/ DriverCalled \/ DriverWorks
  \/ FrameLost \/ FrameArrives
  \/ RobotPasses \/ RobotTicks \/ SurroundingsChange

Spec == Init /\ [][Next]_vars

---------------------------------------------------------------------------
(* Nothing is under way any more.                                          *)
Quiet == Idle /\ line = <<>> /\ command = "none"

(* After a stop_all the wheels stand as soon as its frames came through,   *)
(* unless more of them were lost than they are repeated: also if a motor   *)
(* command was stored when the first one came, if only the last command of *)
(* every burst is carried out, and if a calibration goes on, which turns   *)
(* the wheels until its steps are over whatever it is told.                *)
StopAllStopsTheWheels ==
  Quiet /\ halted /\ ~Calibrating /\ lost <= MaxLost => wheels = Still
=============================================================================
