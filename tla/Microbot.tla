----------------------------- MODULE Microbot -----------------------------
(***************************************************************************)
(* One micro-robot from the driver on the server to its wheels: the driver *)
(* and its link, the connections between them, and the robot's program.    *)
(***************************************************************************)
EXTENDS MicrobotDriver, MicrobotFirmware

CONSTANT MaxEvents   \* bound: commands, calls and faults in a behaviour

ASSUME LinesAssumption == Frame = Lines

VARIABLES
  rest,    \* what the robot may still read of a connection that broke
  events,  \* how many of them there were
  halt     \* history: the last stop_all "sent" over a live connection, and
           \* "done" once the robot read all of it; "none" again when
           \* somebody enables the power stage

vars == <<linkVars, driverVars, firmwareVars, rest, events, halt>>

TypeOK ==
  /\ LinkTypeOK /\ DriverTypeOK /\ FirmwareTypeOK
  /\ rest \in Seq(Frame)
  /\ events \in 0..MaxEvents
  /\ halt \in {"none", "sent", "done"}

Init ==
  /\ LinkInit /\ DriverInit /\ PoweredOn
  /\ rest = <<>>
  /\ events = 0
  /\ halt = "none"

Event == events < MaxEvents /\ events' = events + 1

Lost(h) == IF h = "sent" THEN "none" ELSE h

Prefixes(s) == {SubSeq(s, 1, n) : n \in 0..Len(s)}

(* The robot's end of a connection that ends: lines that came before the   *)
(* end can still be read, any number of them.                              *)
RestIsKept == rest' \in Prefixes(IF client = "live" THEN stream ELSE rest)

---------------------------------------------------------------------------
(* The server.                                                             *)
Command(name) ==
  /\ Event
  /\ ExecuteCommand(name)
  /\ halt' = IF name = "arm" THEN "none" ELSE halt
  /\ UNCHANGED <<firmwareVars, rest>>

StopAll ==
  /\ Event
  /\ EmergencyStop
  /\ halt' = IF halt = "done" THEN halt ELSE IF Writable /\ Alive THEN "sent" ELSE "none"
  /\ UNCHANGED <<firmwareVars, rest>>

DriverCalled ==
  /\ \/ Interrupt /\ UNCHANGED events
     \/ Event /\ \E f \in {"TWIST", "TWIST 0"} : SetVelocity(f)
  /\ UNCHANGED <<firmwareVars, rest, halt>>

DriverWorks ==
  /\ CommandResumes \/ DeadmanFires \/ SpawnedRuns \/ (\E s \in Slot : TailSends(s))
  /\ UNCHANGED <<firmwareVars, rest, halt, events>>

Setup == SetupTelemetry /\ UNCHANGED <<firmwareVars, rest, halt, events>>

Teardown ==
  /\ Event
  /\ TeardownTelemetry
  /\ ClientLost
  /\ RestIsKept
  /\ halt' = Lost(halt)

(* The robot answers as long as its server socket listens.                 *)
LinkConnects ==
  /\ wifi /\ listening
  /\ Connects
  /\ lastLine' = "none"
  /\ UNCHANGED <<cmd, tail, spawned, firmwareVars, rest, halt, events>>

LinkWorks ==
  /\ ConnectFails \/ DelayEnds \/ NoticesLoss
  /\ UNCHANGED <<driverVars, firmwareVars, rest, halt, events>>

---------------------------------------------------------------------------
(* The robot.                                                              *)
RobotReads ==
  \/ /\ client = "live" /\ stream # <<>>
     /\ ReadLine(Head(stream))
     /\ stream' = Tail(stream)
     /\ halt' = IF halt = "sent" /\ spawned = <<>> /\ Len(stream) = 1 THEN "done" ELSE halt
     /\ UNCHANGED <<link, conn, rest, driverVars, events>>
  \/ /\ client = "dead" /\ rest # <<>>
     /\ ReadLine(Head(rest))
     /\ rest' = Tail(rest)
     /\ UNCHANGED <<linkVars, halt, driverVars, events>>

RobotAccepts ==
  /\ conn = "pending"
  /\ Accept
  /\ conn' = "open"
  /\ UNCHANGED <<link, stream, driverVars, rest, halt, events>>

RobotFindsClientGone ==
  /\ FindsClientGone
  /\ rest' = <<>>
  /\ UNCHANGED <<linkVars, driverVars, halt, events>>

RobotMoves == Period /\ UNCHANGED <<linkVars, driverVars, rest, halt, events>>

RobotJoins == WifiAnswers /\ UNCHANGED <<linkVars, driverVars, rest, halt, events>>

(* Choosing a network and losing it end the connection; the server may     *)
(* hear of it or not.                                                      *)
RobotReconnects ==
  /\ \/ RetryWifi /\ UNCHANGED events
     \/ ChooseNetwork /\ Event
  /\ \E end \in {"broken", "silent"} : Breaks(end)
  /\ RestIsKept
  /\ halt' = Lost(halt)
  /\ UNCHANGED driverVars

Buttons ==
  /\ Event
  /\ \/ (OpenMenu \/ LeaveMenu) /\ UNCHANGED halt
     \/ ToggleArmed /\ halt' = "none"
  /\ UNCHANGED <<linkVars, driverVars, rest>>

---------------------------------------------------------------------------
(* What happens to them.                                                   *)
(* The access point comes back whenever it likes.                          *)
AccessPoint ==
  /\ wifi => Event
  /\ ~wifi => events' = events
  /\ WifiChanges
  /\ UNCHANGED <<linkVars, driverVars, rest, halt>>

NetworkBreaks ==
  /\ Event
  /\ Alive
  /\ \E end \in {"broken", "silent"} : Breaks(end)
  /\ ClientLost
  /\ RestIsKept
  /\ halt' = Lost(halt)
  /\ UNCHANGED driverVars

(* A reboot closes nothing.                                                *)
PowerFails ==
  /\ Event
  /\ Reboot
  /\ Breaks("silent")
  /\ rest' = <<>>
  /\ halt' = "none"
  /\ UNCHANGED driverVars

Next ==
  \/ \E name \in CommandName : Command(name)
  \/ StopAll \/ DriverCalled \/ DriverWorks \/ Setup \/ Teardown
  \/ LinkConnects \/ LinkWorks
  \/ RobotReads \/ RobotAccepts \/ RobotFindsClientGone
  \/ RobotMoves \/ RobotJoins \/ RobotReconnects \/ Buttons
  \/ AccessPoint \/ NetworkBreaks \/ PowerFails

Spec == Init /\ [][Next]_vars

(* The robot's loop and the link's task run, and a robot that can be       *)
(* reached again and again is reached in the end.  The robot notices every *)
(* end, for it keeps writing telemetry; the link only one that came out.   *)
(* Nothing is assumed of the commands, the driver's tasks or the network.  *)
Fairness ==
  /\ WF_vars(RobotFindsClientGone) /\ WF_vars(RobotAccepts)
  /\ WF_vars(LinkWorks) /\ SF_vars(LinkConnects)

FairSpec == Spec /\ Fairness

---------------------------------------------------------------------------
(* After a stop_all that reached the robot the wheels stand until somebody *)
(* enables the power stage again, whatever is sent in the meantime and     *)
(* whatever was under way (emergency_stop() and the ARM lines).            *)
EstopHolds == halt = "done" => ~turning

(* A move that was not interrupted is not cut short by the stop tail of    *)
(* the motion before it (_cancel_tail() at the start of a command).        *)
TailSparesMotion ==
  cmd.name = "move" /\ ~cmd.cancelled => tail["drive"].kind # "stop"

(* A setpoint of a move is never the last thing a live connection was sent *)
(* unless the move goes on or a stop is about to follow, also when the     *)
(* command was cancelled or failed (the finally of execute_command()).     *)
MotionsAreClosed ==
  link = "up" /\ Alive /\ lastLine = "move" =>
    cmd.name = "move" \/ tail["drive"].kind = "stop" \/ spawned # <<>>

(* While the robot can be reached, an open link comes back after every     *)
(* loss, whichever end noticed it first (_link_loop() and serviceTcp()),   *)
(* unless the connection ended silently and nothing was written on it      *)
(* since: readline() then waits for ever.                                  *)
LinkComesBack ==
  <>[](wifi /\ listening /\ ~connecting)
    => []<>(conn \in {"open", "silent"} \/ link = "closed")
=============================================================================
