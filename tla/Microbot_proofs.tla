-------------------------- MODULE Microbot_proofs --------------------------
(***************************************************************************)
(* First the deadman and the line buffer of the micro-robot, proved for    *)
(* every CmdTimeout and against a server that sends any lines at any       *)
(* times. What was proved of the robot's program against any server holds  *)
(* with this server, its driver and its link: every step of the whole is a *)
(* step of the program or leaves it alone.                                 *)
(***************************************************************************)
EXTENDS Microbot, SequenceTheorems, TLAPS

(* The program of the robot alone.                                         *)

(* connectWifi() starts with the wheels at rest, and ControlStep is not    *)
(* called before it ends.                                                  *)
WaitsAtRest == connecting => ~turning

(* The deadman's clock never runs behind the last setpoint: whatever sets  *)
(* lastCmdMs without a setpoint also clears the target.                    *)
AgeIsHonest == (target /\ age <= CmdTimeout) => silence <= age

IInv ==
  /\ FirmwareTypeOK
  /\ WaitsAtRest
  /\ AgeIsHonest
  /\ SilenceStops
  /\ SessionsDoNotMix

LEMMA PoweredOnInv == PoweredOn => IInv
<1> SUFFICES ASSUME PoweredOn PROVE IInv
  OBVIOUS
<1>1. age \in 0..(CmdTimeout + 1) /\ silence \in 0..(CmdTimeout + 2)
  BY TimeoutAssumption DEF PoweredOn
<1>2. FirmwareTypeOK
  BY <1>1 DEF PoweredOn, FirmwareTypeOK
<1>3. ~turning /\ ~target /\ client = "none"
  BY DEF PoweredOn
<1>4. QED
  BY <1>2, <1>3
  DEF IInv, WaitsAtRest, AgeIsHonest, SilenceStops, SessionsDoNotMix

LEMMA ReadLineInv ==
  ASSUME IInv, NEW f \in Lines, ReadLine(f)
  PROVE  IInv'
<1> USE TimeoutAssumption
    DEF IInv, FirmwareTypeOK, WaitsAtRest, AgeIsHonest, SilenceStops,
        SessionsDoNotMix
<1>1. /\ UNCHANGED <<radio, client>> /\ fragment' = FALSE /\ ~connecting
  BY DEF ReadLine, Serving
<1>2. CASE fragment
  <2>1. UNCHANGED <<armed, motion>>
    BY <1>2 DEF ReadLine
  <2>2. QED
    BY <1>1, <2>1 DEF motion, radio
<1>3. CASE ~fragment
  <2>1. Obey(f)
    BY <1>3 DEF ReadLine
  <2>2. CASE f \in {"TWIST", "TWIST 0"}
    <3>1. /\ target' = (f = "TWIST") /\ age' = 0
          /\ silence' = IF f = "TWIST" THEN 0 ELSE silence
          /\ UNCHANGED <<armed, turning>>
      BY <2>1, <2>2 DEF Obey
    <3>2. target' => silence' = 0
      BY <3>1
    <3>3. target' \in BOOLEAN /\ silence' \in {0, silence}
      BY <3>1
    <3>4. age' \in 0..(CmdTimeout + 1) /\ silence' \in 0..(CmdTimeout + 2)
      BY <3>1, <3>3
    <3>5. FirmwareTypeOK'
      BY <1>1, <3>1, <3>3, <3>4 DEF radio
    <3>6. AgeIsHonest'
      BY <3>1, <3>2, <3>5
    <3>7. SilenceStops'
      BY <3>1, <3>3
    <3>8. QED
      BY <1>1, <3>1, <3>5, <3>6, <3>7 DEF radio
  <2>3. CASE f = "STOP"
    <3>1. /\ target' = FALSE /\ age' = 0 /\ turning' = FALSE
          /\ UNCHANGED <<armed, silence>>
      BY <2>1, <2>3 DEF Obey
    <3>2. ~target' /\ target' \in BOOLEAN /\ ~turning' /\ turning' \in BOOLEAN
      BY <3>1
    <3>3. age' \in 0..(CmdTimeout + 1)
      BY <3>1
    <3>4. FirmwareTypeOK'
      BY <1>1, <3>1, <3>2, <3>3 DEF radio
    <3>5. QED
      BY <1>1, <3>1, <3>2, <3>4 DEF radio
  <2>4. CASE f = "ARM 1"
    <3>1. armed' = TRUE /\ UNCHANGED motion
      BY <2>1, <2>4 DEF Obey
    <3>2. QED
      BY <1>1, <3>1 DEF motion, radio
  <2>5. CASE f = "ARM 0"
    <3>1. /\ armed' = FALSE /\ turning' = FALSE
          /\ UNCHANGED <<target, age, silence>>
      BY <2>1, <2>5 DEF Obey
    <3>2. QED
      BY <1>1, <3>1 DEF radio
  <2>6. QED
    BY <2>2, <2>3, <2>4, <2>5 DEF Lines
<1>4. QED
  BY <1>2, <1>3

LEMMA PeriodInv ==
  ASSUME IInv, Period
  PROVE  IInv'
<1> USE TimeoutAssumption
    DEF IInv, FirmwareTypeOK, WaitsAtRest, AgeIsHonest, SilenceStops,
        SessionsDoNotMix
<1>1. /\ age' = IF age <= CmdTimeout THEN age + 1 ELSE age
      /\ silence' = IF silence <= CmdTimeout + 1 THEN silence + 1 ELSE silence
      /\ UNCHANGED <<armed, wifi, connecting, screen, listening, client,
                     fragment>>
  BY DEF Period, TimePasses, radio, input
<1>2. CASE connecting
  <2>1. UNCHANGED <<target, turning>>
    BY <1>2 DEF Period
  <2>2. QED
    BY <1>1, <1>2, <2>1
<1>3. CASE ~connecting
  <2>1. /\ target' = (target /\ age <= CmdTimeout)
        /\ turning' = (armed /\ target')
    BY <1>3 DEF Period, ControlStep
  <2>2. target' => target /\ age <= CmdTimeout
    BY <2>1
  <2>3. turning' => target'
    BY <2>1
  <2>4. target' \in BOOLEAN /\ turning' \in BOOLEAN
    BY <2>1
  <2>5. QED
    BY <1>1, <1>3, <2>2, <2>3, <2>4
<1>4. QED
  BY <1>2, <1>3

(* Both ways in, the retry and the menu, come to the waiting loop at rest. *)
LEMMA ConnectWifiInv ==
  ASSUME IInv, ConnectWifi, screen' \in {"status", "menu"}
  PROVE  IInv'
<1>1. client' \in {client, "dead"} /\ UNCHANGED fragment
  BY DEF ConnectWifi, Drop
<1>2. client' = "live" => client = "live"
  BY <1>1
<1>3. /\ ~turning' /\ turning' \in BOOLEAN
      /\ connecting' \in BOOLEAN /\ wifi' \in BOOLEAN
  BY DEF ConnectWifi
<1>4. UNCHANGED <<target, age, silence, armed, listening>>
  BY DEF ConnectWifi
<1>5. QED
  BY <1>1, <1>2, <1>3, <1>4, TimeoutAssumption
  DEF IInv, FirmwareTypeOK, WaitsAtRest, AgeIsHonest,
      SilenceStops, SessionsDoNotMix

LEMMA StepInv == IInv /\ [FirmwareNext]_firmwareVars => IInv'
<1> SUFFICES ASSUME IInv, [FirmwareNext]_firmwareVars
             PROVE  IInv'
  OBVIOUS
<1> USE TimeoutAssumption
    DEF IInv, FirmwareTypeOK, WaitsAtRest, AgeIsHonest, SilenceStops,
        SessionsDoNotMix, motion, radio, input
<1>1. CASE \E f \in Lines : ReadLine(f)
  BY <1>1, ReadLineInv DEF IInv
<1>2. CASE Accept
  <2>1. /\ ~target' /\ target' \in BOOLEAN /\ age' = 0
        /\ ~fragment' /\ fragment' \in BOOLEAN /\ client' = "live"
        /\ UNCHANGED <<turning, silence, armed, wifi, connecting, screen,
                       listening>>
    BY <1>2 DEF Accept
  <2>2. age' \in 0..(CmdTimeout + 1)
    BY <2>1
  <2>3. FirmwareTypeOK'
    BY <2>1, <2>2
  <2>4. QED
    BY <2>1, <2>3
<1>3. CASE ClientLost
  <2>1. client' = "live" => client = "live"
    BY <1>3 DEF ClientLost, Drop
  <2>2. QED
    BY <1>3, <2>1 DEF ClientLost, Drop
<1>4. CASE FindsClientGone
  BY <1>4 DEF FindsClientGone
<1>5. CASE Period
  BY <1>5, PeriodInv
<1>6. CASE WifiAnswers
  BY <1>6 DEF WifiAnswers
<1>7. CASE RetryWifi
  <2>1. ConnectWifi /\ screen' \in {"status", "menu"}
    BY <1>7 DEF RetryWifi
  <2>2. QED
    BY <2>1, ConnectWifiInv
<1>8. CASE OpenMenu
  BY <1>8 DEF OpenMenu
<1>9. CASE LeaveMenu
  BY <1>9 DEF LeaveMenu
<1>10. CASE ChooseNetwork
  <2>1. ConnectWifi /\ screen' \in {"status", "menu"}
    BY <1>10 DEF ChooseNetwork
  <2>2. QED
    BY <2>1, ConnectWifiInv
<1>11. CASE ToggleArmed
  <2>1. /\ armed' \in BOOLEAN /\ turning' \in BOOLEAN
        /\ turning' => turning
    BY <1>11 DEF ToggleArmed
  <2>2. QED
    BY <1>11, <2>1 DEF ToggleArmed
<1>12. CASE WifiChanges
  BY <1>12 DEF WifiChanges
<1>13. CASE Reboot
  <2>1. /\ ~target' /\ target' \in BOOLEAN /\ armed' \in BOOLEAN
        /\ ~turning' /\ turning' \in BOOLEAN
        /\ wifi' \in BOOLEAN /\ connecting' \in BOOLEAN
        /\ listening' \in BOOLEAN /\ fragment' \in BOOLEAN
        /\ client' = "none" /\ screen' = "status"
    BY <1>13 DEF Reboot
  <2>2. age' \in 0..(CmdTimeout + 1) /\ silence' \in 0..(CmdTimeout + 2)
    BY <1>13 DEF Reboot
  <2>3. FirmwareTypeOK'
    BY <2>1, <2>2
  <2>4. QED
    BY <2>1, <2>3
<1>14. CASE UNCHANGED firmwareVars
  BY <1>14 DEF firmwareVars
<1>15. QED
  BY <1>1, <1>2, <1>3, <1>4, <1>5, <1>6, <1>7, <1>8, <1>9, <1>10, <1>11,
     <1>12, <1>13, <1>14
  DEF FirmwareNext

LEMMA AlwaysIInv == FirmwareSpec => []IInv
  BY PoweredOnInv, StepInv, PTL DEF FirmwareSpec

(* Whatever a server sends and however the sessions follow one another,    *)
(* the wheels stop within a period of the deadman's limit (CMD_TIMEOUT_MS, *)
(* controlStep() and connectWifi()).                                       *)
THEOREM SilenceStopsTheRobot == FirmwareSpec => []SilenceStops
<1>1. IInv => SilenceStops
  BY DEF IInv
<1>2. QED
  BY <1>1, AlwaysIInv, PTL

(* No line of a session is read behind a piece of an earlier session's     *)
(* (serviceTcp() clears rxBuffer when it accepts).                         *)
THEOREM SessionsStaySeparate == FirmwareSpec => []SessionsDoNotMix
<1>1. IInv => SessionsDoNotMix
  BY DEF IInv
<1>2. QED
  BY <1>1, AlwaysIInv, PTL

-----------------------------------------------------------------------------
(* The robot with the server, its driver and the link.                     *)

(* The running command is one that streams a line.                         *)
CommandKnown ==
  \/ cmd = Nothing
  \/ cmd \in [name : CommandName, left : Int, cancelled : BOOLEAN]

(* Only lines of the protocol are on their way.                            *)
OnlyLines ==
  /\ stream \in Seq(Frame)
  /\ rest \in Seq(Frame)
  /\ spawned \in Seq(Frame)
  /\ CommandKnown

LEMMA LineOfCommand ==
  ASSUME NEW name \in CommandName
  PROVE  Line(name) \in Frame
  BY BurstAssumption DEF CommandName, Line

LEMMA BurstIsNumber ==
  ASSUME NEW name \in CommandName, NEW n \in Burst(name)
  PROVE  n \in Int
<1>1. MotionLen \in Int /\ TailLen \in Int /\ OneShotLen \in Int
  <2>1. MotionLen \in Nat /\ TailLen \in Nat /\ OneShotLen \in Nat
    BY BurstAssumption, Zenon
  <2>2. QED
    BY <2>1
<1>2. CASE name = "move"
  BY <1>1, <1>2 DEF Burst
<1>3. CASE name = "stop"
  BY <1>1, <1>3 DEF Burst
<1>4. CASE name \in {"arm", "disarm"}
  BY <1>1, <1>4 DEF Burst
<1>5. QED
  BY <1>2, <1>3, <1>4 DEF CommandName

LEMMA WriteKeepsLines ==
  ASSUME stream \in Seq(Frame), NEW f \in Frame, Write(f)
  PROVE  stream' \in Seq(Frame)
  BY AppendProperties DEF Write

LEMMA SendKeepsLines ==
  ASSUME stream \in Seq(Frame), NEW f \in Frame, SendQuiet(f)
  PROVE  stream' \in Seq(Frame)
  BY WriteKeepsLines DEF SendQuiet, Send, linkVars

LEMMA PairIsSeq ==
  ASSUME NEW S, NEW a \in S, NEW b \in S
  PROVE  <<a, b>> \in Seq(S)
  OBVIOUS

LEMMA PrefixIsSeq ==
  ASSUME NEW s \in Seq(Frame), NEW t \in Prefixes(s)
  PROVE  t \in Seq(Frame)
<1>1. PICK n \in 0..Len(s) : t = SubSeq(s, 1, n)
  BY DEF Prefixes
<1>2. QED
  BY <1>1, SubSeqProperties

LEMMA RestKeepsLines ==
  ASSUME OnlyLines, RestIsKept
  PROVE  rest' \in Seq(Frame)
<1>1. CASE client = "live"
  BY <1>1, PrefixIsSeq DEF OnlyLines, RestIsKept
<1>2. CASE client # "live"
  BY <1>2, PrefixIsSeq DEF OnlyLines, RestIsKept
<1>3. QED
  BY <1>1, <1>2

LEMMA InitLines == Init => OnlyLines
  BY DEF Init, LinkInit, DriverInit, OnlyLines, CommandKnown

LEMMA CommandLines ==
  ASSUME OnlyLines, NEW name \in CommandName, Command(name)
  PROVE  OnlyLines'
<1>1. ExecuteCommand(name) /\ rest' = rest /\ spawned' = spawned
  BY DEF Command, ExecuteCommand
<1>2. CASE Writable
  <2>1. Write(Line(name))
    BY <1>1, <1>2 DEF ExecuteCommand, Send
  <2>2. PICK n \in Burst(name) :
          cmd' = [name |-> name, left |-> n - 1, cancelled |-> FALSE]
    BY <1>1, <1>2 DEF ExecuteCommand
  <2>3. n \in Int
    BY <2>2, BurstIsNumber
  <2>4. CommandKnown'
    BY <2>2, <2>3 DEF CommandKnown
  <2>5. QED
    BY <1>1, <2>1, <2>4, WriteKeepsLines, LineOfCommand DEF OnlyLines
<1>3. CASE ~Writable
  BY <1>1, <1>3 DEF ExecuteCommand, OnlyLines, CommandKnown, linkVars
<1>4. QED
  BY <1>2, <1>3

(* A cancellation leaves the command what it was.                          *)
LEMMA CancelKnown ==
  ASSUME CommandKnown, cmd # Nothing, cmd' = [cmd EXCEPT !.cancelled = TRUE]
  PROVE  CommandKnown'
  BY DEF CommandKnown

LEMMA WorkLines ==
  ASSUME OnlyLines, DriverWorks
  PROVE  OnlyLines'
<1>1. rest' = rest
  BY DEF DriverWorks
<1>2. CASE CommandResumes
  <2>1. CASE Send(Line(cmd.name), Origin(cmd.name)) /\ cmd' = [cmd EXCEPT !.left = @ - 1]
    <3>1. cmd \in [name : CommandName, left : Int, cancelled : BOOLEAN]
      BY <1>2 DEF CommandResumes, OnlyLines, CommandKnown
    <3>2. CommandKnown'
      BY <2>1, <3>1 DEF CommandKnown
    <3>3. Line(cmd.name) \in Frame
      BY <3>1, LineOfCommand
    <3>4. stream' \in Seq(Frame)
      BY <2>1, <3>3, WriteKeepsLines DEF Send, OnlyLines
    <3>5. QED
      BY <1>1, <1>2, <3>2, <3>4 DEF CommandResumes, OnlyLines
  <2>2. CASE CommandEnds
    BY <1>1, <1>2, <2>2
    DEF CommandResumes, CommandEnds, OnlyLines, CommandKnown, linkVars
  <2>3. QED
    BY <1>2, <2>1, <2>2 DEF CommandResumes
<1>3. CASE DeadmanFires
  BY <1>1, <1>3 DEF DeadmanFires, OnlyLines, CommandKnown, linkVars
<1>4. CASE SpawnedRuns
  <2>1. Head(spawned) \in Frame /\ Tail(spawned) \in Seq(Frame)
    BY <1>4, HeadTailProperties DEF SpawnedRuns, OnlyLines
  <2>2. stream' \in Seq(Frame)
    BY <1>4, <2>1, SendKeepsLines DEF SpawnedRuns, OnlyLines
  <2>3. QED
    BY <1>1, <1>4, <2>1, <2>2 DEF SpawnedRuns, OnlyLines, CommandKnown
<1>5. CASE \E s \in Slot : TailSends(s)
  <2>1. SendQuiet("STOP") /\ cmd' = cmd /\ spawned' = spawned
    BY <1>5 DEF TailSends
  <2>2. stream' \in Seq(Frame)
    BY <2>1, SendKeepsLines, BurstAssumption DEF OnlyLines
  <2>3. QED
    BY <1>1, <2>1, <2>2 DEF OnlyLines, CommandKnown
<1>6. QED
  BY <1>2, <1>3, <1>4, <1>5 DEF DriverWorks

LEMMA CallLines ==
  ASSUME OnlyLines, DriverCalled \/ StopAll
  PROVE  OnlyLines'
<1> USE DEF OnlyLines
<1>1. rest' = rest
  BY DEF DriverCalled, StopAll
<1>2. CASE Interrupt
  BY <1>1, <1>2, CancelKnown DEF Interrupt, linkVars
<1>3. ASSUME NEW f \in {"TWIST", "TWIST 0"}, SetVelocity(f)
      PROVE  OnlyLines'
  <2>1. spawned' = Append(spawned, f) /\ f \in Frame
    BY <1>3, BurstAssumption DEF SetVelocity
  <2>2. spawned' \in Seq(Frame)
    BY <2>1, AppendProperties
  <2>3. QED
    BY <1>1, <1>3, <2>2 DEF SetVelocity, linkVars, CommandKnown
<1>4. CASE StopAll
  <2>1. EmergencyStop
    BY <1>4 DEF StopAll
  <2>2. <<"STOP", "ARM 0">> \in Seq(Frame)
    <3>1. "STOP" \in Frame /\ "ARM 0" \in Frame
      BY BurstAssumption
    <3>2. QED
      BY <3>1, PairIsSeq
  <2>3. spawned' \in Seq(Frame)
    BY <2>1, <2>2, ConcatProperties DEF EmergencyStop
  <2>4. CommandKnown'
    <3>1. CASE cmd = Nothing
      BY <2>1, <3>1 DEF EmergencyStop, CommandKnown
    <3>2. CASE cmd # Nothing
      BY <2>1, <3>2, CancelKnown DEF EmergencyStop
    <3>3. QED
      BY <3>1, <3>2
  <2>5. QED
    BY <1>1, <2>1, <2>3, <2>4 DEF EmergencyStop, linkVars
<1>5. QED
  BY <1>2, <1>3, <1>4 DEF DriverCalled

LEMMA ReadLines ==
  ASSUME OnlyLines, RobotReads
  PROVE  OnlyLines'
<1> USE DEF OnlyLines, CommandKnown, driverVars, linkVars
<1>1. CASE stream # <<>> /\ stream' = Tail(stream)
           /\ UNCHANGED <<rest, driverVars>>
  BY <1>1, HeadTailProperties
<1>2. CASE rest # <<>> /\ rest' = Tail(rest) /\ UNCHANGED <<linkVars, driverVars>>
  BY <1>2, HeadTailProperties
<1>3. QED
  BY <1>1, <1>2 DEF RobotReads

LEMMA StepLines == OnlyLines /\ [Next]_vars => OnlyLines'
<1> SUFFICES ASSUME OnlyLines, [Next]_vars
             PROVE  OnlyLines'
  OBVIOUS
<1> USE DEF driverVars, linkVars
<1>1. CASE \E name \in CommandName : Command(name)
  BY <1>1, CommandLines
<1>2. CASE StopAll \/ DriverCalled
  BY <1>2, CallLines
<1>3. CASE DriverWorks
  BY <1>3, WorkLines
<1>4. CASE Setup
  BY <1>4 DEF Setup, SetupTelemetry, Open, OnlyLines, CommandKnown
<1>5. CASE Teardown
  <2>1. rest' \in Seq(Frame)
    BY <1>5, RestKeepsLines DEF Teardown
  <2>2. stream' \in Seq(Frame) /\ UNCHANGED <<cmd, spawned>>
    BY <1>5 DEF Teardown, TeardownTelemetry, Close
  <2>3. QED
    BY <2>1, <2>2 DEF OnlyLines, CommandKnown
<1>6. CASE LinkConnects
  BY <1>6 DEF LinkConnects, Connects, OnlyLines, CommandKnown
<1>7. CASE LinkWorks
  BY <1>7 DEF LinkWorks, ConnectFails, DelayEnds, NoticesLoss, OnlyLines,
              CommandKnown
<1>8. CASE RobotReads
  BY <1>8, ReadLines
<1>9. CASE RobotAccepts
  BY <1>9 DEF RobotAccepts, OnlyLines, CommandKnown
<1>10. CASE RobotFindsClientGone
  BY <1>10 DEF RobotFindsClientGone, OnlyLines, CommandKnown
<1>11. CASE RobotMoves \/ RobotJoins \/ Buttons \/ AccessPoint
  BY <1>11 DEF RobotMoves, RobotJoins, Buttons, AccessPoint, OnlyLines,
               CommandKnown
<1>12. CASE RobotReconnects \/ NetworkBreaks
  <2>1. PICK end : RestIsKept /\ Breaks(end) /\ UNCHANGED driverVars
    BY <1>12 DEF RobotReconnects, NetworkBreaks
  <2>2. rest' \in Seq(Frame)
    BY <2>1, RestKeepsLines
  <2>3. QED
    BY <2>1, <2>2 DEF Breaks, OnlyLines, CommandKnown
<1>13. CASE PowerFails
  BY <1>13 DEF PowerFails, Breaks, OnlyLines, CommandKnown
<1>14. CASE UNCHANGED vars
  BY <1>14 DEF vars, OnlyLines, CommandKnown
<1>15. QED
  BY <1>1, <1>2, <1>3, <1>4, <1>5, <1>6, <1>7, <1>8, <1>9, <1>10, <1>11,
     <1>12, <1>13, <1>14
  DEF Next

LEMMA StepIsFirmwareStep ==
  ASSUME OnlyLines, [Next]_vars
  PROVE  [FirmwareNext]_firmwareVars
<1> USE DEF FirmwareNext
<1>1. CASE \/ \E name \in CommandName : Command(name)
           \/ StopAll \/ DriverCalled \/ DriverWorks \/ Setup
           \/ LinkConnects \/ LinkWorks
  BY <1>1 DEF Command, StopAll, DriverCalled, DriverWorks, Setup,
              LinkConnects, LinkWorks
<1>2. CASE Teardown \/ NetworkBreaks
  BY <1>2 DEF Teardown, NetworkBreaks
<1>3. CASE RobotReads
  <2>1. stream # <<>> => Head(stream) \in Lines
    BY LinesAssumption, HeadTailProperties DEF OnlyLines
  <2>2. rest # <<>> => Head(rest) \in Lines
    BY LinesAssumption, HeadTailProperties DEF OnlyLines
  <2>3. QED
    BY <1>3, <2>1, <2>2 DEF RobotReads
<1>4. CASE RobotAccepts \/ RobotFindsClientGone \/ RobotMoves \/ RobotJoins
  BY <1>4 DEF RobotAccepts, RobotFindsClientGone, RobotMoves, RobotJoins
<1>5. CASE RobotReconnects \/ Buttons \/ AccessPoint \/ PowerFails
  BY <1>5 DEF RobotReconnects, Buttons, AccessPoint, PowerFails
<1>6. CASE UNCHANGED vars
  BY <1>6 DEF vars
<1>7. QED
  BY <1>1, <1>2, <1>3, <1>4, <1>5, <1>6 DEF Next

(* The robot under this server does only what its program does under any   *)
(* (the lines of MicrobotDriver are those handleLine() knows).             *)
THEOREM RobotKeepsItsProgram == Spec => FirmwareSpec
<1>1. Init => PoweredOn
  BY DEF Init
<1>2. Spec => []OnlyLines
  BY InitLines, StepLines, PTL DEF Spec
<1>3. OnlyLines /\ [Next]_vars => [FirmwareNext]_firmwareVars
  BY StepIsFirmwareStep
<1>4. QED
  BY <1>1, <1>2, <1>3, PTL DEF Spec, FirmwareSpec

(* Silence of the driver, of the link or of the network stops the wheels.  *)
THEOREM SilenceStopsTheWheels == Spec => []SilenceStops
  BY RobotKeepsItsProgram, SilenceStopsTheRobot, PTL

---------------------------------------------------------------------------
(* The emergency stop: lines and what they do to the power stage.          *)

HasLine(s, f) == \E i \in 1..Len(s) : s[i] = f

(* Every line that enables the power stage is followed by one that         *)
(* disables it.                                                            *)
Quenched(s) ==
  \A j \in 1..Len(s) : s[j] = "ARM 1" => \E i \in (j + 1)..Len(s) : s[i] = "ARM 0"

LEMMA AppendLine ==
  ASSUME NEW s \in Seq(Frame), NEW f \in Frame
  PROVE  /\ \A g : HasLine(Append(s, f), g) <=> HasLine(s, g) \/ f = g
         /\ f # "ARM 1" /\ Quenched(s) => Quenched(Append(s, f))
         /\ f = "ARM 0" => Quenched(Append(s, f))
<1>. DEFINE t == Append(s, f)
<1>1. /\ Len(t) = Len(s) + 1 /\ Len(s) \in Nat
      /\ t[Len(s) + 1] = f
      /\ \A i \in 1..Len(s) : t[i] = s[i]
  BY AppendProperties
<1>. HIDE DEF t
<1>2. ASSUME NEW g
      PROVE  HasLine(t, g) <=> HasLine(s, g) \/ f = g
  <2>1. \A i \in 1..Len(t) : i \in 1..Len(s) \/ i = Len(s) + 1
    BY <1>1
  <2>2. Len(s) + 1 \in 1..Len(t) /\ \A i \in 1..Len(s) : i \in 1..Len(t)
    BY <1>1
  <2>. QED BY <1>1, <2>1, <2>2 DEF HasLine
<1>. DEFINE n == Len(s)
            m == Len(t)
<1>3. n \in Nat /\ m = n + 1
  BY <1>1
<1>4. /\ t[n + 1] = f
      /\ \A i \in 1..n : t[i] = s[i]
  BY <1>1
<1>5. /\ Quenched(t) <=> \A j \in 1..m : t[j] = "ARM 1" => \E i \in (j + 1)..m : t[i] = "ARM 0"
      /\ Quenched(s) <=> \A j \in 1..n : s[j] = "ARM 1" => \E i \in (j + 1)..n : s[i] = "ARM 0"
  BY DEF Quenched
<1>. HIDE DEF n, m
<1>6. /\ \A j \in 1..m : j \in 1..n \/ j = n + 1
      /\ \A j \in 1..n : n + 1 \in (j + 1)..m
      /\ \A j \in 1..n : \A i \in (j + 1)..n : i \in 1..n /\ i \in (j + 1)..m
  BY <1>3
<1>7. ASSUME f # "ARM 1", Quenched(s)
      PROVE  Quenched(t)
  BY <1>7, <1>4, <1>5, <1>6
<1>8. ASSUME f = "ARM 0"
      PROVE  Quenched(t)
  <2>. SUFFICES ASSUME NEW j \in 1..m, t[j] = "ARM 1"
                PROVE  \E i \in (j + 1)..m : t[i] = "ARM 0"
    BY <1>5
  <2>1. j # n + 1
    BY <1>8, <1>4
  <2>. QED BY <1>8, <1>4, <1>6, <2>1
<1>. QED BY <1>2, <1>7, <1>8 DEF t

LEMMA TailLine ==
  ASSUME NEW s \in Seq(Frame), s # <<>>
  PROVE  /\ \A g : HasLine(s, g) <=> HasLine(Tail(s), g) \/ Head(s) = g
         /\ Quenched(s) => Quenched(Tail(s))
         /\ Quenched(s) /\ Head(s) = "ARM 1" => HasLine(Tail(s), "ARM 0")
<1>. DEFINE t == Tail(s)
<1>1. /\ Len(t) = Len(s) - 1 /\ Len(s) \in Nat \ {0}
      /\ Head(s) = s[1]
      /\ \A i \in 1..Len(t) : t[i] = s[i + 1]
  BY HeadTailProperties, EmptySeq
<1>. HIDE DEF t
<1>2. \A i \in 2..Len(s) : i - 1 \in 1..Len(t) /\ t[i - 1] = s[i]
  <2>. SUFFICES ASSUME NEW i \in 2..Len(s) PROVE i - 1 \in 1..Len(t) /\ t[i - 1] = s[i]
    OBVIOUS
  <2>1. i - 1 \in 1..Len(t) /\ (i - 1) + 1 = i
    BY <1>1
  <2>. QED BY <1>1, <2>1
<1>3. ASSUME NEW g
      PROVE  HasLine(s, g) <=> HasLine(t, g) \/ Head(s) = g
  <2>1. ASSUME HasLine(s, g), Head(s) # g PROVE HasLine(t, g)
    BY <1>1, <1>2, <2>1 DEF HasLine
  <2>2. ASSUME HasLine(t, g) PROVE HasLine(s, g)
    <3>1. PICK i \in 1..Len(t) : t[i] = g
      BY <2>2 DEF HasLine
    <3>2. i + 1 \in 1..Len(s) /\ s[i + 1] = g
      BY <1>1, <3>1
    <3>. QED BY <3>2 DEF HasLine
  <2>3. ASSUME Head(s) = g PROVE HasLine(s, g)
    BY <1>1, <2>3 DEF HasLine
  <2>. QED BY <2>1, <2>2, <2>3
<1>. DEFINE n == Len(s)
            m == Len(t)
<1>4. n \in Nat /\ n >= 1 /\ m = n - 1
  BY <1>1
<1>5. /\ Quenched(t) <=> \A j \in 1..m : t[j] = "ARM 1" => \E i \in (j + 1)..m : t[i] = "ARM 0"
      /\ Quenched(s) <=> \A j \in 1..n : s[j] = "ARM 1" => \E i \in (j + 1)..n : s[i] = "ARM 0"
      /\ HasLine(t, "ARM 0") <=> \E i \in 1..m : t[i] = "ARM 0"
  BY DEF Quenched, HasLine
<1>6. /\ Head(s) = s[1]
      /\ \A i \in 1..m : t[i] = s[i + 1]
      /\ \A i \in 2..n : t[i - 1] = s[i]
  BY <1>1, <1>2
<1>. HIDE DEF n, m
<1>7. \A j \in 1..m : /\ j + 1 \in 1..n
                      /\ \A i \in ((j + 1) + 1)..n : i \in 2..n /\ i - 1 \in (j + 1)..m
  BY <1>4
<1>8. 1 \in 1..n /\ \A i \in (1 + 1)..n : i \in 2..n /\ i - 1 \in 1..m
  BY <1>4
<1>9. ASSUME Quenched(s)
      PROVE  Quenched(t)
  <2>. SUFFICES ASSUME NEW j \in 1..m, t[j] = "ARM 1"
                PROVE  \E i \in (j + 1)..m : t[i] = "ARM 0"
    BY <1>5
  <2>1. j + 1 \in 1..n /\ s[j + 1] = "ARM 1"
    BY <1>6, <1>7
  <2>2. PICK i \in ((j + 1) + 1)..n : s[i] = "ARM 0"
    BY <1>9, <1>5, <2>1
  <2>3. i \in 2..n /\ i - 1 \in (j + 1)..m
    BY <1>7, <2>2
  <2>. QED BY <1>6, <2>2, <2>3
<1>10. ASSUME Quenched(s), Head(s) = "ARM 1"
      PROVE  HasLine(t, "ARM 0")
  <2>1. 1 \in 1..n /\ s[1] = "ARM 1"
    BY <1>10, <1>6, <1>8
  <2>2. PICK i \in (1 + 1)..n : s[i] = "ARM 0"
    BY <1>10, <1>5, <2>1
  <2>3. i \in 2..n /\ i - 1 \in 1..m
    BY <1>8, <2>2
  <2>. QED BY <1>5, <1>6, <2>2, <2>3
<1>. QED BY <1>3, <1>9, <1>10 DEF t

LEMMA PrefixLine ==
  ASSUME NEW s \in Seq(Frame), NEW t \in Prefixes(s), NEW g, HasLine(t, g)
  PROVE  HasLine(s, g)
<1>1. PICK n \in 0..Len(s) : t = SubSeq(s, 1, n)
  BY DEF Prefixes
<1>2. Len(t) = n /\ \A i \in 1..n : t[i] = s[i]
  BY <1>1, SubSeqProperties
<1>. QED BY <1>1, <1>2 DEF HasLine

LEMMA EmptyLine == \A f : ~HasLine(<<>>, f)
BY DEF HasLine

(* The two ends of a connection agree on whether it is there, and a stage  *)
(* that is off drives nothing.                                             *)
ConnInv ==
  /\ link # "up" => conn = "none"
  /\ client = "live" <=> conn = "open"
  /\ client # "dead" => rest = <<>>
  /\ turning => armed

LEMMA InitConn == Init => ConnInv
BY DEF Init, LinkInit, PoweredOn, ConnInv

LEMMA NoRest ==
  ASSUME RestIsKept, client # "live", rest = <<>>
  PROVE  rest' = <<>>
<1>1. Prefixes(<<>>) = {<<>>}
  <2>1. \A n : n \in 0..Len(<<>>) <=> n = 0
    OBVIOUS
  <2>2. SubSeq(<<>>, 1, 0) = <<>>
    <3>1. <<>> \in Seq(Frame)
      OBVIOUS
    <3>2. Len(SubSeq(<<>>, 1, 0)) = 0 /\ SubSeq(<<>>, 1, 0) \in Seq(Frame)
      BY <3>1, SubSeqProperties
    <3>. QED BY <3>2, EmptySeq
  <2>. QED BY <2>1, <2>2 DEF Prefixes
<1>. QED BY <1>1 DEF RestIsKept

LEMMA ObeyConn ==
  ASSUME OnlyLines, NEW f \in Lines, ReadLine(f), turning => armed
  PROVE  /\ turning' => armed'
         /\ client' = client /\ client # "none"
<1>1. client' = client /\ client # "none"
  BY DEF ReadLine
<1>2. CASE fragment
  BY <1>1, <1>2 DEF ReadLine, motion
<1>3. CASE ~fragment
  <2>1. Obey(f)
    BY <1>3 DEF ReadLine
  <2>2. CASE f \in {"TWIST", "TWIST 0"}
    BY <1>1, <2>1, <2>2, Zenon DEF Obey
  <2>3. CASE f = "STOP"
    BY <1>1, <2>1, <2>3, Zenon DEF Obey
  <2>4. CASE f = "ARM 1"
    BY <1>1, <2>1, <2>4, Zenon DEF Obey
  <2>5. CASE f = "ARM 0"
    BY <1>1, <2>1, <2>5, Zenon DEF Obey
  <2>. QED BY <2>2, <2>3, <2>4, <2>5 DEF Lines
<1>. QED BY <1>2, <1>3

(* Whatever keeps or breaks the connection does it at both ends.           *)
LEMMA StepConn == ConnInv /\ OnlyLines /\ [Next]_vars => ConnInv'
<1> SUFFICES ASSUME ConnInv, OnlyLines, [Next]_vars PROVE ConnInv'
  OBVIOUS
<1>1. ASSUME UNCHANGED <<link, conn, client, rest, turning, armed>> PROVE ConnInv'
  BY <1>1 DEF ConnInv
<1>2. CASE \/ \E name \in CommandName : Command(name)
           \/ StopAll \/ DriverCalled \/ DriverWorks
  <2>1. /\ UNCHANGED <<firmwareVars, rest, link>>
        /\ conn' = conn \/ (conn = "silent" /\ conn' = "broken")
    BY <1>2 DEF Command, StopAll, DriverCalled, DriverWorks, ExecuteCommand, EmergencyStop,
       Interrupt, SetVelocity, CommandResumes, CommandEnds, DeadmanFires, SpawnedRuns,
       TailSends, SendQuiet, Send, Write, linkVars
  <2>. QED BY <2>1 DEF firmwareVars, ConnInv
<1>3. CASE Setup
  BY <1>3 DEF Setup, SetupTelemetry, Open, ConnInv, firmwareVars
<1>4. CASE Teardown
  <2>1. /\ client' = IF client = "live" THEN "dead" ELSE client
        /\ UNCHANGED <<turning, armed>> /\ RestIsKept /\ conn' = "none"
    BY <1>4 DEF Teardown, TeardownTelemetry, Close, ClientLost, Drop, motion
  <2>. QED BY <2>1, NoRest DEF ConnInv
<1>5. CASE LinkConnects
  BY <1>5 DEF LinkConnects, Connects, ConnInv, firmwareVars
<1>6. CASE LinkWorks
  BY <1>6 DEF LinkWorks, ConnectFails, DelayEnds, NoticesLoss, ConnInv, firmwareVars
<1>7. CASE RobotReads
  <2>1. PICK f \in Lines : ReadLine(f)
    BY <1>7, HeadTailProperties, LinesAssumption DEF RobotReads, OnlyLines
  <2>2. /\ turning' => armed'
        /\ client' = client /\ client # "none"
    BY <2>1, ObeyConn DEF ConnInv
  <2>3. link' = link /\ conn' = conn /\ (client # "dead" => rest' = rest)
    BY <1>7 DEF RobotReads, linkVars
  <2>. QED BY <2>2, <2>3 DEF ConnInv
<1>8. CASE RobotAccepts
  BY <1>8 DEF RobotAccepts, Accept, ConnInv
<1>9. CASE RobotFindsClientGone
  BY <1>9 DEF RobotFindsClientGone, FindsClientGone, ConnInv, motion, linkVars
<1>10. CASE RobotMoves
  <2>1. \/ turning' = turning /\ armed' = armed
        \/ turning' = (armed /\ target') /\ armed' = armed
    BY <1>10 DEF RobotMoves, Period, ControlStep
  <2>2. turning' => armed'
    BY <2>1, Zenon DEF ConnInv
  <2>3. UNCHANGED <<client, link, conn, rest>>
    BY <1>10 DEF RobotMoves, Period, input, linkVars
  <2>. QED BY <2>2, <2>3 DEF ConnInv
<1>11. CASE RobotJoins \/ AccessPoint
  BY <1>1, <1>11
     DEF RobotJoins, WifiAnswers, AccessPoint, WifiChanges, motion, input, linkVars
<1>12. CASE RobotReconnects
  <2>1. /\ client' = IF client = "live" THEN "dead" ELSE client
        /\ turning' = FALSE /\ RestIsKept
    BY <1>12 DEF RobotReconnects, RetryWifi, ChooseNetwork, ConnectWifi, Drop
  <2>2. link' = link /\ conn' # "open" /\ (conn = "none" => conn' = "none")
    BY <1>12 DEF RobotReconnects, Breaks, Alive
  <2>. QED BY <2>1, <2>2, NoRest DEF ConnInv
<1>13. CASE Buttons
  <2>1. UNCHANGED <<client, link, conn, rest>>
    BY <1>13 DEF Buttons, OpenMenu, LeaveMenu, ToggleArmed, input, linkVars
  <2>2. \/ turning' = turning /\ armed' = armed
        \/ turning' = (turning /\ armed')
    BY <1>13 DEF Buttons, OpenMenu, LeaveMenu, ToggleArmed, motion
  <2>3. turning' => armed'
    BY <2>2, Zenon DEF ConnInv
  <2>. QED BY <2>1, <2>3 DEF ConnInv
<1>14. CASE NetworkBreaks
  <2>1. /\ client' = IF client = "live" THEN "dead" ELSE client
        /\ UNCHANGED <<turning, armed>> /\ RestIsKept
    BY <1>14 DEF NetworkBreaks, ClientLost, Drop, motion
  <2>2. link' = link /\ conn' # "open" /\ (conn = "none" => conn' = "none")
    BY <1>14 DEF NetworkBreaks, Breaks, Alive
  <2>. QED BY <2>1, <2>2, NoRest DEF ConnInv
<1>15. CASE PowerFails
  BY <1>15 DEF PowerFails, Reboot, Breaks, Alive, ConnInv
<1>16. CASE UNCHANGED vars
  BY <1>1, <1>16 DEF vars, linkVars, firmwareVars
<1>. QED
  BY <1>2, <1>3, <1>4, <1>5, <1>6, <1>7, <1>8, <1>9, <1>10, <1>11, <1>12, <1>13, <1>14,
     <1>15, <1>16 DEF Next

---------------------------------------------------------------------------
(* EstopHolds is not inductive. It needs that after a stop_all no line     *)
(* that enables the stage can still come from anywhere: not from the       *)
(* command that ran (it was cancelled), not from a spawned task (none      *)
(* sends one), not from the connection, where the line that disables the   *)
(* stage is the last of its kind, and in the end not from what is left of  *)
(* a connection that broke.                                                *)
NoArmPending == halt # "none" => (cmd.name = "arm" => cmd.cancelled)

NoArmSpawned == ~HasLine(spawned, "ARM 1")

(* While the command to stop is under way on a live connection.            *)
StopIsComing ==
  halt = "sent" =>
    /\ link = "up" /\ Alive
    /\ \/ HasLine(spawned, "ARM 0")
       \/ /\ Quenched(stream)
          /\ armed \/ client # "live" => HasLine(stream, "ARM 0")

StopHasCome ==
  halt = "done" => ~armed /\ ~HasLine(stream, "ARM 1") /\ ~HasLine(rest, "ARM 1")

HaltInv == NoArmPending /\ NoArmSpawned /\ StopIsComing /\ StopHasCome

LEMMA InitHalt == Init => HaltInv
BY EmptyLine DEF Init, DriverInit, HaltInv, NoArmPending, NoArmSpawned, StopIsComing,
   StopHasCome, Nothing

(* A line that does not enable the stage may be written at any time.       *)
LEMMA WriteHalt ==
  ASSUME OnlyLines, HaltInv, NEW f \in Frame, f # "ARM 1" \/ halt = "none",
         Write(f) \/ UNCHANGED linkVars,
         UNCHANGED <<spawned, rest, armed, client, halt>>, NoArmPending'
  PROVE  HaltInv'
<1>1. /\ link' = link /\ stream' \in {stream, Append(stream, f)}
      /\ conn' = conn \/ (conn = "silent" /\ conn' = "broken")
  BY DEF Write, linkVars
<1>2. Alive' <=> Alive
  <2>1. CASE conn' = conn
    BY <2>1 DEF Alive
  <2>2. CASE conn = "silent" /\ conn' = "broken"
    BY <2>2 DEF Alive
  <2>. QED BY <1>1, <2>1, <2>2
<1>3. NoArmSpawned' /\ HasLine(spawned, "ARM 0")' = HasLine(spawned, "ARM 0")
  BY DEF HaltInv, NoArmSpawned, HasLine
<1>4. CASE stream' = stream
  BY <1>1, <1>2, <1>3, <1>4 DEF HaltInv, StopIsComing, StopHasCome, HasLine, Quenched
<1>5. CASE stream' = Append(stream, f)
  <2>1. /\ \A g : HasLine(stream', g) <=> HasLine(stream, g) \/ f = g
        /\ f # "ARM 1" /\ Quenched(stream) => Quenched(stream')
    BY <1>5, AppendLine DEF OnlyLines
  <2>2. StopIsComing'
    BY <1>1, <1>2, <1>3, <2>1 DEF HaltInv, StopIsComing
  <2>3. StopHasCome'
    BY <2>1 DEF HaltInv, StopHasCome
  <2>. QED BY <1>3, <2>2, <2>3 DEF HaltInv
<1>. QED BY <1>1, <1>4, <1>5

(* A step that leaves the wires, the stage and the running command alone.  *)
LEMMA StillHalt ==
  ASSUME HaltInv,
         UNCHANGED <<stream, spawned, rest, armed, halt>>,
         halt # "none" => (cmd'.name = "arm" => cmd'.cancelled),
         halt = "sent" => link' = link /\ (Alive => Alive'),
         client' = "live" \/ client # "live"
  PROVE  HaltInv'
BY DEF HaltInv, NoArmPending, NoArmSpawned, StopIsComing, StopHasCome, HasLine, Quenched

(* What the driver does of its own.                                        *)
LEMMA WorkHalt ==
  ASSUME OnlyLines, ConnInv, HaltInv, DriverWorks
  PROVE  HaltInv'
<1>1. UNCHANGED <<firmwareVars, rest, halt>>
  BY DEF DriverWorks
<1>2. UNCHANGED <<armed, client>>
  BY <1>1 DEF firmwareVars
<1>3. CASE CommandResumes
  <2>1. CASE /\ ~cmd.cancelled
             /\ Send(Line(cmd.name), Origin(cmd.name))
             /\ cmd' = [cmd EXCEPT !.left = @ - 1]
    <3>1. cmd \in [name : CommandName, left : Int, cancelled : BOOLEAN]
      BY <1>3 DEF CommandResumes, OnlyLines, CommandKnown
    <3>2. Line(cmd.name) \in Frame /\ Write(Line(cmd.name))
      BY <2>1, <3>1, LineOfCommand DEF Send
    <3>3. Line(cmd.name) # "ARM 1" \/ halt = "none"
      <4>1. cmd.name = "arm" => halt = "none"
        BY <2>1 DEF HaltInv, NoArmPending
      <4>2. cmd.name = "move" => Line(cmd.name) = "TWIST"
        BY DEF Line
      <4>3. cmd.name = "stop" => Line(cmd.name) = "STOP"
        BY DEF Line
      <4>4. cmd.name = "disarm" => Line(cmd.name) = "ARM 0"
        BY DEF Line
      <4>. QED BY <3>1, <4>1, <4>2, <4>3, <4>4 DEF CommandName
    <3>4. cmd'.name = cmd.name /\ cmd'.cancelled = cmd.cancelled
      BY <2>1, <3>1
    <3>5. NoArmPending'
      BY <1>1, <3>4 DEF HaltInv, NoArmPending
    <3>. QED BY <1>1, <1>2, <1>3, <3>2, <3>3, <3>5, WriteHalt DEF CommandResumes
  <2>2. CASE CommandEnds
    BY <1>1, <1>2, <1>3, <2>2, StillHalt
       DEF CommandResumes, CommandEnds, Nothing, linkVars, Alive
  <2>. QED BY <1>3, <2>1, <2>2 DEF CommandResumes
<1>4. CASE DeadmanFires
  <2>1. UNCHANGED <<cmd, stream, spawned, link, conn>>
    BY <1>4 DEF DeadmanFires, linkVars
  <2>2. halt # "none" => (cmd'.name = "arm" => cmd'.cancelled)
    BY <2>1 DEF HaltInv, NoArmPending
  <2>. QED BY <1>1, <1>2, <2>1, <2>2, StillHalt DEF Alive
<1>5. CASE SpawnedRuns
  <2>1. /\ spawned # <<>> /\ spawned \in Seq(Frame) /\ Head(spawned) \in Frame
        /\ spawned' = Tail(spawned) /\ cmd' = cmd /\ SendQuiet(Head(spawned))
    BY <1>5, HeadTailProperties DEF SpawnedRuns, OnlyLines
  <2>2. /\ \A g : HasLine(spawned, g) <=> HasLine(spawned', g) \/ Head(spawned) = g
    BY <2>1, TailLine
  <2>3. Head(spawned) # "ARM 1" /\ NoArmSpawned'
    BY <2>2 DEF HaltInv, NoArmSpawned
  <2>4. NoArmPending'
    BY <1>1, <2>1 DEF HaltInv, NoArmPending
  <2>5. CASE stream' = Append(stream, Head(spawned)) /\ UNCHANGED <<link, conn>>
    <3>1. /\ \A g : HasLine(stream', g) <=> HasLine(stream, g) \/ Head(spawned) = g
          /\ Quenched(stream) => Quenched(stream')
          /\ Head(spawned) = "ARM 0" => Quenched(stream')
      BY <2>1, <2>3, <2>5, AppendLine DEF OnlyLines
    <3>2. StopIsComing'
      BY <1>1, <1>2, <2>2, <2>5, <3>1 DEF HaltInv, StopIsComing, Alive
    <3>3. StopHasCome'
      BY <1>1, <1>2, <2>3, <3>1 DEF HaltInv, StopHasCome
    <3>. QED BY <2>3, <2>4, <3>2, <3>3 DEF HaltInv
  <2>6. CASE UNCHANGED <<link, stream>> /\ ~(Writable /\ Alive)
    <3>1. halt # "sent"
      BY <2>6 DEF HaltInv, StopIsComing, Writable
    <3>2. StopHasCome'
      BY <1>1, <1>2, <2>6 DEF HaltInv, StopHasCome
    <3>. QED BY <1>1, <2>3, <2>4, <3>1, <3>2 DEF HaltInv, StopIsComing
  <2>. QED BY <2>1, <2>5, <2>6 DEF SendQuiet, Send, Write, Alive, linkVars
<1>6. CASE \E t \in Slot : TailSends(t)
  <2>1. SendQuiet("STOP") /\ cmd' = cmd /\ spawned' = spawned
    BY <1>6 DEF TailSends
  <2>2. "STOP" \in Frame /\ (Write("STOP") \/ UNCHANGED linkVars)
    BY <2>1, BurstAssumption DEF SendQuiet, Send
  <2>3. NoArmPending'
    BY <1>1, <2>1 DEF HaltInv, NoArmPending
  <2>. QED BY <1>1, <1>2, <2>1, <2>2, <2>3, WriteHalt
<1>. QED BY <1>3, <1>4, <1>5, <1>6 DEF DriverWorks

(* What the robot reads of the live connection, or of one that broke.      *)
LEMMA ObeyArm ==
  ASSUME OnlyLines, NEW f \in Lines, ReadLine(f)
  PROVE  /\ f = "ARM 1" \/ (armed' => armed)
         /\ f = "ARM 0" /\ ~fragment => ~armed'
<1>1. CASE fragment
  BY <1>1 DEF ReadLine
<1>2. CASE ~fragment
  <2>1. Obey(f)
    BY <1>2 DEF ReadLine
  <2>2. CASE f \in {"TWIST", "TWIST 0"}
    <3>1. armed' = armed
      BY <2>1, <2>2, Zenon DEF Obey
    <3>. QED BY <2>2, <3>1
  <2>3. CASE f = "STOP"
    <3>1. armed' = armed
      BY <2>1, <2>3, Zenon DEF Obey
    <3>. QED BY <2>3, <3>1
  <2>4. CASE f = "ARM 1"
    BY <2>4
  <2>5. CASE f = "ARM 0"
    <3>1. armed' = FALSE
      BY <2>1, <2>5, Zenon DEF Obey
    <3>. QED BY <3>1
  <2>. QED BY <2>2, <2>3, <2>4, <2>5 DEF Lines
<1>. QED BY <1>1, <1>2

LEMMA ReadHalt ==
  ASSUME OnlyLines, ConnInv, HaltInv, SessionsDoNotMix, RobotReads
  PROVE  HaltInv'
<1>1. UNCHANGED <<cmd, spawned, link, conn, client>>
  BY DEF RobotReads, driverVars, linkVars, ReadLine
<1>2. Alive' = Alive /\ NoArmSpawned' /\ HasLine(spawned, "ARM 0")' = HasLine(spawned, "ARM 0")
  BY <1>1 DEF Alive, HaltInv, NoArmSpawned, HasLine
<1>3. CASE /\ client = "live" /\ stream # <<>>
           /\ ReadLine(Head(stream))
           /\ stream' = Tail(stream)
           /\ halt' = IF halt = "sent" /\ spawned = <<>> /\ Len(stream) = 1 THEN "done" ELSE halt
           /\ rest' = rest
  <2>1. Head(stream) \in Lines /\ stream \in Seq(Frame)
    BY <1>3, HeadTailProperties, LinesAssumption DEF OnlyLines
  <2>2. /\ Head(stream) = "ARM 1" \/ (armed' => armed)
        /\ Head(stream) = "ARM 0" => ~armed'
    BY <1>3, <2>1, ObeyArm DEF SessionsDoNotMix
  <2>3. /\ \A g : HasLine(stream, g) <=> HasLine(stream', g) \/ Head(stream) = g
        /\ Quenched(stream) => Quenched(stream')
        /\ Quenched(stream) /\ Head(stream) = "ARM 1" => HasLine(stream', "ARM 0")
    BY <1>3, <2>1, TailLine
  <2>4. NoArmPending'
    BY <1>1, <1>3 DEF HaltInv, NoArmPending
  <2>5. StopIsComing'
    BY <1>1, <1>2, <1>3, <2>2, <2>3 DEF HaltInv, StopIsComing
  <2>6. StopHasCome'
    <3>1. CASE halt = "done"
      BY <1>3, <2>2, <2>3, <3>1 DEF HaltInv, StopHasCome
    <3>2. CASE halt = "sent" /\ spawned = <<>> /\ Len(stream) = 1
      <4>1. stream' = <<>>
        <5>1. stream' \in Seq(Frame) /\ Len(stream') = 0
          BY <1>3, <2>1, <3>2, HeadTailProperties
        <5>. QED BY <5>1, EmptySeq
      <4>2. \A g : ~HasLine(stream', g)
        BY <4>1, EmptyLine
      <4>3. Quenched(stream) /\ (armed => HasLine(stream, "ARM 0"))
        BY <3>2, EmptyLine DEF HaltInv, StopIsComing
      <4>4. ~armed'
        BY <2>2, <2>3, <4>2, <4>3
      <4>5. ~HasLine(rest, "ARM 1") /\ rest' = rest
        BY <1>3, EmptyLine DEF ConnInv
      <4>. QED BY <4>2, <4>4, <4>5 DEF StopHasCome, HasLine
    <3>3. CASE halt' # "done"
      BY <3>3 DEF StopHasCome
    <3>. QED BY <1>3, <3>1, <3>2, <3>3
  <2>. QED BY <1>2, <2>4, <2>5, <2>6 DEF HaltInv
<1>4. CASE /\ client = "dead" /\ rest # <<>>
           /\ ReadLine(Head(rest))
           /\ rest' = Tail(rest)
           /\ UNCHANGED <<stream, halt>>
  <2>1. Head(rest) \in Lines /\ rest \in Seq(Frame)
    BY <1>4, HeadTailProperties, LinesAssumption DEF OnlyLines
  <2>2. Head(rest) = "ARM 1" \/ (armed' => armed)
    BY <1>4, <2>1, ObeyArm
  <2>3. \A g : HasLine(rest, g) <=> HasLine(rest', g) \/ Head(rest) = g
    BY <1>4, <2>1, TailLine
  <2>4. NoArmPending'
    BY <1>1, <1>4 DEF HaltInv, NoArmPending
  <2>5. StopIsComing'
    BY <1>1, <1>2, <1>4 DEF HaltInv, StopIsComing, HasLine, Quenched
  <2>6. StopHasCome'
    BY <1>4, <2>2, <2>3 DEF HaltInv, StopHasCome, HasLine
  <2>. QED BY <1>2, <2>4, <2>5, <2>6 DEF HaltInv
<1>. QED BY <1>3, <1>4 DEF RobotReads, linkVars

(* A connection that ends takes the stop with it unless it came.           *)
LEMMA BreakHalt ==
  ASSUME OnlyLines, HaltInv, RestIsKept, halt' = Lost(halt), stream' = <<>>,
         UNCHANGED <<armed, cmd, spawned>>
  PROVE  HaltInv'
<1>1. halt' # "sent" /\ (halt' # "none" => halt # "none") /\ (halt' = "done" => halt = "done")
  BY DEF Lost
<1>2. NoArmPending' /\ NoArmSpawned' /\ StopIsComing'
  BY <1>1 DEF HaltInv, NoArmPending, NoArmSpawned, StopIsComing, HasLine
<1>3. StopHasCome'
  <2>1. SUFFICES ASSUME halt = "done" PROVE ~armed' /\ ~HasLine(stream', "ARM 1") /\ ~HasLine(rest', "ARM 1")
    BY <1>1 DEF StopHasCome, HasLine
  <2>2. ~armed /\ ~HasLine(stream, "ARM 1") /\ ~HasLine(rest, "ARM 1")
    BY <2>1 DEF HaltInv, StopHasCome
  <2>3. ~HasLine(rest', "ARM 1")
    <3>1. CASE client = "live"
      BY <2>2, <3>1, PrefixLine DEF RestIsKept, OnlyLines
    <3>2. CASE client # "live"
      BY <2>2, <3>2, PrefixLine DEF RestIsKept, OnlyLines
    <3>. QED BY <3>1, <3>2
  <2>. QED BY <2>2, <2>3, EmptyLine
<1>. QED BY <1>2, <1>3 DEF HaltInv

(* What is asked of the driver: a command, a setpoint, an interrupt.       *)
LEMMA CommandHalt ==
  ASSUME OnlyLines, HaltInv, NEW name \in CommandName, Command(name)
  PROVE  HaltInv'
<1>1. /\ ExecuteCommand(name) /\ UNCHANGED <<armed, client, rest, spawned>>
      /\ halt' = IF name = "arm" THEN "none" ELSE halt
  BY DEF Command, ExecuteCommand, firmwareVars
<1>2. CASE name = "arm"
  <2>1. halt' = "none" /\ NoArmSpawned'
    BY <1>1, <1>2 DEF HaltInv, NoArmSpawned, HasLine
  <2>. QED BY <2>1 DEF HaltInv, NoArmPending, StopIsComing, StopHasCome
<1>3. CASE name # "arm"
  <2>1. Line(name) \in Frame /\ Line(name) # "ARM 1"
    <3>1. name = "move" => Line(name) = "TWIST"
      BY DEF Line
    <3>2. name = "stop" => Line(name) = "STOP"
      BY DEF Line
    <3>3. name = "disarm" => Line(name) = "ARM 0"
      BY DEF Line
    <3>. QED BY <1>3, <3>1, <3>2, <3>3, LineOfCommand DEF CommandName
  <2>2. halt' = halt /\ (Write(Line(name)) \/ UNCHANGED linkVars)
    BY <1>1, <1>3 DEF ExecuteCommand, Send
  <2>3. cmd'.name = name \/ cmd' = cmd
    BY <1>1 DEF ExecuteCommand
  <2>4. NoArmPending'
    BY <1>3, <2>2, <2>3 DEF HaltInv, NoArmPending
  <2>. QED BY <1>1, <2>1, <2>2, <2>4, WriteHalt
<1>. QED BY <1>2, <1>3

LEMMA CalledHalt ==
  ASSUME OnlyLines, HaltInv, DriverCalled
  PROVE  HaltInv'
<1>1. UNCHANGED <<armed, client, rest, halt, link, conn, stream>>
  BY DEF DriverCalled, firmwareVars, Interrupt, SetVelocity, linkVars
<1>2. CASE Interrupt
  <2>1. spawned' = spawned /\ cmd # Nothing /\ cmd' = [cmd EXCEPT !.cancelled = TRUE]
    BY <1>2 DEF Interrupt
  <2>2. cmd'.cancelled
    BY <2>1 DEF OnlyLines, CommandKnown
  <2>. QED BY <1>1, <2>1, <2>2, StillHalt DEF Alive
<1>3. ASSUME NEW f \in {"TWIST", "TWIST 0"}, SetVelocity(f)
      PROVE  HaltInv'
  <2>1. spawned' = Append(spawned, f) /\ f \in Frame /\ f # "ARM 1" /\ cmd' = cmd
    BY <1>3, BurstAssumption DEF SetVelocity
  <2>2. \A g : HasLine(spawned', g) <=> HasLine(spawned, g) \/ f = g
    BY <2>1, AppendLine DEF OnlyLines
  <2>3. NoArmSpawned' /\ NoArmPending'
    BY <1>1, <2>1, <2>2 DEF HaltInv, NoArmSpawned, NoArmPending
  <2>4. StopIsComing' /\ StopHasCome'
    BY <1>1, <2>2 DEF HaltInv, StopIsComing, StopHasCome, Alive, HasLine, Quenched
  <2>. QED BY <2>3, <2>4 DEF HaltInv
<1>. QED BY <1>2, <1>3 DEF DriverCalled

LEMMA PairIsAppended ==
  ASSUME NEW S, NEW s \in Seq(S), NEW a \in S, NEW b \in S,
         NEW t, t = s \o <<a, b>>
  PROVE  t = Append(Append(s, a), b)
  OBVIOUS

(* What a stop_all sends follows what was to be sent before it.            *)
LEMMA StopLines ==
  ASSUME OnlyLines, EmergencyStop
  PROVE  /\ "STOP" \in Frame /\ "ARM 0" \in Frame
         /\ Append(spawned, "STOP") \in Seq(Frame)
         /\ spawned' = Append(Append(spawned, "STOP"), "ARM 0")
         /\ spawned' \in Seq(Frame) /\ spawned' # <<>>
<1>1. "STOP" \in Frame /\ "ARM 0" \in Frame
  BY BurstAssumption
<1>2. Append(spawned, "STOP") \in Seq(Frame)
  BY <1>1, AppendProperties DEF OnlyLines
<1>3. \A a \in Frame, b \in Frame :
        spawned' = spawned \o <<a, b>> => spawned' = Append(Append(spawned, a), b)
  BY PairIsAppended DEF OnlyLines
<1>4. spawned' = Append(Append(spawned, "STOP"), "ARM 0")
  <2>1. spawned' = spawned \o <<"STOP", "ARM 0">>
    BY DEF EmergencyStop
  <2>. QED BY <1>1, <1>3, <2>1, Zenon
<1>5. ASSUME NEW s \in Seq(Frame)
      PROVE  Append(s, "ARM 0") \in Seq(Frame) /\ Append(s, "ARM 0") # <<>>
  <2>. QED BY <1>1, AppendProperties
<1>. QED BY <1>1, <1>2, <1>4, <1>5, Zenon

(* stop_all: the running command is cancelled, and the line that disables  *)
(* the stage is the last of its kind.                                      *)
LEMMA StopAllHalt ==
  ASSUME OnlyLines, HaltInv, StopAll
  PROVE  HaltInv'
<1>1. /\ UNCHANGED <<armed, client, rest, link, conn, stream>>
      /\ cmd' = IF cmd = Nothing THEN cmd ELSE [cmd EXCEPT !.cancelled = TRUE]
      /\ spawned' = spawned \o <<"STOP", "ARM 0">>
      /\ halt' = IF halt = "done" THEN halt ELSE IF Writable /\ Alive THEN "sent" ELSE "none"
  BY DEF StopAll, EmergencyStop, firmwareVars, linkVars
<1>2. NoArmPending'
  <2>1. CASE cmd = Nothing
    BY <1>1, <2>1 DEF NoArmPending, Nothing
  <2>2. CASE cmd # Nothing
    BY <1>1, <2>2 DEF NoArmPending, OnlyLines, CommandKnown
  <2>. QED BY <2>1, <2>2
<1>3. /\ spawned' \in Seq(Frame) /\ Append(spawned, "STOP") \in Seq(Frame)
      /\ spawned' = Append(Append(spawned, "STOP"), "ARM 0")
      /\ "STOP" \in Frame /\ "ARM 0" \in Frame
  BY StopLines DEF StopAll
<1>4. \A g : HasLine(spawned', g) <=> HasLine(spawned, g) \/ "STOP" = g \/ "ARM 0" = g
  BY <1>3, AppendLine DEF OnlyLines
<1>5. NoArmSpawned' /\ HasLine(spawned', "ARM 0")
  BY <1>4 DEF HaltInv, NoArmSpawned
<1>6. StopIsComing'
  BY <1>1, <1>5 DEF StopIsComing, Writable, Alive, HasLine
<1>7. StopHasCome'
  BY <1>1 DEF HaltInv, StopHasCome, HasLine
<1>. QED BY <1>2, <1>5, <1>6, <1>7 DEF HaltInv

LEMMA StepHalt ==
  OnlyLines /\ ConnInv /\ SessionsDoNotMix /\ HaltInv /\ [Next]_vars => HaltInv'
<1> SUFFICES ASSUME OnlyLines, ConnInv, SessionsDoNotMix, HaltInv, [Next]_vars
             PROVE  HaltInv'
  OBVIOUS
<1>1. CASE \E name \in CommandName : Command(name)
  BY <1>1, CommandHalt
<1>2. CASE StopAll \/ DriverCalled \/ DriverWorks \/ RobotReads
  BY <1>2, StopAllHalt, CalledHalt, WorkHalt, ReadHalt
<1>3. halt # "none" => (cmd.name = "arm" => cmd.cancelled)
  BY DEF HaltInv, NoArmPending
<1>4. CASE Setup
  BY <1>3, <1>4, StillHalt
     DEF Setup, SetupTelemetry, Open, firmwareVars, driverVars, HaltInv, StopIsComing
<1>5. CASE Teardown
  BY <1>5, BreakHalt DEF Teardown, TeardownTelemetry, Close, ClientLost
<1>6. CASE LinkConnects
  <2>1. /\ UNCHANGED <<cmd, spawned, armed, rest, halt>> /\ halt # "sent"
        /\ stream' = <<>>
    BY <1>6 DEF LinkConnects, Connects, firmwareVars, HaltInv, StopIsComing
  <2>. QED
    BY <2>1, EmptyLine
       DEF HaltInv, NoArmPending, NoArmSpawned, StopIsComing, StopHasCome, HasLine
<1>7. CASE LinkWorks
  BY <1>3, <1>7, StillHalt
     DEF LinkWorks, ConnectFails, DelayEnds, NoticesLoss, firmwareVars, driverVars,
         HaltInv, StopIsComing, Alive
<1>8. CASE RobotAccepts
  BY <1>3, <1>8, StillHalt DEF RobotAccepts, Accept, driverVars, Alive
<1>9. CASE RobotFindsClientGone
  <2>1. /\ UNCHANGED <<linkVars, cmd, spawned, armed, halt>> /\ rest' = <<>>
        /\ client # "live"
    BY <1>9 DEF RobotFindsClientGone, FindsClientGone, driverVars
  <2>2. NoArmPending' /\ NoArmSpawned'
    BY <2>1 DEF HaltInv, NoArmPending, NoArmSpawned, HasLine
  <2>3. StopIsComing'
    BY <2>1 DEF HaltInv, StopIsComing, linkVars, Alive, HasLine, Quenched
  <2>4. StopHasCome'
    BY <2>1, EmptyLine DEF HaltInv, StopHasCome, linkVars, HasLine
  <2>. QED BY <2>2, <2>3, <2>4 DEF HaltInv
<1>10. CASE RobotMoves \/ RobotJoins \/ AccessPoint
  BY <1>3, <1>10, StillHalt
     DEF RobotMoves, RobotJoins, AccessPoint, Period, WifiAnswers, WifiChanges, input,
         linkVars, driverVars, Alive
<1>11. CASE RobotReconnects
  BY <1>11, BreakHalt
     DEF RobotReconnects, RetryWifi, ChooseNetwork, ConnectWifi, Breaks, driverVars
<1>12. CASE Buttons
  <2>1. CASE ToggleArmed /\ halt' = "none" /\ UNCHANGED spawned
    BY <2>1 DEF HaltInv, NoArmPending, NoArmSpawned, StopIsComing, StopHasCome, HasLine
  <2>2. CASE (OpenMenu \/ LeaveMenu) /\ UNCHANGED halt
    BY <1>3, <1>12, <2>2, StillHalt
       DEF Buttons, OpenMenu, LeaveMenu, input, linkVars, driverVars, Alive
  <2>. QED BY <1>12, <2>1, <2>2 DEF Buttons, driverVars
<1>13. CASE NetworkBreaks
  BY <1>13, BreakHalt DEF NetworkBreaks, ClientLost, Breaks, driverVars
<1>14. CASE PowerFails
  BY <1>14 DEF PowerFails, driverVars, HaltInv, NoArmPending, NoArmSpawned, StopIsComing,
     StopHasCome, HasLine
<1>15. CASE UNCHANGED vars
  BY <1>3, <1>15, StillHalt DEF vars, linkVars, driverVars, firmwareVars, Alive
<1>. QED
  BY <1>1, <1>2, <1>4, <1>5, <1>6, <1>7, <1>8, <1>9, <1>10, <1>11, <1>12, <1>13, <1>14,
     <1>15 DEF Next

(* After a stop_all that reached the robot its wheels stand until somebody *)
(* enables the power stage again, whatever was under way and whatever is   *)
(* sent in the meantime.                                                   *)
THEOREM EmergencyStopHolds == Spec => []EstopHolds
<1>1. Spec => []SessionsDoNotMix
  BY RobotKeepsItsProgram, SessionsStaySeparate, PTL
<1>2. HaltInv /\ ConnInv => EstopHolds
  BY DEF HaltInv, ConnInv, StopHasCome, EstopHolds
<1>. QED
  BY <1>1, <1>2, InitLines, InitConn, InitHalt, StepLines, StepConn, StepHalt, PTL DEF Spec

---------------------------------------------------------------------------
(* The stop tails and the moves.                                           *)

(* What the proofs need of the types of the slots.                         *)
TailKnown ==
  tail \in [Slot -> [kind : {"none", "deadman", "stop", "halt"}, left : Int]]

MotionInv == TailKnown /\ TailSparesMotion /\ MotionsAreClosed

LEMMA TailLenIsNumber == TailLen \in Int
<1>1. TailLen \in Nat
  BY BurstAssumption, Zenon
<1>. QED BY <1>1

LEMMA InitMotion == Init => MotionInv
BY DEF Init, DriverInit, LinkInit, MotionInv, TailKnown, TailSparesMotion,
   MotionsAreClosed, Nothing, NoTail, Slot

(* The slots that a command leaves at its start and at its end.            *)
LEMMA TailAtEnds ==
  ASSUME NEW name, NEW slots \in [Slot -> [kind : {"none", "deadman", "stop", "halt"}, left : Int]],
         TailKnown
  PROVE  /\ TailAtStart(name) \in [Slot -> [kind : {"none", "deadman", "stop", "halt"}, left : Int]]
         /\ TailAtEnd(name, slots) \in [Slot -> [kind : {"none", "deadman", "stop", "halt"}, left : Int]]
         /\ name = "move" => /\ TailAtStart(name)["drive"].kind # "stop"
                             /\ TailAtEnd(name, slots)["drive"].kind = "stop"
         /\ name # "move" => TailAtEnd(name, slots) = slots
<1>1. TailLen \in Int
  BY TailLenIsNumber
<1>2. /\ NoTail \in [kind : {"none", "deadman", "stop", "halt"}, left : Int]
      /\ StopTail \in [kind : {"none", "deadman", "stop", "halt"}, left : Int]
      /\ NoTail.kind = "none" /\ StopTail.kind = "stop"
  BY <1>1 DEF NoTail, StopTail
<1>3. "drive" \in Slot
  BY DEF Slot
<1>. QED BY <1>2, <1>3 DEF TailAtStart, TailAtEnd, TailKnown

(* A step that leaves driver and connection alone, or ends the connection. *)
LEMMA StillMotion ==
  ASSUME MotionInv, UNCHANGED <<cmd, tail, spawned, lastLine>>,
         link' = "up" /\ Alive' => link = "up" /\ Alive
  PROVE  MotionInv'
BY DEF MotionInv, TailKnown, TailSparesMotion, MotionsAreClosed

LEMMA StepMotion == OnlyLines /\ ConnInv /\ MotionInv /\ [Next]_vars => MotionInv'
<1> SUFFICES ASSUME OnlyLines, ConnInv, MotionInv, [Next]_vars PROVE MotionInv'
  OBVIOUS
<1>. USE DEF MotionInv
<1>0. "drive" \in Slot
  BY DEF Slot
<1>1. ASSUME NEW name \in CommandName, Command(name)
      PROVE  MotionInv'
  <2>1. ExecuteCommand(name)
    BY <1>1 DEF Command
  <2>2. CASE Writable
    <3>1. /\ tail' = TailAtStart(name) /\ Send(Line(name), Origin(name))
          /\ cmd'.name = name /\ Alive' = Alive
      BY <2>1, <2>2 DEF ExecuteCommand, Send, Write, Alive
    <3>2. TailKnown' /\ TailSparesMotion'
      BY <3>1, TailAtEnds DEF TailKnown, TailSparesMotion
    <3>3. MotionsAreClosed'
      BY <3>1 DEF MotionsAreClosed, Send, Origin
    <3>. QED BY <3>2, <3>3
  <2>3. CASE ~Writable
    <3>1. tail' = TailAtEnd(name, TailAtStart(name)) /\ cmd' = Nothing /\ link' # "up"
      BY <2>1, <2>3 DEF ExecuteCommand, linkVars, Writable
    <3>2. TailKnown'
      BY <3>1, TailAtEnds DEF TailKnown
    <3>. QED BY <3>1, <3>2 DEF TailSparesMotion, MotionsAreClosed, Nothing
  <2>. QED BY <2>2, <2>3
<1>2. CASE StopAll
  <2>1. /\ cmd' = IF cmd = Nothing THEN cmd ELSE [cmd EXCEPT !.cancelled = TRUE]
        /\ tail' = [s \in Slot |-> IF s = "__estop__"
                                     THEN [kind |-> "halt", left |-> TailLen] ELSE NoTail]
        /\ spawned' = spawned \o <<"STOP", "ARM 0">>
    BY <1>2 DEF StopAll, EmergencyStop
  <2>2. /\ [kind |-> "halt", left |-> TailLen]
             \in [kind : {"none", "deadman", "stop", "halt"}, left : Int]
        /\ NoTail \in [kind : {"none", "deadman", "stop", "halt"}, left : Int]
        /\ NoTail.kind = "none"
    BY TailLenIsNumber DEF NoTail
  <2>3. TailKnown' /\ tail'["drive"].kind = "none"
    BY <1>0, <2>1, <2>2 DEF TailKnown
  <2>4. spawned' # <<>>
    BY <1>2, StopLines DEF StopAll
  <2>. QED BY <2>3, <2>4 DEF TailSparesMotion, MotionsAreClosed
<1>3. CASE DriverCalled
  <2>1. CASE Interrupt
    <3>1. cmd'.name = cmd.name /\ cmd'.cancelled /\ UNCHANGED <<tail, spawned, lastLine, link, conn>>
      BY <2>1 DEF Interrupt, linkVars, OnlyLines, CommandKnown
    <3>. QED BY <3>1 DEF TailKnown, TailSparesMotion, MotionsAreClosed, Alive
  <2>2. ASSUME NEW f \in {"TWIST", "TWIST 0"}, SetVelocity(f)
        PROVE  MotionInv'
    <3>1. TailLen \in Int
      BY TailLenIsNumber
    <3>2. TailKnown' /\ tail'["drive"].kind = "deadman"
      BY <1>0, <2>2, <3>1 DEF SetVelocity, TailKnown
    <3>3. spawned' # <<>>
      <4>1. f \in Frame
        BY BurstAssumption
      <4>. QED BY <2>2, <4>1, AppendProperties DEF SetVelocity, OnlyLines
    <3>. QED BY <3>2, <3>3 DEF TailSparesMotion, MotionsAreClosed
  <2>. QED BY <1>3, <2>1, <2>2 DEF DriverCalled
<1>4. CASE DriverWorks
  <2>1. CASE CommandResumes
    <3>1. CASE /\ Send(Line(cmd.name), Origin(cmd.name))
               /\ cmd' = [cmd EXCEPT !.left = @ - 1]
               /\ UNCHANGED tail
      <4>1. cmd'.name = cmd.name /\ cmd'.cancelled = cmd.cancelled
        BY <2>1, <3>1 DEF CommandResumes, OnlyLines, CommandKnown
      <4>2. link' = link /\ Alive' = Alive /\ spawned' = spawned
            /\ lastLine' = IF Alive THEN Origin(cmd.name) ELSE lastLine
        BY <2>1, <3>1 DEF CommandResumes, Send, Write, Alive
      <4>. QED
        BY <3>1, <4>1, <4>2 DEF TailKnown, TailSparesMotion, MotionsAreClosed, Origin
    <3>2. CASE CommandEnds
      <4>1. /\ cmd'.name = "none" /\ tail' = TailAtEnd(cmd.name, tail)
            /\ UNCHANGED <<lastLine, link, conn, spawned>>
        BY <2>1, <3>2 DEF CommandResumes, CommandEnds, Nothing, linkVars
      <4>2. TailKnown' /\ (cmd.name = "move" => tail'["drive"].kind = "stop")
            /\ (cmd.name # "move" => tail' = tail)
        BY <4>1, TailAtEnds DEF TailKnown
      <4>. QED BY <4>1, <4>2 DEF TailSparesMotion, MotionsAreClosed, Alive
    <3>. QED BY <2>1, <3>1, <3>2 DEF CommandResumes
  <2>2. CASE DeadmanFires
    <3>1. /\ tail["drive"].kind = "deadman"
          /\ tail' = [tail EXCEPT !["drive"].kind = "halt"]
          /\ UNCHANGED <<cmd, spawned, lastLine, link, conn>>
      BY <2>2 DEF DeadmanFires, linkVars
    <3>2. TailKnown' /\ tail'["drive"].kind = "halt"
      BY <1>0, <3>1 DEF TailKnown
    <3>. QED BY <3>1, <3>2 DEF TailSparesMotion, MotionsAreClosed, Alive
  <2>3. CASE SpawnedRuns
    <3>1. /\ UNCHANGED <<cmd, tail>>
          /\ \/ link' # "up"
             \/ lastLine' = "other"
             \/ ~Alive'
      BY <2>3 DEF SpawnedRuns, SendQuiet, Send, Write, Writable, Alive, linkVars
    <3>. QED BY <3>1 DEF TailKnown, TailSparesMotion, MotionsAreClosed
  <2>4. ASSUME NEW t \in Slot, TailSends(t)
        PROVE  MotionInv'
    <3>1. /\ tail' = [tail EXCEPT ![t] = IF @.left = 1 THEN NoTail
                                          ELSE [@ EXCEPT !.left = tail[t].left - 1]]
          /\ UNCHANGED <<cmd, spawned>>
          /\ \/ link' # "up"
             \/ lastLine' = "other"
             \/ ~Alive'
      BY <2>4 DEF TailSends, SendQuiet, Send, Write, Writable, Alive, linkVars
    <3>2. /\ NoTail \in [kind : {"none", "deadman", "stop", "halt"}, left : Int]
          /\ NoTail.kind = "none"
      BY DEF NoTail
    <3>3. /\ tail[t] \in [kind : {"none", "deadman", "stop", "halt"}, left : Int]
          /\ [tail[t] EXCEPT !.left = tail[t].left - 1]
               \in [kind : {"none", "deadman", "stop", "halt"}, left : Int]
          /\ [tail[t] EXCEPT !.left = tail[t].left - 1].kind = tail[t].kind
      BY DEF TailKnown
    <3>4. TailKnown' /\ (tail'["drive"].kind = "stop" => tail["drive"].kind = "stop")
      BY <1>0, <3>1, <3>2, <3>3 DEF TailKnown
    <3>. QED BY <3>1, <3>4 DEF TailSparesMotion, MotionsAreClosed
  <2>. QED BY <1>4, <2>1, <2>2, <2>3, <2>4 DEF DriverWorks
<1>5. CASE Setup
  BY <1>5, StillMotion DEF Setup, SetupTelemetry, Open, driverVars
<1>6. CASE Teardown
  BY <1>6 DEF Teardown, TeardownTelemetry, TailKnown, TailSparesMotion, MotionsAreClosed,
     NoTail, Slot
<1>7. CASE LinkConnects
  BY <1>7 DEF LinkConnects, TailKnown, TailSparesMotion, MotionsAreClosed
<1>8. CASE LinkWorks
  BY <1>8, StillMotion
     DEF LinkWorks, ConnectFails, DelayEnds, NoticesLoss, driverVars, Alive
<1>9. CASE RobotReads \/ RobotAccepts \/ RobotFindsClientGone \/ RobotMoves \/ RobotJoins
           \/ Buttons \/ AccessPoint
  BY <1>9, StillMotion
     DEF RobotReads, RobotAccepts, RobotFindsClientGone, RobotMoves, RobotJoins, Buttons,
         AccessPoint, driverVars, linkVars, Alive
<1>10. CASE RobotReconnects \/ NetworkBreaks \/ PowerFails
  BY <1>10, StillMotion
     DEF RobotReconnects, NetworkBreaks, PowerFails, Breaks, driverVars, Alive
<1>11. CASE UNCHANGED vars
  BY <1>11, StillMotion DEF vars, linkVars, driverVars, Alive
<1>. QED
  BY <1>1, <1>2, <1>3, <1>4, <1>5, <1>6, <1>7, <1>8, <1>9, <1>10, <1>11 DEF Next

(* No move is cut short by the stop tail of the one before it.             *)
THEOREM TailsSpareMotions == Spec => []TailSparesMotion
<1>1. MotionInv => TailSparesMotion
  BY DEF MotionInv
<1>. QED
  BY <1>1, InitLines, InitConn, InitMotion, StepLines, StepConn, StepMotion, PTL DEF Spec

(* On a live connection every move is followed by a stop, whatever ended   *)
(* it.                                                                     *)
THEOREM EveryMotionIsClosed == Spec => []MotionsAreClosed
<1>1. MotionInv => MotionsAreClosed
  BY DEF MotionInv
<1>. QED
  BY <1>1, InitLines, InitConn, InitMotion, StepLines, StepConn, StepMotion, PTL DEF Spec
=============================================================================
