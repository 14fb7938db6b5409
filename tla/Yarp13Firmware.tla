--------------------------- MODULE Yarp13Firmware ---------------------------
(***************************************************************************)
(* The program of the yarp-13 robot (firmware/yarp13-mega).  A pass of     *)
(* loop() reads the sensors once TTT_Sensors is over, writes the motors    *)
(* and handles the stored command; frames are received while it waits for  *)
(* the next pass.  A speed is its sign; time is counted in sensor ticks.   *)
(* The gun and the beeper, which Beep() drives too, are left out: what     *)
(* matters of their commands is the place they take.                       *)
(***************************************************************************)
EXTENDS Integers

CONSTANTS
  WaitCmd,      \* Wait_cmd_time in ticks
  CalibrSteps,  \* calibr_max_cnt
  Guarded       \* SWITCHES[SW_CONNECT] is on

ASSUME FirmwareAssumption ==
  /\ WaitCmd \in Nat
  /\ CalibrSteps \in Nat \ {0}
  /\ Guarded \in BOOLEAN

VARIABLES
  wheels,   \* w_l and w_r
  status,   \* sensors_msg.status: the reflexes that act
  age,      \* ticks since Pred_cmd_time, as far as the watchdog cares
  calibr,   \* calibr_step
  command,  \* Command, with its arguments
  checked   \* history: what set the wheels since the last tick minds the
            \* reflexes

robotVars == <<wheels, status, age, calibr, command, checked>>

Reflex == {"power", "left", "right"}
Still == [left |-> 0, right |-> 0]
Forward == [left |-> 1, right |-> 1]

RobotTypeOK ==
  /\ wheels \in [left : -1..1, right : -1..1]
  /\ status \subseteq Reflex
  /\ age \in 0..(WaitCmd + 2)
  /\ calibr \in 0..CalibrSteps
  /\ command \in {"none", "dctl", "dctl 0", "pidctl 0", "calibr", "calibr_speed", "other"}
  /\ checked \in BOOLEAN

RobotInit ==
  /\ wheels = Still
  /\ status = {}
  /\ age = 0
  /\ calibr = CalibrSteps
  /\ command = "none"
  /\ checked = TRUE

Calibrating == calibr < CalibrSteps

---------------------------------------------------------------------------
(* Fault variant: only the loop minds the obstacles.                       *)
MindfulFaulty(v) == [left |-> v, right |-> v]

(* The reflexes in messageCbVel().                                         *)
Mindful(v) == [left  |-> IF v > 0 /\ "left"  \in status THEN 0 ELSE v,
               right |-> IF v > 0 /\ "right" \in status THEN 0 ELSE v]

(* messageCbVel(), with the low-pass filter off (KLPF = 1, the default).    *)
MessageCbVel(f) ==
  /\ IF "power" \in status
       THEN UNCHANGED <<wheels, age>>
       ELSE /\ wheels' = Mindful(IF f = "go" THEN 1 ELSE 0)
            /\ age' = 0
  /\ UNCHANGED <<status, calibr, command, checked>>

(* messageCbCmd(): one place for one command.                              *)
MessageCbCmd(f) ==
  /\ command' = IF f \in {"dctl", "dctl 0", "pidctl 0", "calibr", "calibr_speed"}
                   THEN f ELSE "other"
  /\ age' = 0
  /\ UNCHANGED <<wheels, status, calibr, checked>>

Receive(f) == IF f \in {"go", "halt"} THEN MessageCbVel(f) ELSE MessageCbCmd(f)

(* Fault variant: the watchdog only reports.                               *)
BrakedFaulty(sensed) ==
  IF "power" \in sensed THEN Still
  ELSE [left  |-> IF wheels.left  > 0 /\ "right" \in sensed THEN 0 ELSE wheels.left,
        right |-> IF wheels.right > 0 /\ "left"  \in sensed THEN 0 ELSE wheels.right]

(* The wheels after the reflexes and the watchdog of a tick.  The sensor   *)
(* on one side brakes the wheel on the other.                              *)
Braked(sensed) ==
  IF "power" \in sensed \/ (Guarded /\ age > WaitCmd) THEN Still
  ELSE [left  |-> IF wheels.left  > 0 /\ "right" \in sensed THEN 0 ELSE wheels.left,
        right |-> IF wheels.right > 0 /\ "left"  \in sensed THEN 0 ELSE wheels.right]

(* One step of the compass calibration: half of the steps turn one way.    *)
Turn ==
  IF calibr + 1 >= CalibrSteps THEN Still
  ELSE IF 2 * calibr < CalibrSteps THEN [left |-> -1, right |-> 1]
  ELSE [left |-> 1, right |-> -1]

(* The stored command is carried out.  It finds the wheels at w and the    *)
(* calibration at step k.  New parameters end a calibration and leave the  *)
(* wheels as they turn.                                                    *)
Handle(w, k) ==
  /\ wheels' = CASE command = "dctl"                    -> Forward
                 [] command \in {"dctl 0", "pidctl 0"} -> Still
                 [] OTHER                               -> w
  /\ calibr' = CASE command = "calibr"       -> 0
                 [] command = "calibr_speed" -> CalibrSteps
                 [] OTHER                    -> k
  /\ command' = "none"

(* A pass of loop() before the next tick is due.                           *)
Pass ==
  /\ Handle(wheels, calibr)
  /\ checked' = (checked /\ command # "dctl")
  /\ UNCHANGED <<status, age>>

(* A pass with a tick that finds the sensors so.                           *)
Tick(sensed) ==
  /\ status' = sensed
  /\ IF Calibrating
       THEN Handle(Turn, calibr + 1) /\ age' = 0
       ELSE /\ Handle(Braked(sensed), calibr)
            /\ age' = IF age <= WaitCmd + 1 THEN age + 1 ELSE age
  /\ checked' = (~Calibrating /\ command # "dctl")

---------------------------------------------------------------------------
(* With the watchdog switched on the wheels turn at most one tick longer   *)
(* than Wait_cmd_time after the last frame, whatever was sent before; the  *)
(* calibration looks after itself (STAT_NO_CMD in loop()).                 *)
HoldRunsOut ==
  Guarded /\ age > WaitCmd + 1 /\ command = "none" => wheels = Still \/ Calibrating

(* A velocity that arrives while a reflex acts does not undo it: no wheel  *)
(* at low voltage, none forward with an obstacle ahead (messageCbVel() and *)
(* the reflexes of loop()).                                                *)
ReflexesHold ==
  checked => /\ "power" \in status => wheels = Still
             /\ {"left", "right"} \subseteq status => wheels.left <= 0 /\ wheels.right <= 0
=============================================================================
