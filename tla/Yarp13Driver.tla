---------------------------- MODULE Yarp13Driver ----------------------------
(***************************************************************************)
(* Yarp13Driver (manager/DeviceDrivers.py): the command the worker handed  *)
(* to it and the background tails, one slot per actuator channel and one   *)
(* for the emergency stop.  Every frame is repeated, because the line to   *)
(* the robot loses frames.  Both topics end in the serial line, so one     *)
(* sequence holds what was published and has not arrived.                  *)
(***************************************************************************)
EXTENDS Naturals, Sequences

CONSTANTS
  MotionLen,   \* frames of the longest motion or beep
  TailLen,     \* frames of a tail, of the stop command (_STOP_TAIL_S)
  OneShotLen,  \* frames of a one-shot command (_ONESHOT_S)
  MaxUnread    \* bound: frames under way when another one is published

ASSUME BurstAssumption ==
  /\ MotionLen \in Nat \ {0}
  /\ TailLen \in Nat \ {0}
  /\ OneShotLen \in Nat \ {0}
  /\ OneShotLen <= TailLen

VARIABLES
  cmd,      \* the command that runs: name, frames left, and whether its task
            \* was cancelled and has not resumed
  tail,     \* per slot what the background task streams, and frames left
  line,     \* published and not yet arrived
  promise,  \* history: what each actuator shall be in the end
  told,     \* history: what each was told last, and in how many turns
  halted    \* history: no command and no procedure asked the wheels to turn
            \* since a stop_all

driverVars == <<cmd, tail, line, promise, told, halted>>

Frame == {"go", "halt", "dctl", "dctl 0", "pidctl 0", "beep_on", "beep_off",
          "gun_on", "gun_off", "calibr", "calibr_speed"}
Slot == {"drive", "beep", "__estop__"}
Actuator == {"drive", "beep", "gun"}

(* "dctl" is a dctl or pidctl with a duration, "hold" is one without.  The *)
(* commands that set other parameters are left out.                        *)
Motion == {"move", "dctl", "beep"}
OneShot == {"beep_on", "beep_off", "gun_on", "gun_off", "compass_calibr",
            "set_calibr_speed"}
CommandName == Motion \cup OneShot \cup {"stop", "hold"}

Nothing == [name |-> "none", left |-> 0, cancelled |-> FALSE]
NoTail == [frame |-> "none", left |-> 0]

DriverTypeOK ==
  /\ cmd \in [name : CommandName \cup {"none"}, left : Nat, cancelled : BOOLEAN]
  /\ tail \in [Slot -> [frame : {"none", "deadman", "stops", "halt", "dctl 0", "beep_off"},
                        left : 0..TailLen]]
  /\ line \in Seq(Frame)
  /\ promise \in [Actuator -> {"any", "on", "off"}]
  /\ told \in [Actuator -> [what : {"on", "off"}, times : 0..TailLen]]
  /\ halted \in BOOLEAN

DriverInit ==
  /\ cmd = Nothing
  /\ tail = [s \in Slot |-> NoTail]
  /\ line = <<>>
  /\ promise = [a \in Actuator |-> "any"]
  /\ told = [a \in Actuator |-> [what |-> "off", times |-> 0]]
  /\ halted = FALSE

---------------------------------------------------------------------------

(* _channel_of().  What is not listed is a channel of its own.             *)
Channel(name) ==
  CASE name \in {"move", "stop", "dctl", "hold"}      -> "drive"
    [] name \in {"beep", "beep_on", "beep_off"}       -> "beep"
    [] name \in {"gun_on", "gun_off"}                 -> "gun"
    [] OTHER                                          -> name

(* What a command streams, how often, and what its tail streams.           *)
Setpoint(name) ==
  CASE name = "move"             -> "go"
    [] name = "stop"             -> "halt"
    [] name \in {"dctl", "hold"} -> "dctl"
    [] name = "beep"             -> "beep_on"
    [] name = "compass_calibr"   -> "calibr"
    [] name = "set_calibr_speed" -> "calibr_speed"
    [] OTHER                     -> name

Burst(name) ==
  CASE name \in Motion  -> 1..MotionLen
    [] name \in OneShot -> {OneShotLen}
    [] name = "stop"    -> {TailLen}
    [] name = "hold"    -> {1}

OffFrame(name) ==
  CASE name = "move" -> "halt"
    [] name = "dctl" -> "dctl 0"
    [] name = "beep" -> "beep_off"

(* The frames of an emergency stop.                                        *)
Stops == <<"halt", "dctl 0", "pidctl 0", "beep_off", "gun_off">>

---------------------------------------------------------------------------
(* The actuator that a frame is for, and what it tells it to be.           *)
Turns(f) == CASE f \in {"beep_on", "beep_off"} -> "beep"
              [] f \in {"gun_on", "gun_off"}   -> "gun"
              [] OTHER                         -> "drive"
Says(f) == IF f \in {"halt", "dctl 0", "pidctl 0", "beep_off", "gun_off"} THEN "off" ELSE "on"

Told(a, what) ==
  [what |-> what,
   times |-> IF told[a].what # what THEN 1
             ELSE IF told[a].times < TailLen THEN told[a].times + 1 ELSE TailLen]

Room == Len(line) < MaxUnread

(* One frame, or those of an emergency stop, which concern every actuator. *)
Publish(f) ==
  /\ Room
  /\ line' = Append(line, f)
  /\ told' = [told EXCEPT ![Turns(f)] = Told(Turns(f), Says(f))]

PublishStops ==
  /\ Room
  /\ line' = line \o Stops
  /\ told' = [a \in Actuator |-> Told(a, "off")]

CancelTail(slots, channel) == [s \in Slot |-> IF s = channel THEN NoTail ELSE slots[s]]
StartTail(channel, f) == [tail EXCEPT ![channel] = [frame |-> f, left |-> TailLen]]

(* What a command promises from its start.  While an emergency stop is     *)
(* repeated it may switch off again what the command switches on.          *)
PromiseOf(name) ==
  CASE name \in {"stop", "beep_off", "gun_off"} -> "off"
    [] name \in {"beep_on", "gun_on"}           ->
         IF tail["__estop__"] = NoTail THEN "on" ELSE "any"
    [] OTHER                                    -> "any"

ActuatorOf(name) ==
  CASE name \in {"beep", "beep_on", "beep_off"} -> "beep"
    [] name \in {"gun_on", "gun_off"}           -> "gun"
    [] OTHER                                    -> "drive"

Promised(name, p) == [promise EXCEPT ![ActuatorOf(name)] = p]

(* execute_command() up to its first sleep.                                *)
ExecuteCommand(name) ==
  /\ cmd = Nothing
  /\ Publish(Setpoint(name))
  /\ \E n \in Burst(name) : cmd' = [name |-> name, left |-> n - 1, cancelled |-> FALSE]
  /\ tail' = CancelTail(tail, Channel(name))
  /\ promise' = Promised(name, PromiseOf(name))
  /\ halted' = (halted /\ (ActuatorOf(name) # "drive" \/ name = "stop"))

(* The command ends in any way.                                            *)
CommandEnds ==
  /\ cmd' = Nothing
  /\ IF cmd.name \in Motion
       THEN /\ tail' = StartTail(Channel(cmd.name), OffFrame(cmd.name))
            /\ promise' = Promised(cmd.name, "off")
       ELSE UNCHANGED <<tail, promise>>
  /\ UNCHANGED <<line, told>>

(* It wakes up: its next frame, its end, or CancelledError.                *)
CommandResumes ==
  /\ cmd # Nothing
  /\ \/ /\ ~cmd.cancelled /\ cmd.left > 0
        /\ Publish(Setpoint(cmd.name))
        /\ cmd' = [cmd EXCEPT !.left = @ - 1]
        /\ UNCHANGED <<tail, promise>>
     \/ /\ cmd.cancelled \/ cmd.left = 0
        /\ CommandEnds
  /\ UNCHANGED halted

(* interrupt_device() of the scheduler: fewer frames than planned.         *)
Interrupt ==
  /\ cmd # Nothing
  /\ ~cmd.cancelled
  /\ cmd' = [cmd EXCEPT !.cancelled = TRUE]
  /\ promise' = Promised(cmd.name, "any")
  /\ UNCHANGED <<tail, line, told, halted>>

(* set_velocity(), called by a procedure.                                  *)
SetVelocity(f) ==
  /\ f \in {"go", "halt"}
  /\ Publish(f)
  /\ tail' = [tail EXCEPT !["drive"] = [frame |-> "deadman", left |-> TailLen]]
  /\ promise' = [promise EXCEPT !["drive"] = "any"]
  /\ halted' = FALSE
  /\ UNCHANGED cmd

(* _deadman(): no setpoint for _DEADMAN_S.  A command that drives at this  *)
(* time goes on.                                                           *)
DeadmanFires ==
  /\ tail["drive"].frame = "deadman"
  /\ tail' = [tail EXCEPT !["drive"].frame = "halt"]
  /\ promise' = [promise EXCEPT !["drive"] = IF cmd = Nothing THEN "off" ELSE "any"]
  /\ UNCHANGED <<cmd, line, told, halted>>

(* Fault variant: the frames published at once count as a repeat.          *)
EstopTailFaulty == [frame |-> "stops", left |-> TailLen - 1]

(* The repeats of an emergency stop.                                       *)
EstopTail == [frame |-> "stops", left |-> TailLen]

(* stop_all on this device: the command is interrupted, then               *)
(* emergency_stop(), without a suspension in between.                      *)
EmergencyStop ==
  /\ PublishStops
  /\ cmd' = IF cmd = Nothing THEN cmd ELSE [cmd EXCEPT !.cancelled = TRUE]
  /\ tail' = [s \in Slot |-> IF s = "__estop__" THEN EstopTail ELSE NoTail]
  /\ promise' = [a \in Actuator |-> "off"]
  /\ halted' = TRUE

(* A tail publishes, _estop_tail() all of its frames.                      *)
TailPublishes(s) ==
  /\ tail[s].frame \notin {"none", "deadman"}
  /\ IF s = "__estop__" THEN PublishStops ELSE Publish(tail[s].frame)
  /\ tail' = [tail EXCEPT ![s] = IF @.left = 1 THEN NoTail
                                      ELSE [frame |-> @.frame, left |-> @.left - 1]]
  /\ UNCHANGED <<cmd, promise, halted>>

(* teardown_telemetry() in a restart: the tails are cancelled and what     *)
(* the old adapter had not delivered is lost.                              *)
TeardownTelemetry ==
  /\ tail' = [s \in Slot |-> NoTail]
  /\ line' = <<>>
  /\ promise' = [a \in Actuator |-> "any"]
  /\ halted' = FALSE
  /\ UNCHANGED <<cmd, told>>

---------------------------------------------------------------------------
Idle == cmd = Nothing /\ tail = [s \in Slot |-> NoTail]

=============================================================================
