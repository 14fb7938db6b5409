-------------------------- MODULE MicrobotDriver --------------------------
(***************************************************************************)
(* MicrobotDriver (manager/DeviceDrivers.py): the command the worker has   *)
(* handed to it, the background tails in their two slots, and the tasks    *)
(* that emergency_stop and set_velocity spawn for a single line.  A burst  *)
(* sends a line, sleeps, sends again; the sleeps are where other tasks     *)
(* run and where a cancellation arrives.                                   *)
(***************************************************************************)
EXTENDS TcpLink

CONSTANTS
  MotionLen,  \* lines of the longest move
  TailLen,    \* lines of a stop tail, of the stop command (_STOP_TAIL_S)
  OneShotLen  \* lines of a one-shot command (_ONESHOT_S)

ASSUME BurstAssumption ==
  /\ {"TWIST", "TWIST 0", "STOP", "ARM 1", "ARM 0"} \subseteq Frame
  /\ MotionLen \in Nat \ {0}
  /\ TailLen \in Nat \ {0}
  /\ OneShotLen \in Nat \ {0}

VARIABLES
  cmd,        \* the command that runs: name, lines left, and whether its
              \* task was cancelled and has not resumed
  tail,       \* per slot the background task: kind and lines left
  spawned,    \* lines of spawned tasks that have not run, oldest first
  lastLine    \* history: what was written last on this connection,
              \* "move" for a setpoint of a move

driverVars == <<cmd, tail, spawned, lastLine>>

Slot == {"drive", "__estop__"}
CommandName == {"move", "stop", "arm", "disarm"}
Nothing == [name |-> "none", left |-> 0, cancelled |-> FALSE]
NoTail == [kind |-> "none", left |-> 0]

DriverTypeOK ==
  /\ cmd \in [name : CommandName \cup {"none"}, left : Nat, cancelled : BOOLEAN]
  /\ tail \in [Slot -> [kind : {"none", "deadman", "stop", "halt"}, left : 0..TailLen]]
  /\ spawned \in Seq(Frame)
  /\ lastLine \in {"none", "move", "other"}

DriverInit ==
  /\ cmd = Nothing
  /\ tail = [s \in Slot |-> NoTail]
  /\ spawned = <<>>
  /\ lastLine = "none"

---------------------------------------------------------------------------
Line(name) ==
  CASE name = "move"    -> "TWIST"
    [] name = "stop"    -> "STOP"
    [] name = "arm"     -> "ARM 1"
    [] name = "disarm"  -> "ARM 0"

(* How often a command sends its line.                                     *)
Burst(name) ==
  CASE name = "move" -> 1..MotionLen
    [] name = "stop" -> {TailLen}
    [] OTHER         -> {OneShotLen}

(* A tail or deadman that was not cancelled yet and has not taken its      *)
(* first step: it was created by a task that ran in this turn of the loop. *)
Fresh(s) == tail[s].kind = "stop" /\ tail[s].left = TailLen

StopTail == [kind |-> "stop", left |-> TailLen]

(* Fault variant: a command leaves the tail of the motion before it.       *)
TailAtStartFaulty(name) == tail

(* The slots after a command began.                                        *)
TailAtStart(name) ==
  IF name \in {"move", "stop", "disarm"} THEN [tail EXCEPT !["drive"] = NoTail] ELSE tail

(* Fault variant: a move that was cancelled starts no tail.                *)
TailAtEndFaulty(name, slots) ==
  IF name = "move" /\ ~cmd.cancelled
    THEN [slots EXCEPT !["drive"] = StopTail] ELSE slots

(* The slots after it ended in any way.                                    *)
TailAtEnd(name, slots) ==
  IF name = "move" THEN [slots EXCEPT !["drive"] = StopTail] ELSE slots

Send(f, by) ==
  /\ Write(f)
  /\ lastLine' = IF Alive THEN by ELSE lastLine

(* The background paths swallow a lost connection.                         *)
SendQuiet(f) ==
  \/ Writable /\ Send(f, "other")
  \/ ~Writable /\ UNCHANGED <<linkVars, lastLine>>

Origin(name) == IF name = "move" THEN "move" ELSE "other"

---------------------------------------------------------------------------
(* execute_command() up to its first sleep, or to its end when the line    *)
(* cannot be written.  The worker starts a command only after the tail     *)
(* that the end of the last one created took its first step.               *)
ExecuteCommand(name) ==
  /\ cmd = Nothing
  /\ ~Fresh("drive")
  /\ \/ /\ Writable
        /\ Send(Line(name), Origin(name))
        /\ \E n \in Burst(name) :
             cmd' = [name |-> name, left |-> n - 1, cancelled |-> FALSE]
        /\ tail' = TailAtStart(name)
     \/ /\ ~Writable
        /\ tail' = TailAtEnd(name, TailAtStart(name))
        /\ UNCHANGED <<cmd, lastLine, linkVars>>
  /\ UNCHANGED spawned

CommandEnds ==
  /\ cmd' = Nothing
  /\ tail' = TailAtEnd(cmd.name, tail)
  /\ UNCHANGED <<lastLine, linkVars>>

(* The command wakes up: its next line, its end, or the error of a lost    *)
(* connection, or CancelledError.                                          *)
CommandResumes ==
  /\ cmd # Nothing
  /\ \/ /\ ~cmd.cancelled /\ cmd.left > 0 /\ Writable
        /\ Send(Line(cmd.name), Origin(cmd.name))
        /\ cmd' = [cmd EXCEPT !.left = @ - 1]
        /\ UNCHANGED tail
     \/ /\ cmd.cancelled \/ cmd.left = 0 \/ ~Writable
        /\ CommandEnds
  /\ UNCHANGED spawned

(* interrupt_device() of the scheduler.                                    *)
Interrupt ==
  /\ cmd # Nothing
  /\ ~cmd.cancelled
  /\ cmd' = [cmd EXCEPT !.cancelled = TRUE]
  /\ UNCHANGED <<tail, spawned, lastLine, linkVars>>

(* set_velocity(), called by a procedure to drive or to stand still.       *)
SetVelocity(f) ==
  /\ f \in {"TWIST", "TWIST 0"}
  /\ tail' = [tail EXCEPT !["drive"] = [kind |-> "deadman", left |-> TailLen]]
  /\ spawned' = Append(spawned, f)
  /\ UNCHANGED <<cmd, lastLine, linkVars>>

(* _deadman(): no setpoint for _DEADMAN_S.                                 *)
DeadmanFires ==
  /\ tail["drive"].kind = "deadman"
  /\ tail' = [tail EXCEPT !["drive"].kind = "halt"]
  /\ UNCHANGED <<cmd, spawned, lastLine, linkVars>>

(* Fault variant: the emergency stop commands zero speed and no more.      *)
EmergencyStopFaulty ==
  /\ cmd' = IF cmd = Nothing THEN cmd ELSE [cmd EXCEPT !.cancelled = TRUE]
  /\ tail' = [s \in Slot |-> IF s = "__estop__"
                               THEN [kind |-> "halt", left |-> TailLen] ELSE NoTail]
  /\ spawned' = Append(spawned, "STOP")
  /\ UNCHANGED <<lastLine, linkVars>>

(* stop_all on this device: the command is interrupted, then               *)
(* emergency_stop(), without a suspension in between.                      *)
EmergencyStop ==
  /\ cmd' = IF cmd = Nothing THEN cmd ELSE [cmd EXCEPT !.cancelled = TRUE]
  /\ tail' = [s \in Slot |-> IF s = "__estop__"
                               THEN [kind |-> "halt", left |-> TailLen] ELSE NoTail]
  /\ spawned' = spawned \o <<"STOP", "ARM 0">>
  /\ UNCHANGED <<lastLine, linkVars>>

SpawnedRuns ==
  /\ spawned # <<>>
  /\ SendQuiet(Head(spawned))
  /\ spawned' = Tail(spawned)
  /\ UNCHANGED <<cmd, tail>>

(* _stream_quiet("STOP").                                                  *)
TailSends(s) ==
  /\ tail[s].kind \in {"stop", "halt"}
  /\ SendQuiet("STOP")
  /\ tail' = [tail EXCEPT ![s] = IF @.left = 1 THEN NoTail
                                 ELSE [@ EXCEPT !.left = tail[s].left - 1]]
  /\ UNCHANGED <<cmd, spawned>>

SetupTelemetry == Open /\ UNCHANGED driverVars

TeardownTelemetry ==
  /\ Close
  /\ tail' = [s \in Slot |-> NoTail]
  /\ lastLine' = "none"
  /\ UNCHANGED <<cmd, spawned>>
=============================================================================
