------------------------- MODULE MicrobotFirmware -------------------------
(***************************************************************************)
(* The program of the micro-robot (firmware/esp32-microbot).  Time is      *)
(* counted in periods of controlStep().  loop() runs many times in a       *)
(* period, so what else it calls is taken in any order, any number of      *)
(* times; nothing of it runs while connectWifi() waits.                    *)
(***************************************************************************)
EXTENDS Naturals

CONSTANT CmdTimeout   \* CMD_TIMEOUT_MS in periods

ASSUME TimeoutAssumption == CmdTimeout \in Nat

VARIABLES
  target,     \* the setpoint is not zero (targetV, targetW)
  armed,      \* the power stage is enabled
  turning,    \* the bridges drive the wheels (pwmLeft, pwmRight)
  age,        \* periods since lastCmdMs, as far as the deadman tells them apart
  wifi,       \* WiFi.status() is WL_CONNECTED
  connecting, \* the program is in the loop of connectWifi()
  screen,     \* uiScreen
  listening,  \* tcpServer.begin() was called
  client,     \* tcpClient: "none" | "live" | "dead", not yet found out
  fragment,   \* rxBuffer begins with a piece of a line that never ended
  silence     \* history: periods since a setpoint was read

firmwareVars == <<target, armed, turning, age, wifi, connecting, screen,
                  listening, client, fragment, silence>>

motion == <<target, turning, age, silence>>
radio  == <<wifi, connecting, screen, listening>>
input  == <<client, fragment>>

Lines == {"TWIST", "TWIST 0", "STOP", "ARM 1", "ARM 0"}

FirmwareTypeOK ==
  /\ target \in BOOLEAN /\ armed \in BOOLEAN /\ turning \in BOOLEAN
  /\ age \in 0..(CmdTimeout + 1)
  /\ silence \in 0..(CmdTimeout + 2)
  /\ wifi \in BOOLEAN /\ connecting \in BOOLEAN
  /\ screen \in {"status", "menu"}
  /\ listening \in BOOLEAN
  /\ client \in {"none", "live", "dead"}
  /\ fragment \in BOOLEAN

(* Power on: setup() has come to connectWifi().                            *)
PoweredOn ==
  /\ target = FALSE /\ armed = TRUE /\ turning = FALSE
  /\ age = 0 /\ silence = CmdTimeout + 2
  /\ wifi = FALSE /\ connecting = TRUE
  /\ screen = "status"
  /\ listening = FALSE
  /\ client = "none" /\ fragment = FALSE

---------------------------------------------------------------------------
(* handleLine(): what a line that came through whole does.                 *)
Obey(f) ==
  CASE f \in {"TWIST", "TWIST 0"} ->
         /\ target' = (f = "TWIST")
         /\ age' = 0
         /\ silence' = IF f = "TWIST" THEN 0 ELSE silence
         /\ UNCHANGED <<armed, turning>>
    [] f = "STOP" ->
         /\ target' = FALSE
         /\ age' = 0
         /\ turning' = FALSE
         /\ UNCHANGED <<armed, silence>>
    [] f = "ARM 1" -> armed' = TRUE /\ UNCHANGED motion
    [] f = "ARM 0" ->
         /\ armed' = FALSE
         /\ turning' = FALSE
         /\ UNCHANGED <<target, age, silence>>

(* serviceTcp() is called unless the network is down and to be retried.    *)
Serving == ~connecting /\ (wifi \/ screen = "menu")

(* A line f is complete.  With a piece of another line before it the       *)
(* buffer holds no command, which handleLine() ignores.                    *)
ReadLine(f) ==
  /\ Serving
  /\ client # "none"
  /\ IF fragment THEN UNCHANGED <<armed, motion>> ELSE Obey(f)
  /\ fragment' = FALSE
  /\ UNCHANGED <<radio, client>>

(* Fault variant: the buffer of the last session is kept.                  *)
AcceptFaulty ==
  /\ Serving
  /\ client = "none"
  /\ listening
  /\ client' = "live"
  /\ target' = FALSE
  /\ age' = 0
  /\ UNCHANGED <<turning, silence, armed, radio, fragment>>

(* tcpServer.available() returns a connection.                             *)
Accept ==
  /\ Serving
  /\ client = "none"
  /\ listening
  /\ client' = "live"
  /\ fragment' = FALSE
  /\ target' = FALSE
  /\ age' = 0
  /\ UNCHANGED <<turning, silence, armed, radio>>

(* The connection breaks; what has arrived may still be read.              *)
Drop ==
  /\ client' = IF client = "live" THEN "dead" ELSE client
  /\ UNCHANGED fragment

ClientLost == Drop /\ UNCHANGED <<motion, armed, radio>>

(* connected() returns false.  The last bytes need not have been a line.   *)
FindsClientGone ==
  /\ Serving
  /\ client = "dead"
  /\ client' = "none"
  /\ \E piece \in BOOLEAN : fragment' = (fragment \/ piece)
  /\ UNCHANGED <<motion, armed, radio>>

(* A period passes while the loop is held up.                              *)
TimePasses ==
  /\ age' = IF age <= CmdTimeout THEN age + 1 ELSE age
  /\ silence' = IF silence <= CmdTimeout + 1 THEN silence + 1 ELSE silence

(* controlStep().                                                          *)
ControlStep ==
  /\ target' = (target /\ age <= CmdTimeout)
  /\ turning' = (armed /\ target')

Period ==
  /\ TimePasses
  /\ IF connecting THEN UNCHANGED <<target, turning>> ELSE ControlStep
  /\ UNCHANGED <<armed, radio, input>>

---------------------------------------------------------------------------
(* Fault variant: the wheels are left to the deadman.                      *)
ConnectWifiFaulty ==
  /\ ~connecting
  /\ connecting' = TRUE
  /\ wifi' = FALSE
  /\ Drop
  /\ UNCHANGED <<motion, armed, listening>>

(* connectWifi() up to its waiting loop.  WiFi.disconnect() takes every    *)
(* connection with it.                                                     *)
ConnectWifi ==
  /\ ~connecting
  /\ connecting' = TRUE
  /\ turning' = FALSE
  /\ wifi' = FALSE
  /\ Drop
  /\ UNCHANGED <<target, age, silence, armed, listening>>

(* The rest of connectWifi(): connected, or WIFI_CONNECT_TIMEOUT_MS.       *)
WifiAnswers ==
  /\ connecting
  /\ connecting' = FALSE
  /\ \/ wifi /\ listening' = TRUE /\ screen' = screen
     \/ ~wifi /\ screen' = "menu" /\ listening' = listening
  /\ UNCHANGED <<motion, armed, wifi, input>>

(* loop(): the network fell off and nobody is choosing another one.        *)
RetryWifi ==
  /\ ~wifi
  /\ screen # "menu"
  /\ ConnectWifi
  /\ UNCHANGED screen

(* handleUiButtons().                                                      *)
OpenMenu ==
  /\ ~connecting
  /\ screen = "status"
  /\ screen' = "menu"
  /\ UNCHANGED <<motion, armed, wifi, connecting, listening, input>>

LeaveMenu ==
  /\ ~connecting
  /\ screen = "menu"
  /\ screen' = "status"
  /\ UNCHANGED <<motion, armed, wifi, connecting, listening, input>>

ChooseNetwork ==
  /\ screen = "menu"
  /\ screen' = "status"
  /\ ConnectWifi

ToggleArmed ==
  /\ ~connecting
  /\ screen = "status"
  /\ armed' = ~armed
  /\ turning' = (turning /\ armed')
  /\ UNCHANGED <<target, age, silence, radio, input>>

(* The access point, which the radio keeps looking for.                    *)
WifiChanges ==
  /\ wifi' = ~wifi
  /\ UNCHANGED <<motion, armed, connecting, screen, listening, input>>

Reboot ==
  /\ target' = FALSE /\ armed' = TRUE /\ turning' = FALSE
  /\ age' = 0 /\ silence' = CmdTimeout + 2
  /\ wifi' = FALSE /\ connecting' = TRUE
  /\ screen' = "status"
  /\ listening' = FALSE
  /\ client' = "none" /\ fragment' = FALSE

(* The robot with a server that may send anything at any time.             *)
FirmwareNext ==
  \/ \E f \in Lines : ReadLine(f)
  \/ Accept \/ ClientLost \/ FindsClientGone \/ Period
  \/ WifiAnswers \/ RetryWifi \/ OpenMenu \/ LeaveMenu \/ ChooseNetwork
  \/ ToggleArmed \/ WifiChanges \/ Reboot

FirmwareSpec == PoweredOn /\ [][FirmwareNext]_firmwareVars

---------------------------------------------------------------------------
(* The wheels turn at most one control period longer than the deadman      *)
(* allows after the last setpoint that was read (CMD_TIMEOUT_MS and        *)
(* controlStep()), also while connectWifi() blocks the loop for seconds    *)
(* and when sessions follow one another.                                   *)
SilenceStops == turning => silence <= CmdTimeout + 1

(* The line buffer of a session begins with no piece of an earlier one     *)
(* (rxBuffer is cleared by serviceTcp() when it accepts a connection).     *)
SessionsDoNotMix == client = "live" => ~fragment
=============================================================================
