------------------------------ MODULE TcpLink ------------------------------
(***************************************************************************)
(* TcpInterface (manager/HardwareInterfaces.py): the link to one device,   *)
(* which connects, pumps lines and connects again for as long as it is     *)
(* open, and the TCP connection it holds.  The lines of the device are     *)
(* left out; the lines for the device are a sequence.                      *)
(***************************************************************************)
EXTENDS Naturals, Sequences

CONSTANTS
  Frame,      \* the lines a driver writes
  MaxUnread   \* bound: lines written and not yet read by the device

VARIABLES
  link,       \* the loop: "closed" | "connecting" | "waiting" | "up"
  conn,       \* its connection: "none" | "pending" until the device accepts
              \* it | "open" | "silent": ended, and nothing says so |
              \* "broken": ended, which the loop is going to notice
  stream      \* the lines under way on this connection

linkVars == <<link, conn, stream>>

LinkTypeOK ==
  /\ link \in {"closed", "connecting", "waiting", "up"}
  /\ conn \in {"none", "pending", "open", "silent", "broken"}
  /\ stream \in Seq(Frame)

LinkInit ==
  /\ link = "closed"
  /\ conn = "none"
  /\ stream = <<>>

---------------------------------------------------------------------------
(* A writer is set exactly while the loop pumps lines.                     *)
Writable == link = "up"

Alive == conn \in {"pending", "open"}

(* What can be written at this moment.                                     *)
Room == Len(stream) < MaxUnread

(* write(), when there is a writer: a connection that ended still takes    *)
(* the bytes as long as the loop has not noticed. A silent end comes out,  *)
(* for nobody acknowledges them: the device answers with a reset, or the   *)
(* kernel gives up.                                                        *)
Write(f) ==
  /\ Room
  /\ stream' = IF Alive THEN Append(stream, f) ELSE stream
  /\ conn' = IF conn = "silent" THEN "broken" ELSE conn
  /\ UNCHANGED link

Open ==
  /\ link = "closed"
  /\ link' = "connecting"
  /\ UNCHANGED <<conn, stream>>

(* open_connection() succeeds in the kernel of the device, before the      *)
(* program of the device accepts the connection.                           *)
Connects ==
  /\ link = "connecting"
  /\ link' = "up"
  /\ conn' = "pending"
  /\ stream' = <<>>

(* Refused, unreachable, or CONNECT_TIMEOUT.                               *)
ConnectFails ==
  /\ link = "connecting"
  /\ link' = "waiting"
  /\ UNCHANGED <<conn, stream>>

(* RECONNECT_DELAY is over.                                                *)
DelayEnds ==
  /\ link = "waiting"
  /\ link' = "connecting"
  /\ UNCHANGED <<conn, stream>>

(* Fault variant: an empty line is not taken for the end.                  *)
NoticesLossFaulty ==
  /\ link = "up"
  /\ conn = "broken"
  /\ UNCHANGED linkVars

(* readline() returns nothing or raises OSError. It has no timeout, and    *)
(* the socket no keepalive: a silent end is not noticed.                   *)
NoticesLoss ==
  /\ link = "up"
  /\ conn = "broken"
  /\ link' = "waiting"
  /\ conn' = "none"
  /\ UNCHANGED stream

(* close(): the entry is gone before the first await, so nothing can be    *)
(* written while the loop ends.                                            *)
Close ==
  /\ link # "closed"
  /\ link' = "closed"
  /\ conn' = "none"
  /\ stream' = <<>>

(* The connection is dropped with what was under way. Its end is announced *)
(* to the server ("broken"), or it is "silent".                            *)
Breaks(end) ==
  /\ conn' = IF Alive THEN end ELSE conn
  /\ stream' = <<>>
  /\ UNCHANGED link
=============================================================================
