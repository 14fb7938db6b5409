------------------------------ MODULE Sessions ------------------------------
(***************************************************************************)
(* manager/network/ws_handler.py: the connections of one user, the         *)
(* registry that keeps one of them, the locks that the user holds through  *)
(* it, and the tracking that routes what the devices report about commands *)
(* to the user. An action is what a task does between two awaits.          *)
(*                                                                         *)
(* Two awaits matter. connect() waits for the closing handshake of the     *)
(* connection it replaces before it registers its own. A send suspends     *)
(* while the peer does not read; the send lock keeps those after it in     *)
(* order.                                                                  *)
(***************************************************************************)
EXTENDS Naturals, Sequences, FiniteSets

CONSTANTS
  Socket,      \* connections of the user; each is opened at most once (bound)
  Device,
  Exclusive,   \* devices that must be acquired
  Command,     \* command ids; each is minted at most once (bound)
  User,        \* the user's name
  None

ASSUME SessionsAssumption ==
  /\ Exclusive \subseteq Device
  /\ None \notin Socket \cup Device \cup Command \cup {User}
  /\ IsFiniteSet(Device)

VARIABLES
  handler,     \* where the endpoint task of each socket is suspended
  closes,      \* the socket whose closing handshake it waits for
  app,         \* whether Starlette still takes the socket for connected
  link,        \* whether its peer is still there
  outbox,      \* the sends that suspended, the first one holds the send lock
  sessions,    \* the entry of the user in _sessions
  owner,       \* AccessController._device_owner
  tracked,     \* the keys of _command_owners and _command_pending
  pending,     \* _command_pending, 0 for no entry
  target,      \* the devices each command was submitted for
  notice,      \* the on_command_complete of each command and device
  by,          \* history: the socket each command came through
  told,        \* history: the devices reported to that socket
  mine,        \* history: what was acquired through each socket
  orphaned     \* history: registered sockets that a connection overwrote
               \* that was closing another one

socketVars == <<handler, closes, app, link, outbox>>
trackVars == <<tracked, pending, target, notice, by, told>>
sessionVars == <<socketVars, sessions, owner, trackVars, mine, orphaned>>

Access == INSTANCE AccessController WITH Client <- {User}

Running == {"reading", "answering"}
Open(s) == app[s] /\ link[s]

SessionsInit ==
  /\ handler = [s \in Socket |-> "absent"]
  /\ closes = [s \in Socket |-> None]
  /\ app = [s \in Socket |-> TRUE] /\ link = [s \in Socket |-> TRUE]
  /\ outbox = [s \in Socket |-> <<>>]
  /\ sessions = None
  /\ Access!OwnerInit
  /\ tracked = {}
  /\ pending = [c \in Command |-> 0]
  /\ target = [c \in Command |-> {}]
  /\ notice = [c \in Command |-> [d \in Device |-> "none"]]
  /\ by = [c \in Command |-> None]
  /\ told = [c \in Command |-> {}]
  /\ mine = [s \in Socket |-> {}]
  /\ orphaned = {}

-----------------------------------------------------------------------------
(* ConnectionManager.connect and disconnect.                               *)

(* The entry is overwritten, whatever it has become since it was read.     *)
Register(s) ==
  /\ handler' = [handler EXCEPT ![s] = "reading"]
  /\ sessions' = s
  /\ orphaned' = orphaned \cup ({sessions} \ {None, closes[s]})

(* The handshake is accepted. A socket that Starlette does not take for    *)
(* connected any more cannot be closed again: close() raises and the new   *)
(* connection is refused.                                                  *)
Connect(s) ==
  /\ handler[s] = "absent"
  /\ \/ sessions = None /\ Register(s) /\ UNCHANGED <<closes, app>>
     \/ /\ sessions # None /\ app[sessions]
        /\ handler' = [handler EXCEPT ![s] = "closing"]
        /\ closes' = [closes EXCEPT ![s] = sessions]
        /\ app' = [app EXCEPT ![sessions] = FALSE]
        /\ UNCHANGED <<sessions, orphaned>>
     \/ /\ sessions # None /\ ~app[sessions]
        /\ handler' = [handler EXCEPT ![s] = "over"]
        /\ UNCHANGED <<closes, app, sessions, orphaned>>
  /\ UNCHANGED <<link, outbox, owner, trackVars, mine>>

(* The old socket is gone. Its endpoint heard of that before, unless a     *)
(* send holds it up.                                                       *)
Replaces(s) ==
  /\ handler[s] = "closing"
  /\ ~link[closes[s]] /\ handler[closes[s]] # "reading"
  /\ Register(s)
  /\ closes' = [closes EXCEPT ![s] = None]
  /\ UNCHANGED <<app, link, outbox, owner, trackVars, mine>>

(* The closing frame could not be written: close() raises.                 *)
CloseFails(s) ==
  /\ handler[s] = "closing" /\ ~link[closes[s]]
  /\ handler' = [handler EXCEPT ![s] = "over"]
  /\ closes' = [closes EXCEPT ![s] = None]
  /\ UNCHANGED <<app, link, outbox, sessions, owner, trackVars, mine, orphaned>>

(* disconnect: the entry is this very session. Fault variant: the user has *)
(* an entry.                                                               *)
ActiveFaulty(s) == sessions # None
Active(s) == sessions = s

(* The finally clause, with on_client_disconnect. held: the owners before. *)
Leave(s, held) ==
  /\ handler' = [handler EXCEPT ![s] = "over"]
  /\ \/ Active(s) /\ sessions' = None /\ Access!ReleaseAll(User)
     \/ ~Active(s) /\ owner' = held /\ UNCHANGED sessions

(* receive_text reports the disconnect.                                    *)
Disconnected(s) ==
  /\ handler[s] = "reading" /\ ~link[s]
  /\ Leave(s, owner)
  /\ UNCHANGED <<closes, app, link, outbox, trackVars, mine, orphaned>>

(* receive_text on a socket that Starlette does not take for connected     *)
(* raises RuntimeError, which ends the loop as well. Fault variant: the    *)
(* clean-up runs after a WebSocketDisconnect only.                         *)
LeaveByErrorFaulty(s, held) ==
  handler' = [handler EXCEPT ![s] = "over"] /\ owner' = held /\ UNCHANGED sessions
LeaveByError(s, held) == Leave(s, held)

-----------------------------------------------------------------------------
(* ClientSession.send, by the endpoint of s. It swallows every failure; a  *)
(* failed write makes Starlette take the socket for disconnected.          *)

Answer == [of |-> None, device |-> None]

(* The handler ends with an answer; the loop goes back to receive_text.    *)
Reply(s, held) ==
  \/ /\ app[s] /\ outbox[s] = <<>>
     /\ handler' = [handler EXCEPT ![s] = "reading"]
     /\ owner' = held
     /\ UNCHANGED <<app, outbox, sessions>>
  \/ /\ Open(s)
     /\ handler' = [handler EXCEPT ![s] = "answering"]
     /\ outbox' = [outbox EXCEPT ![s] = Append(@, Answer)]
     /\ owner' = held
     /\ UNCHANGED <<app, sessions>>
  \/ /\ ~Open(s)
     /\ app' = [app EXCEPT ![s] = FALSE]
     /\ LeaveByError(s, held)
     /\ UNCHANGED outbox

(* The message handlers. One message may still arrive while the socket is  *)
(* being closed.                                                           *)

(* submit_command and register_command do not suspend, so that the command *)
(* is tracked before a device can settle it.                               *)
HandleSubmit(s, c, ds) ==
  /\ handler[s] = "reading" /\ by[c] = None
  /\ \A d \in ds : Access!CheckAccess(d, User)
  /\ by' = [by EXCEPT ![c] = s]
  /\ target' = [target EXCEPT ![c] = ds]
  /\ tracked' = tracked \cup {c}
  /\ pending' = [pending EXCEPT ![c] = Cardinality(ds)]
  /\ Reply(s, owner)
  /\ UNCHANGED <<closes, link, notice, told, mine, orphaned>>

HandleAcquire(s, d) ==
  /\ handler[s] = "reading" /\ d \in Exclusive
  /\ mine' = [mine EXCEPT ![s] = @ \cup {d}]
  /\ Reply(s, Access!Acquired({d}, User))
  /\ UNCHANGED <<closes, link, trackVars, orphaned>>

(* No answer, and no send that could suspend or fail.                      *)
HandleRelease(s, d) ==
  /\ handler[s] = "reading"
  /\ mine' = [t \in Socket |-> mine[t] \ {d}]
  /\ \/ app[s] /\ Access!Release({d}, User) /\ UNCHANGED <<handler, sessions>>
     \/ ~app[s] /\ LeaveByError(s, Access!Released({d}, User))
  /\ UNCHANGED <<closes, app, link, outbox, trackVars, orphaned>>

(* What is refused, and the other requests with an answer.                 *)
HandleOther(s) ==
  /\ handler[s] = "reading"
  /\ Reply(s, owner)
  /\ UNCHANGED <<closes, link, trackVars, mine, orphaned>>

-----------------------------------------------------------------------------
(* on_command_complete.                                                    *)

(* A device settles a command: the notification becomes a task.            *)
Settle(c, d) ==
  /\ d \in target[c] /\ notice[c][d] = "none"
  /\ notice' = [notice EXCEPT ![c][d] = "spawned"]
  /\ UNCHANGED <<socketVars, sessions, owner, tracked, pending, target, by, told,
                 mine, orphaned>>

(* After the send: read and written in one step.                           *)
CountDown(c) ==
  \/ pending[c] > 1 /\ pending' = [pending EXCEPT ![c] = @ - 1] /\ UNCHANGED tracked
  \/ /\ pending[c] <= 1
     /\ pending' = [pending EXCEPT ![c] = 0]
     /\ tracked' = tracked \ {c}

Concluded(c, d) ==
  /\ notice' = [notice EXCEPT ![c][d] = "done"]
  /\ CountDown(c)

Tell(s, c, d) ==
  told' = [told EXCEPT ![c] = @ \cup {x \in {d} : s = by[c] /\ link[s]}]

(* Without a session of the user the report is dropped and counted. Fault  *)
(* variant: it is only dropped.                                            *)
DropFaulty(c, d) == notice' = [notice EXCEPT ![c][d] = "done"] /\ UNCHANGED <<tracked, pending>>
Drop(c, d) == Concluded(c, d)

Notify(c, d) ==
  /\ notice[c][d] = "spawned"
  /\ \/ /\ sessions = None \/ c \notin tracked
        /\ Drop(c, d)
        /\ UNCHANGED <<app, outbox, told>>
     \/ /\ sessions # None /\ c \in tracked
        /\ \/ /\ app[sessions] /\ outbox[sessions] = <<>>
              /\ Concluded(c, d) /\ Tell(sessions, c, d)
              /\ UNCHANGED <<app, outbox>>
           \/ /\ Open(sessions)
              /\ outbox' = [outbox EXCEPT ![sessions] = Append(@, [of |-> c, device |-> d])]
              /\ notice' = [notice EXCEPT ![c][d] = "sending"]
              /\ UNCHANGED <<app, told, tracked, pending>>
           \/ /\ ~Open(sessions)
              /\ app' = [app EXCEPT ![sessions] = FALSE]
              /\ Concluded(c, d)
              /\ UNCHANGED <<outbox, told>>
  /\ UNCHANGED <<handler, closes, link, sessions, owner, target, by, mine, orphaned>>

(* The peer read again, or the connection went: the first suspended send   *)
(* ends, and what its task does after it.                                  *)
SendEnds(s) ==
  /\ outbox[s] # <<>>
  /\ outbox' = [outbox EXCEPT ![s] = Tail(@)]
  /\ app' = [app EXCEPT ![s] = @ /\ link[s]]
  /\ \/ /\ Head(outbox[s]) = Answer
        /\ \/ app'[s] /\ handler' = [handler EXCEPT ![s] = "reading"]
                      /\ UNCHANGED <<sessions, owner>>
           \/ ~app'[s] /\ LeaveByError(s, owner)
        /\ UNCHANGED <<tracked, pending, notice, told>>
     \/ /\ Head(outbox[s]) # Answer
        /\ LET c == Head(outbox[s]).of
               d == Head(outbox[s]).device
           IN Concluded(c, d) /\ Tell(s, c, d)
        /\ UNCHANGED <<handler, sessions, owner>>
  /\ UNCHANGED <<closes, link, target, by, mine, orphaned>>

(* The peer closes, answers a closing frame, or vanishes.                  *)
PeerGoes(s) ==
  /\ handler[s] # "absent" /\ link[s]
  /\ link' = [link EXCEPT ![s] = FALSE]
  /\ UNCHANGED <<handler, closes, app, outbox, sessions, owner, trackVars, mine, orphaned>>

-----------------------------------------------------------------------------
Handle(s) ==
  \/ \E c \in Command, ds \in SUBSET Device : HandleSubmit(s, c, ds)
  \/ \E d \in Device : HandleAcquire(s, d) \/ HandleRelease(s, d)
  \/ HandleOther(s)

SessionsNext ==
  \/ \E s \in Socket : \/ Connect(s) \/ Replaces(s) \/ CloseFails(s)
                       \/ Disconnected(s) \/ Handle(s) \/ SendEnds(s) \/ PeerGoes(s)
  \/ \E c \in Command, d \in Device : Settle(c, d) \/ Notify(c, d)

SessionsSpec == SessionsInit /\ [][SessionsNext]_sessionVars

-----------------------------------------------------------------------------
(* The entries of a command live exactly as long as a device owes a report *)
(* on it, and count those devices, whatever becomes of the sessions while  *)
(* reports are being sent: the docstring of on_command_complete promises   *)
(* that no entry leaks. A command for no device is the exception: nothing  *)
(* ever reports on it, and its entries stay.                               *)
TrackingIsExact ==
  \A c \in Command :
    LET owed == {d \in target[c] : notice[c][d] # "done"}
    IN /\ pending[c] = Cardinality(owed)
       /\ by[c] # None /\ target[c] # {} => (c \in tracked <=> owed # {})

(* A connection that works hears of every settlement of a command it sent  *)
(* (no `await cmd` hangs), although older connections of the user end      *)
(* around it; only an overwritten connection may miss one.                 *)
NoReportIsLost ==
  \A c \in Command :
    LET s == by[c]
    IN s \in Socket \ orphaned /\ Open(s) /\ handler[s] \in Running =>
         \A d \in target[c] : notice[c][d] = "done" => d \in told[c]

(* The teardown of a replaced connection drops no lock of the one that     *)
(* replaced it: what was acquired through a working connection and not     *)
(* released since is still the user's. Again an overwritten one is the     *)
(* exception.                                                              *)
ActiveKeepsItsLocks ==
  \A s \in Socket \ orphaned :
    Open(s) /\ handler[s] \in Running => \A d \in mine[s] : owner[d] = User

(* No lock outlives the connections of its user: it is released whichever  *)
(* way the last one ends, during a send, a closing or a replacement. The   *)
(* exception is an overwritten connection, whose teardown releases         *)
(* nothing.                                                                *)
LocksHaveUsers ==
  orphaned = {} /\ (\A s \in Socket : handler[s] \notin Running) =>
    \A d \in Device : owner[d] = None
=============================================================================
