-------------------------- MODULE ClientConnection --------------------------
(***************************************************************************)
(* client/_connection.py: the requests of one client that the server       *)
(* answers and reports on later (submit and run_procedure). Answers carry  *)
(* no request id: the client matches them to its requests by their order.  *)
(* An action is what a task of the client, or of the server's session,     *)
(* does between two awaits. Sockets are numbered as they are opened; the   *)
(* reader started for a socket, and the reconnect that its failure starts, *)
(* have the number of that socket.                                         *)
(***************************************************************************)
EXTENDS Naturals, Sequences

CONSTANTS
  Submit,      \* calls of submit(); a call also stands for the id it is given
  Run,         \* calls of run_procedure()
  Wide,        \* submits that name two devices, the other ones name one
  Attempts,    \* len(_RETRY_DELAYS)
  MaxSockets   \* how often a connection is opened (bound)

Request == Submit \cup Run
Socket == 1..MaxSockets

ASSUME ClientAssumption ==
  /\ Submit \cap Run = {} /\ Wide \subseteq Submit
  /\ Attempts \in Nat \ {0} /\ MaxSockets \in Nat \ {0}
  /\ Request \cap {"unset", "refused", "lost", "expired"} = {}

VARIABLES
  call,        \* where the coroutine of each call is suspended, or how it ended
  future,      \* its ack_future: unset, an exception, or the id in the ack
  acks,        \* _pending_acks and _pending_proc_acks
  handle,      \* the handle of each id: none, open (registered), done or lost
  remaining,   \* how many reports an open handle waits for
  ready,       \* the _ready event
  connected,   \* _connected
  ws,          \* _ws, 0 for None
  reader,      \* the socket each reader waits for, 0 before its start and after its end
  reconnect,   \* each reconnect: off, scheduled, trying or restoring
  attempt,     \* the attempt it is at, 0 without one
  latest,      \* _reconnect_task, 0 for None or one that is done
  opened,      \* sockets opened so far; _reader_task is the reader of the last one
  open,        \* the sockets that carry messages
  up,          \* requests on their way to the server
  down,        \* answers and reports on their way to the client
  job,         \* reports the server still owes for each id
  overlapped,  \* history: a reader was alive or ended beside a reconnect
  erred        \* history: the kinds of request answered by an error that
               \* consumes no future, since the queues were emptied

requestVars == <<call, future, acks>>
handleVars == <<handle, remaining>>
readyVars == <<ready, connected>>
taskVars == <<reader, reconnect, attempt, latest, overlapped>>
linkVars == <<ws, opened, open>>
wireVars == <<up, down, job, erred>>
clientVars == <<requestVars, handleVars, readyVars, taskVars, linkVars, wireVars>>

Kind == {"submit", "run"}
KindOf(r) == IF r \in Submit THEN "submit" ELSE "run"
Size(r) == IF r \in Wide THEN 2 ELSE 1

(* ack: ack and procedure_ack; refused: the codes ACCESS_DENIED, UNKNOWN_  *)
(* DEVICE and UNKNOWN_PROCEDURE; error: UNKNOWN_MESSAGE and INTERNAL.      *)
Answer == {"ack", "refused", "error"}
Message == [type : Answer \cup {"done"}, of : Request]

Working(b) == reconnect[b] \in {"trying", "restoring"}

(* The type invariant also says that a caller blocks only while some       *)
(* reconnect works that will set _ready, and that a connection which was   *)
(* not given up has a reader or a reconnect.                               *)
ClientTypeOK ==
  /\ call \in [Request -> {"new", "blocked", "woken", "awaiting", "returned", "failed"}]
  /\ future \in [Request -> Request \cup {"unset", "refused", "lost", "expired"}]
  /\ acks \in [Kind -> Seq(Request)]
  /\ handle \in [Request -> {"none", "open", "done", "lost"}]
  /\ remaining \in [Request -> 0..2]
  /\ \A r \in Request : remaining[r] > 0 <=> handle[r] = "open"
  /\ ready \in BOOLEAN /\ connected \in BOOLEAN
  /\ opened \in Socket /\ ws \in {0, opened} /\ open \subseteq 1..opened
  /\ reader \in [Socket -> 0..opened]
  /\ reconnect \in [Socket -> {"off", "scheduled", "trying", "restoring"}]
  /\ attempt \in [Socket -> 0..Attempts] /\ latest \in 0..opened
  /\ up \in [Socket -> Seq(Request)] /\ down \in [Socket -> Seq(Message)]
  /\ job \in [Request -> 0..2]
  /\ overlapped \in BOOLEAN /\ erred \subseteq Kind
  /\ \A r \in Request : call[r] = "blocked" => ~ready
  /\ ready \/ \E b \in Socket : Working(b)
  /\ connected => \E b \in Socket : reader[b] # 0 \/ reconnect[b] # "off"

(* The state that connect() leaves behind.                                 *)
ClientInit ==
  /\ call = [r \in Request |-> "new"]
  /\ future = [r \in Request |-> "unset"]
  /\ acks = [k \in Kind |-> <<>>]
  /\ handle = [r \in Request |-> "none"]
  /\ remaining = [r \in Request |-> 0]
  /\ ready = TRUE /\ connected = TRUE
  /\ ws = 1 /\ opened = 1 /\ open = {1}
  /\ reader = [b \in Socket |-> IF b = 1 THEN 1 ELSE 0]
  /\ reconnect = [b \in Socket |-> "off"]
  /\ attempt = [b \in Socket |-> 0] /\ latest = 0
  /\ up = [s \in Socket |-> <<>>] /\ down = [s \in Socket |-> <<>>]
  /\ job = [r \in Request |-> 0]
  /\ overlapped = FALSE /\ erred = {}

-----------------------------------------------------------------------------
(* The callers.                                                            *)

(* Under the send lock: the future joins the queue, then the frame is      *)
(* sent. On a dead connection the send raises, or the frame is lost with   *)
(* the bytes of a connection whose end nobody noticed; the future stays in *)
(* the queue either way. A frame is small, so the send does not suspend.   *)
Transmit(r) ==
  /\ acks' = [acks EXCEPT ![KindOf(r)] = Append(@, r)]
  /\ \/ /\ ws \in open
        /\ call' = [call EXCEPT ![r] = "awaiting"]
        /\ up' = [up EXCEPT ![ws] = Append(@, r)]
     \/ /\ ws \notin open
        /\ \E end \in {"awaiting", "failed"} : call' = [call EXCEPT ![r] = end]
        /\ UNCHANGED up

(* What follows await self._ready.wait().                                  *)
Proceed(r) ==
  \/ connected /\ Transmit(r)
  \/ ~connected /\ call' = [call EXCEPT ![r] = "failed"] /\ UNCHANGED <<acks, up>>

Issue(r) ==
  /\ call[r] = "new"
  /\ \/ ready /\ Proceed(r)
     \/ ~ready /\ call' = [call EXCEPT ![r] = "blocked"] /\ UNCHANGED <<acks, up>>
  /\ UNCHANGED <<future, handleVars, readyVars, taskVars, linkVars, down, job, erred>>

(* A caller that was woken does not look at the event again.               *)
Wake(r) ==
  /\ call[r] = "woken"
  /\ Proceed(r)
  /\ UNCHANGED <<future, handleVars, readyVars, taskVars, linkVars, down, job, erred>>

(* _ready.set() lets every blocked caller go on.                           *)
SetReady ==
  /\ ready' = TRUE
  /\ call' = [r \in Request |-> IF call[r] = "blocked" THEN "woken" ELSE call[r]]

(* The reports a handle waits for, len(devices) of a command. Fault        *)
(* variant: one, whatever the number of devices.                           *)
ReportsOfOne(r) == 1
ReportsOf(r) == Size(r)

(* The task resumes with the ack and registers the handle under its id.    *)
Register(r) ==
  /\ call[r] = "awaiting" /\ future[r] \in Request
  /\ call' = [call EXCEPT ![r] = "returned"]
  /\ handle' = [handle EXCEPT ![future[r]] = "open"]
  /\ remaining' = [remaining EXCEPT ![future[r]] = ReportsOf(r)]
  /\ UNCHANGED <<future, acks, readyVars, taskVars, linkVars, wireVars>>

(* The task resumes with the exception of its future.                      *)
Raise(r) ==
  /\ call[r] = "awaiting" /\ future[r] \in {"refused", "lost"}
  /\ call' = [call EXCEPT ![r] = "failed"]
  /\ UNCHANGED <<future, acks, handleVars, readyVars, taskVars, linkVars, wireVars>>

(* wait_for gives up and cancels the future, which stays in the queue so   *)
(* that a late answer is matched to it.                                    *)
Expire(r) ==
  /\ call[r] = "awaiting" /\ future[r] = "unset"
  /\ call' = [call EXCEPT ![r] = "failed"]
  /\ future' = [future EXCEPT ![r] = "expired"]
  /\ UNCHANGED <<acks, handleVars, readyVars, taskVars, linkVars, wireVars>>

-----------------------------------------------------------------------------
(* The readers.                                                            *)

(* The oldest waiting future of the kind gets the answer, unless nobody    *)
(* waits for it any more.                                                  *)
Settle(k, outcome) ==
  \/ acks[k] = <<>> /\ UNCHANGED <<acks, future>>
  \/ /\ acks[k] # <<>>
     /\ acks' = [acks EXCEPT ![k] = Tail(@)]
     /\ future' = [r \in Request |->
                     IF r = Head(acks[k]) /\ future[r] = "unset" THEN outcome
                     ELSE future[r]]

(* notify_done, which closes the handle with the last report.              *)
Report(i) ==
  \/ handle[i] # "open" /\ UNCHANGED handleVars
  \/ /\ handle[i] = "open"
     /\ remaining' = [remaining EXCEPT ![i] = @ - 1]
     /\ handle' = [handle EXCEPT ![i] = IF remaining[i] = 1 THEN "done" ELSE @]

(* An error of another code is logged and consumes no future.              *)
Dispatch(m) ==
  \/ m.type = "ack" /\ Settle(KindOf(m.of), m.of) /\ UNCHANGED handleVars
  \/ m.type = "refused" /\ Settle(KindOf(m.of), "refused") /\ UNCHANGED handleVars
  \/ m.type = "error" /\ UNCHANGED <<acks, future, handleVars>>
  \/ m.type = "done" /\ Report(m.of) /\ UNCHANGED <<acks, future>>

(* Two readers wait for the same socket; websockets lets only one.         *)
Collides(b) == \E o \in Socket \ {b} : reader[o] = reader[b]

(* recv() returns what is buffered without suspending, so that no caller   *)
(* need run between two messages. The next recv() is one of _ws, which may *)
(* be another socket by now, or None.                                      *)
Read(b) ==
  /\ reader[b] # 0 /\ ~Collides(b)
  /\ LET s == reader[b] IN
     /\ down[s] # <<>>
     /\ Dispatch(Head(down[s]))
     /\ down' = [down EXCEPT ![s] = Tail(@)]
  /\ reader' = [reader EXCEPT ![b] = ws]
  /\ UNCHANGED <<call, readyVars, reconnect, attempt, latest, overlapped, linkVars, up, job, erred>>

Active(b) == reconnect[b] # "off"

(* recv() raises: the socket is closed and read to its end, or somebody    *)
(* else waits for it. An exception behind disconnect() ends the task.      *)
ReaderFails(b) ==
  /\ reader[b] # 0
  /\ Collides(b) \/ (reader[b] \notin open /\ down[reader[b]] = <<>>)
  /\ reader' = [reader EXCEPT ![b] = 0]
  /\ overlapped' = (overlapped \/ \E o \in Socket : Active(o))
  /\ \/ /\ connected
        /\ reconnect' = [reconnect EXCEPT ![b] = "scheduled"]
        /\ latest' = b
     \/ ~connected /\ UNCHANGED <<reconnect, latest>>
  /\ UNCHANGED <<requestVars, handleVars, readyVars, attempt, linkVars, wireVars>>

-----------------------------------------------------------------------------
(* The reconnect tasks and disconnect().                                   *)

Queued(r) == \E i \in DOMAIN acks[KindOf(r)] : acks[KindOf(r)][i] = r

(* Fault variant: the failed futures are left in their queues.             *)
QueuesKept == acks
QueuesEmptied == [k \in Kind |-> <<>>]

(* _fail_all_pending                                                       *)
FailAllPending ==
  /\ acks' = QueuesEmptied
  /\ future' = [r \in Request |->
                  IF Queued(r) /\ future[r] = "unset" THEN "lost" ELSE future[r]]
  /\ handle' = [i \in Request |-> IF handle[i] = "open" THEN "lost" ELSE handle[i]]
  /\ remaining' = [i \in Request |-> 0]
  /\ erred' = {}

(* The loop runs ready tasks in order: a caller that became ready before   *)
(* the reconnect was scheduled resumes before the reconnect does. Another  *)
(* task may have made one ready since.                                     *)
Resuming(r) == \/ call[r] = "woken"
               \/ call[r] = "awaiting" /\ future[r] # "unset"
Alone(b) == \A o \in Socket \ {b} : reader[o] = 0 /\ ~Active(o)

ReconnectStarts(b) ==
  /\ reconnect[b] = "scheduled"
  /\ Alone(b) => \A r \in Request : ~Resuming(r)
  /\ reconnect' = [reconnect EXCEPT ![b] = "trying"]
  /\ attempt' = [attempt EXCEPT ![b] = 1]
  /\ ready' = FALSE
  /\ FailAllPending
  /\ UNCHANGED <<call, connected, reader, latest, overlapped, linkVars, up, down, job>>

ReconnectEnds(b) ==
  /\ reconnect' = [reconnect EXCEPT ![b] = "off"]
  /\ attempt' = [attempt EXCEPT ![b] = 0]
  /\ latest' = IF latest = b THEN 0 ELSE latest
  /\ SetReady

(* A new socket and a new reader. What the client holds and subscribed to  *)
(* is sent next, and _ready is set behind that; with nothing to restore it *)
(* is set at once.                                                         *)
Reopens(b) ==
  /\ reconnect[b] = "trying" /\ opened < MaxSockets
  /\ opened' = opened + 1 /\ ws' = opened' /\ open' = open \cup {opened'}
  /\ reader' = [reader EXCEPT ![opened'] = opened']
  /\ \/ ReconnectEnds(b)
     \/ /\ reconnect' = [reconnect EXCEPT ![b] = "restoring"]
        /\ UNCHANGED <<call, ready, attempt, latest>>
  /\ UNCHANGED <<future, acks, handleVars, connected, overlapped, wireVars>>

(* The sends came through, or went to a socket whose end is not noticed.   *)
Restores(b) ==
  /\ reconnect[b] = "restoring" /\ ws # 0
  /\ ReconnectEnds(b)
  /\ UNCHANGED <<future, acks, handleVars, connected, reader, overlapped, linkVars, wireVars>>

AttemptFails(b) ==
  \/ /\ attempt[b] < Attempts
     /\ attempt' = [attempt EXCEPT ![b] = @ + 1]
     /\ reconnect' = [reconnect EXCEPT ![b] = "trying"]
     /\ UNCHANGED <<call, ready, connected, latest>>
  \/ /\ attempt[b] = Attempts
     /\ ReconnectEnds(b)
     /\ connected' = FALSE

OpeningFails(b) ==
  /\ reconnect[b] = "trying"
  /\ AttemptFails(b)
  /\ UNCHANGED <<future, acks, handleVars, reader, overlapped, linkVars, wireVars>>

(* A send raised. Nobody ends the reader that was started before it.       *)
RestoringFails(b) ==
  /\ reconnect[b] = "restoring" /\ ws \notin open
  /\ AttemptFails(b)
  /\ overlapped' = TRUE
  /\ UNCHANGED <<future, acks, handleVars, reader, linkVars, wireVars>>

(* disconnect() sets _ready in place of the reconnect it cancelled. Fault  *)
(* variant: it does not.                                                   *)
SendersForgotten == UNCHANGED <<ready, call>>
SendersReleased == SetReady

(* The latest reconnect is cancelled, also one that did not start, and the *)
(* latest reader; earlier ones go on. What waits on the connection is not  *)
(* failed.                                                                 *)
Disconnect ==
  /\ connected' = FALSE
  /\ \/ /\ latest # 0
        /\ reconnect' = [reconnect EXCEPT ![latest] = "off"]
        /\ attempt' = [attempt EXCEPT ![latest] = 0]
        /\ latest' = 0
        /\ SendersReleased
     \/ latest = 0 /\ UNCHANGED <<reconnect, attempt, latest, ready, call>>
  /\ reader' = [reader EXCEPT ![opened] = 0]
  /\ ws' = 0 /\ open' = open \ {ws}
  /\ up' = [s \in Socket |-> IF s = ws THEN <<>> ELSE up[s]]
  /\ UNCHANGED <<future, acks, handleVars, overlapped, opened, down, job, erred>>

-----------------------------------------------------------------------------
(* The server's sessions and the network.                                  *)

(* A session handles one message after the other and answers it before the *)
(* next; a command is tracked before its ack is sent.                      *)
Serve(s) ==
  /\ s \in open /\ up[s] # <<>>
  /\ LET r == Head(up[s]) IN
     \E answer \in Answer :
       /\ down' = [down EXCEPT ![s] = Append(@, [type |-> answer, of |-> r])]
       /\ job' = IF answer = "ack" THEN [job EXCEPT ![r] = Size(r)] ELSE job
       /\ erred' = IF answer = "error" THEN erred \cup {KindOf(r)} ELSE erred
  /\ up' = [up EXCEPT ![s] = Tail(@)]
  /\ UNCHANGED <<requestVars, handleVars, readyVars, taskVars, linkVars>>

(* One device settled the command, or the procedure ended. The report goes *)
(* to the session of the user, which is that of the last connection, if it *)
(* is still there; a procedure that was cancelled ends without a report.   *)
Conclude(i) ==
  /\ job[i] > 0
  /\ job' = [job EXCEPT ![i] = @ - 1]
  /\ \/ /\ opened \in open
        /\ down' = [down EXCEPT ![opened] = Append(@, [type |-> "done", of |-> i])]
     \/ (opened \notin open \/ i \in Run) /\ UNCHANGED down
  /\ UNCHANGED <<requestVars, handleVars, readyVars, taskVars, linkVars, up, erred>>

(* The connection breaks, or the server closes it for a newer one. What    *)
(* had arrived is still read; requests on their way are lost.              *)
Lose(s) ==
  /\ s \in open
  /\ open' = open \ {s}
  /\ up' = [up EXCEPT ![s] = <<>>]
  /\ \E n \in 0..Len(down[s]) : down' = [down EXCEPT ![s] = SubSeq(@, 1, n)]
  /\ UNCHANGED <<requestVars, handleVars, readyVars, taskVars, ws, opened, job, erred>>

-----------------------------------------------------------------------------
Caller(r) == Wake(r) \/ Register(r) \/ Raise(r) \/ Expire(r)
Reader(b) == Read(b) \/ ReaderFails(b)
Reconnecting(b) ==
  \/ ReconnectStarts(b) \/ Reopens(b) \/ Restores(b)
  \/ OpeningFails(b) \/ RestoringFails(b)
Network == \/ \E s \in Socket : Serve(s) \/ Lose(s)
           \/ \E i \in Request : Conclude(i)

ClientNext ==
  \/ \E r \in Request : Issue(r) \/ Caller(r)
  \/ \E b \in Socket : Reader(b) \/ Reconnecting(b)
  \/ Disconnect
  \/ Network

ClientSpec == ClientInit /\ [][ClientNext]_clientVars

(* A call that can run does, timers expire, and an attempt to connect or   *)
(* to restore succeeds or fails. Nothing is assumed of the readers, of the *)
(* server, of the network or of what the application calls.                *)
FairClientSpec ==
  /\ ClientSpec
  /\ \A r \in Request : WF_clientVars(Caller(r))
  /\ \A b \in Socket : WF_clientVars(Reconnecting(b))

-----------------------------------------------------------------------------
(* "The server sends acks in the same order it receives submits [...], so  *)
(* FIFO correlation is safe": no call is given the id of another call's    *)
(* request.                                                                *)
AckMatches == \A r \in Request : future[r] \in Request => future[r] = r

(* Where the answer to r is: among what arrives, or behind that, where the *)
(* request is still on its way.                                            *)
Places(r) ==
  {n \in 1..Len(down[ws]) : down[ws][n].of = r /\ down[ws][n].type \in {"ack", "refused"}}
    \cup {Len(down[ws]) + n : n \in {m \in 1..Len(up[ws]) : up[ws][m] = r}}

Expected(k) == {r \in Request : KindOf(r) = k /\ Places(r) # {}}
Waiting(k) == {acks[k][i] : i \in 1..Len(acks[k])}
InOrder(k) ==
  \A i, j \in 1..Len(acks[k]) :
    \A p \in Places(acks[k][i]), q \in Places(acks[k][j]) : i <= j <=> p <= q

(* What is true of the correlation. While the connection works, the        *)
(* futures of all requests that the server answers by a code that consumes *)
(* one are in their queue in the order of the answers: no answer goes to a *)
(* call made later. And unless an error consumed none since the last loss, *)
(* the queue has no other futures: none is left over from an expired call  *)
(* or a lost connection, and the next answer goes to the right call. It    *)
(* excepts behaviours in which a reconnect overlapped with a reader.       *)
AnswersAreExpected ==
  ~overlapped /\ ws \in open =>
    \A k \in Kind :
      /\ Expected(k) \subseteq Waiting(k)
      /\ k \in erred \/ Expected(k) = Waiting(k)
      /\ InOrder(k)

(* The handle of a command fires when all targeted devices have reported,  *)
(* never before (_PendingCommand), if it was registered by the call that   *)
(* made the command; a lost connection fails it instead.                   *)
DoneMeansDone ==
  \A i \in Request : future[i] = i /\ handle[i] = "done" =>
    /\ job[i] = 0
    /\ \A s \in Socket : \A n \in DOMAIN down[s] : down[s][n] # [type |-> "done", of |-> i]

(* Every call of submit and run_procedure returns or raises, also when the *)
(* connection is lost, given up or closed while it waits: _ready is set in *)
(* the end, and every answer is awaited with a timeout.                    *)
EveryCallReturns ==
  \A r \in Request :
    call[r] \in {"blocked", "woken", "awaiting"} ~> call[r] \in {"returned", "failed"}
=============================================================================
