----------------------- MODULE ClientConnection_proofs -----------------------
(***************************************************************************)
(* What holds of the requests of a client for any number of calls, sockets *)
(* and attempts, also where readers and reconnects overlap and where the   *)
(* server answers by errors that consume no future.                        *)
(***************************************************************************)
EXTENDS ClientConnection, SequenceTheorems, FiniteSetTheorems, TLAPS

LEMMA SizeRange == \A r \in Request : Size(r) \in 1..2
  BY DEF Size

LEMMA KindRange == \A r \in Request : KindOf(r) \in Kind
  BY DEF KindOf, Kind

(* What ends a call is no request.                                         *)
LEMMA OutcomeIsNoRequest ==
  /\ "unset" \notin Request /\ "refused" \notin Request
  /\ "lost" \notin Request /\ "expired" \notin Request
  BY ClientAssumption

LEMMA SocketRange ==
  /\ MaxSockets \in Nat /\ 1 \in Socket
  /\ \A s \in Socket : s \in Nat /\ s # 0
  BY ClientAssumption DEF Socket

-----------------------------------------------------------------------------
(* Types, by what a step leaves alone.                                     *)

Stage == {"new", "blocked", "woken", "awaiting", "returned", "failed"}

CallTypes ==
  /\ call \in [Request -> Stage]
  /\ future \in [Request -> Request \cup {"unset", "refused", "lost", "expired"}]
  /\ acks \in [Kind -> Seq(Request)]

HandleTypes ==
  /\ handle \in [Request -> {"none", "open", "done", "lost"}]
  /\ remaining \in [Request -> 0..2]
  /\ \A r \in Request : (remaining[r] > 0 <=> handle[r] = "open")

SocketTypes ==
  /\ opened \in Socket /\ ws \in {0, opened} /\ open \subseteq 1..opened
  /\ reader \in [Socket -> 0..opened]
  /\ latest \in 0..opened
  /\ \A b \in Socket : b > opened => reader[b] = 0

TaskTypes ==
  /\ ready \in BOOLEAN /\ connected \in BOOLEAN
  /\ reconnect \in [Socket -> {"off", "scheduled", "trying", "restoring"}]
  /\ attempt \in [Socket -> 0..Attempts]
  /\ overlapped \in BOOLEAN
  /\ ready \/ \E b \in Socket : Working(b)
  /\ \A r \in Request : call[r] = "blocked" => ~ready

WireTypes ==
  /\ up \in [Socket -> Seq(Request)] /\ down \in [Socket -> Seq(Message)]
  /\ job \in [Request -> 0..2]
  /\ erred \subseteq Kind
  /\ \A s \in Socket : s > opened => up[s] = <<>> /\ down[s] = <<>>

(* A reconnect begins where its reader ends and restores a socket opened   *)
(* later. A connection that was not given up has a socket, and the reader  *)
(* of the last one lives or has started a reconnect.                       *)
TasksFollow ==
  /\ \A b \in Socket : /\ reader[b] # 0 => reconnect[b] = "off"
                       /\ b > opened => reconnect[b] = "off"
                       /\ reconnect[b] = "restoring" => b < opened
  /\ connected => /\ ws # 0
                  /\ reader[opened] # 0 \/ reconnect[opened] \in {"scheduled", "trying"}

(* The types of all variables, and what their values say of each other.    *)
TypeInv ==
  CallTypes /\ HandleTypes /\ SocketTypes /\ TaskTypes /\ WireTypes /\ TasksFollow

LEMMA TypeInvSuffices == TypeInv => ClientTypeOK
<1> SUFFICES ASSUME TypeInv
             PROVE  ClientTypeOK
  OBVIOUS
<1>1. connected => \E b \in Socket : reader[b] # 0 \/ reconnect[b] # "off"
  BY DEF TypeInv, TasksFollow, SocketTypes
<1>2. CallTypes /\ HandleTypes /\ SocketTypes /\ TaskTypes /\ WireTypes
  BY DEF TypeInv
<1> QED
  BY <1>1, <1>2 DEF ClientTypeOK, CallTypes, HandleTypes, SocketTypes, TaskTypes, WireTypes, Stage

LEMMA InitTypes == ClientInit => TypeInv
<1> SUFFICES ASSUME ClientInit
             PROVE  TypeInv
  OBVIOUS
<1>1. CallTypes /\ HandleTypes
  BY DEF ClientInit, CallTypes, HandleTypes, Stage
<1>2. SocketTypes /\ TasksFollow
  BY SocketRange DEF ClientInit, SocketTypes, TasksFollow
<1>3. TaskTypes
  <2>1. 0 \in 0..Attempts
    BY ClientAssumption
  <2>2. ready = TRUE /\ connected = TRUE /\ overlapped = FALSE
    BY DEF ClientInit
  <2>3. attempt \in [Socket -> 0..Attempts] /\ \A r \in Request : call[r] # "blocked"
    BY <2>1 DEF ClientInit
  <2>4. reconnect \in [Socket -> {"off", "scheduled", "trying", "restoring"}]
    BY DEF ClientInit
  <2> QED
    BY <2>2, <2>3, <2>4 DEF TaskTypes
<1>4. WireTypes
  BY DEF ClientInit, WireTypes
<1> QED
  BY <1>1, <1>2, <1>3, <1>4 DEF TypeInv

LEMMA CallTypesStay ==
  ASSUME CallTypes, UNCHANGED requestVars
  PROVE  CallTypes'
  BY DEF CallTypes, requestVars

LEMMA HandleTypesStay ==
  ASSUME HandleTypes, UNCHANGED handleVars
  PROVE  HandleTypes'
  BY DEF HandleTypes, handleVars

LEMMA SocketTypesStay ==
  ASSUME SocketTypes, UNCHANGED <<linkVars, reader, latest>>
  PROVE  SocketTypes'
  BY DEF SocketTypes, linkVars

LEMMA TaskTypesStay ==
  ASSUME TaskTypes, UNCHANGED <<readyVars, reconnect, attempt, overlapped>>,
         ready => \A r \in Request : call'[r] = "blocked" => call[r] = "blocked"
  PROVE  TaskTypes'
  BY DEF TaskTypes, readyVars, Working

LEMMA TasksFollowStay ==
  ASSUME TasksFollow, UNCHANGED <<connected, reader, reconnect, opened, ws>>
  PROVE  TasksFollow'
  BY DEF TasksFollow

LEMMA WireTypesStay ==
  ASSUME WireTypes, UNCHANGED <<wireVars, opened>>
  PROVE  WireTypes'
  BY DEF WireTypes, wireVars

(* A step of a caller or of the network moves no task of the client.       *)
LEMMA StructureStays ==
  ASSUME TypeInv, UNCHANGED <<readyVars, taskVars, ws, opened>>, open' \subseteq open,
         ready => \A r \in Request : call'[r] = "blocked" => call[r] = "blocked"
  PROVE  SocketTypes' /\ TaskTypes' /\ TasksFollow'
<1>1. SocketTypes /\ TaskTypes /\ TasksFollow
  BY DEF TypeInv
<1>2. UNCHANGED <<connected, reader, reconnect, attempt, latest, overlapped>>
  BY DEF readyVars, taskVars
<1>3. SocketTypes'
  BY <1>1, <1>2 DEF SocketTypes
<1> QED
  BY <1>1, <1>2, <1>3, TaskTypesStay, TasksFollowStay

LEMMA ProceedTypes ==
  ASSUME TypeInv, NEW r \in Request, Proceed(r), UNCHANGED <<future, down, job, erred, opened>>
  PROVE  /\ CallTypes' /\ WireTypes'
         /\ \A q \in Request : call'[q] = "blocked" => call[q] = "blocked"
<1>0. CallTypes /\ WireTypes /\ SocketTypes
  BY DEF TypeInv
<1>1. PICK end \in {"awaiting", "failed"} : call' = [call EXCEPT ![r] = end]
  BY DEF Proceed, Transmit
<1>2. call' \in [Request -> Stage]
  BY <1>0, <1>1 DEF CallTypes, Stage
<1>3. acks' \in [Kind -> Seq(Request)]
  <2>1. CASE acks' = [acks EXCEPT ![KindOf(r)] = Append(@, r)]
    <3>1. acks[KindOf(r)] \in Seq(Request)
      BY <1>0, KindRange DEF CallTypes
    <3>2. Append(acks[KindOf(r)], r) \in Seq(Request)
      BY <3>1, AppendProperties
    <3> QED
      BY <1>0, <2>1, <3>2 DEF CallTypes
  <2>2. CASE acks' = acks
    BY <1>0, <2>2 DEF CallTypes
  <2> QED
    BY <2>1, <2>2 DEF Proceed, Transmit
<1>4. up' \in [Socket -> Seq(Request)] /\ \A s \in Socket : s > opened => up'[s] = <<>>
  <2>1. CASE ws \in open /\ up' = [up EXCEPT ![ws] = Append(@, r)]
    <3>1. ws = opened /\ ws \in Socket
      BY <1>0, <2>1 DEF SocketTypes
    <3>2. Append(up[ws], r) \in Seq(Request)
      BY <1>0, <3>1, AppendProperties DEF WireTypes
    <3>3. \A s \in Socket : s > opened => s # ws
      BY <3>1, SocketRange
    <3> QED
      BY <1>0, <2>1, <3>1, <3>2, <3>3 DEF WireTypes
  <2>2. CASE up' = up
    BY <1>0, <2>2 DEF WireTypes
  <2> QED
    BY <2>1, <2>2 DEF Proceed, Transmit
<1> QED
  BY <1>0, <1>1, <1>2, <1>3, <1>4 DEF CallTypes, WireTypes

LEMMA CallerTypes ==
  ASSUME TypeInv, NEW r \in Request, Issue(r) \/ Caller(r)
  PROVE  TypeInv'
<1>0. CallTypes /\ HandleTypes /\ WireTypes
  BY DEF TypeInv
<1>1. CASE Issue(r) \/ Wake(r)
  <2>1. /\ UNCHANGED <<future, handleVars, readyVars, taskVars, linkVars, down, job, erred>>
        /\ opened' = opened /\ ws' = ws /\ open' \subseteq open
    BY <1>1 DEF Issue, Wake, linkVars
  <2>2. HandleTypes'
    BY <1>0, <2>1, HandleTypesStay
  <2>3. CASE Proceed(r)
    <3>1. /\ CallTypes' /\ WireTypes'
          /\ \A q \in Request : call'[q] = "blocked" => call[q] = "blocked"
      BY <2>1, <2>3, ProceedTypes
    <3> QED
      BY <2>1, <2>2, <3>1, StructureStays DEF TypeInv
  <2>4. CASE ~ready /\ call' = [call EXCEPT ![r] = "blocked"] /\ UNCHANGED <<acks, up>>
    <3>1. CallTypes' /\ WireTypes'
      BY <1>0, <2>1, <2>4 DEF CallTypes, WireTypes, Stage
    <3> QED
      BY <2>1, <2>2, <2>4, <3>1, StructureStays DEF TypeInv
  <2> QED
    BY <1>1, <2>3, <2>4 DEF Issue, Wake
<1>2. CASE Register(r) \/ Raise(r) \/ Expire(r)
  <2>1. /\ UNCHANGED <<readyVars, taskVars, linkVars, wireVars>>
        /\ opened' = opened /\ ws' = ws /\ open' \subseteq open
    BY <1>2 DEF Register, Raise, Expire, linkVars
  <2>2. CallTypes' /\ \A q \in Request : call'[q] = "blocked" => call[q] = "blocked"
    BY <1>0, <1>2 DEF Register, Raise, Expire, CallTypes, Stage
  <2>3. HandleTypes'
    <3>1. CASE Register(r)
      <4> DEFINE i == future[r]
      <4>1. i \in Request /\ Size(r) \in 0..2 /\ Size(r) > 0
        BY <3>1, SizeRange DEF Register
      <4>2. handle' = [handle EXCEPT ![i] = "open"] /\ remaining' = [remaining EXCEPT ![i] = Size(r)]
        BY <3>1 DEF Register, ReportsOf
      <4> HIDE DEF i
      <4> QED
        BY <1>0, <4>1, <4>2 DEF HandleTypes
    <3>2. CASE Raise(r) \/ Expire(r)
      BY <1>0, <3>2, HandleTypesStay DEF Raise, Expire
    <3> QED
      BY <1>2, <3>1, <3>2
  <2>4. WireTypes'
    BY <1>0, <2>1, WireTypesStay
  <2> QED
    BY <2>1, <2>2, <2>3, <2>4, StructureStays DEF TypeInv
<1> QED
  BY <1>1, <1>2 DEF Caller

LEMMA SettleTypes ==
  ASSUME CallTypes, NEW k \in Kind, NEW o \in Request \cup {"refused"}, Settle(k, o)
  PROVE  /\ future' \in [Request -> Request \cup {"unset", "refused", "lost", "expired"}]
         /\ acks' \in [Kind -> Seq(Request)]
<1>1. acks[k] \in Seq(Request)
  BY DEF CallTypes
<1>2. acks[k] # <<>> => Tail(acks[k]) \in Seq(Request)
  BY <1>1
<1> QED
  BY <1>2 DEF Settle, CallTypes

LEMMA ReportTypes ==
  ASSUME HandleTypes, NEW i \in Request, Report(i)
  PROVE  HandleTypes'
<1>1. CASE UNCHANGED handleVars
  BY <1>1, HandleTypesStay
<1>2. CASE /\ handle[i] = "open"
           /\ remaining' = [remaining EXCEPT ![i] = @ - 1]
           /\ handle' = [handle EXCEPT ![i] = IF remaining[i] = 1 THEN "done" ELSE @]
  <2>1. remaining[i] \in 1..2
    BY <1>2 DEF HandleTypes
  <2>2. \A r \in Request : r # i => remaining'[r] = remaining[r] /\ handle'[r] = handle[r]
    BY <1>2 DEF HandleTypes
  <2>3. remaining'[i] = remaining[i] - 1 /\ handle'[i] = IF remaining[i] = 1 THEN "done" ELSE "open"
    BY <1>2 DEF HandleTypes
  <2>4. remaining' \in [Request -> 0..2]
    BY <1>2, <2>1 DEF HandleTypes
  <2>5. handle' \in [Request -> {"none", "open", "done", "lost"}]
    BY <1>2 DEF HandleTypes
  <2>6. \A r \in Request : (remaining'[r] > 0 <=> handle'[r] = "open")
    BY <2>1, <2>2, <2>3 DEF HandleTypes
  <2> QED
    BY <2>4, <2>5, <2>6 DEF HandleTypes
<1> QED
  BY <1>1, <1>2 DEF Report

(* A reader waits for a socket that was opened.                            *)
LEMMA ReaderSocket ==
  ASSUME SocketTypes, NEW b \in Socket, reader[b] # 0
  PROVE  reader[b] \in Socket /\ reader[b] <= opened /\ b <= opened
<1>1. opened \in Nat /\ opened <= MaxSockets /\ reader[b] \in 0..opened /\ b \in Nat
  BY SocketRange DEF SocketTypes, Socket
<1>2. ~(b > opened)
  BY DEF SocketTypes
<1> QED
  BY <1>1, <1>2, SocketRange DEF Socket

LEMMA HeadOf ==
  ASSUME NEW M, NEW d \in Seq(M), d # <<>>
  PROVE  /\ Head(d) \in M /\ Head(d) = d[1] /\ 1 \in 1..Len(d)
         /\ Tail(d) \in Seq(M) /\ Len(d) = Len(Tail(d)) + 1 /\ Len(Tail(d)) \in Nat
         /\ \A n \in 1..Len(Tail(d)) : Tail(d)[n] = d[n + 1]
  BY HeadTailProperties

LEMMA ReadTypes ==
  ASSUME TypeInv, NEW b \in Socket, Read(b)
  PROVE  TypeInv'
<1> DEFINE s == reader[b]
           m == Head(down[s])
<1>0. CallTypes /\ HandleTypes /\ SocketTypes /\ TaskTypes /\ WireTypes /\ TasksFollow
  BY DEF TypeInv
<1>1. s \in Socket /\ b <= opened /\ s <= opened
  BY <1>0, ReaderSocket DEF Read
<1>2. m \in Message /\ Tail(down[s]) \in Seq(Message)
  BY <1>0, <1>1, HeadOf DEF Read, WireTypes
<1>3. m.of \in Request /\ KindOf(m.of) \in Kind
  BY <1>2, KindRange DEF Message
<1>4. /\ Dispatch(m)
      /\ down' = [down EXCEPT ![s] = Tail(down[s])] /\ reader' = [reader EXCEPT ![b] = ws]
      /\ UNCHANGED <<call, readyVars, reconnect, attempt, latest, overlapped, linkVars, up, job, erred>>
  BY DEF Read
<1> HIDE DEF s, m
<1>5. HandleTypes'
  BY <1>0, <1>3, <1>4, HandleTypesStay, ReportTypes DEF Dispatch, handleVars
<1>6. CallTypes'
  <2>1. CASE UNCHANGED <<acks, future>>
    BY <1>0, <1>4, <2>1 DEF CallTypes
  <2>2. CASE Settle(KindOf(m.of), m.of)
    BY <1>0, <1>3, <1>4, <2>2, SettleTypes DEF CallTypes
  <2>3. CASE Settle(KindOf(m.of), "refused")
    BY <1>0, <1>3, <1>4, <2>3, SettleTypes DEF CallTypes
  <2> QED
    BY <1>4, <2>1, <2>2, <2>3 DEF Dispatch
<1>7. WireTypes'
  <2>1. \A t \in Socket : t > opened => t # s
    BY <1>0, <1>1, SocketRange DEF SocketTypes
  <2> QED
    BY <1>0, <1>1, <1>2, <1>4, <2>1 DEF WireTypes, linkVars
<1>8. TaskTypes'
  BY <1>0, <1>4, TaskTypesStay
<1>9. SocketTypes'
  <2>1. ws \in 0..opened
    BY <1>0, SocketRange DEF SocketTypes
  <2>2. \A c \in Socket : c > opened => c # b
    BY <1>0, <1>1, SocketRange DEF SocketTypes
  <2>3. reader' \in [Socket -> 0..opened] /\ \A c \in Socket : c > opened => reader'[c] = 0
    BY <1>0, <1>4, <2>1, <2>2 DEF SocketTypes
  <2> QED
    BY <1>0, <1>4, <2>3 DEF SocketTypes, linkVars
<1>10. TasksFollow'
  <2>1. reader[b] # 0
    BY DEF Read
  <2>2. \A c \in Socket : c # b => reader'[c] = reader[c]
    BY <1>0, <1>4 DEF SocketTypes
  <2>3. reader'[b] = ws
    BY <1>0, <1>4 DEF SocketTypes
  <2> QED
    BY <1>0, <1>4, <2>1, <2>2, <2>3 DEF TasksFollow, linkVars, readyVars, SocketTypes
<1> QED
  BY <1>5, <1>6, <1>7, <1>8, <1>9, <1>10 DEF TypeInv

LEMMA ReaderFailsTypes ==
  ASSUME TypeInv, NEW b \in Socket, ReaderFails(b)
  PROVE  TypeInv'
<1>0. CallTypes /\ HandleTypes /\ SocketTypes /\ TaskTypes /\ WireTypes /\ TasksFollow
  BY DEF TypeInv
<1>1. /\ reader[b] # 0 /\ reader' = [reader EXCEPT ![b] = 0]
      /\ \/ /\ connected
            /\ reconnect' = [reconnect EXCEPT ![b] = "scheduled"]
            /\ latest' = b
         \/ ~connected /\ UNCHANGED <<reconnect, latest>>
      /\ overlapped' \in BOOLEAN
      /\ UNCHANGED <<requestVars, handleVars, readyVars, attempt, linkVars, wireVars>>
  BY <1>0 DEF ReaderFails, TaskTypes
<1>2. CallTypes' /\ HandleTypes' /\ WireTypes'
  BY <1>0, <1>1, CallTypesStay, HandleTypesStay, WireTypesStay DEF linkVars
<1>3. b <= opened /\ b \in 0..opened
  BY <1>0, <1>1, ReaderSocket, SocketRange DEF SocketTypes
<1>4. SocketTypes'
  BY <1>0, <1>1, <1>3, SocketRange DEF SocketTypes, linkVars
<1>5. /\ reconnect[b] = "off"
      /\ \A c \in Socket : c # b => reconnect'[c] = reconnect[c] /\ reader'[c] = reader[c]
      /\ reader'[b] = 0 /\ (connected => reconnect'[b] = "scheduled")
      /\ (~connected => reconnect' = reconnect)
      /\ reconnect' \in [Socket -> {"off", "scheduled", "trying", "restoring"}]
  BY <1>0, <1>1 DEF TaskTypes, SocketTypes, TasksFollow
<1>6. TaskTypes'
  <2>1. ready \/ \E c \in Socket : Working(c)'
    <3>1. ASSUME NEW c \in Socket, Working(c)
          PROVE  Working(c)'
      <4>1. c # b
        BY <1>5, <3>1 DEF Working
      <4> QED
        BY <1>5, <3>1, <4>1 DEF Working
    <3> QED
      BY <1>0, <3>1 DEF TaskTypes
  <2> QED
    BY <1>0, <1>1, <1>5, <2>1 DEF TaskTypes, readyVars, requestVars
<1>7. TasksFollow'
  <2>1. \A c \in Socket : c > opened => c # b
    BY <1>0, <1>3, SocketRange DEF SocketTypes
  <2>2. connected' = connected /\ opened' = opened /\ ws' = ws /\ opened \in Socket
    BY <1>0, <1>1 DEF readyVars, linkVars, SocketTypes
  <2>3. \A c \in Socket : /\ reader'[c] # 0 => reconnect'[c] = "off"
                          /\ c > opened => reconnect'[c] = "off"
                          /\ reconnect'[c] = "restoring" => c < opened
    BY <1>0, <1>5, <2>1 DEF TasksFollow
  <2> QED
    BY <1>0, <1>5, <2>2, <2>3 DEF TasksFollow
<1> QED
  BY <1>2, <1>4, <1>6, <1>7 DEF TypeInv

-----------------------------------------------------------------------------
LEMMA SetReadyTypes ==
  ASSUME CallTypes, SetReady
  PROVE  /\ call' \in [Request -> Stage] /\ ready' = TRUE
         /\ \A r \in Request : call'[r] # "blocked"
  BY DEF CallTypes, SetReady, Stage

LEMMA ReconnectStartsTypes ==
  ASSUME TypeInv, NEW b \in Socket, ReconnectStarts(b)
  PROVE  TypeInv'
<1>0. CallTypes /\ HandleTypes /\ SocketTypes /\ TaskTypes /\ WireTypes /\ TasksFollow
  BY DEF TypeInv
<1>1. /\ reconnect[b] = "scheduled"
      /\ reconnect' = [reconnect EXCEPT ![b] = "trying"]
      /\ attempt' = [attempt EXCEPT ![b] = 1]
      /\ ready' = FALSE /\ FailAllPending
      /\ UNCHANGED <<call, connected, reader, latest, overlapped, linkVars, up, down, job>>
  BY DEF ReconnectStarts
<1>2. CallTypes' /\ HandleTypes'
  BY <1>0, <1>1 DEF FailAllPending, QueuesEmptied, CallTypes, HandleTypes
<1>3. WireTypes' /\ SocketTypes'
  BY <1>0, <1>1 DEF FailAllPending, WireTypes, SocketTypes, linkVars
<1>4. /\ reconnect'[b] = "trying" /\ \A c \in Socket : c # b => reconnect'[c] = reconnect[c]
      /\ reconnect' \in [Socket -> {"off", "scheduled", "trying", "restoring"}]
  BY <1>0, <1>1 DEF TaskTypes
<1>5. TaskTypes'
  <2>1. 1 \in 0..Attempts
    BY ClientAssumption
  <2>2. attempt' \in [Socket -> 0..Attempts]
    BY <1>0, <1>1, <2>1 DEF TaskTypes
  <2>3. Working(b)'
    BY <1>4 DEF Working
  <2> QED
    BY <1>0, <1>1, <1>4, <2>2, <2>3 DEF TaskTypes
<1>6. TasksFollow'
  <2>1. connected' = connected /\ opened' = opened /\ ws' = ws /\ reader' = reader
    BY <1>1 DEF linkVars
  <2> QED
    BY <1>0, <1>1, <1>4, <2>1 DEF TasksFollow
<1> QED
  BY <1>2, <1>3, <1>5, <1>6 DEF TypeInv

LEMMA ReopensTypes ==
  ASSUME TypeInv, NEW b \in Socket, Reopens(b)
  PROVE  TypeInv'
<1> DEFINE o == opened + 1
<1>0. CallTypes /\ HandleTypes /\ SocketTypes /\ TaskTypes /\ WireTypes /\ TasksFollow
  BY DEF TypeInv
<1>1. /\ reconnect[b] = "trying" /\ opened < MaxSockets
      /\ opened' = o /\ ws' = o /\ open' = open \cup {o}
      /\ reader' = [reader EXCEPT ![o] = o]
      /\ UNCHANGED <<future, acks, handleVars, connected, overlapped, wireVars>>
  BY DEF Reopens
<1>2. opened \in Nat /\ o \in Socket /\ o \in Nat /\ o # 0 /\ opened < o
  BY <1>0, <1>1, SocketRange DEF SocketTypes, Socket
<1>3. \/ ReconnectEnds(b)
      \/ /\ reconnect' = [reconnect EXCEPT ![b] = "restoring"]
         /\ UNCHANGED <<call, ready, attempt, latest>>
  BY DEF Reopens
<1> HIDE DEF o
<1>4. b # o /\ b < o /\ reconnect[o] = "off"
  <2>1. ~(b > opened)
    BY <1>0, <1>1 DEF TasksFollow
  <2> QED
    BY <1>0, <1>2, <2>1, SocketRange DEF TasksFollow
<1>5. /\ reconnect'[b] \in {"off", "restoring"}
      /\ \A c \in Socket : c # b => reconnect'[c] = reconnect[c]
      /\ reconnect' \in [Socket -> {"off", "scheduled", "trying", "restoring"}]
  BY <1>0, <1>3 DEF TaskTypes, ReconnectEnds
<1>6. HandleTypes'
  BY <1>0, <1>1, HandleTypesStay
<1>7. CallTypes'
  BY <1>0, <1>1, <1>3, SetReadyTypes DEF CallTypes, ReconnectEnds
<1>8. WireTypes'
  <2>1. \A s \in Socket : s > o => s > opened
    BY <1>2, SocketRange
  <2> QED
    BY <1>0, <1>1, <2>1 DEF WireTypes, wireVars
<1>9. SocketTypes'
  <2>1. \A c \in Socket : c > o => c # o /\ c > opened
    BY <1>2, SocketRange
  <2>2. \A n : n \in 0..opened => n \in 0..o
    BY <1>2
  <2>3. reader' \in [Socket -> 0..o]
    BY <1>0, <1>1, <1>2, <2>2 DEF SocketTypes
  <2>4. latest' \in 0..o
    BY <1>0, <1>2, <1>3, <2>2 DEF SocketTypes, ReconnectEnds
  <2>5. open' \subseteq 1..o
    BY <1>0, <1>1, <1>2 DEF SocketTypes
  <2>6. \A c \in Socket : c > o => reader'[c] = 0
    BY <1>0, <1>1, <2>1 DEF SocketTypes
  <2> QED
    BY <1>1, <1>2, <2>3, <2>4, <2>5, <2>6 DEF SocketTypes
<1>10. TaskTypes'
  <2>1. 0 \in 0..Attempts
    BY ClientAssumption
  <2>2. attempt' \in [Socket -> 0..Attempts]
    BY <1>0, <1>3, <2>1 DEF TaskTypes, ReconnectEnds
  <2>3. CASE ReconnectEnds(b)
    BY <1>0, <1>1, <1>5, <2>2, <2>3, SetReadyTypes DEF TaskTypes, ReconnectEnds
  <2>4. CASE /\ reconnect' = [reconnect EXCEPT ![b] = "restoring"]
             /\ UNCHANGED <<call, ready, attempt, latest>>
    <3>1. Working(b)'
      BY <1>0, <2>4 DEF Working, TaskTypes
    <3> QED
      BY <1>0, <1>1, <1>5, <2>2, <2>4, <3>1 DEF TaskTypes
  <2> QED
    BY <1>3, <2>3, <2>4
<1>11. TasksFollow'
  <2>1. \A c \in Socket : c # o => reader'[c] = reader[c]
    BY <1>0, <1>1 DEF SocketTypes
  <2>2. reader'[o] = o
    BY <1>0, <1>1, <1>2 DEF SocketTypes
  <2>3. reader[b] = 0
    BY <1>0, <1>1 DEF TasksFollow
  <2>4. \A c \in Socket : /\ reader'[c] # 0 => reconnect'[c] = "off"
                          /\ c > o => reconnect'[c] = "off"
                          /\ reconnect'[c] = "restoring" => c < o
    <3>1. \A c \in Socket : (c > o => c > opened /\ c # b) /\ (c < opened => c < o)
      BY <1>0, <1>2, <1>4, SocketRange DEF SocketTypes
    <3>2. reader'[b] = 0
      BY <1>4, <2>1, <2>3
    <3> QED
      BY <1>0, <1>2, <1>4, <1>5, <2>1, <3>1, <3>2 DEF TasksFollow
  <2> QED
    BY <1>1, <1>2, <2>2, <2>4 DEF TasksFollow
<1> QED
  BY <1>6, <1>7, <1>8, <1>9, <1>10, <1>11 DEF TypeInv

LEMMA RestoresTypes ==
  ASSUME TypeInv, NEW b \in Socket, Restores(b)
  PROVE  TypeInv'
<1>0. CallTypes /\ HandleTypes /\ SocketTypes /\ TaskTypes /\ WireTypes /\ TasksFollow
  BY DEF TypeInv
<1>1. /\ reconnect[b] = "restoring" /\ ReconnectEnds(b)
      /\ UNCHANGED <<future, acks, handleVars, connected, reader, overlapped, linkVars, wireVars>>
  BY DEF Restores
<1>2. CallTypes' /\ HandleTypes' /\ WireTypes'
  BY <1>0, <1>1, SetReadyTypes, HandleTypesStay, WireTypesStay DEF CallTypes, ReconnectEnds, linkVars
<1>3. SocketTypes'
  <2>1. 0 \in 0..opened
    BY <1>0, SocketRange DEF SocketTypes
  <2>2. latest' \in 0..opened
    BY <1>0, <1>1, <2>1 DEF SocketTypes, ReconnectEnds
  <2> QED
    BY <1>0, <1>1, <2>2 DEF SocketTypes, linkVars
<1>4. /\ reconnect'[b] = "off" /\ \A c \in Socket : c # b => reconnect'[c] = reconnect[c]
      /\ reconnect' \in [Socket -> {"off", "scheduled", "trying", "restoring"}]
  BY <1>0, <1>1 DEF TaskTypes, ReconnectEnds
<1>5. TaskTypes'
  <2>1. 0 \in 0..Attempts
    BY ClientAssumption
  <2>2. attempt' \in [Socket -> 0..Attempts]
    BY <1>0, <1>1, <2>1 DEF TaskTypes, ReconnectEnds
  <2> QED
    BY <1>0, <1>1, <1>4, <2>2, SetReadyTypes DEF TaskTypes, ReconnectEnds
<1>6. TasksFollow'
  <2>1. connected' = connected /\ opened' = opened /\ ws' = ws /\ reader' = reader
    BY <1>1 DEF linkVars
  <2>2. b # opened
    BY <1>0, <1>1, SocketRange DEF TasksFollow
  <2>3. reconnect'[opened] = reconnect[opened]
    BY <1>0, <1>4, <2>2 DEF SocketTypes
  <2> QED
    BY <1>0, <1>4, <2>1, <2>3 DEF TasksFollow
<1> QED
  BY <1>2, <1>3, <1>5, <1>6 DEF TypeInv

LEMMA AttemptFailsTypes ==
  ASSUME TypeInv, NEW b \in Socket, Working(b), AttemptFails(b), overlapped' \in BOOLEAN,
         UNCHANGED <<future, acks, handleVars, reader, linkVars, wireVars>>
  PROVE  TypeInv'
<1>0. CallTypes /\ HandleTypes /\ SocketTypes /\ TaskTypes /\ WireTypes /\ TasksFollow
  BY DEF TypeInv
<1>1. CallTypes' /\ HandleTypes' /\ WireTypes'
  BY <1>0, SetReadyTypes, HandleTypesStay, WireTypesStay
     DEF AttemptFails, CallTypes, ReconnectEnds, linkVars
<1>2. SocketTypes'
  <2>1. 0 \in 0..opened
    BY <1>0, SocketRange DEF SocketTypes
  <2>2. latest' \in 0..opened
    BY <1>0, <2>1 DEF AttemptFails, SocketTypes, ReconnectEnds
  <2> QED
    BY <1>0, <2>2 DEF SocketTypes, linkVars
<1>3. opened' = opened /\ ws' = ws /\ reader' = reader
  BY DEF linkVars
<1>4. reader[b] = 0 /\ ~(b > opened)
  BY <1>0 DEF TasksFollow, Working
<1>5. CASE /\ attempt[b] < Attempts
           /\ attempt' = [attempt EXCEPT ![b] = @ + 1]
           /\ reconnect' = [reconnect EXCEPT ![b] = "trying"]
           /\ UNCHANGED <<call, ready, connected, latest>>
  <2>1. attempt[b] + 1 \in 0..Attempts
    BY <1>0, <1>5, ClientAssumption DEF TaskTypes
  <2>2. /\ reconnect'[b] = "trying" /\ \A c \in Socket : c # b => reconnect'[c] = reconnect[c]
        /\ reconnect' \in [Socket -> {"off", "scheduled", "trying", "restoring"}]
    BY <1>0, <1>5 DEF TaskTypes
  <2>3. Working(b)'
    BY <2>2 DEF Working
  <2>4. TaskTypes'
    BY <1>0, <1>5, <2>1, <2>2, <2>3 DEF TaskTypes
  <2>5. TasksFollow'
    BY <1>0, <1>3, <1>4, <1>5, <2>2 DEF TasksFollow
  <2> QED
    BY <1>1, <1>2, <2>4, <2>5 DEF TypeInv
<1>6. CASE attempt[b] = Attempts /\ ReconnectEnds(b) /\ connected' = FALSE
  <2>1. 0 \in 0..Attempts
    BY ClientAssumption
  <2>2. attempt' \in [Socket -> 0..Attempts]
    BY <1>0, <1>6, <2>1 DEF TaskTypes, ReconnectEnds
  <2>3. /\ reconnect'[b] = "off" /\ \A c \in Socket : c # b => reconnect'[c] = reconnect[c]
        /\ reconnect' \in [Socket -> {"off", "scheduled", "trying", "restoring"}]
    BY <1>0, <1>6 DEF TaskTypes, ReconnectEnds
  <2>4. TaskTypes'
    BY <1>0, <1>6, <2>2, <2>3, SetReadyTypes DEF TaskTypes, ReconnectEnds
  <2>5. TasksFollow'
    BY <1>0, <1>3, <1>6, <2>3 DEF TasksFollow
  <2> QED
    BY <1>1, <1>2, <2>4, <2>5 DEF TypeInv
<1> QED
  BY <1>5, <1>6 DEF AttemptFails

LEMMA ReconnectTypes ==
  ASSUME TypeInv, NEW b \in Socket, Reconnecting(b)
  PROVE  TypeInv'
<1>1. CASE OpeningFails(b)
  BY <1>1, AttemptFailsTypes DEF OpeningFails, Working, TypeInv, TaskTypes
<1>2. CASE RestoringFails(b)
  BY <1>2, AttemptFailsTypes DEF RestoringFails, Working
<1> QED
  BY <1>1, <1>2, ReconnectStartsTypes, ReopensTypes, RestoresTypes DEF Reconnecting

LEMMA DisconnectTypes ==
  ASSUME TypeInv, Disconnect
  PROVE  TypeInv'
<1>0. CallTypes /\ HandleTypes /\ SocketTypes /\ TaskTypes /\ WireTypes /\ TasksFollow
  BY DEF TypeInv
<1>1. /\ connected' = FALSE /\ reader' = [reader EXCEPT ![opened] = 0]
      /\ ws' = 0 /\ open' = open \ {ws}
      /\ up' = [s \in Socket |-> IF s = ws THEN <<>> ELSE up[s]]
      /\ UNCHANGED <<future, acks, handleVars, overlapped, opened, down, job, erred>>
  BY DEF Disconnect
<1>2. HandleTypes'
  BY <1>0, <1>1, HandleTypesStay
<1>3. WireTypes'
  BY <1>0, <1>1 DEF WireTypes
<1>4. opened \in Socket /\ 0 \in 0..opened
  BY <1>0, SocketRange DEF SocketTypes
<1>5. CASE /\ latest # 0
           /\ reconnect' = [reconnect EXCEPT ![latest] = "off"]
           /\ attempt' = [attempt EXCEPT ![latest] = 0]
           /\ latest' = 0
           /\ SendersReleased
  <2>1. 0 \in 0..Attempts
    BY ClientAssumption
  <2>2. attempt' \in [Socket -> 0..Attempts]
    BY <1>0, <1>5, <2>1 DEF TaskTypes
  <2>3. /\ \A c \in Socket : reconnect'[c] \in {"off", reconnect[c]}
        /\ reconnect' \in [Socket -> {"off", "scheduled", "trying", "restoring"}]
    BY <1>0, <1>5 DEF TaskTypes
  <2>4. CallTypes' /\ ready' = TRUE /\ \A r \in Request : call'[r] # "blocked"
    BY <1>0, <1>1, <1>5, SetReadyTypes DEF CallTypes, SendersReleased
  <2>5. TaskTypes'
    BY <1>0, <1>1, <1>5, <2>2, <2>3, <2>4 DEF TaskTypes
  <2>6. SocketTypes'
    BY <1>0, <1>1, <1>4, <1>5 DEF SocketTypes
  <2>7. TasksFollow'
    BY <1>0, <1>1, <1>4, <2>3 DEF TasksFollow, SocketTypes
  <2> QED
    BY <1>2, <1>3, <2>4, <2>5, <2>6, <2>7 DEF TypeInv
<1>6. CASE latest = 0 /\ UNCHANGED <<reconnect, attempt, latest, ready, call>>
  <2>1. CallTypes'
    BY <1>0, <1>1, <1>6 DEF CallTypes
  <2>2. TaskTypes'
    BY <1>0, <1>1, <1>6 DEF TaskTypes, Working
  <2>3. SocketTypes'
    BY <1>0, <1>1, <1>4, <1>6 DEF SocketTypes
  <2>4. TasksFollow'
    BY <1>0, <1>1, <1>4, <1>6 DEF TasksFollow, SocketTypes
  <2> QED
    BY <1>2, <1>3, <2>1, <2>2, <2>3, <2>4 DEF TypeInv
<1> QED
  BY <1>5, <1>6 DEF Disconnect

LEMMA NetworkTypes ==
  ASSUME TypeInv, Network
  PROVE  TypeInv'
<1>0. CallTypes /\ HandleTypes /\ SocketTypes /\ WireTypes
  BY DEF TypeInv
<1>1. /\ UNCHANGED <<requestVars, handleVars, readyVars, taskVars, ws, opened>> /\ open' \subseteq open
  BY DEF Network, Serve, Lose, Conclude, linkVars
<1>2. CallTypes' /\ HandleTypes' /\ SocketTypes' /\ TaskTypes' /\ TasksFollow'
  BY <1>0, <1>1, CallTypesStay, HandleTypesStay, StructureStays DEF requestVars
<1>3. ASSUME NEW s \in Socket, Serve(s)
      PROVE  WireTypes'
  <2> DEFINE r == Head(up[s])
  <2>1. PICK a \in Answer :
          /\ down' = [down EXCEPT ![s] = Append(@, [type |-> a, of |-> r])]
          /\ job' = IF a = "ack" THEN [job EXCEPT ![r] = Size(r)] ELSE job
          /\ erred' = IF a = "error" THEN erred \cup {KindOf(r)} ELSE erred
    BY <1>3 DEF Serve
  <2>2. r \in Request /\ Tail(up[s]) \in Seq(Request) /\ Size(r) \in 0..2 /\ KindOf(r) \in Kind
    BY <1>0, <1>3, SizeRange, KindRange, HeadOf DEF Serve, WireTypes
  <2>3. up' = [up EXCEPT ![s] = Tail(up[s])] /\ ~(s > opened)
    BY <1>0, <1>3 DEF Serve, WireTypes
  <2> HIDE DEF r
  <2>4. [type |-> a, of |-> r] \in Message
    BY <2>2 DEF Message
  <2>5. Append(down[s], [type |-> a, of |-> r]) \in Seq(Message)
    BY <1>0, <2>4, AppendProperties DEF WireTypes
  <2>6. job' \in [Request -> 0..2] /\ erred' \subseteq Kind
    BY <1>0, <2>1, <2>2 DEF WireTypes
  <2> QED
    BY <1>0, <1>1, <2>1, <2>2, <2>3, <2>5, <2>6 DEF WireTypes
<1>4. ASSUME NEW i \in Request, Conclude(i)
      PROVE  WireTypes'
  <2>1. [type |-> "done", of |-> i] \in Message
    BY DEF Message
  <2>2. opened \in Socket /\ down[opened] \in Seq(Message)
    BY <1>0 DEF SocketTypes, WireTypes
  <2>3. Append(down[opened], [type |-> "done", of |-> i]) \in Seq(Message)
    BY <2>1, <2>2, AppendProperties
  <2>4. job' \in [Request -> 0..2]
    BY <1>0, <1>4 DEF Conclude, WireTypes
  <2>5. \A s \in Socket : s > opened => s # opened
    BY <2>2, SocketRange
  <2> QED
    BY <1>0, <1>1, <1>4, <2>2, <2>3, <2>4, <2>5 DEF Conclude, WireTypes
<1>5. ASSUME NEW s \in Socket, Lose(s)
      PROVE  WireTypes'
  <2>1. PICK n \in 0..Len(down[s]) : down' = [down EXCEPT ![s] = SubSeq(down[s], 1, n)]
    BY <1>5 DEF Lose
  <2>2. SubSeq(down[s], 1, n) \in Seq(Message)
    BY <1>0, <2>1, SubSeqProperties DEF WireTypes
  <2>3. ~(s > opened)
    BY <1>0, <1>5, SocketRange DEF Lose, SocketTypes
  <2> QED
    BY <1>0, <1>1, <1>5, <2>1, <2>2, <2>3 DEF Lose, WireTypes
<1> QED
  BY <1>2, <1>3, <1>4, <1>5 DEF Network, TypeInv

LEMMA TypeStep ==
  ASSUME TypeInv, [ClientNext]_clientVars
  PROVE  TypeInv'
<1>1. ASSUME UNCHANGED clientVars
      PROVE  TypeInv'
  <2>1. /\ UNCHANGED <<requestVars, handleVars, readyVars, taskVars, linkVars, wireVars>>
        /\ UNCHANGED <<connected, reader, reconnect, attempt, latest, overlapped, ws, opened, open, call>>
    BY <1>1 DEF clientVars, taskVars, linkVars, readyVars, requestVars
  <2> QED
    BY <2>1, CallTypesStay, HandleTypesStay, WireTypesStay, StructureStays DEF TypeInv
<1> QED
  BY <1>1, CallerTypes, ReadTypes, ReaderFailsTypes, ReconnectTypes, DisconnectTypes, NetworkTypes
     DEF ClientNext, Reader

(* A blocked caller has a reconnect that will release it, and a connection *)
(* that was not given up has a reader or a reconnect: no call hangs and no *)
(* connection is forgotten, whatever overlaps.                             *)
THEOREM ClientTypeCorrect == ClientSpec => []ClientTypeOK
<1>1. ClientInit => TypeInv
  BY InitTypes
<1>2. TypeInv /\ [ClientNext]_clientVars => TypeInv'
  BY TypeStep
<1>3. TypeInv => ClientTypeOK
  BY TypeInvSuffices
<1> QED
  BY <1>1, <1>2, <1>3, PTL DEF ClientSpec

-----------------------------------------------------------------------------
(* Where a value is among the messages on all sockets, and how often.      *)

Spots(q, x) ==
  {t \in Socket \X Nat : t[2] \in 1..Len(q[t[1]]) /\ q[t[1]][t[2]] = x}
Count(q, x) == Cardinality(Spots(q, x))

LEMMA SpotsAreFinite ==
  ASSUME NEW M, NEW q \in [Socket -> Seq(M)], NEW x
  PROVE  IsFiniteSet(Spots(q, x)) /\ Count(q, x) \in Nat
<1> DEFINE f == [s \in Socket |-> {s} \X (1..Len(q[s]))]
           F == {f[s] : s \in Socket}
<1>1. IsFiniteSet(Socket)
  BY SocketRange, FS_Interval DEF Socket
<1>2. f \in Surjection(Socket, F)
  BY DEF Surjection
<1>3. IsFiniteSet(F)
  BY <1>1, <1>2, FS_Surjection
<1>4. ASSUME NEW s \in Socket
      PROVE  IsFiniteSet(f[s])
  <2>1. Len(q[s]) \in Nat
    BY LenProperties
  <2>2. IsFiniteSet(1..Len(q[s]))
    BY <2>1, FS_Interval
  <2>3. IsFiniteSet({s})
    BY FS_Singleton
  <2>4. IsFiniteSet({s} \X (1..Len(q[s])))
    BY <2>2, <2>3, FS_Product
  <2> QED
    BY <2>4
<1>5. IsFiniteSet(UNION F)
  BY <1>3, <1>4, FS_UNION
<1>6. Spots(q, x) \subseteq UNION F
  <2>1. ASSUME NEW t \in Spots(q, x)
        PROVE  t \in UNION F
    <3>1. t \in Socket \X Nat /\ t[2] \in 1..Len(q[t[1]])
      BY DEF Spots
    <3>2. t[1] \in Socket /\ t \in {t[1]} \X (1..Len(q[t[1]]))
      BY <3>1
    <3> QED
      BY <3>2
  <2> QED
    BY <2>1
<1> QED
  BY <1>5, <1>6, FS_Subset, FS_CardinalityType DEF Count

LEMMA CountAppend ==
  ASSUME NEW M, NEW q \in [Socket -> Seq(M)], NEW s \in Socket, NEW y \in M, NEW x,
         NEW e, e = [q EXCEPT ![s] = Append(q[s], y)]
  PROVE  Count(e, x) <= Count(q, x) + (IF y = x THEN 1 ELSE 0)
<1> DEFINE l == Len(q[s])
<1>1. /\ l \in Nat /\ Len(e[s]) = l + 1 /\ e[s][l + 1] = y
      /\ \A n \in 1..l : e[s][n] = q[s][n]
      /\ \A t \in Socket : t # s => e[t] = q[t]
  BY AppendProperties
<1> HIDE DEF l
<1>2. \A n : n \in 1..(l + 1) <=> n \in 1..l \/ n = l + 1
  BY <1>1
<1>3. ASSUME NEW t \in Socket, NEW n \in Nat
      PROVE  n \in 1..Len(e[t]) /\ e[t][n] = x <=>
               \/ n \in 1..Len(q[t]) /\ q[t][n] = x
               \/ t = s /\ n = l + 1 /\ y = x
  <2>1. CASE t = s
    <3>1. n = l + 1 => n \notin 1..l
      BY <1>1
    <3> QED
      BY <1>1, <1>2, <2>1, <3>1 DEF l
  <2>2. CASE t # s
    BY <1>1, <2>2
  <2> QED
    BY <2>1, <2>2
<1>4. \A t : t \in Spots(e, x) <=> t \in Spots(q, x) \/ (t = <<s, l + 1>> /\ y = x)
  <2>1. <<s, l + 1>> \in Socket \X Nat
    BY <1>1
  <2> QED
    BY <1>3, <2>1 DEF Spots
<1>5. <<s, l + 1>> \notin Spots(q, x)
  BY <1>1 DEF Spots, l
<1>6. IsFiniteSet(Spots(q, x)) /\ Count(q, x) \in Nat
  BY SpotsAreFinite
<1>7. CASE y = x
  <2>1. Spots(e, x) = Spots(q, x) \cup {<<s, l + 1>>}
    BY <1>4, <1>7
  <2>2. Cardinality(Spots(e, x)) = Cardinality(Spots(q, x)) + 1
    BY <1>5, <1>6, <2>1, FS_AddElement
  <2> QED
    BY <1>6, <1>7, <2>2 DEF Count
<1>8. CASE y # x
  <2>1. Spots(e, x) = Spots(q, x)
    BY <1>4, <1>8
  <2> QED
    BY <1>6, <1>8, <2>1 DEF Count
<1> QED
  BY <1>7, <1>8

LEMMA CountFalls ==
  ASSUME NEW M, NEW q \in [Socket -> Seq(M)], NEW e \in [Socket -> Seq(M)], NEW x,
         \A t \in Socket : \A n \in 1..Len(e[t]) : n \in 1..Len(q[t]) /\ e[t][n] = q[t][n]
  PROVE  Count(e, x) <= Count(q, x)
<1>1. Spots(e, x) \subseteq Spots(q, x)
  BY DEF Spots
<1> QED
  BY <1>1, SpotsAreFinite, FS_Subset DEF Count

LEMMA CountTail ==
  ASSUME NEW M, NEW q \in [Socket -> Seq(M)], NEW s \in Socket, q[s] # <<>>, NEW x
  PROVE  Count([q EXCEPT ![s] = Tail(q[s])], x) + (IF Head(q[s]) = x THEN 1 ELSE 0)
           <= Count(q, x)
<1> DEFINE e == [q EXCEPT ![s] = Tail(q[s])]
           S == Spots(e, x)
           T == Spots(q, x) \ {<<s, 1>>}
           f == [t \in S |-> IF t[1] = s THEN <<s, t[2] + 1>> ELSE t]
<1>1. /\ Head(q[s]) = q[s][1] /\ 1 \in 1..Len(q[s])
      /\ Tail(q[s]) \in Seq(M) /\ Len(q[s]) = Len(Tail(q[s])) + 1 /\ Len(Tail(q[s])) \in Nat
      /\ \A n \in 1..Len(Tail(q[s])) : Tail(q[s])[n] = q[s][n + 1]
  BY HeadOf
<1>2. e \in [Socket -> Seq(M)] /\ e[s] = Tail(q[s]) /\ \A t \in Socket : t # s => e[t] = q[t]
  BY <1>1
<1> HIDE DEF e
<1>3. IsFiniteSet(S) /\ IsFiniteSet(Spots(q, x)) /\ Count(e, x) \in Nat /\ Count(q, x) \in Nat
  BY <1>2, SpotsAreFinite
<1>4. IsFiniteSet(T)
  BY <1>3, FS_Subset
<1>5. ASSUME NEW t \in S
      PROVE  /\ t[1] \in Socket /\ t[2] \in Nat /\ t = <<t[1], t[2]>>
             /\ f[t] \in T
  <2>1. t[1] \in Socket /\ t[2] \in Nat /\ t = <<t[1], t[2]>>
        /\ t[2] \in 1..Len(e[t[1]]) /\ e[t[1]][t[2]] = x
    BY DEF Spots
  <2>2. CASE t[1] = s
    <3>1. t[2] + 1 \in 1..Len(q[s]) /\ q[s][t[2] + 1] = x /\ t[2] + 1 # 1 /\ t[2] + 1 \in Nat
      BY <1>1, <1>2, <2>1, <2>2
    <3>2. <<s, t[2] + 1>> \in Spots(q, x)
      BY <3>1 DEF Spots
    <3> QED
      BY <2>1, <2>2, <3>1, <3>2
  <2>3. CASE t[1] # s
    <3>1. t \in Spots(q, x)
      BY <1>2, <2>1, <2>3 DEF Spots
    <3> QED
      BY <2>1, <2>3, <3>1
  <2> QED
    BY <2>1, <2>2, <2>3
<1>6. ASSUME NEW a \in S, NEW b \in S, f[a] = f[b]
      PROVE  a = b
  <2>1. a[1] \in Socket /\ a[2] \in Nat /\ a = <<a[1], a[2]>>
        /\ b[1] \in Socket /\ b[2] \in Nat /\ b = <<b[1], b[2]>>
    BY <1>5
  <2>2. f[a] = <<a[1], IF a[1] = s THEN a[2] + 1 ELSE a[2]>>
        /\ f[b] = <<b[1], IF b[1] = s THEN b[2] + 1 ELSE b[2]>>
    BY <2>1
  <2>3. a[1] = b[1] /\ a[2] = b[2]
    BY <1>6, <2>1, <2>2
  <2> QED
    BY <2>1, <2>3
<1>7. f \in Injection(S, T)
  BY <1>5, <1>6 DEF Injection, IsInjective
<1> HIDE DEF S, T, f
<1>8. Cardinality(S) <= Cardinality(T)
  BY <1>4, <1>7, FS_Injection
<1>9. T \subseteq Spots(q, x) /\ Cardinality(T) \in Nat
  BY <1>4, FS_CardinalityType DEF T
<1>10. Cardinality(T) <= Cardinality(Spots(q, x))
  BY <1>3, <1>9, FS_Subset
<1>11. ASSUME Head(q[s]) = x
       PROVE  Cardinality(T) = Cardinality(Spots(q, x)) - 1
  <2>1. <<s, 1>> \in Spots(q, x)
    BY <1>1, <1>11 DEF Spots
  <2> QED
    BY <1>3, <2>1, FS_RemoveElement DEF T
<1>12. Cardinality(S) = Count(e, x) /\ Cardinality(Spots(q, x)) = Count(q, x)
  BY DEF S, Count
<1>13. Cardinality(S) + (IF Head(q[s]) = x THEN 1 ELSE 0) <= Cardinality(Spots(q, x))
  <2>1. CASE Head(q[s]) = x
    BY <1>3, <1>8, <1>9, <1>11, <1>12, <2>1
  <2>2. CASE Head(q[s]) # x
    BY <1>3, <1>8, <1>9, <1>10, <1>12, <2>2
  <2> QED
    BY <2>1, <2>2
<1> QED
  BY <1>12, <1>13 DEF e

LEMMA CountOfNone ==
  ASSUME NEW M, NEW q \in [Socket -> Seq(M)], NEW x
  PROVE  /\ (\A s \in Socket : q[s] = <<>>) => Count(q, x) = 0
         /\ Count(q, x) = 0 => \A s \in Socket : \A n \in 1..Len(q[s]) : q[s][n] # x
<1>1. (\A s \in Socket : q[s] = <<>>) => Spots(q, x) = {}
  BY DEF Spots
<1>2. Count(q, x) = 0 => Spots(q, x) = {}
  BY SpotsAreFinite, FS_EmptySet DEF Count
<1>3. ASSUME NEW s \in Socket, NEW n \in 1..Len(q[s]), q[s][n] = x
      PROVE  <<s, n>> \in Spots(q, x)
  <2>1. n \in Nat
    BY LenProperties
  <2> QED
    BY <1>3, <2>1 DEF Spots
<1>4. Spots(q, x) = {} => Count(q, x) = 0
  BY FS_EmptySet DEF Count
<1> QED
  BY <1>1, <1>2, <1>3, <1>4

-----------------------------------------------------------------------------
(* What is known of one request. It is sent once and answered once: it is  *)
(* at one of the places a call, the way to the server, the way back and a  *)
(* future, which holds its id. Only the call whose future holds the id     *)
(* registers the handle; and where that is the call that made the request, *)
(* the handle waits for no fewer reports than are owed or under way.       *)

Early == {"new", "blocked", "woken"}
Ack(i) == [type |-> "ack", of |-> i]
Refusal(i) == [type |-> "refused", of |-> i]
Done(i) == [type |-> "done", of |-> i]

Unsent(i) == IF call[i] \in Early THEN 1 ELSE 0
Sent(i) == Count(up, i)
Answers(i) == Count(down, Ack(i)) + Count(down, Refusal(i))
Held(i) == IF \E r \in Request : future[r] = i THEN 1 ELSE 0

Tokens(i) == Unsent(i) + Sent(i) + Answers(i) + Held(i)
Fresh(i) == Unsent(i) + Sent(i)
Owing(i) == job[i] + Count(down, Done(i))

Sound(i) ==
  /\ Tokens(i) <= 1
  /\ Fresh(i) > 0 => Owing(i) = 0
  /\ Owing(i) <= Size(i)
  /\ \A q, r \in Request : future[q] = i /\ future[r] = i => q = r
  /\ handle[i] # "none" => \E r \in Request : future[r] = i /\ call[r] = "returned"
  /\ future[i] = i => /\ handle[i] = "open" => Owing(i) <= remaining[i]
                      /\ handle[i] = "done" => Owing(i) = 0

LEMMA Numbers ==
  ASSUME TypeInv, NEW i \in Request
  PROVE  /\ Unsent(i) \in Nat /\ Sent(i) \in Nat /\ Held(i) \in Nat
         /\ Count(down, Ack(i)) \in Nat /\ Count(down, Refusal(i)) \in Nat
         /\ Count(down, Done(i)) \in Nat /\ job[i] \in Nat
         /\ remaining[i] \in Nat /\ Size(i) \in Nat
<1>1. up \in [Socket -> Seq(Request)] /\ down \in [Socket -> Seq(Message)]
      /\ job[i] \in 0..2 /\ remaining[i] \in 0..2
  BY DEF TypeInv, WireTypes, HandleTypes
<1>2. /\ Count(up, i) \in Nat /\ Count(down, Ack(i)) \in Nat
      /\ Count(down, Refusal(i)) \in Nat /\ Count(down, Done(i)) \in Nat
  BY <1>1, SpotsAreFinite
<1> QED
  BY <1>1, <1>2, SizeRange DEF Unsent, Sent, Held

LEMMA NumbersNext ==
  ASSUME TypeInv', NEW i \in Request
  PROVE  /\ Unsent(i)' \in Nat /\ Sent(i)' \in Nat /\ Held(i)' \in Nat
         /\ Count(down, Ack(i))' \in Nat /\ Count(down, Refusal(i))' \in Nat
         /\ Count(down, Done(i))' \in Nat /\ job'[i] \in Nat
         /\ remaining'[i] \in Nat
<1>1. up' \in [Socket -> Seq(Request)] /\ down' \in [Socket -> Seq(Message)]
      /\ job'[i] \in 0..2 /\ remaining'[i] \in 0..2
  BY DEF TypeInv, WireTypes, HandleTypes
<1>2. /\ Count(up', i) \in Nat /\ Count(down', Ack(i)) \in Nat
      /\ Count(down', Refusal(i)) \in Nat /\ Count(down', Done(i)) \in Nat
  BY <1>1, SpotsAreFinite
<1>3. Ack(i)' = Ack(i) /\ Refusal(i)' = Refusal(i) /\ Done(i)' = Done(i)
  BY DEF Ack, Refusal, Done
<1> QED
  BY <1>1, <1>2 DEF Unsent, Sent, Held, Count, Spots, Ack, Refusal, Done

LEMMA InitSound == ClientInit => \A i \in Request : Sound(i)
<1> SUFFICES ASSUME ClientInit, NEW i \in Request
             PROVE  Sound(i)
  OBVIOUS
<1>1. TypeInv
  BY InitTypes
<1>2. /\ \A s \in Socket : up[s] = <<>> /\ down[s] = <<>>
      /\ up \in [Socket -> Seq(Request)] /\ down \in [Socket -> Seq(Message)]
  BY <1>1 DEF ClientInit, TypeInv, WireTypes
<1>3. Count(up, i) = 0
  BY <1>2, CountOfNone
<1>4. \A x : Count(down, x) = 0
  BY <1>2, CountOfNone
<1>5. call[i] = "new" /\ handle[i] = "none" /\ job[i] = 0
      /\ \A r \in Request : future[r] = "unset" /\ future[r] # i
  BY OutcomeIsNoRequest DEF ClientInit
<1>6. Unsent(i) = 1 /\ Sent(i) = 0 /\ Answers(i) = 0 /\ Held(i) = 0 /\ Owing(i) = 0
  BY <1>3, <1>4, <1>5 DEF Unsent, Sent, Answers, Held, Owing, Early
<1> QED
  BY <1>5, <1>6, SizeRange DEF Sound, Tokens, Fresh

(* Sound is kept by a step behind which no more is under way than before,  *)
(* no future has a new id, and no handle changes but by a loss.            *)
LEMMA SoundFalls ==
  ASSUME TypeInv, TypeInv', NEW i \in Request, Sound(i),
         Tokens(i)' <= Tokens(i), Fresh(i)' <= Fresh(i), Owing(i)' <= Owing(i),
         \A r \in Request : future'[r] = i => future[r] = i,
         \A r \in Request : future[r] = i /\ call[r] = "returned" =>
                              future'[r] = i /\ call'[r] = "returned",
         \/ handle'[i] = handle[i] /\ remaining'[i] = remaining[i]
         \/ handle'[i] = "lost" /\ handle[i] = "open"
  PROVE  Sound(i)'
<1>1. /\ Tokens(i) \in Nat /\ Fresh(i) \in Nat /\ Owing(i) \in Nat
      /\ Tokens(i)' \in Nat /\ Fresh(i)' \in Nat /\ Owing(i)' \in Nat
      /\ remaining[i] \in Nat /\ Size(i) \in Nat /\ Size(i)' = Size(i)
  BY Numbers, NumbersNext DEF Tokens, Fresh, Owing, Answers, Size
<1>2. Tokens(i)' <= 1
  BY <1>1 DEF Sound
<1>3. Fresh(i)' > 0 => Owing(i)' = 0
  BY <1>1 DEF Sound
<1>4. Owing(i)' <= Size(i)'
  BY <1>1 DEF Sound
<1>5. \A q, r \in Request : future'[q] = i /\ future'[r] = i => q = r
  BY DEF Sound
<1>6. handle'[i] # "none" => \E r \in Request : future'[r] = i /\ call'[r] = "returned"
  BY DEF Sound
<1>7. future'[i] = i => /\ handle'[i] = "open" => Owing(i)' <= remaining'[i]
                        /\ handle'[i] = "done" => Owing(i)' = 0
  BY <1>1 DEF Sound
<1> QED
  BY <1>2, <1>3, <1>4, <1>5, <1>6, <1>7 DEF Sound

(* A step that sends nothing and reads nothing.                            *)
LEMMA SoundStays ==
  ASSUME TypeInv, TypeInv', NEW i \in Request, Sound(i),
         UNCHANGED <<down, job>>, Sent(i)' <= Sent(i),
         \A r \in Request : call'[r] \in Early => call[r] \in Early,
         \A r \in Request : call[r] = "returned" => call'[r] = "returned",
         \A r \in Request : future'[r] = i <=> future[r] = i,
         \/ handle'[i] = handle[i] /\ remaining'[i] = remaining[i]
         \/ handle'[i] = "lost" /\ handle[i] = "open"
  PROVE  Sound(i)'
<1>1. Answers(i)' = Answers(i) /\ Owing(i)' = Owing(i)
  BY DEF Answers, Owing, Ack, Refusal, Done
<1>2. Unsent(i)' <= Unsent(i) /\ Held(i)' = Held(i)
  BY DEF Unsent, Held
<1>3. /\ Unsent(i) \in Nat /\ Sent(i) \in Nat /\ Answers(i) \in Nat /\ Held(i) \in Nat
      /\ Owing(i) \in Nat
  BY Numbers DEF Answers, Owing
<1>4. Unsent(i)' \in Nat /\ Sent(i)' \in Nat
  BY NumbersNext
<1>5. Tokens(i)' <= Tokens(i) /\ Fresh(i)' <= Fresh(i) /\ Owing(i)' <= Owing(i)
  BY <1>1, <1>2, <1>3, <1>4 DEF Tokens, Fresh
<1> QED
  BY <1>5, SoundFalls

LEMMA ProceedSound ==
  ASSUME TypeInv, TypeInv', NEW r \in Request, call[r] \in Early, Proceed(r),
         UNCHANGED <<future, handleVars, down, job>>, NEW i \in Request, Sound(i)
  PROVE  Sound(i)'
<1>0. up \in [Socket -> Seq(Request)] /\ call \in [Request -> Stage] /\ ws \in {0, opened} /\ opened \in Socket
      /\ open \subseteq 1..opened
  BY DEF TypeInv, WireTypes, CallTypes, SocketTypes
<1>1. PICK end \in {"awaiting", "failed"} : call' = [call EXCEPT ![r] = end]
  BY DEF Proceed, Transmit
<1>2. /\ call'[r] \notin Early /\ \A q \in Request : q # r => call'[q] = call[q]
      /\ \A q \in Request : call[q] = "returned" => call'[q] = "returned"
  BY <1>0, <1>1 DEF Early
<1>3. Unsent(i)' + Sent(i)' <= Unsent(i) + Sent(i)
  <2>1. Unsent(i)' = IF i = r THEN Unsent(i) - 1 ELSE Unsent(i)
    BY <1>2 DEF Unsent
  <2>2. Sent(i)' <= Sent(i) + (IF r = i THEN 1 ELSE 0)
    <3>1. CASE ws \in open /\ up' = [up EXCEPT ![ws] = Append(@, r)]
      <4>1. ws \in Socket
        BY <1>0, <3>1, SocketRange
      <4>2. up' = [up EXCEPT ![ws] = Append(up[ws], r)]
        BY <3>1
      <4>3. Count(up', i) <= Count(up, i) + (IF r = i THEN 1 ELSE 0)
        BY <1>0, <4>1, <4>2, CountAppend
      <4> QED
        BY <4>3 DEF Sent
    <3>2. CASE up' = up
      BY <3>2, Numbers DEF Sent
    <3> QED
      BY <3>1, <3>2 DEF Proceed, Transmit
  <2>3. Unsent(i) \in Nat /\ Sent(i) \in Nat /\ Sent(i)' \in Nat
    BY Numbers, NumbersNext
  <2> QED
    BY <2>1, <2>2, <2>3
<1>4. Answers(i)' = Answers(i) /\ Owing(i)' = Owing(i) /\ Held(i)' = Held(i)
  BY DEF Answers, Owing, Ack, Refusal, Done, Held
<1>5. /\ Unsent(i) \in Nat /\ Sent(i) \in Nat /\ Answers(i) \in Nat /\ Held(i) \in Nat
      /\ Owing(i) \in Nat
  BY Numbers DEF Answers, Owing
<1>6. Unsent(i)' \in Nat /\ Sent(i)' \in Nat
  BY NumbersNext
<1>7. Tokens(i)' <= Tokens(i) /\ Fresh(i)' <= Fresh(i) /\ Owing(i)' <= Owing(i)
  BY <1>3, <1>4, <1>5, <1>6 DEF Tokens, Fresh
<1> QED
  BY <1>2, <1>7, SoundFalls DEF handleVars

LEMMA CallerSound ==
  ASSUME TypeInv, TypeInv', NEW r \in Request, Issue(r) \/ Caller(r),
         NEW i \in Request, Sound(i)
  PROVE  Sound(i)'
<1>0. /\ call \in [Request -> Stage] /\ future \in [Request -> Request \cup {"unset", "refused", "lost", "expired"}]
      /\ handle \in [Request -> {"none", "open", "done", "lost"}]
      /\ remaining \in [Request -> 0..2]
  BY DEF TypeInv, CallTypes, HandleTypes
<1>1. CASE Issue(r) \/ Wake(r)
  <2>1. call[r] \in Early /\ UNCHANGED <<future, handleVars, down, job>>
    BY <1>1 DEF Issue, Wake, Early
  <2>2. CASE Proceed(r)
    BY <2>1, <2>2, ProceedSound
  <2>3. CASE call' = [call EXCEPT ![r] = "blocked"] /\ UNCHANGED <<acks, up>>
    <3>1. \A q \in Request : /\ call'[q] \in Early => call[q] \in Early
                             /\ call[q] = "returned" => call'[q] = "returned"
      BY <1>0, <2>1, <2>3 DEF Early
    <3>2. Sent(i)' = Sent(i) /\ Sent(i) \in Nat
      BY <2>3, Numbers DEF Sent
    <3> QED
      BY <2>1, <3>1, <3>2, SoundStays DEF handleVars
  <2> QED
    BY <1>1, <2>2, <2>3 DEF Issue, Wake
<1>2. CASE Raise(r) \/ Expire(r)
  <2>1. \A q \in Request : /\ call'[q] \in Early => call[q] \in Early
                           /\ call[q] = "returned" => call'[q] = "returned"
    BY <1>0, <1>2 DEF Raise, Expire, Early
  <2>2. \A q \in Request : future'[q] = i <=> future[q] = i
    BY <1>0, <1>2, OutcomeIsNoRequest DEF Raise, Expire
  <2>3. UNCHANGED <<handle, remaining, up, down, job>>
    BY <1>2 DEF Raise, Expire, handleVars, wireVars
  <2>4. Sent(i)' = Sent(i) /\ Sent(i) \in Nat
    BY <2>3, Numbers DEF Sent
  <2> QED
    BY <2>1, <2>2, <2>3, <2>4, SoundStays
<1>3. CASE Register(r)
  <2>1. /\ call[r] = "awaiting" /\ future[r] \in Request
        /\ call' = [call EXCEPT ![r] = "returned"]
        /\ handle' = [handle EXCEPT ![future[r]] = "open"]
        /\ remaining' = [remaining EXCEPT ![future[r]] = Size(r)]
        /\ UNCHANGED <<future, up, down, job>>
    BY <1>3 DEF Register, ReportsOf, wireVars
  <2>2. \A q \in Request : /\ call'[q] \in Early => call[q] \in Early
                           /\ call[q] = "returned" => call'[q] = "returned"
    BY <1>0, <2>1 DEF Early
  <2>3. Sent(i)' = Sent(i) /\ Sent(i) \in Nat
    BY <2>1, Numbers DEF Sent
  <2>4. CASE future[r] # i
    <3>1. handle'[i] = handle[i] /\ remaining'[i] = remaining[i]
      BY <1>0, <2>1, <2>4
    <3> QED
      BY <2>1, <2>2, <2>3, <3>1, SoundStays
  <2>5. CASE future[r] = i
    <3>1. handle'[i] = "open" /\ remaining'[i] = Size(r) /\ call'[r] = "returned" /\ future'[r] = i
      BY <1>0, <2>1, <2>5
    <3>2. /\ Unsent(i)' = Unsent(i) /\ Sent(i)' = Sent(i) /\ Answers(i)' = Answers(i)
          /\ Held(i)' = Held(i) /\ Owing(i)' = Owing(i)
      <4>1. call'[i] \in Early <=> call[i] \in Early
        BY <1>0, <2>1 DEF Early
      <4> QED
        BY <2>1, <2>3, <4>1 DEF Unsent, Answers, Held, Owing, Ack, Refusal, Done
    <3>3. Tokens(i)' = Tokens(i) /\ Fresh(i)' = Fresh(i)
      BY <3>2 DEF Tokens, Fresh
    <3>4. Size(i)' = Size(i)
      BY DEF Size
    <3>5. future'[i] = i => Owing(i)' <= remaining'[i]
      <4>1. ASSUME future'[i] = i
            PROVE  r = i
        BY <2>1, <2>5, <4>1 DEF Sound
      <4> QED
        BY <3>1, <3>2, <4>1 DEF Sound
    <3> QED
      BY <2>1, <3>1, <3>2, <3>3, <3>4, <3>5 DEF Sound
  <2> QED
    BY <2>4, <2>5
<1> QED
  BY <1>1, <1>2, <1>3 DEF Caller

-----------------------------------------------------------------------------
LEMMA SettleKeeps ==
  ASSUME CallTypes, NEW k \in Kind, NEW o \in Request \cup {"refused"}, Settle(k, o), NEW i \in Request
  PROVE  /\ \A r \in Request : future[r] = i => future'[r] = i
         /\ o # i => \A r \in Request : future'[r] = i => future[r] = i
         /\ \E q : \A r \in Request : future'[r] = i /\ future[r] # i => r = q
<1>1. \E q : \A r \in Request : future'[r] = future[r] \/ (r = q /\ future[r] = "unset" /\ future'[r] = o)
  <2>1. CASE future' = future
    BY <2>1
  <2>2. CASE future' = [r \in Request |-> IF r = Head(acks[k]) /\ future[r] = "unset" THEN o ELSE future[r]]
    BY <2>2
  <2> QED
    BY <2>1, <2>2 DEF Settle
<1> QED
  BY <1>1, OutcomeIsNoRequest

LEMMA ReadSound ==
  ASSUME TypeInv, TypeInv', NEW b \in Socket, Read(b), NEW i \in Request, Sound(i)
  PROVE  Sound(i)'
<1> DEFINE s == reader[b]
           m == Head(down[s])
<1>0. CallTypes /\ HandleTypes /\ SocketTypes /\ WireTypes
  BY DEF TypeInv
<1>1. s \in Socket /\ down[s] # <<>>
  BY <1>0, ReaderSocket DEF Read
<1>2. m \in Message /\ down \in [Socket -> Seq(Message)]
  BY <1>0, <1>1, HeadOf DEF WireTypes
<1>3. m.of \in Request /\ KindOf(m.of) \in Kind
  BY <1>2, KindRange DEF Message
<1>4. /\ Dispatch(m) /\ down' = [down EXCEPT ![s] = Tail(down[s])]
      /\ UNCHANGED <<call, up, job>>
  BY DEF Read
<1>5. \A x : Count(down', x) + (IF m = x THEN 1 ELSE 0) <= Count(down, x)
  BY <1>1, <1>2, <1>4, CountTail
<1> HIDE DEF s, m
<1>6. /\ Count(down', Ack(i)) + (IF m = Ack(i) THEN 1 ELSE 0) <= Count(down, Ack(i))
      /\ Count(down', Refusal(i)) <= Count(down, Refusal(i))
      /\ Count(down', Done(i)) + (IF m = Done(i) THEN 1 ELSE 0) <= Count(down, Done(i))
      /\ Count(down', Ack(i)) \in Nat /\ Count(down', Refusal(i)) \in Nat /\ Count(down', Done(i)) \in Nat
      /\ Count(down, Ack(i)) \in Nat /\ Count(down, Refusal(i)) \in Nat /\ Count(down, Done(i)) \in Nat
      /\ Unsent(i) \in Nat /\ Sent(i) \in Nat /\ Held(i) \in Nat /\ Held(i)' \in Nat /\ job[i] \in Nat
  <2>1. down' \in [Socket -> Seq(Message)]
    BY DEF TypeInv, WireTypes
  <2>2. Count(down', Ack(i)) \in Nat /\ Count(down', Refusal(i)) \in Nat /\ Count(down', Done(i)) \in Nat
    BY <2>1, SpotsAreFinite
  <2>3. Count(down', Refusal(i)) + (IF m = Refusal(i) THEN 1 ELSE 0) <= Count(down, Refusal(i))
    BY <1>5
  <2> QED
    BY <1>5, <2>2, <2>3, Numbers, NumbersNext
<1>7. /\ Answers(i)' = Count(down', Ack(i)) + Count(down', Refusal(i))
      /\ Owing(i)' = job[i] + Count(down', Done(i))
      /\ Unsent(i)' = Unsent(i) /\ Sent(i)' = Sent(i)
  BY <1>4 DEF Answers, Owing, Unsent, Sent, Ack, Refusal, Done
<1>8. Owing(i)' <= Owing(i) /\ Fresh(i)' <= Fresh(i) /\ Answers(i)' <= Answers(i)
      /\ Answers(i) \in Nat /\ Answers(i)' \in Nat /\ Owing(i) \in Nat /\ Owing(i)' \in Nat
  BY <1>6, <1>7 DEF Owing, Fresh, Answers
<1>9. CASE (\A r \in Request : future'[r] = i <=> future[r] = i) /\ UNCHANGED handleVars
  <2>1. Held(i)' = Held(i)
    BY <1>9 DEF Held
  <2>2. Tokens(i)' <= Tokens(i)
    BY <1>6, <1>7, <1>8, <2>1 DEF Tokens
  <2> QED
    BY <1>4, <1>8, <1>9, <2>2, SoundFalls DEF handleVars
<1>10. CASE m.type = "ack" /\ Settle(KindOf(m.of), m.of) /\ UNCHANGED handleVars
  <2>1. CASE m.of # i
    <3>1. \A r \in Request : future'[r] = i <=> future[r] = i
      BY <1>0, <1>3, <1>10, <2>1, SettleKeeps
    <3> QED
      BY <1>9, <1>10, <3>1
  <2>2. CASE m.of = i
    <3>1. m = Ack(i)
      BY <1>2, <1>10, <2>2 DEF Message, Ack
    <3>2. Answers(i)' + 1 <= Answers(i)
      BY <1>6, <1>7, <3>1 DEF Answers
    <3>3. Held(i) = 0 /\ Unsent(i) = 0 /\ Sent(i) = 0 /\ Answers(i) = 1
      BY <1>6, <1>8, <3>2 DEF Sound, Tokens
    <3>4. \A r \in Request : future[r] # i
      BY <3>3 DEF Held
    <3>5. handle[i] = "none" /\ handle'[i] = "none"
      BY <1>10, <3>4 DEF Sound, handleVars
    <3>6. Tokens(i)' <= 1 /\ Fresh(i)' = 0
      <4>1. Held(i)' <= 1
        BY DEF Held
      <4> QED
        BY <1>6, <1>7, <1>8, <3>2, <3>3, <4>1 DEF Tokens, Fresh
    <3>7. Owing(i)' <= Size(i)'
      BY <1>8, SizeRange DEF Sound, Size
    <3>8. \A q, r \in Request : future'[q] = i /\ future'[r] = i => q = r
      BY <1>0, <1>3, <1>10, <2>2, <3>4, SettleKeeps
    <3> QED
      BY <3>5, <3>6, <3>7, <3>8 DEF Sound
  <2> QED
    BY <2>1, <2>2
<1>11. CASE m.type = "refused" /\ Settle(KindOf(m.of), "refused") /\ UNCHANGED handleVars
  <2>1. "refused" # i
    BY OutcomeIsNoRequest
  <2>2. \A r \in Request : future'[r] = i <=> future[r] = i
    BY <1>0, <1>3, <1>11, <2>1, SettleKeeps
  <2> QED
    BY <1>9, <1>11, <2>2
<1>12. CASE m.type = "error" /\ UNCHANGED <<acks, future, handleVars>>
  BY <1>9, <1>12
<1>13. CASE m.type = "done" /\ Report(m.of) /\ UNCHANGED <<acks, future>>
  <2>1. CASE UNCHANGED handleVars
    BY <1>9, <1>13, <2>1
  <2>2. CASE /\ handle[m.of] = "open"
             /\ remaining' = [remaining EXCEPT ![m.of] = @ - 1]
             /\ handle' = [handle EXCEPT ![m.of] = IF remaining[m.of] = 1 THEN "done" ELSE @]
    <3>1. Held(i)' = Held(i)
      BY <1>13 DEF Held
    <3>2. Tokens(i)' <= Tokens(i)
      BY <1>6, <1>7, <1>8, <3>1 DEF Tokens
    <3>3. CASE m.of # i
      <4>1. handle'[i] = handle[i] /\ remaining'[i] = remaining[i]
        BY <1>0, <2>2, <3>3 DEF HandleTypes
      <4> QED
        BY <1>4, <1>8, <1>13, <3>2, <4>1, SoundFalls
    <3>4. CASE m.of = i
      <4>1. m = Done(i)
        BY <1>2, <1>13, <3>4 DEF Message, Done
      <4>2. Owing(i)' + 1 <= Owing(i)
        BY <1>6, <1>7, <4>1 DEF Owing
      <4>3. /\ remaining'[i] = remaining[i] - 1 /\ remaining[i] \in Nat
            /\ handle'[i] = IF remaining[i] = 1 THEN "done" ELSE "open"
        BY <1>0, <2>2, <3>4 DEF HandleTypes
      <4>4. Tokens(i)' <= 1
        <5>1. Tokens(i) \in Nat /\ Tokens(i)' \in Nat
          BY <1>6, <1>7, <1>8 DEF Tokens
        <5> QED
          BY <3>2, <5>1 DEF Sound
      <4>5. Fresh(i)' > 0 => Owing(i)' = 0
        BY <1>7, <1>8, <4>2 DEF Sound, Fresh
      <4>6. Owing(i)' <= Size(i)'
        BY <1>8, SizeRange DEF Sound, Size
      <4>7. future'[i] = i => /\ handle'[i] = "open" => Owing(i)' <= remaining'[i]
                              /\ handle'[i] = "done" => Owing(i)' = 0
        BY <1>8, <1>13, <2>2, <3>4, <4>2, <4>3 DEF Sound
      <4>8. \E r \in Request : future'[r] = i /\ call'[r] = "returned"
        BY <1>4, <1>13, <2>2, <3>4 DEF Sound
      <4> QED
        BY <1>13, <4>4, <4>5, <4>6, <4>7, <4>8 DEF Sound
    <3> QED
      BY <3>3, <3>4
  <2> QED
    BY <1>13, <2>1, <2>2 DEF Report
<1> QED
  BY <1>4, <1>10, <1>11, <1>12, <1>13 DEF Dispatch

-----------------------------------------------------------------------------
LEMMA ReaderFailsSound ==
  ASSUME TypeInv, TypeInv', NEW b \in Socket, ReaderFails(b), NEW i \in Request, Sound(i)
  PROVE  Sound(i)'
<1>1. UNCHANGED <<call, future, handle, remaining, up, down, job>>
  BY DEF ReaderFails, requestVars, handleVars, wireVars
<1>2. Sent(i)' = Sent(i) /\ Sent(i) \in Nat
  BY <1>1, Numbers DEF Sent
<1> QED
  BY <1>1, <1>2, SoundStays

LEMMA SetReadyCalls ==
  ASSUME CallTypes, SetReady, NEW r \in Request
  PROVE  /\ call'[r] \in Early => call[r] \in Early
         /\ call[r] = "returned" => call'[r] = "returned"
  BY DEF CallTypes, SetReady, Early

LEMMA ReconnectSound ==
  ASSUME TypeInv, TypeInv', NEW b \in Socket, Reconnecting(b), NEW i \in Request, Sound(i)
  PROVE  Sound(i)'
<1>0. CallTypes /\ HandleTypes
  BY DEF TypeInv
<1>1. UNCHANGED <<up, down, job>>
  BY DEF Reconnecting, ReconnectStarts, Reopens, Restores, OpeningFails, RestoringFails, wireVars
<1>2. Sent(i)' = Sent(i) /\ Sent(i) \in Nat
  BY <1>1, Numbers DEF Sent
<1>3. CASE ReconnectStarts(b)
  <2>1. call' = call /\ FailAllPending
    BY <1>3 DEF ReconnectStarts
  <2>2. \A r \in Request : future'[r] = i <=> future[r] = i
    BY <1>0, <2>1, OutcomeIsNoRequest DEF FailAllPending, CallTypes
  <2>3. \/ handle'[i] = handle[i] /\ remaining'[i] = remaining[i]
        \/ handle'[i] = "lost" /\ handle[i] = "open"
    BY <1>0, <2>1 DEF FailAllPending, HandleTypes
  <2> QED
    BY <1>1, <1>2, <2>1, <2>2, <2>3, SoundStays
<1>4. CASE Reopens(b) \/ Restores(b) \/ OpeningFails(b) \/ RestoringFails(b)
  <2>1. UNCHANGED <<future, handle, remaining>> /\ (call' = call \/ SetReady)
    BY <1>4 DEF Reopens, Restores, OpeningFails, RestoringFails, AttemptFails, ReconnectEnds, handleVars
  <2>2. \A r \in Request : /\ call'[r] \in Early => call[r] \in Early
                           /\ call[r] = "returned" => call'[r] = "returned"
    BY <1>0, <2>1, SetReadyCalls
  <2> QED
    BY <1>1, <1>2, <2>1, <2>2, SoundStays
<1> QED
  BY <1>3, <1>4 DEF Reconnecting

LEMMA DisconnectSound ==
  ASSUME TypeInv, TypeInv', Disconnect, NEW i \in Request, Sound(i)
  PROVE  Sound(i)'
<1>0. CallTypes /\ up \in [Socket -> Seq(Request)] /\ up' \in [Socket -> Seq(Request)]
  BY DEF TypeInv, WireTypes
<1>1. /\ UNCHANGED <<future, handle, remaining, down, job>> /\ (call' = call \/ SetReady)
      /\ up' = [s \in Socket |-> IF s = ws THEN <<>> ELSE up[s]]
  BY DEF Disconnect, SendersReleased, handleVars
<1>2. \A t \in Socket : \A n \in 1..Len(up'[t]) : n \in 1..Len(up[t]) /\ up'[t][n] = up[t][n]
  BY <1>1
<1>3. Count(up', i) <= Count(up, i)
  BY <1>0, <1>2, CountFalls
<1>4. Sent(i)' <= Sent(i)
  BY <1>3 DEF Sent
<1>5. \A r \in Request : /\ call'[r] \in Early => call[r] \in Early
                         /\ call[r] = "returned" => call'[r] = "returned"
  BY <1>0, <1>1, SetReadyCalls
<1> QED
  BY <1>1, <1>4, <1>5, SoundStays

LEMMA ServeSound ==
  ASSUME TypeInv, TypeInv', NEW s \in Socket, Serve(s), NEW i \in Request, Sound(i)
  PROVE  Sound(i)'
<1> DEFINE r == Head(up[s])
<1>0. up \in [Socket -> Seq(Request)] /\ down \in [Socket -> Seq(Message)]
      /\ up[s] # <<>> /\ job \in [Request -> 0..2]
  BY DEF TypeInv, WireTypes, Serve
<1>1. PICK a \in Answer :
        /\ down' = [down EXCEPT ![s] = Append(@, [type |-> a, of |-> r])]
        /\ job' = IF a = "ack" THEN [job EXCEPT ![r] = Size(r)] ELSE job
  BY DEF Serve
<1>2. r \in Request /\ up' = [up EXCEPT ![s] = Tail(up[s])]
      /\ UNCHANGED <<call, future, handle, remaining>>
  BY <1>0, HeadOf DEF Serve, requestVars, handleVars
<1>3. Count(up', i) + (IF r = i THEN 1 ELSE 0) <= Count(up, i)
  BY <1>0, <1>2, CountTail
<1> DEFINE m == [type |-> a, of |-> r]
<1> HIDE DEF r
<1>4. m \in Message /\ down' = [down EXCEPT ![s] = Append(down[s], m)]
  BY <1>1, <1>2 DEF Message
<1>5. \A x : Count(down', x) <= Count(down, x) + (IF m = x THEN 1 ELSE 0)
  BY <1>0, <1>4, CountAppend
<1>6. /\ r # i => m # Ack(i) /\ m # Refusal(i)
      /\ m # Done(i) /\ ~(m = Ack(i) /\ m = Refusal(i))
      /\ m = Ack(i) => a = "ack"
  BY DEF Ack, Refusal, Done, Answer
<1> HIDE DEF m
<1>7. /\ Count(down', Ack(i)) <= Count(down, Ack(i)) + (IF m = Ack(i) THEN 1 ELSE 0)
      /\ Count(down', Refusal(i)) <= Count(down, Refusal(i)) + (IF m = Refusal(i) THEN 1 ELSE 0)
      /\ Count(down', Done(i)) <= Count(down, Done(i)) + (IF m = Done(i) THEN 1 ELSE 0)
  BY <1>5
<1>8. /\ Count(down', Ack(i)) \in Nat /\ Count(down', Refusal(i)) \in Nat /\ Count(down', Done(i)) \in Nat
      /\ Count(up', i) \in Nat
  <2>1. down' \in [Socket -> Seq(Message)] /\ up' \in [Socket -> Seq(Request)]
    BY DEF TypeInv, WireTypes
  <2> QED
    BY <2>1, SpotsAreFinite
<1>9. /\ Unsent(i)' = Unsent(i) /\ Held(i)' = Held(i)
      /\ Sent(i)' = Count(up', i) /\ Sent(i) = Count(up, i)
      /\ Answers(i)' = Count(down', Ack(i)) + Count(down', Refusal(i))
      /\ Answers(i) = Count(down, Ack(i)) + Count(down, Refusal(i))
      /\ Owing(i)' = job'[i] + Count(down', Done(i)) /\ Owing(i) = job[i] + Count(down, Done(i))
  BY <1>2 DEF Unsent, Held, Sent, Answers, Owing, Ack, Refusal, Done
<1>10. /\ Unsent(i) \in Nat /\ Sent(i) \in Nat /\ Held(i) \in Nat
       /\ Count(down, Ack(i)) \in Nat /\ Count(down, Refusal(i)) \in Nat
       /\ Count(down, Done(i)) \in Nat /\ job[i] \in Nat /\ Size(i) \in Nat /\ job'[i] \in Nat
  BY Numbers, NumbersNext
<1>11. Sent(i)' + (IF r = i THEN 1 ELSE 0) <= Sent(i) /\ Sent(i)' \in Nat
  BY <1>3, <1>8, <1>9
<1>12. Answers(i)' <= Answers(i) + (IF r = i THEN 1 ELSE 0) /\ Answers(i)' \in Nat /\ Answers(i) \in Nat
  BY <1>6, <1>7, <1>8, <1>9, <1>10
<1>13. Tokens(i)' <= Tokens(i) /\ Fresh(i)' <= Fresh(i)
  BY <1>9, <1>10, <1>11, <1>12 DEF Tokens, Fresh
<1>14. CASE r # i \/ a # "ack"
  <2>1. job'[i] = job[i]
    BY <1>0, <1>1, <1>2, <1>14
  <2>2. Owing(i)' <= Owing(i)
    BY <1>6, <1>7, <1>8, <1>9, <1>10, <2>1
  <2> QED
    BY <1>2, <1>13, <2>2, SoundFalls
<1>15. CASE r = i /\ a = "ack"
  <2>1. job'[i] = Size(i)
    BY <1>0, <1>1, <1>2, <1>15
  <2>2. Sent(i) = 1 /\ Held(i) = 0 /\ Unsent(i) = 0 /\ Sent(i)' = 0 /\ Owing(i) = 0
    <3>1. Sent(i) >= 1
      BY <1>10, <1>11, <1>15
    <3>2. Sent(i) = 1 /\ Held(i) = 0 /\ Unsent(i) = 0
      BY <1>10, <1>12, <3>1 DEF Sound, Tokens
    <3>3. Owing(i) = 0
      BY <1>10, <3>1 DEF Sound, Fresh
    <3> QED
      BY <1>10, <1>11, <1>15, <3>2, <3>3
  <2>3. Owing(i)' = Size(i)
    <3>1. Count(down, Done(i)) = 0
      BY <1>9, <1>10, <2>2
    <3>2. Count(down', Done(i)) = 0
      BY <1>6, <1>7, <1>8, <3>1
    <3> QED
      BY <1>9, <1>10, <2>1, <3>2
  <2>4. \A q \in Request : future[q] # i
    BY <2>2 DEF Held
  <2>5. Tokens(i)' <= 1 /\ Fresh(i)' = 0
    <3>1. Tokens(i) \in Nat /\ Tokens(i)' \in Nat
      BY <1>9, <1>10, <1>11, <1>12 DEF Tokens
    <3> QED
      BY <1>9, <1>13, <2>2, <3>1 DEF Sound, Fresh
  <2>6. handle'[i] = "none"
    BY <1>2, <2>4 DEF Sound
  <2>7. Size(i)' = Size(i)
    BY DEF Size
  <2> QED
    BY <1>2, <1>10, <2>3, <2>4, <2>5, <2>6, <2>7 DEF Sound
<1> QED
  BY <1>14, <1>15

LEMMA ConcludeSound ==
  ASSUME TypeInv, TypeInv', NEW j \in Request, Conclude(j), NEW i \in Request, Sound(i)
  PROVE  Sound(i)'
<1>0. /\ down \in [Socket -> Seq(Message)] /\ down' \in [Socket -> Seq(Message)]
      /\ job \in [Request -> 0..2] /\ opened \in Socket
  BY DEF TypeInv, WireTypes, SocketTypes
<1>1. /\ UNCHANGED <<call, future, handle, remaining, up>>
      /\ job[j] > 0 /\ job' = [job EXCEPT ![j] = @ - 1]
      /\ \/ down' = [down EXCEPT ![opened] = Append(@, Done(j))]
         \/ down' = down
  BY DEF Conclude, requestVars, handleVars, Done
<1>2. Done(j) \in Message
  BY DEF Message, Done
<1>3. \A x : Count(down, x) \in Nat
  BY <1>0, SpotsAreFinite
<1>4. \A x : Count(down', x) <= Count(down, x) + (IF Done(j) = x THEN 1 ELSE 0)
  <2>1. CASE down' = [down EXCEPT ![opened] = Append(@, Done(j))]
    <3>1. down' = [down EXCEPT ![opened] = Append(down[opened], Done(j))]
      BY <2>1
    <3> QED
      BY <1>0, <1>2, <3>1, CountAppend
  <2>2. CASE down' = down
    BY <1>3, <2>2
  <2> QED
    BY <1>1, <2>1, <2>2
<1>5. /\ Done(j) # Ack(i) /\ Done(j) # Refusal(i) /\ (Done(j) = Done(i) => i = j)
  BY DEF Done, Ack, Refusal
<1>6. /\ Count(down', Ack(i)) <= Count(down, Ack(i))
      /\ Count(down', Refusal(i)) <= Count(down, Refusal(i))
      /\ Count(down', Done(i)) <= Count(down, Done(i)) + (IF i = j THEN 1 ELSE 0)
      /\ Count(down', Ack(i)) \in Nat /\ Count(down', Refusal(i)) \in Nat /\ Count(down', Done(i)) \in Nat
      /\ Count(down, Ack(i)) \in Nat /\ Count(down, Refusal(i)) \in Nat /\ Count(down, Done(i)) \in Nat
  <2>1. Count(down', Ack(i)) \in Nat /\ Count(down', Refusal(i)) \in Nat /\ Count(down', Done(i)) \in Nat
    BY <1>0, SpotsAreFinite
  <2>2. /\ Count(down', Ack(i)) <= Count(down, Ack(i)) + (IF Done(j) = Ack(i) THEN 1 ELSE 0)
        /\ Count(down', Refusal(i)) <= Count(down, Refusal(i)) + (IF Done(j) = Refusal(i) THEN 1 ELSE 0)
        /\ Count(down', Done(i)) <= Count(down, Done(i)) + (IF Done(j) = Done(i) THEN 1 ELSE 0)
    BY <1>4
  <2> QED
    BY <1>3, <1>5, <2>1, <2>2
<1>7. /\ Unsent(i)' = Unsent(i) /\ Held(i)' = Held(i) /\ Sent(i)' = Sent(i)
      /\ Answers(i)' = Count(down', Ack(i)) + Count(down', Refusal(i))
      /\ Answers(i) = Count(down, Ack(i)) + Count(down, Refusal(i))
      /\ Owing(i)' = job'[i] + Count(down', Done(i)) /\ Owing(i) = job[i] + Count(down, Done(i))
  BY <1>1 DEF Unsent, Held, Sent, Answers, Owing, Ack, Refusal, Done
<1>8. /\ Unsent(i) \in Nat /\ Sent(i) \in Nat /\ Held(i) \in Nat
      /\ job[i] \in Nat /\ job'[i] = (IF i = j THEN job[i] - 1 ELSE job[i]) /\ job'[i] \in Nat
  BY <1>0, <1>1, Numbers, NumbersNext
<1>9. Tokens(i)' <= Tokens(i) /\ Fresh(i)' <= Fresh(i)
  BY <1>6, <1>7, <1>8 DEF Tokens, Fresh
<1>10. Owing(i)' <= Owing(i)
  BY <1>6, <1>7, <1>8
<1> QED
  BY <1>1, <1>9, <1>10, SoundFalls

LEMMA LoseSound ==
  ASSUME TypeInv, TypeInv', NEW s \in Socket, Lose(s), NEW i \in Request, Sound(i)
  PROVE  Sound(i)'
<1>0. /\ down \in [Socket -> Seq(Message)] /\ down' \in [Socket -> Seq(Message)]
      /\ up \in [Socket -> Seq(Request)] /\ up' \in [Socket -> Seq(Request)]
  BY DEF TypeInv, WireTypes
<1>1. /\ UNCHANGED <<call, future, handle, remaining, job>>
      /\ up' = [up EXCEPT ![s] = <<>>]
  BY DEF Lose, requestVars, handleVars
<1>2. PICK n \in 0..Len(down[s]) : down' = [down EXCEPT ![s] = SubSeq(down[s], 1, n)]
  BY DEF Lose
<1>3. \A t \in Socket : \A k \in 1..Len(up'[t]) : k \in 1..Len(up[t]) /\ up'[t][k] = up[t][k]
  BY <1>0, <1>1
<1>4. \A t \in Socket : \A k \in 1..Len(down'[t]) : k \in 1..Len(down[t]) /\ down'[t][k] = down[t][k]
  <2>1. /\ Len(SubSeq(down[s], 1, n)) = n /\ Len(down[s]) \in Nat
        /\ \A k \in 1..n : SubSeq(down[s], 1, n)[k] = down[s][k]
    BY <1>0, SubSeqProperties
  <2>2. \A k \in 1..Len(down'[s]) : k \in 1..Len(down[s]) /\ down'[s][k] = down[s][k]
    BY <1>0, <1>2, <2>1
  <2>3. \A t \in Socket : t # s => down'[t] = down[t]
    BY <1>0, <1>2
  <2> QED
    BY <2>2, <2>3
<1>5. Count(up', i) <= Count(up, i) /\ \A x : Count(down', x) <= Count(down, x)
  BY <1>0, <1>3, <1>4, CountFalls
<1>6. /\ Unsent(i)' = Unsent(i) /\ Held(i)' = Held(i)
      /\ Sent(i)' = Count(up', i) /\ Sent(i) = Count(up, i)
      /\ Answers(i)' = Count(down', Ack(i)) + Count(down', Refusal(i))
      /\ Answers(i) = Count(down, Ack(i)) + Count(down, Refusal(i))
      /\ Owing(i)' = job[i] + Count(down', Done(i)) /\ Owing(i) = job[i] + Count(down, Done(i))
  BY <1>1 DEF Unsent, Held, Sent, Answers, Owing, Ack, Refusal, Done
<1>7. /\ Unsent(i) \in Nat /\ Held(i) \in Nat /\ job[i] \in Nat
      /\ Count(up, i) \in Nat /\ Count(up', i) \in Nat
  BY <1>0, Numbers, SpotsAreFinite
<1>8. /\ Count(down, Ack(i)) \in Nat /\ Count(down, Refusal(i)) \in Nat /\ Count(down, Done(i)) \in Nat
      /\ Count(down', Ack(i)) \in Nat /\ Count(down', Refusal(i)) \in Nat /\ Count(down', Done(i)) \in Nat
  BY <1>0, SpotsAreFinite
<1>9. /\ Count(down', Ack(i)) <= Count(down, Ack(i))
      /\ Count(down', Refusal(i)) <= Count(down, Refusal(i))
      /\ Count(down', Done(i)) <= Count(down, Done(i))
  BY <1>5
<1>10. Sent(i)' <= Sent(i) /\ Answers(i)' <= Answers(i) /\ Owing(i)' <= Owing(i)
  BY <1>5, <1>6, <1>7, <1>8, <1>9
<1>11. Tokens(i)' <= Tokens(i) /\ Fresh(i)' <= Fresh(i)
  <2>1. Sent(i) \in Nat /\ Sent(i)' \in Nat
    BY <1>6, <1>7
  <2>2. Answers(i) \in Nat
    BY <1>6, <1>8
  <2>3. Answers(i)' \in Nat
    BY <1>6, <1>8
  <2> QED
    BY <1>6, <1>7, <1>10, <2>1, <2>2, <2>3 DEF Tokens, Fresh
<1> QED
  BY <1>1, <1>10, <1>11, SoundFalls

LEMMA SoundStep ==
  ASSUME TypeInv, TypeInv', [ClientNext]_clientVars, NEW i \in Request, Sound(i)
  PROVE  Sound(i)'
<1>1. ASSUME UNCHANGED clientVars
      PROVE  Sound(i)'
  <2>1. UNCHANGED <<call, future, handle, remaining, up, down, job>>
    BY <1>1 DEF clientVars, requestVars, handleVars, wireVars
  <2>2. Sent(i)' = Sent(i) /\ Sent(i) \in Nat
    BY <2>1, Numbers DEF Sent
  <2> QED
    BY <2>1, <2>2, SoundStays
<1>2. ASSUME NEW r \in Request, Issue(r) \/ Caller(r)
      PROVE  Sound(i)'
  BY <1>2, CallerSound
<1>3. ASSUME NEW b \in Socket, Reader(b) \/ Reconnecting(b)
      PROVE  Sound(i)'
  BY <1>3, ReadSound, ReaderFailsSound, ReconnectSound DEF Reader
<1>4. ASSUME Disconnect
      PROVE  Sound(i)'
  BY <1>4, DisconnectSound
<1>5. ASSUME Network
      PROVE  Sound(i)'
  BY <1>5, ServeSound, LoseSound, ConcludeSound DEF Network
<1> QED
  BY <1>1, <1>2, <1>3, <1>4, <1>5 DEF ClientNext

(* The handle of a call that was given the id of its own request does not  *)
(* fire while a device owes its report or a report is under way: over all  *)
(* sockets, reconnects and errors, and for any server.                     *)
THEOREM NoHandleFiresEarly == ClientSpec => []DoneMeansDone
<1> DEFINE I == TypeInv /\ \A i \in Request : Sound(i)
<1>1. ClientInit => I
  BY InitTypes, InitSound
<1>2. I /\ [ClientNext]_clientVars => I'
  <2> SUFFICES ASSUME I, [ClientNext]_clientVars
               PROVE  I'
    OBVIOUS
  <2>1. TypeInv'
    BY TypeStep
  <2>2. \A i \in Request : Sound(i)'
    BY <2>1, SoundStep
  <2> QED
    BY <2>1, <2>2
<1>3. I => DoneMeansDone
  <2> SUFFICES ASSUME I, NEW i \in Request, future[i] = i, handle[i] = "done"
               PROVE  /\ job[i] = 0
                      /\ \A s \in Socket : \A n \in DOMAIN down[s] : down[s][n] # Done(i)
    BY DEF DoneMeansDone, Done
  <2>1. down \in [Socket -> Seq(Message)]
    BY DEF TypeInv, WireTypes
  <2>2. Owing(i) = 0
    BY DEF Sound
  <2>3. job[i] = 0 /\ Count(down, Done(i)) = 0
    BY <2>2, Numbers DEF Owing
  <2>4. \A s \in Socket : \A n \in 1..Len(down[s]) : down[s][n] # Done(i)
    BY <2>1, <2>3, CountOfNone
  <2>5. \A s \in Socket : DOMAIN down[s] = 1..Len(down[s])
    BY <2>1
  <2> QED
    BY <2>3, <2>4, <2>5
<1> QED
  BY <1>1, <1>2, <1>3, PTL DEF ClientSpec
=============================================================================
