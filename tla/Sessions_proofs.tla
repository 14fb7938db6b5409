--------------------------- MODULE Sessions_proofs ---------------------------
(***************************************************************************)
(* The connections of one user keep his locks and his reports, for any     *)
(* number of sockets, devices and commands. The first half follows the     *)
(* locks, and needs nothing of the commands; the second the reports.       *)
(***************************************************************************)
EXTENDS Sessions, SequenceTheorems, FiniteSetTheorems, TLAPS

Place == {"absent", "closing", "reading", "answering", "over"}
Report == [of : Command, device : Device]
Item == Report \cup {Answer}

SocketTypes ==
  /\ handler \in [Socket -> Place]
  /\ closes \in [Socket -> Socket \cup {None}]
  /\ app \in [Socket -> BOOLEAN]
  /\ link \in [Socket -> BOOLEAN]
  /\ outbox \in [Socket -> Seq(Item)]
  /\ sessions \in Socket \cup {None}
  /\ owner \in [Device -> {User, None}]
  /\ mine \in [Socket -> SUBSET Device]

(* The socket that a new connection closes is no longer connected for      *)
(* Starlette.                                                              *)
Closing ==
  \A s \in Socket :
    IF handler[s] = "closing" THEN closes[s] \in Socket /\ ~app[closes[s]]
                              ELSE closes[s] = None

(* A connection that was replaced and lives on has a send that holds it up *)
(* and ends when that send does, unless it was overwritten.                *)
Replaced ==
  \A s \in Socket \ orphaned :
    handler[s] \in Running /\ sessions # s => handler[s] = "answering" /\ ~app[s]

(* The entry is a connection that runs.                                    *)
Registered == sessions # None => handler[sessions] \in Running

(* Nothing is acquired before the registration.                            *)
Fresh == \A s \in Socket : handler[s] \in {"absent", "closing"} => mine[s] = {}

(* Without an entry the user holds no lock.                                *)
NoUserNoLock == orphaned = {} /\ sessions = None => \A d \in Device : owner[d] = None

(* A handler that sends an answer waits for it, and there is one of them.  *)
Answers ==
  \A s \in Socket : \A i \in 1..Len(outbox[s]) :
    outbox[s][i] = Answer =>
      /\ handler[s] = "answering"
      /\ \A j \in 1..Len(outbox[s]) : outbox[s][j] = Answer => i = j

LockInv ==
  /\ SocketTypes
  /\ Closing
  /\ Replaced
  /\ Registered
  /\ Fresh
  /\ NoUserNoLock
  /\ ActiveKeepsItsLocks

LEMMA AnswerIsNoReport == Answer \notin Report
  BY SessionsAssumption DEF Answer, Report

LEMMA NoneIsNoSocket == None \notin Socket /\ None # User
  BY SessionsAssumption

LEMMA InitLocks == SessionsInit => LockInv
  BY NoneIsNoSocket DEF SessionsInit, LockInv, SocketTypes, Closing, Replaced, Registered, Fresh,
     NoUserNoLock, ActiveKeepsItsLocks, Access!OwnerInit, Place, Running, Open

LEMMA InitAnswers == SessionsInit => Answers
  BY DEF SessionsInit, Answers

-----------------------------------------------------------------------------
(* How a connection begins.                                                *)

(* No connection takes a peer back, or is connected again.                 *)
Falls ==
  /\ app' \in [Socket -> BOOLEAN]
  /\ link' \in [Socket -> BOOLEAN]
  /\ \A s \in Socket : (app'[s] => app[s]) /\ (link'[s] => link[s])

LEMMA RegisterKeeps ==
  ASSUME LockInv, NEW s \in Socket, handler[s] \in {"absent", "closing"}, Register(s),
         closes' = [closes EXCEPT ![s] = None], UNCHANGED <<app, link, outbox, owner, mine>>,
         sessions = None \/ sessions # closes[s]
           \/ (handler[sessions] # "reading" /\ ~app[sessions])
  PROVE  LockInv'
<1>1. SocketTypes'
  BY DEF LockInv, SocketTypes, Register, Place
<1>2. Closing'
  BY DEF LockInv, SocketTypes, Register, Closing
<1>3. Replaced'
  <2> SUFFICES ASSUME NEW t \in Socket, t \notin orphaned', handler'[t] \in Running, sessions' # t
               PROVE  handler'[t] = "answering" /\ ~app'[t]
    BY DEF Replaced
  <2>1. t # s /\ handler'[t] = handler[t] /\ t \notin orphaned
    BY DEF LockInv, SocketTypes, Register
  <2>2. CASE sessions = t
    BY <2>1, <2>2, NoneIsNoSocket DEF Register, Running
  <2>3. CASE sessions # t
    BY <2>1, <2>3 DEF LockInv, Replaced
  <2> QED
    BY <2>2, <2>3
<1>4. Registered'
  BY DEF LockInv, SocketTypes, Register, Registered, Running
<1>5. Fresh'
  BY DEF LockInv, SocketTypes, Register, Fresh
<1>6. NoUserNoLock'
  BY NoneIsNoSocket DEF Register, NoUserNoLock
<1>7. ActiveKeepsItsLocks'
  BY DEF LockInv, SocketTypes, Register, ActiveKeepsItsLocks, Fresh, Open, Running
<1> QED
  BY <1>1, <1>2, <1>3, <1>4, <1>5, <1>6, <1>7 DEF LockInv

LEMMA RefusalKeeps ==
  ASSUME LockInv, NEW s \in Socket, handler[s] \in {"absent", "closing"},
         handler' = [handler EXCEPT ![s] = "over"], closes' = [closes EXCEPT ![s] = None],
         UNCHANGED <<app, link, outbox, sessions, owner, mine, orphaned>>
  PROVE  LockInv'
<1>1. SocketTypes' /\ Closing'
  BY DEF LockInv, SocketTypes, Closing, Place
<1>2. Replaced' /\ Fresh' /\ NoUserNoLock'
  BY DEF LockInv, SocketTypes, Replaced, Fresh, NoUserNoLock, Running
<1>3. Registered'
  BY DEF LockInv, SocketTypes, Registered, Running
<1>4. ActiveKeepsItsLocks'
  BY DEF LockInv, SocketTypes, ActiveKeepsItsLocks, Running, Open
<1> QED
  BY <1>1, <1>2, <1>3, <1>4 DEF LockInv

LEMMA ConnectKeeps ==
  ASSUME LockInv, NEW s \in Socket, Connect(s)
  PROVE  LockInv'
<1>1. handler[s] = "absent" /\ closes[s] = None /\ closes = [closes EXCEPT ![s] = None]
  BY DEF LockInv, SocketTypes, Closing, Connect
<1>2. CASE sessions = None /\ Register(s) /\ UNCHANGED <<closes, app>>
  <2>1. UNCHANGED <<app, link, outbox, owner, mine>>
    BY <1>2 DEF Connect
  <2>2. closes' = [closes EXCEPT ![s] = None]
    BY <1>1, <1>2
  <2> QED
    BY <1>1, <1>2, <2>1, <2>2, RegisterKeeps
<1>3. CASE /\ sessions # None /\ app[sessions]
           /\ handler' = [handler EXCEPT ![s] = "closing"]
           /\ closes' = [closes EXCEPT ![s] = sessions]
           /\ app' = [app EXCEPT ![sessions] = FALSE]
           /\ UNCHANGED <<sessions, orphaned>>
  <2>1. UNCHANGED <<link, outbox, owner, mine>>
    BY DEF Connect
  <2>2. SocketTypes'
    BY <1>3, <2>1 DEF LockInv, SocketTypes, Place
  <2>3. Closing'
    BY <1>1, <1>3, <2>1 DEF LockInv, SocketTypes, Closing
  <2>4. Replaced'
    BY <1>1, <1>3, <2>1 DEF LockInv, SocketTypes, Replaced, Running
  <2>5. Registered'
    BY <1>1, <1>3, <2>1 DEF LockInv, SocketTypes, Registered, Running
  <2>6. Fresh' /\ NoUserNoLock'
    BY <1>1, <1>3, <2>1 DEF LockInv, SocketTypes, Fresh, NoUserNoLock
  <2>7. ActiveKeepsItsLocks'
    BY <1>1, <1>3, <2>1 DEF LockInv, SocketTypes, ActiveKeepsItsLocks, Running, Open
  <2> QED
    BY <2>2, <2>3, <2>4, <2>5, <2>6, <2>7 DEF LockInv
<1>4. CASE /\ handler' = [handler EXCEPT ![s] = "over"]
           /\ UNCHANGED <<closes, app, sessions, orphaned>>
  BY <1>1, <1>4, RefusalKeeps DEF Connect
<1> QED
  BY <1>2, <1>3, <1>4 DEF Connect

LEMMA ReplacesKeeps ==
  ASSUME LockInv, NEW s \in Socket, Replaces(s) \/ CloseFails(s)
  PROVE  LockInv'
<1>1. handler[s] = "closing" /\ ~app[closes[s]]
  BY DEF LockInv, Closing, Replaces, CloseFails
<1>2. CASE Replaces(s)
  <2>1. Register(s) /\ closes' = [closes EXCEPT ![s] = None]
    BY <1>2 DEF Replaces
  <2>2. UNCHANGED <<app, link, outbox, owner, mine>>
    BY <1>2 DEF Replaces
  <2>3. handler[s] \in {"absent", "closing"} /\ handler[closes[s]] # "reading"
    BY <1>2 DEF Replaces
  <2>4. sessions = closes[s] => handler[sessions] # "reading" /\ ~app[sessions]
    BY <1>1, <2>3, Zenon
  <2> QED
    BY <2>1, <2>2, <2>3, <2>4, RegisterKeeps, Zenon
<1>3. CASE CloseFails(s)
  BY <1>1, <1>3, RefusalKeeps DEF CloseFails
<1> QED
  BY <1>2, <1>3

-----------------------------------------------------------------------------
(* What the endpoint of a registered connection does.                      *)

(* Of the locks, what a handler leaves to its end: what is his because a   *)
(* connection acquired it stays his, and only one that reads takes more.   *)
Holds(s, held) ==
  /\ held \in [Device -> {User, None}]
  /\ mine' \in [Socket -> SUBSET Device]
  /\ \A t \in Socket : \A d \in mine'[t] : held[d] = User \/ (d \in mine[t] /\ held[d] = owner[d])
  /\ \A t \in Socket : t # s => mine'[t] \subseteq mine[t]
  /\ handler[s] = "reading" \/ \A d \in Device : owner[d] = None => held[d] = None

(* It goes on: back to its loop only while it is connected.                *)
GoesOn(s, held) ==
  /\ handler' \in [Socket -> Place]
  /\ handler'[s] \in Running
  /\ \A t \in Socket : t # s => handler'[t] = handler[t]
  /\ handler'[s] = "reading" => handler[s] = "reading" \/ app'[s]
  /\ owner' = held
  /\ sessions' = sessions

Endpoint(s, held) ==
  /\ handler[s] \in Running
  /\ Holds(s, held)
  /\ Falls
  /\ outbox' \in [Socket -> Seq(Item)]
  /\ UNCHANGED <<closes, orphaned>>
  /\ GoesOn(s, held) \/ Leave(s, held)

LEMMA EndpointKeeps ==
  ASSUME LockInv, NEW s \in Socket, NEW held, Endpoint(s, held)
  PROVE  LockInv'
<1>1. handler[s] \in Running /\ handler[s] \in Place
  BY DEF Endpoint, LockInv, SocketTypes
<1>2. \A t \in Socket : t # s => handler'[t] = handler[t]
  BY DEF Endpoint, GoesOn, Leave, LockInv, SocketTypes
<1>3. \A t \in Socket : handler'[t] \in Running => handler[t] \in Running
  BY <1>1, <1>2
<1>4. Active(s) \/ s \in orphaned \/ (handler[s] = "answering" /\ ~app[s])
  <2>1. s \in Socket \ orphaned /\ sessions # s => handler[s] = "answering" /\ ~app[s]
    BY <1>1 DEF LockInv, Replaced
  <2> QED
    BY <2>1 DEF Active
<1>5. CASE GoesOn(s, held)
  <2>1. SocketTypes'
    BY <1>5 DEF Endpoint, GoesOn, Holds, Falls, LockInv, SocketTypes
  <2>2. Closing'
    BY <1>1, <1>2, <1>5 DEF Endpoint, GoesOn, Falls, LockInv, SocketTypes, Closing, Running
  <2>3. Replaced'
    BY <1>1, <1>2, <1>5 DEF Endpoint, GoesOn, Falls, LockInv, Replaced, Running
  <2>4. Registered'
    BY <1>2, <1>5 DEF Endpoint, GoesOn, LockInv, SocketTypes, Registered
  <2>5. Fresh'
    <3> SUFFICES ASSUME NEW t \in Socket, handler'[t] \in {"absent", "closing"}
                 PROVE  mine'[t] = {}
      BY DEF Fresh
    <3>1. t # s
      BY <1>5 DEF GoesOn, Running
    <3> QED
      BY <1>2, <3>1 DEF Endpoint, Holds, LockInv, Fresh
  <2>6. NoUserNoLock'
    <3> SUFFICES ASSUME orphaned = {}, sessions = None, NEW d \in Device
                 PROVE  held[d] = None
      BY <1>5 DEF NoUserNoLock, GoesOn, Endpoint
    <3>1. handler[s] = "answering"
      BY <1>4, NoneIsNoSocket DEF Active
    <3> QED
      BY <3>1 DEF Endpoint, Holds, LockInv, NoUserNoLock
  <2>7. ActiveKeepsItsLocks'
    BY <1>3, <1>5 DEF Endpoint, GoesOn, Falls, Holds, LockInv, ActiveKeepsItsLocks, Open
  <2> QED
    BY <2>1, <2>2, <2>3, <2>4, <2>5, <2>6, <2>7 DEF LockInv
<1>6. CASE Leave(s, held)
  <2>1. handler' = [handler EXCEPT ![s] = "over"] /\ handler'[s] = "over"
    BY <1>6 DEF Leave, LockInv, SocketTypes
  <2>2. owner' \in [Device -> {User, None}] /\ sessions' \in Socket \cup {None}
    BY <1>6 DEF Leave, Access!ReleaseAll, Access!Release, Access!Released, LockInv, SocketTypes,
       Endpoint, Holds
  <2>3. SocketTypes'
    BY <2>1, <2>2 DEF Endpoint, Holds, Falls, LockInv, SocketTypes, Place
  <2>4. Closing'
    BY <1>1, <1>2, <2>1 DEF Endpoint, Falls, LockInv, SocketTypes, Closing, Running
  <2>5. Replaced'
    BY <1>2, <1>6, <2>1 DEF Leave, Active, Endpoint, Falls, LockInv, Replaced, Running
  <2>6. Registered'
    BY <1>2, <1>6 DEF Leave, Active, LockInv, SocketTypes, Registered
  <2>7. Fresh'
    BY <1>2, <2>1 DEF Endpoint, Holds, LockInv, Fresh
  <2>8. NoUserNoLock'
    <3>1. CASE Active(s)
      BY <1>6, <3>1 DEF Leave, Active, Access!ReleaseAll, Access!Release, Access!Released, LockInv, SocketTypes, NoUserNoLock, Endpoint
    <3>2. CASE ~Active(s)
      <4> SUFFICES ASSUME orphaned = {}, sessions = None, NEW d \in Device
                   PROVE  held[d] = None
        BY <1>6, <3>2 DEF NoUserNoLock, Leave, Endpoint
      <4>1. handler[s] = "answering"
        BY <1>4, <3>2
      <4> QED
        BY <4>1 DEF Endpoint, Holds, LockInv, NoUserNoLock
    <3> QED
      BY <3>1, <3>2
  <2>9. ActiveKeepsItsLocks'
    <3> SUFFICES ASSUME NEW t \in Socket, t \notin orphaned, Open(t)', handler'[t] \in Running,
                        NEW d \in mine'[t]
                 PROVE  owner'[d] = User
      BY DEF ActiveKeepsItsLocks, Endpoint
    <3>1. t # s /\ handler[t] \in Running /\ Open(t)
      BY <1>3, <2>1 DEF Running, Endpoint, Falls, Open
    <3>2. sessions = t
      BY <3>1 DEF LockInv, Replaced, Open
    <3>3. owner' = held
      BY <1>6, <3>1, <3>2 DEF Leave, Active
    <3> QED
      BY <3>1, <3>3 DEF Endpoint, Holds, LockInv, ActiveKeepsItsLocks
  <2> QED
    BY <2>3, <2>4, <2>5, <2>6, <2>7, <2>8, <2>9 DEF LockInv
<1> QED
  BY <1>5, <1>6 DEF Endpoint

-----------------------------------------------------------------------------
(* What the handlers answer.                                               *)

LEMMA AppendItem ==
  ASSUME SocketTypes, NEW s \in Socket, NEW m \in Item,
         outbox' = [outbox EXCEPT ![s] = Append(@, m)]
  PROVE  /\ outbox' \in [Socket -> Seq(Item)]
         /\ \A t \in Socket : t # s => outbox'[t] = outbox[t]
         /\ Len(outbox'[s]) = Len(outbox[s]) + 1
         /\ \A i \in 1..Len(outbox[s]) : outbox'[s][i] = outbox[s][i]
         /\ outbox'[s][Len(outbox[s]) + 1] = m
<1>1. outbox \in [Socket -> Seq(Item)]
  BY DEF SocketTypes
<1>2. outbox'[s] = Append(outbox[s], m) /\ \A t \in Socket : t # s => outbox'[t] = outbox[t]
  BY <1>1
<1>3. outbox[s] \in Seq(Item)
  BY <1>1
<1>4. /\ outbox'[s] \in Seq(Item) /\ Len(outbox'[s]) = Len(outbox[s]) + 1
      /\ \A i \in 1..Len(outbox[s]) : outbox'[s][i] = outbox[s][i]
      /\ outbox'[s][Len(outbox[s]) + 1] = m
  BY <1>2, <1>3, AppendProperties
<1>5. outbox' \in [Socket -> Seq(Item)]
  BY <1>1, <1>2, <1>4
<1> QED
  BY <1>2, <1>4, <1>5

LEMMA DropItem ==
  ASSUME SocketTypes, NEW s \in Socket, outbox[s] # <<>>,
         outbox' = [outbox EXCEPT ![s] = Tail(@)]
  PROVE  /\ outbox' \in [Socket -> Seq(Item)]
         /\ \A t \in Socket : t # s => outbox'[t] = outbox[t]
         /\ Len(outbox[s]) = Len(outbox'[s]) + 1 /\ Len(outbox'[s]) \in Nat
         /\ \A i \in 1..Len(outbox'[s]) : outbox'[s][i] = outbox[s][i + 1]
         /\ Head(outbox[s]) = outbox[s][1] /\ Head(outbox[s]) \in Item
<1>1. outbox \in [Socket -> Seq(Item)]
  BY DEF SocketTypes
<1>2. outbox'[s] = Tail(outbox[s]) /\ \A t \in Socket : t # s => outbox'[t] = outbox[t]
  BY <1>1
<1>3. outbox[s] \in Seq(Item)
  BY <1>1
<1>4. /\ outbox'[s] \in Seq(Item) /\ Len(outbox'[s]) = Len(outbox[s]) - 1
      /\ \A i \in 1..Len(outbox'[s]) : outbox'[s][i] = outbox[s][i + 1]
      /\ Head(outbox[s]) \in Item
  <2> DEFINE q == outbox[s]
  <2>1. q \in Seq(Item) /\ q # <<>> /\ outbox'[s] = Tail(q)
    BY <1>2, <1>3
  <2>2. /\ Tail(q) \in Seq(Item) /\ Len(Tail(q)) = Len(q) - 1
        /\ \A i \in 1..Len(Tail(q)) : Tail(q)[i] = q[i + 1]
        /\ Head(q) \in Item
    <3> HIDE DEF q
    <3> QED
      BY <2>1, HeadTailProperties
  <2> QED
    BY <2>1, <2>2
<1>5. Len(outbox[s]) \in Nat /\ Len(outbox'[s]) \in Nat
  BY <1>3, <1>4
<1>6. outbox' \in [Socket -> Seq(Item)]
  BY <1>1, <1>2, <1>4
<1>7. Len(outbox[s]) = Len(outbox'[s]) + 1
  BY <1>4, <1>5
<1>8. Head(outbox[s]) = outbox[s][1]
  BY <1>3
<1> QED
  BY <1>2, <1>4, <1>5, <1>6, <1>7, <1>8

LEMMA ReplyIsEndpoint ==
  ASSUME LockInv, NEW s \in Socket, NEW held, handler[s] = "reading", Holds(s, held),
         Reply(s, held), link' = link, closes' = closes, orphaned' = orphaned
  PROVE  Endpoint(s, held)
<1>1. SocketTypes
  BY DEF LockInv
<1>2. handler[s] \in Running /\ Falls
  BY <1>1 DEF Running, Falls, Reply, SocketTypes
<1>3. outbox' \in [Socket -> Seq(Item)]
  <2>1. Answer \in Item
    BY DEF Item
  <2> QED
    BY <1>1, <2>1, AppendItem DEF Reply, SocketTypes
<1>4. GoesOn(s, held) \/ Leave(s, held)
  <2>1. CASE handler' = [handler EXCEPT ![s] = "reading"] /\ owner' = held /\ sessions' = sessions
    BY <1>1, <2>1 DEF GoesOn, SocketTypes, Place, Running
  <2>2. CASE handler' = [handler EXCEPT ![s] = "answering"] /\ owner' = held /\ sessions' = sessions
    BY <1>1, <2>2 DEF GoesOn, SocketTypes, Place, Running
  <2> QED
    BY <2>1, <2>2 DEF Reply, LeaveByError
<1> QED
  BY <1>2, <1>3, <1>4 DEF Endpoint

LEMMA HoldsSame ==
  ASSUME LockInv, NEW s \in Socket, mine' = mine
  PROVE  Holds(s, owner)
  BY DEF Holds, LockInv, SocketTypes

LEMMA HandlerIsEndpoint ==
  ASSUME LockInv, NEW s \in Socket, Handle(s)
  PROVE  \E held : Endpoint(s, held)
<1>1. ASSUME NEW c \in Command, NEW ds \in SUBSET Device, HandleSubmit(s, c, ds)
      PROVE  Endpoint(s, owner)
  BY <1>1, HoldsSame, ReplyIsEndpoint DEF HandleSubmit
<1>2. ASSUME NEW d \in Device, HandleAcquire(s, d)
      PROVE  Endpoint(s, Access!Acquired({d}, User))
  <2>1. Holds(s, Access!Acquired({d}, User))
    BY <1>2 DEF HandleAcquire, Holds, Access!Acquired, Access!Acquirable, LockInv, SocketTypes
  <2> QED
    BY <1>2, <2>1, ReplyIsEndpoint DEF HandleAcquire
<1>3. ASSUME NEW d \in Device, HandleRelease(s, d)
      PROVE  Endpoint(s, Access!Released({d}, User))
  <2> DEFINE held == Access!Released({d}, User)
  <2>1. Holds(s, held)
    BY <1>3 DEF HandleRelease, Holds, Access!Released, LockInv, SocketTypes
  <2>2. handler[s] \in Running /\ Falls /\ outbox' \in [Socket -> Seq(Item)]
    BY <1>3 DEF HandleRelease, Running, Falls, LockInv, SocketTypes
  <2>3. GoesOn(s, held) \/ Leave(s, held)
    BY <1>3 DEF HandleRelease, GoesOn, LeaveByError, Access!Release, LockInv, SocketTypes, Running
  <2>4. UNCHANGED <<closes, orphaned>>
    BY <1>3 DEF HandleRelease
  <2> QED
    BY <2>1, <2>2, <2>3, <2>4 DEF Endpoint
<1>4. ASSUME HandleOther(s)
      PROVE  Endpoint(s, owner)
  BY <1>4, HoldsSame, ReplyIsEndpoint DEF HandleOther
<1> QED
  BY <1>1, <1>2, <1>3, <1>4 DEF Handle

-----------------------------------------------------------------------------
(* What the tasks behind the endpoints do.                                 *)

LEMMA SendFalls ==
  ASSUME LockInv, NEW s \in Socket, SendEnds(s)
  PROVE  Falls /\ outbox' \in [Socket -> Seq(Item)]
<1>1. outbox' \in [Socket -> Seq(Item)]
  BY DropItem DEF SendEnds, LockInv
<1>2. Falls
  BY DEF SendEnds, LockInv, SocketTypes, Falls
<1> QED
  BY <1>1, <1>2

LEMMA AnswerEndsIsEndpoint ==
  ASSUME LockInv, Answers, NEW s \in Socket, SendEnds(s), Head(outbox[s]) = Answer
  PROVE  Endpoint(s, owner)
<1>1. handler[s] = "answering"
  <2>1. outbox[s] # <<>> /\ outbox[s] \in Seq(Item)
    BY DEF SendEnds, LockInv, SocketTypes
  <2>2. 1 \in 1..Len(outbox[s]) /\ outbox[s][1] = Answer
    BY <2>1
  <2> QED
    BY <2>2 DEF Answers
<1>2. Holds(s, owner)
  BY HoldsSame DEF SendEnds
<1>3. GoesOn(s, owner) \/ Leave(s, owner)
  <2>1. CASE ~app'[s] /\ LeaveByError(s, owner)
    BY <2>1 DEF LeaveByError
  <2>2. CASE /\ app'[s] /\ handler' = [handler EXCEPT ![s] = "reading"]
             /\ UNCHANGED <<sessions, owner>>
    BY <2>2 DEF GoesOn, LockInv, SocketTypes, Place, Running
  <2> QED
    BY <2>1, <2>2 DEF SendEnds
<1> QED
  BY <1>1, <1>2, <1>3, SendFalls DEF Endpoint, Running, SendEnds

LEMMA QuietKeeps ==
  ASSUME LockInv, UNCHANGED <<handler, closes, sessions, owner, mine, orphaned>>, Falls,
         outbox' \in [Socket -> Seq(Item)]
  PROVE  LockInv'
<1>1. SocketTypes' /\ Closing' /\ Replaced' /\ Registered' /\ Fresh' /\ NoUserNoLock'
  BY DEF LockInv, SocketTypes, Closing, Replaced, Registered, Fresh, NoUserNoLock, Falls
<1>2. ActiveKeepsItsLocks'
  BY DEF LockInv, ActiveKeepsItsLocks, Falls, Open
<1> QED
  BY <1>1, <1>2 DEF LockInv

(* A report that is sent changes nothing that the locks depend on.         *)
LEMMA NotifyIsQuiet ==
  ASSUME LockInv, NEW c \in Command, NEW d \in Device, Notify(c, d)
  PROVE  /\ UNCHANGED <<handler, closes, sessions, owner, mine, orphaned>>
         /\ Falls
         /\ outbox' \in [Socket -> Seq(Item)]
<1>1. UNCHANGED <<handler, closes, sessions, owner, mine, orphaned>> /\ link' = link
  BY DEF Notify
<1>2. Falls
  BY <1>1 DEF Notify, LockInv, SocketTypes, Falls
<1>3. CASE outbox' = outbox
  BY <1>1, <1>2, <1>3 DEF LockInv, SocketTypes
<1>4. CASE /\ sessions # None
           /\ outbox' = [outbox EXCEPT ![sessions] = Append(@, [of |-> c, device |-> d])]
  <2>1. sessions \in Socket /\ [of |-> c, device |-> d] \in Item /\ SocketTypes
    BY <1>4 DEF LockInv, SocketTypes, Item, Report
  <2> QED
    BY <1>1, <1>2, <1>4, <2>1, AppendItem
<1> QED
  BY <1>1, <1>2, <1>3, <1>4 DEF Notify

LEMMA LockStep ==
  ASSUME LockInv, Answers, [SessionsNext]_sessionVars
  PROVE  LockInv'
<1>1. ASSUME NEW s \in Socket, Connect(s) \/ Replaces(s) \/ CloseFails(s)
      PROVE  LockInv'
  BY <1>1, ConnectKeeps, ReplacesKeeps
<1>2. ASSUME NEW s \in Socket, Disconnected(s)
      PROVE  LockInv'
  <2>1. Endpoint(s, owner)
    BY <1>2, HoldsSame DEF Disconnected, Endpoint, Running, Falls, LockInv, SocketTypes
  <2> QED
    BY <2>1, EndpointKeeps
<1>3. ASSUME NEW s \in Socket, Handle(s)
      PROVE  LockInv'
  BY <1>3, HandlerIsEndpoint, EndpointKeeps
<1>4. ASSUME NEW s \in Socket, SendEnds(s)
      PROVE  LockInv'
  <2>1. CASE Head(outbox[s]) = Answer
    BY <1>4, <2>1, AnswerEndsIsEndpoint, EndpointKeeps
  <2>2. CASE Head(outbox[s]) # Answer
    <3>1. UNCHANGED <<handler, closes, sessions, owner, mine, orphaned>>
      BY <1>4, <2>2 DEF SendEnds
    <3> QED
      BY <1>4, <3>1, SendFalls, QuietKeeps
  <2> QED
    BY <2>1, <2>2
<1>5. ASSUME NEW s \in Socket, PeerGoes(s)
      PROVE  LockInv'
  BY <1>5, QuietKeeps DEF PeerGoes, Falls, LockInv, SocketTypes
<1>6. ASSUME NEW c \in Command, NEW d \in Device, Settle(c, d)
      PROVE  LockInv'
  BY <1>6, QuietKeeps DEF Settle, socketVars, Falls, LockInv, SocketTypes
<1>7. ASSUME NEW c \in Command, NEW d \in Device, Notify(c, d)
      PROVE  LockInv'
  BY <1>7, NotifyIsQuiet, QuietKeeps
<1>8. ASSUME UNCHANGED sessionVars
      PROVE  LockInv'
  BY <1>8, QuietKeeps DEF sessionVars, socketVars, Falls, LockInv, SocketTypes
<1> QED
  BY <1>1, <1>2, <1>3, <1>4, <1>5, <1>6, <1>7, <1>8 DEF SessionsNext

-----------------------------------------------------------------------------
(* One answer for each handler that waits.                                 *)

LEMMA AnswersStay ==
  ASSUME Answers, outbox' = outbox,
         \A s \in Socket : handler[s] = "answering" => handler'[s] = "answering"
  PROVE  Answers'
  BY DEF Answers

LEMMA ReplyAnswers ==
  ASSUME SocketTypes, Answers, NEW s \in Socket, NEW held, handler[s] = "reading", Reply(s, held)
  PROVE  Answers'
<1>1. \A t \in Socket : handler[t] = "answering" => handler'[t] = "answering"
  BY DEF Reply, LeaveByError, Leave, SocketTypes
<1>2. CASE outbox' = outbox
  BY <1>1, <1>2, AnswersStay
<1>3. CASE /\ handler' = [handler EXCEPT ![s] = "answering"]
           /\ outbox' = [outbox EXCEPT ![s] = Append(@, Answer)]
  <2> DEFINE n == Len(outbox[s])
  <2>1. /\ n \in Nat /\ Len(outbox'[s]) = n + 1
        /\ \A i \in 1..n : outbox'[s][i] = outbox[s][i]
        /\ \A t \in Socket : t # s => outbox'[t] = outbox[t]
    BY <1>3, AppendItem DEF Item, SocketTypes
  <2>2. \A i \in 1..n : outbox[s][i] # Answer
    BY DEF Answers
  <2>3. handler'[s] = "answering"
    BY <1>3 DEF SocketTypes
  <2> HIDE DEF n
  <2>4. \A i \in 1..(n + 1) : i \in 1..n \/ i = n + 1
    BY <2>1
  <2>5. \A i \in 1..(n + 1) : outbox'[s][i] = Answer => i = n + 1
    BY <2>1, <2>2, <2>4
  <2>6. \A i \in 1..Len(outbox'[s]) : outbox'[s][i] = Answer =>
          handler'[s] = "answering" /\ \A j \in 1..Len(outbox'[s]) : outbox'[s][j] = Answer => i = j
    BY <2>1, <2>3, <2>5
  <2> QED
    BY <1>1, <2>1, <2>6 DEF Answers
<1> QED
  BY <1>2, <1>3 DEF Reply

LEMMA SendAnswers ==
  ASSUME SocketTypes, Answers, NEW s \in Socket, SendEnds(s)
  PROVE  Answers'
<1> DEFINE n == Len(outbox'[s])
<1>1. /\ n \in Nat /\ Len(outbox[s]) = n + 1
      /\ \A i \in 1..n : outbox'[s][i] = outbox[s][i + 1]
      /\ \A t \in Socket : t # s => outbox'[t] = outbox[t]
      /\ Head(outbox[s]) = outbox[s][1]
  BY DropItem DEF SendEnds
<1>2. \A t \in Socket : t # s /\ handler[t] = "answering" => handler'[t] = "answering"
  BY DEF SendEnds, LeaveByError, Leave, SocketTypes
<1>3. Head(outbox[s]) # Answer => handler'[s] = handler[s]
  BY DEF SendEnds
<1> HIDE DEF n
<1>4. \A i \in 1..n : i + 1 \in 1..(n + 1) /\ i + 1 # 1 /\ 1 \in 1..(n + 1)
  BY <1>1
<1>5. \A i, j \in 1..(n + 1) : outbox[s][i] = Answer /\ outbox[s][j] = Answer =>
        i = j /\ handler[s] = "answering"
  BY <1>1 DEF Answers
<1>6. \A i \in 1..n : outbox'[s][i] = Answer => handler'[s] = "answering"
  <2> SUFFICES ASSUME NEW i \in 1..n, outbox'[s][i] = Answer
               PROVE  handler'[s] = "answering"
    OBVIOUS
  <2>1. outbox[s][i + 1] = Answer /\ i + 1 \in 1..(n + 1) /\ 1 \in 1..(n + 1) /\ i + 1 # 1
    BY <1>1, <1>4
  <2>2. handler[s] = "answering" /\ Head(outbox[s]) # Answer
    BY <1>1, <1>5, <2>1
  <2> QED
    BY <1>3, <2>2
<1>7. \A i, j \in 1..n : outbox'[s][i] = Answer /\ outbox'[s][j] = Answer => i = j
  <2> SUFFICES ASSUME NEW i \in 1..n, NEW j \in 1..n, outbox'[s][i] = Answer,
                      outbox'[s][j] = Answer
               PROVE  i = j
    OBVIOUS
  <2>1. i + 1 = j + 1
    BY <1>1, <1>4, <1>5
  <2> QED
    BY <1>1, <2>1
<1>8. \A i \in 1..Len(outbox'[s]) : outbox'[s][i] = Answer =>
        handler'[s] = "answering" /\ \A j \in 1..Len(outbox'[s]) : outbox'[s][j] = Answer => i = j
  BY <1>6, <1>7 DEF n
<1> QED
  BY <1>1, <1>2, <1>8 DEF Answers

LEMMA NotifyAnswers ==
  ASSUME LockInv, Answers, NEW c \in Command, NEW d \in Device, Notify(c, d)
  PROVE  Answers'
<1>1. SocketTypes /\ handler' = handler
  BY DEF Notify, LockInv
<1>2. CASE outbox' = outbox
  BY <1>1, <1>2, AnswersStay
<1>3. CASE /\ sessions # None
           /\ outbox' = [outbox EXCEPT ![sessions] = Append(@, [of |-> c, device |-> d])]
  <2> DEFINE s == sessions
             n == Len(outbox[s])
             m == [of |-> c, device |-> d]
  <2>1. s \in Socket /\ m \in Report /\ m \in Item /\ m # Answer
    BY <1>1, <1>3, AnswerIsNoReport DEF SocketTypes, Item, Report
  <2>2. /\ n \in Nat /\ Len(outbox'[s]) = n + 1
        /\ \A i \in 1..n : outbox'[s][i] = outbox[s][i]
        /\ outbox'[s][n + 1] = m
        /\ \A t \in Socket : t # s => outbox'[t] = outbox[t]
    BY <1>1, <1>3, <2>1, AppendItem DEF SocketTypes
  <2> HIDE DEF n, s, m
  <2>3. \A i \in 1..(n + 1) : i \in 1..n \/ i = n + 1
    BY <2>2
  <2>4. \A i \in 1..Len(outbox'[s]) : outbox'[s][i] = Answer => i \in 1..n
    BY <2>1, <2>2, <2>3
  <2>5. \A i \in 1..Len(outbox'[s]) : outbox'[s][i] = Answer =>
          handler'[s] = "answering" /\ \A j \in 1..Len(outbox'[s]) : outbox'[s][j] = Answer => i = j
    BY <1>1, <2>1, <2>2, <2>4 DEF Answers, n
  <2> QED
    BY <1>1, <2>2, <2>5 DEF Answers
<1> QED
  BY <1>2, <1>3 DEF Notify

LEMMA AnswersStep ==
  ASSUME LockInv, Answers, [SessionsNext]_sessionVars
  PROVE  Answers'
<1>0. SocketTypes
  BY DEF LockInv
<1>1. ASSUME NEW s \in Socket,
             \/ Connect(s) \/ Replaces(s) \/ CloseFails(s) \/ Disconnected(s) \/ PeerGoes(s)
      PROVE  Answers'
  <2>1. outbox' = outbox
    BY <1>1 DEF Connect, Replaces, CloseFails, Disconnected, PeerGoes
  <2>2. \A t \in Socket : handler[t] = "answering" => handler'[t] = "answering"
    BY <1>0, <1>1 DEF Connect, Replaces, CloseFails, Disconnected, PeerGoes, Register, Leave,
       SocketTypes
  <2> QED
    BY <2>1, <2>2, AnswersStay
<1>2. ASSUME NEW s \in Socket, Handle(s)
      PROVE  Answers'
  <2>1. ASSUME NEW held, handler[s] = "reading", Reply(s, held)
        PROVE  Answers'
    BY <1>0, <2>1, ReplyAnswers
  <2>2. ASSUME NEW d \in Device, HandleRelease(s, d)
        PROVE  Answers'
    <3>1. outbox' = outbox /\ \A t \in Socket : handler[t] = "answering" => handler'[t] = "answering"
      BY <1>0, <2>2 DEF HandleRelease, LeaveByError, Leave, SocketTypes
    <3> QED
      BY <3>1, AnswersStay
  <2>3. ASSUME NEW c \in Command, NEW ds \in SUBSET Device, HandleSubmit(s, c, ds)
        PROVE  Answers'
    BY <2>1, <2>3 DEF HandleSubmit
  <2>4. ASSUME NEW d \in Device, HandleAcquire(s, d)
        PROVE  Answers'
    BY <2>1, <2>4 DEF HandleAcquire
  <2>5. ASSUME HandleOther(s)
        PROVE  Answers'
    BY <2>1, <2>5 DEF HandleOther
  <2> QED
    BY <1>2, <2>2, <2>3, <2>4, <2>5 DEF Handle
<1>3. ASSUME NEW s \in Socket, SendEnds(s)
      PROVE  Answers'
  BY <1>0, <1>3, SendAnswers
<1>4. ASSUME NEW c \in Command, NEW d \in Device, Notify(c, d)
      PROVE  Answers'
  BY <1>4, NotifyAnswers
<1>5. ASSUME \/ \E c \in Command, d \in Device : Settle(c, d)
             \/ UNCHANGED sessionVars
      PROVE  Answers'
  <2>1. handler' = handler /\ outbox' = outbox
    BY <1>5 DEF Settle, sessionVars, socketVars
  <2> QED
    BY <2>1, AnswersStay
<1> QED
  BY <1>1, <1>2, <1>3, <1>4, <1>5 DEF SessionsNext

LEMMA SafeLocks == SessionsSpec => [](LockInv /\ Answers)
<1>1. SessionsInit => LockInv /\ Answers
  BY InitLocks, InitAnswers
<1>2. LockInv /\ Answers /\ [SessionsNext]_sessionVars => LockInv' /\ Answers'
  BY LockStep, AnswersStep
<1> QED
  BY <1>1, <1>2, PTL DEF SessionsSpec

(* What a working connection acquired, and nobody released since, stays    *)
(* its user's, however older connections of his end around it: the         *)
(* compare-before-delete of ConnectionManager.disconnect. An overwritten   *)
(* connection is the exception.                                            *)
THEOREM WorkingConnectionsKeepTheirLocks == SessionsSpec => []ActiveKeepsItsLocks
<1>1. LockInv /\ Answers => ActiveKeepsItsLocks
  BY DEF LockInv
<1> QED
  BY <1>1, SafeLocks, PTL

(* When no connection of the user is left, neither is a lock of his,       *)
(* whichever way the last one ended: every way out of the endpoint passes  *)
(* through its finally clause. Overwritten connections are the exception.  *)
THEOREM NoLockOutlivesItsUser == SessionsSpec => []LocksHaveUsers
<1>1. LockInv /\ Answers => LocksHaveUsers
  BY DEF LockInv, LocksHaveUsers, Registered, NoUserNoLock, SocketTypes
<1> QED
  BY <1>1, SafeLocks, PTL

-----------------------------------------------------------------------------
(* The reports.                                                            *)

Begun == Running \cup {"over"}
Working(s) == s \in Socket \ orphaned /\ Open(s) /\ handler[s] \in Running
Owed(c) == {d \in target[c] : notice[c][d] # "done"}
Stage == {"none", "spawned", "sending", "done"}

TrackTypes ==
  /\ pending \in [Command -> Nat]
  /\ target \in [Command -> SUBSET Device]
  /\ notice \in [Command -> [Device -> Stage]]
  /\ by \in [Command -> Socket \cup {None}]
  /\ told \in [Command -> SUBSET Device]

(* A command that no connection sent is not tracked, only its devices      *)
(* report on one, and it came through a connection that had begun.         *)
Sensible ==
  \A c \in Command :
    /\ by[c] = None => target[c] = {} /\ c \notin tracked
    /\ by[c] # None => handler[by[c]] \in Begun
    /\ \A d \in Device : notice[c][d] # "none" => d \in target[c]

(* A report in an outbox is being sent, through the connection of its      *)
(* command if that one works, and is in one outbox, once.                  *)
Sent ==
  \A s \in Socket : \A i \in 1..Len(outbox[s]) :
    outbox[s][i] # Answer => notice[outbox[s][i].of][outbox[s][i].device] = "sending"

Routed ==
  \A s \in Socket : \A i \in 1..Len(outbox[s]) :
    outbox[s][i] # Answer /\ Working(by[outbox[s][i].of]) => by[outbox[s][i].of] = s

Once ==
  \A s, t \in Socket : \A i \in 1..Len(outbox[s]) : \A j \in 1..Len(outbox[t]) :
    outbox[s][i] # Answer /\ outbox[s][i] = outbox[t][j] => s = t /\ i = j

OutboxInv == Sent /\ Routed /\ Once

ReportInv ==
  /\ TrackTypes
  /\ Sensible
  /\ OutboxInv
  /\ TrackingIsExact
  /\ NoReportIsLost

LEMMA InitReports == SessionsInit => ReportInv
<1> SUFFICES ASSUME SessionsInit
             PROVE  ReportInv
  OBVIOUS
<1>1. TrackTypes /\ Sensible
  BY DEF SessionsInit, TrackTypes, Sensible, Stage
<1>2. OutboxInv
  BY DEF SessionsInit, OutboxInv, Sent, Routed, Once
<1>3. TrackingIsExact
  BY FS_EmptySet DEF SessionsInit, TrackingIsExact
<1>4. NoReportIsLost
  BY DEF SessionsInit, NoReportIsLost
<1> QED
  BY <1>1, <1>2, <1>3, <1>4 DEF ReportInv

LEMMA ExactForm ==
  TrackingIsExact <=>
    \A c \in Command :
      /\ pending[c] = Cardinality(Owed(c))
      /\ by[c] # None /\ target[c] # {} => (c \in tracked <=> Owed(c) # {})
  BY Zenon DEF TrackingIsExact, Owed

LEMMA LostForm ==
  NoReportIsLost <=>
    \A c \in Command : Working(by[c]) =>
      \A d \in target[c] : notice[c][d] = "done" => d \in told[c]
  BY DEF NoReportIsLost, Working

LEMMA ReportOfItem ==
  ASSUME SocketTypes, NEW s \in Socket, NEW i \in 1..Len(outbox[s]), outbox[s][i] # Answer
  PROVE  /\ outbox[s][i].of \in Command /\ outbox[s][i].device \in Device
         /\ outbox[s][i] = [of |-> outbox[s][i].of, device |-> outbox[s][i].device]
<1>1. outbox[s] \in Seq(Item)
  BY DEF SocketTypes
<1>2. outbox[s][i] \in Report
  BY <1>1 DEF Item
<1> QED
  BY <1>2 DEF Report

(* A connection that works is the entry of the user.                       *)
LEMMA WorkingIsRegistered ==
  ASSUME LockInv, NEW s, Working(s)
  PROVE  sessions = s
  BY DEF LockInv, Replaced, Working, Open

-----------------------------------------------------------------------------
(* Every step: no connection that had begun works again.                   *)
Ages ==
  \A s \in Socket : handler[s] \in Begun =>
    handler'[s] \in Begun /\ (Working(s)' => Working(s))

LEMMA EndpointAges ==
  ASSUME LockInv, NEW s \in Socket, NEW held, Endpoint(s, held)
  PROVE  Ages
<1>1. \A t \in Socket : t # s => handler'[t] = handler[t]
  BY DEF Endpoint, GoesOn, Leave, LockInv, SocketTypes
<1>2. handler[s] \in Running /\ handler'[s] \in Begun /\ orphaned' = orphaned
  BY DEF Endpoint, GoesOn, Leave, LockInv, SocketTypes, Begun
<1>3. \A t \in Socket : Open(t)' => Open(t)
  BY DEF Endpoint, Falls, Open
<1> QED
  BY <1>1, <1>2, <1>3 DEF Ages, Working

LEMMA QuietAges ==
  ASSUME handler' = handler, orphaned' = orphaned, Falls
  PROVE  Ages
  BY DEF Ages, Working, Falls, Open

LEMMA OpeningAges ==
  ASSUME LockInv, NEW s \in Socket, Connect(s) \/ Replaces(s) \/ CloseFails(s)
  PROVE  Ages
<1>1. handler[s] \notin Begun
  BY DEF Connect, Replaces, CloseFails, Begun, Running
<1>2. \A t \in Socket : t # s => handler'[t] = handler[t]
  BY DEF Connect, Replaces, CloseFails, Register, LockInv, SocketTypes
<1>3. orphaned \subseteq orphaned' /\ link' = link
  BY DEF Connect, Replaces, CloseFails, Register
<1>4. \A t \in Socket : app'[t] => app[t]
  <2>1. CASE app' = app
    BY <2>1
  <2>2. CASE app' = [app EXCEPT ![sessions] = FALSE]
    BY <2>2 DEF LockInv, SocketTypes
  <2> QED
    BY <2>1, <2>2 DEF Connect, Replaces, CloseFails
<1>5. \A t \in Socket : Open(t)' => Open(t)
  BY <1>3, <1>4 DEF Open
<1> QED
  BY <1>1, <1>2, <1>3, <1>5 DEF Ages, Working

LEMMA EveryStepAges ==
  ASSUME LockInv, Answers, [SessionsNext]_sessionVars
  PROVE  Ages
<1>1. ASSUME NEW s \in Socket, Disconnected(s)
      PROVE  Ages
  <2>1. Endpoint(s, owner)
    BY <1>1, HoldsSame DEF Disconnected, Endpoint, Running, Falls, LockInv, SocketTypes
  <2> QED
    BY <2>1, EndpointAges
<1>2. ASSUME NEW s \in Socket, Handle(s)
      PROVE  Ages
  BY <1>2, HandlerIsEndpoint, EndpointAges
<1>3. ASSUME NEW s \in Socket, SendEnds(s)
      PROVE  Ages
  <2>1. CASE Head(outbox[s]) = Answer
    BY <1>3, <2>1, AnswerEndsIsEndpoint, EndpointAges
  <2>2. CASE Head(outbox[s]) # Answer
    <3>1. handler' = handler /\ orphaned' = orphaned
      BY <1>3, <2>2 DEF SendEnds
    <3> QED
      BY <1>3, <3>1, SendFalls, QuietAges
  <2> QED
    BY <2>1, <2>2
<1>4. ASSUME NEW s \in Socket, PeerGoes(s)
      PROVE  Ages
  BY <1>4, QuietAges DEF PeerGoes, Falls, LockInv, SocketTypes
<1>5. ASSUME NEW c \in Command, NEW d \in Device, Settle(c, d)
      PROVE  Ages
  BY <1>5, QuietAges DEF Settle, socketVars, Falls, LockInv, SocketTypes
<1>6. ASSUME NEW c \in Command, NEW d \in Device, Notify(c, d)
      PROVE  Ages
  BY <1>6, NotifyIsQuiet, QuietAges
<1>7. ASSUME UNCHANGED sessionVars
      PROVE  Ages
  BY <1>7, QuietAges DEF sessionVars, socketVars, Falls, LockInv, SocketTypes
<1> QED
  BY OpeningAges, <1>1, <1>2, <1>3, <1>4, <1>5, <1>6, <1>7 DEF SessionsNext

-----------------------------------------------------------------------------
(* What the steps do to the outboxes: they add an answer, or take the      *)
(* first n items of the socket s away.                                     *)
Moved(s, n, t) == IF t = s THEN n ELSE 0

Kept(s, n) ==
  \A t \in Socket : \A i \in 1..Len(outbox'[t]) :
    outbox'[t][i] # Answer =>
      /\ i + Moved(s, n, t) \in 1..Len(outbox[t])
      /\ outbox'[t][i] = outbox[t][i + Moved(s, n, t)]

LEMMA OnceKept ==
  ASSUME SocketTypes, Once, NEW s \in Socket, NEW n \in Nat, Kept(s, n), outbox' \in [Socket -> Seq(Item)]
  PROVE  Once'
<1> SUFFICES ASSUME NEW t \in Socket, NEW u \in Socket, NEW i \in 1..Len(outbox'[t]),
                    NEW j \in 1..Len(outbox'[u]), outbox'[t][i] # Answer,
                    outbox'[t][i] = outbox'[u][j]
             PROVE  t = u /\ i = j
  BY DEF Once
<1>1. PICK a \in 1..Len(outbox[t]) : a = i + Moved(s, n, t) /\ outbox'[t][i] = outbox[t][a]
  BY DEF Kept
<1>2. outbox'[u][j] # Answer
  OBVIOUS
<1>3. PICK b \in 1..Len(outbox[u]) : b = j + Moved(s, n, u) /\ outbox'[u][j] = outbox[u][b]
  BY <1>2 DEF Kept
<1>4. t = u /\ a = b
  <2>1. outbox[t][a] # Answer /\ outbox[t][a] = outbox[u][b]
    BY <1>1, <1>3
  <2> QED
    BY <2>1 DEF Once
<1>5. Moved(s, n, t) \in Nat /\ Moved(s, n, t) = Moved(s, n, u) /\ i \in Int /\ j \in Int
  BY <1>4 DEF Moved
<1>6. i = j
  BY <1>1, <1>3, <1>4, <1>5
<1> QED
  BY <1>4, <1>6

LEMMA RoutedKept ==
  ASSUME SocketTypes, TrackTypes, Sensible, Routed, NEW s \in Socket, NEW n \in Nat, Kept(s, n), Ages,
         \A c \in Command : by'[c] # by[c] => \A d \in Device : notice[c][d] = "none",
         Sent, by' \in [Command -> Socket \cup {None}]
  PROVE  Routed'
<1> SUFFICES ASSUME NEW t \in Socket, NEW i \in 1..Len(outbox'[t]), outbox'[t][i] # Answer,
                    Working(by[outbox[t][i].of])'
             PROVE  by'[outbox'[t][i].of] = t
  BY DEF Routed
<1> DEFINE a == i + Moved(s, n, t)
           m == outbox[t][a]
<1>1. a \in 1..Len(outbox[t]) /\ outbox'[t][i] = m /\ m # Answer
  BY DEF Kept
<1> HIDE DEF a
<1>2. m.of \in Command /\ m.device \in Device
  BY <1>1, ReportOfItem
<1>3. notice[m.of][m.device] = "sending"
  BY <1>1 DEF Sent
<1>4. by'[m.of] = by[m.of]
  BY <1>2, <1>3
<1> HIDE DEF m
<1>5. PICK u \in Socket : u = by[m.of]
  BY <1>1, <1>4 DEF Working
<1>6. Working(by[m.of])
  <2>1. handler[u] \in Begun
    BY <1>2, <1>5, NoneIsNoSocket DEF Sensible
  <2>2. Working(u)'
    BY <1>1, <1>4, <1>5 DEF Working, Open
  <2>3. Working(u)
    BY <2>1, <2>2 DEF Ages
  <2> QED
    BY <1>5, <2>3
<1>7. by[m.of] = t
  BY <1>1, <1>6 DEF Routed, m
<1> QED
  BY <1>1, <1>4, <1>7

LEMMA SentKept ==
  ASSUME SocketTypes, Sent, NEW s \in Socket, NEW n \in Nat, Kept(s, n),
         \A t \in Socket : \A i \in 1..Len(outbox[t]) :
           outbox[t][i] # Answer /\ (t = s => i > n) =>
             notice'[outbox[t][i].of][outbox[t][i].device]
               = notice[outbox[t][i].of][outbox[t][i].device]
  PROVE  Sent'
<1> SUFFICES ASSUME NEW t \in Socket, NEW i \in 1..Len(outbox'[t]), outbox'[t][i] # Answer
             PROVE  notice'[outbox'[t][i].of][outbox'[t][i].device] = "sending"
  BY DEF Sent
<1> DEFINE a == i + Moved(s, n, t)
<1>1. a \in 1..Len(outbox[t]) /\ outbox'[t][i] = outbox[t][a]
  BY DEF Kept
<1>2. t = s => a > n
  BY DEF Moved
<1> HIDE DEF a
<1> QED
  BY <1>1, <1>2 DEF Sent

LEMMA SameIsKept ==
  ASSUME SocketTypes, NEW s \in Socket, outbox' = outbox
  PROVE  Kept(s, 0)
  BY DEF Kept, Moved, SocketTypes

LEMMA ReplyIsKept ==
  ASSUME SocketTypes, NEW s \in Socket, NEW held, Reply(s, held)
  PROVE  Kept(s, 0)
<1>1. CASE outbox' = outbox
  BY <1>1, SameIsKept
<1>2. CASE outbox' = [outbox EXCEPT ![s] = Append(@, Answer)]
  <2>1. /\ \A t \in Socket : t # s => outbox'[t] = outbox[t]
        /\ Len(outbox'[s]) = Len(outbox[s]) + 1
        /\ \A i \in 1..Len(outbox[s]) : outbox'[s][i] = outbox[s][i]
        /\ outbox'[s][Len(outbox[s]) + 1] = Answer
    BY <1>2, AppendItem DEF Item
  <2>2. Len(outbox[s]) \in Nat
    BY DEF SocketTypes
  <2> DEFINE n == Len(outbox[s])
  <2> HIDE DEF n
  <2>3. \A i \in 1..Len(outbox'[s]) : outbox'[s][i] # Answer =>
          i \in 1..n /\ outbox'[s][i] = outbox[s][i]
    BY <2>1, <2>2 DEF n
  <2>4. \A t \in Socket : \A i \in 1..Len(outbox'[t]) : outbox'[t][i] # Answer =>
          i \in 1..Len(outbox[t]) /\ outbox'[t][i] = outbox[t][i]
    BY <2>1, <2>3 DEF n
  <2>5. \A t \in Socket : \A i \in 1..Len(outbox'[t]) : i + Moved(s, 0, t) = i
    BY DEF Moved
  <2> QED
    BY <2>4, <2>5 DEF Kept
<1> QED
  BY <1>1, <1>2 DEF Reply

LEMMA SendIsKept ==
  ASSUME SocketTypes, NEW s \in Socket, SendEnds(s)
  PROVE  Kept(s, 1)
<1>1. /\ \A t \in Socket : t # s => outbox'[t] = outbox[t]
      /\ Len(outbox[s]) = Len(outbox'[s]) + 1 /\ Len(outbox'[s]) \in Nat
      /\ \A i \in 1..Len(outbox'[s]) : outbox'[s][i] = outbox[s][i + 1]
  BY DropItem DEF SendEnds
<1>2. \A i \in 1..Len(outbox'[s]) : i + 1 \in 1..Len(outbox[s])
  BY <1>1
<1>3. \A i \in 1..Len(outbox'[s]) : i + Moved(s, 1, s) = i + 1
  BY DEF Moved
<1>4. \A t \in Socket : t # s => \A i \in 1..Len(outbox'[t]) : i + Moved(s, 1, t) = i
  BY DEF Moved
<1> QED
  BY <1>1, <1>2, <1>3, <1>4 DEF Kept

LEMMA OutboxKept ==
  ASSUME SocketTypes, TrackTypes, Sensible, OutboxInv, NEW s \in Socket, NEW n \in Nat, Kept(s, n), Ages,
         outbox' \in [Socket -> Seq(Item)],
         notice' = notice, by' \in [Command -> Socket \cup {None}],
         \A c \in Command : by'[c] # by[c] => \A d \in Device : notice[c][d] = "none"
  PROVE  OutboxInv'
<1>1. Once' /\ Routed'
  BY OnceKept, RoutedKept DEF OutboxInv
<1>2. Sent'
  BY SentKept DEF OutboxInv
<1> QED
  BY <1>1, <1>2 DEF OutboxInv

-----------------------------------------------------------------------------
(* Steps that track nothing new.                                           *)

LEMMA AgeingLosesNothing ==
  ASSUME Sensible, Ages, TrackTypes, NEW c \in Command, by'[c] = by[c], Working(by[c])'
  PROVE  Working(by[c]) /\ by[c] \in Socket
<1>1. PICK u \in Socket : u = by[c]
  BY DEF Working
<1>2. handler[u] \in Begun
  BY <1>1, NoneIsNoSocket DEF Sensible
<1>3. Working(u)'
  BY <1>1 DEF Working, Open
<1> QED
  BY <1>1, <1>2, <1>3 DEF Ages

LEMMA SensibleAges ==
  ASSUME Sensible, Ages, TrackTypes, UNCHANGED <<by, target, notice>>,
         tracked' \subseteq tracked
  PROVE  Sensible'
<1> SUFFICES ASSUME NEW c \in Command
             PROVE  /\ by[c] = None => target[c] = {} /\ c \notin tracked'
                    /\ by[c] # None => handler'[by[c]] \in Begun
                    /\ \A d \in Device : notice[c][d] # "none" => d \in target[c]
  BY DEF Sensible
<1>1. by[c] # None => by[c] \in Socket
  BY DEF TrackTypes
<1> QED
  BY <1>1 DEF Sensible, Ages

LEMMA UntouchedKeeps ==
  ASSUME SocketTypes, ReportInv, UNCHANGED trackVars, Ages, NEW s \in Socket, NEW n \in Nat, Kept(s, n),
         outbox' \in [Socket -> Seq(Item)]
  PROVE  ReportInv'
<1>1. UNCHANGED <<tracked, pending, target, notice, by, told>>
  BY DEF trackVars
<1>2. TrackTypes'
  BY <1>1 DEF ReportInv, TrackTypes
<1>3. Sensible'
  BY <1>1, SensibleAges DEF ReportInv
<1>4. OutboxInv'
  <2>1. by' \in [Command -> Socket \cup {None}]
    BY <1>2 DEF TrackTypes
  <2> QED
    BY <1>1, <2>1, OutboxKept DEF ReportInv
<1>5. TrackingIsExact'
  BY <1>1 DEF ReportInv, TrackingIsExact
<1>6. NoReportIsLost'
  <2> SUFFICES ASSUME NEW c \in Command, Working(by[c])', NEW d \in target[c], notice[c][d] = "done"
               PROVE  d \in told[c]
    BY <1>1 DEF NoReportIsLost, Working
  <2>1. Working(by[c])
    BY <1>1, AgeingLosesNothing DEF ReportInv
  <2> QED
    BY <2>1, LostForm DEF ReportInv
<1> QED
  BY <1>2, <1>3, <1>4, <1>5, <1>6 DEF ReportInv

LEMMA SubmitKeeps ==
  ASSUME LockInv, ReportInv, Ages, NEW s \in Socket, NEW c \in Command, NEW ds \in SUBSET Device,
         HandleSubmit(s, c, ds), outbox' \in [Socket -> Seq(Item)]
  PROVE  ReportInv'
<1>0. SocketTypes /\ TrackTypes /\ Sensible
  BY DEF LockInv, ReportInv
<1>1. /\ handler[s] = "reading" /\ by[c] = None
      /\ by' = [by EXCEPT ![c] = s] /\ target' = [target EXCEPT ![c] = ds]
      /\ tracked' = tracked \cup {c} /\ pending' = [pending EXCEPT ![c] = Cardinality(ds)]
      /\ notice' = notice /\ told' = told
  BY DEF HandleSubmit
<1>2. \A d \in Device : notice[c][d] = "none"
  BY <1>0, <1>1 DEF Sensible
<1>3. IsFiniteSet(ds) /\ Cardinality(ds) \in Nat
  BY SessionsAssumption, FS_Subset, FS_CardinalityType
<1>4. TrackTypes'
  BY <1>0, <1>1, <1>3 DEF TrackTypes
<1>5. Sensible'
  <2> SUFFICES ASSUME NEW b \in Command
               PROVE  /\ by'[b] = None => target'[b] = {} /\ b \notin tracked'
                      /\ by'[b] # None => handler'[by'[b]] \in Begun
                      /\ \A d \in Device : notice[b][d] # "none" => d \in target'[b]
    BY <1>1 DEF Sensible
  <2>1. CASE b = c
    <3>1. by'[c] = s /\ s # None /\ handler'[s] \in Begun
      BY <1>0, <1>1, NoneIsNoSocket DEF TrackTypes, Ages, Begun, Running
    <3> QED
      BY <1>2, <2>1, <3>1
  <2>2. CASE b # c
    <3>1. by'[b] = by[b] /\ target'[b] = target[b] /\ (b \in tracked' <=> b \in tracked)
      BY <1>0, <1>1, <2>2 DEF TrackTypes
    <3>2. by[b] # None => by[b] \in Socket
      BY <1>0 DEF TrackTypes
    <3> QED
      BY <1>0, <3>1, <3>2 DEF Sensible, Ages
  <2> QED
    BY <2>1, <2>2
<1>6. OutboxInv'
  <2>1. Kept(s, 0)
    BY <1>0, ReplyIsKept DEF HandleSubmit
  <2>2. \A b \in Command : by'[b] # by[b] => \A d \in Device : notice[b][d] = "none"
    BY <1>0, <1>1, <1>2 DEF TrackTypes
  <2>3. by' \in [Command -> Socket \cup {None}]
    BY <1>4 DEF TrackTypes
  <2> QED
    BY <1>0, <1>1, <2>1, <2>2, <2>3, OutboxKept DEF ReportInv
<1>7. TrackingIsExact'
  <2> SUFFICES ASSUME NEW b \in Command
               PROVE  /\ pending'[b] = Cardinality(Owed(b)')
                      /\ by'[b] # None /\ target'[b] # {} => (b \in tracked' <=> Owed(b)' # {})
    BY ExactForm, Zenon DEF TrackingIsExact, Owed
  <2>1. CASE b = c
    <3>1. Owed(c)' = ds /\ target'[c] = ds
      BY <1>0, <1>1, <1>2 DEF Owed, TrackTypes
    <3>2. pending'[c] = Cardinality(ds)
      BY <1>0, <1>1 DEF TrackTypes
    <3>3. c \in tracked'
      BY <1>1
    <3> QED
      BY <2>1, <3>1, <3>2, <3>3
  <2>2. CASE b # c
    <3>1. /\ Owed(b)' = Owed(b) /\ target'[b] = target[b] /\ by'[b] = by[b]
          /\ pending'[b] = pending[b] /\ (b \in tracked' <=> b \in tracked)
      BY <1>0, <1>1, <2>2 DEF Owed, TrackTypes
    <3> QED
      BY <3>1, ExactForm DEF ReportInv
  <2> QED
    BY <2>1, <2>2
<1>8. NoReportIsLost'
  <2> SUFFICES ASSUME NEW b \in Command, Working(by[b])', NEW d \in target'[b], notice[b][d] = "done"
               PROVE  d \in told[b]
    BY <1>1 DEF NoReportIsLost, Working
  <2>1. d \in Device
    BY <1>4 DEF TrackTypes
  <2>2. b # c
    BY <1>2, <2>1
  <2>3. by'[b] = by[b] /\ target'[b] = target[b]
    BY <1>0, <1>1, <2>2 DEF TrackTypes
  <2>4. Working(by[b])
    BY <1>0, <2>3, AgeingLosesNothing
  <2> QED
    BY <2>3, <2>4, LostForm DEF ReportInv
<1> QED
  BY <1>4, <1>5, <1>6, <1>7, <1>8 DEF ReportInv

-----------------------------------------------------------------------------
(* Steps that settle, send and conclude.                                   *)

LEMMA SettleKeeps ==
  ASSUME LockInv, ReportInv, Ages, NEW c \in Command, NEW d \in Device, Settle(c, d)
  PROVE  ReportInv'
<1>0. SocketTypes /\ TrackTypes /\ Sensible
  BY DEF LockInv, ReportInv
<1>1. /\ d \in target[c] /\ notice[c][d] = "none"
      /\ notice' = [notice EXCEPT ![c][d] = "spawned"]
      /\ UNCHANGED <<handler, app, link, outbox, orphaned, tracked, pending, target, by, told>>
  BY DEF Settle, socketVars
<1>2. \A b \in Command : \A e \in Device :
        notice'[b][e] = IF b = c /\ e = d THEN "spawned" ELSE notice[b][e]
  BY <1>0, <1>1 DEF TrackTypes
<1>3. TrackTypes'
  BY <1>0, <1>1 DEF TrackTypes, Stage
<1>4. Sensible'
  BY <1>0, <1>1, <1>2 DEF Sensible
<1>5. Once' /\ Routed'
  BY <1>1 DEF ReportInv, OutboxInv, Once, Routed, Working, Open
<1>6. Sent'
  <2> SUFFICES ASSUME NEW s \in Socket, NEW i \in 1..Len(outbox[s]), outbox[s][i] # Answer
               PROVE  notice'[outbox[s][i].of][outbox[s][i].device] = "sending"
    BY <1>1 DEF Sent
  <2>1. outbox[s][i].of \in Command /\ outbox[s][i].device \in Device
    BY <1>0, ReportOfItem
  <2>2. notice[outbox[s][i].of][outbox[s][i].device] = "sending"
    BY DEF ReportInv, OutboxInv, Sent
  <2> QED
    BY <1>1, <1>2, <2>1, <2>2
<1>7. TrackingIsExact'
  <2> SUFFICES ASSUME NEW b \in Command
               PROVE  /\ pending'[b] = Cardinality(Owed(b)')
                      /\ by'[b] # None /\ target'[b] # {} => (b \in tracked' <=> Owed(b)' # {})
    BY ExactForm, Zenon DEF TrackingIsExact, Owed
  <2>1. Owed(b)' = Owed(b)
    BY <1>0, <1>1, <1>2 DEF Owed, TrackTypes
  <2> QED
    BY <1>1, <2>1, ExactForm DEF ReportInv
<1>8. NoReportIsLost'
  BY <1>0, <1>1, <1>2, LostForm DEF ReportInv, NoReportIsLost, Working, Open, TrackTypes
<1> QED
  BY <1>3, <1>4, <1>5, <1>6, <1>7, <1>8 DEF ReportInv, OutboxInv

(* What one report more does to the books of its command.                  *)
LEMMA ConcludedIsExact ==
  ASSUME TrackTypes, Sensible, TrackingIsExact, Ages, NEW c \in Command, NEW d \in Device,
         d \in target[c], notice[c][d] # "done", Concluded(c, d), UNCHANGED <<target, by>>
  PROVE  /\ TrackingIsExact'
         /\ Sensible'
         /\ notice' \in [Command -> [Device -> Stage]] /\ pending' \in [Command -> Nat]
         /\ \A b \in Command : \A e \in Device :
              notice'[b][e] = IF b = c /\ e = d THEN "done" ELSE notice[b][e]
<1>1. /\ notice' = [notice EXCEPT ![c][d] = "done"]
      /\ notice' \in [Command -> [Device -> Stage]]
  BY DEF Concluded, TrackTypes, Stage
<1>2. \A b \in Command : \A e \in Device :
        notice'[b][e] = IF b = c /\ e = d THEN "done" ELSE notice[b][e]
  BY <1>1 DEF TrackTypes
<1>3. tracked' \subseteq tracked /\ \A b \in Command : b # c => (b \in tracked' <=> b \in tracked)
  BY DEF Concluded, CountDown
<1>4. \A b \in Command : b # c => Owed(b)' = Owed(b) /\ pending'[b] = pending[b]
  BY <1>2 DEF Owed, Concluded, CountDown, TrackTypes
<1>5. Owed(c)' = Owed(c) \ {d} /\ d \in Owed(c)
  BY <1>2 DEF Owed, TrackTypes
<1>6. IsFiniteSet(Owed(c)) /\ Owed(c) \subseteq Device
  BY SessionsAssumption, FS_Subset DEF Owed, TrackTypes
<1>7. /\ Cardinality(Owed(c)) \in Nat /\ Cardinality(Owed(c)') = Cardinality(Owed(c)) - 1
      /\ Cardinality(Owed(c)') \in Nat /\ (Cardinality(Owed(c)') = 0 <=> Owed(c)' = {})
  <2>1. Cardinality(Owed(c) \ {d}) = Cardinality(Owed(c)) - 1 /\ IsFiniteSet(Owed(c) \ {d})
    BY <1>5, <1>6, FS_RemoveElement
  <2>2. /\ Cardinality(Owed(c)) \in Nat /\ Cardinality(Owed(c) \ {d}) \in Nat
        /\ (Cardinality(Owed(c) \ {d}) = 0 <=> Owed(c) \ {d} = {})
    BY <1>6, <2>1, FS_CardinalityType, FS_EmptySet
  <2> QED
    BY <1>5, <2>1, <2>2
<1>8. pending[c] = Cardinality(Owed(c)) /\ (by[c] # None => c \in tracked)
  BY <1>5, ExactForm
<1>9. /\ pending'[c] = Cardinality(Owed(c)') /\ pending' \in [Command -> Nat]
      /\ by[c] # None => (c \in tracked' <=> Owed(c)' # {})
  <2>1. CASE pending[c] > 1 /\ pending' = [pending EXCEPT ![c] = @ - 1] /\ UNCHANGED tracked
    <3>1. pending'[c] = pending[c] - 1 /\ pending' \in [Command -> Nat]
      BY <2>1 DEF TrackTypes
    <3>2. Cardinality(Owed(c)') # 0
      BY <1>7, <1>8, <2>1
    <3> QED
      BY <1>7, <1>8, <2>1, <3>1, <3>2
  <2>2. CASE /\ pending[c] <= 1 /\ pending' = [pending EXCEPT ![c] = 0]
             /\ tracked' = tracked \ {c}
    <3>1. pending'[c] = 0 /\ pending' \in [Command -> Nat]
      BY <2>2 DEF TrackTypes
    <3>2. Cardinality(Owed(c)') = 0
      BY <1>7, <1>8, <2>2
    <3> QED
      BY <1>7, <2>2, <3>1, <3>2
  <2> QED
    BY <2>1, <2>2 DEF Concluded, CountDown
<1>10. TrackingIsExact'
  <2> SUFFICES ASSUME NEW b \in Command
               PROVE  /\ pending'[b] = Cardinality(Owed(b)')
                      /\ by'[b] # None /\ target'[b] # {} => (b \in tracked' <=> Owed(b)' # {})
    BY ExactForm, Zenon DEF TrackingIsExact, Owed
  <2>1. CASE b = c
    BY <1>9, <2>1
  <2>2. CASE b # c
    BY <1>3, <1>4, <2>2, ExactForm
  <2> QED
    BY <2>1, <2>2
<1>11. Sensible'
  <2> SUFFICES ASSUME NEW b \in Command
               PROVE  /\ by[b] = None => target[b] = {} /\ b \notin tracked'
                      /\ by[b] # None => handler'[by[b]] \in Begun
                      /\ \A e \in Device : notice'[b][e] # "none" => e \in target[b]
    BY DEF Sensible
  <2>1. by[b] # None => by[b] \in Socket
    BY DEF TrackTypes
  <2>2. by[b] # None => handler'[by[b]] \in Begun
    BY <2>1 DEF Sensible, Ages
  <2>3. \A e \in Device : notice'[b][e] # "none" => e \in target[b]
    BY <1>2 DEF Sensible
  <2> QED
    BY <1>3, <2>2, <2>3 DEF Sensible
<1> QED
  BY <1>1, <1>2, <1>9, <1>10, <1>11

(* The report that is concluded was heard, if its connection works.        *)
LEMMA ConcludedIsHeard ==
  ASSUME TrackTypes, Sensible, NoReportIsLost, Ages, NEW c \in Command, NEW d \in Device,
         UNCHANGED <<target, by>>,
         \A b \in Command : \A e \in Device :
           notice'[b][e] = IF b = c /\ e = d THEN "done" ELSE notice[b][e],
         \A b \in Command : told[b] \subseteq told'[b],
         Working(by[c]) => d \in told'[c]
  PROVE  NoReportIsLost'
<1> SUFFICES ASSUME NEW b \in Command, Working(by[b])', NEW e \in target[b], notice'[b][e] = "done"
             PROVE  e \in told'[b]
  BY DEF NoReportIsLost, Working
<1>1. Working(by[b])
  BY AgeingLosesNothing
<1>2. e \in Device
  BY DEF TrackTypes
<1>3. CASE b = c /\ e = d
  BY <1>1, <1>3
<1>4. CASE ~(b = c /\ e = d)
  <2>1. notice[b][e] = "done"
    BY <1>2, <1>4
  <2>2. e \in told[b]
    BY <1>1, <2>1, LostForm
  <2> QED
    BY <2>2
<1> QED
  BY <1>3, <1>4

LEMMA ConcludeKeeps ==
  ASSUME SocketTypes, ReportInv, Ages, NEW c \in Command, NEW d \in Device, d \in target[c],
         notice[c][d] # "done", Concluded(c, d), UNCHANGED <<target, by>>,
         told' \in [Command -> SUBSET Device],
         \A b \in Command : told[b] \subseteq told'[b],
         Working(by[c]) => d \in told'[c],
         NEW s \in Socket, NEW n \in Nat, Kept(s, n), outbox' \in [Socket -> Seq(Item)],
         \A t \in Socket : \A i \in 1..Len(outbox[t]) :
           outbox[t][i] # Answer /\ (t = s => i > n) => outbox[t][i] # [of |-> c, device |-> d]
  PROVE  ReportInv'
<1>1. TrackTypes /\ Sensible /\ TrackingIsExact /\ NoReportIsLost /\ OutboxInv
  BY DEF ReportInv
<1>2. /\ TrackingIsExact' /\ Sensible'
      /\ notice' \in [Command -> [Device -> Stage]] /\ pending' \in [Command -> Nat]
      /\ \A b \in Command : \A e \in Device :
           notice'[b][e] = IF b = c /\ e = d THEN "done" ELSE notice[b][e]
  BY <1>1, ConcludedIsExact
<1>3. TrackTypes'
  BY <1>1, <1>2 DEF TrackTypes
<1>4. NoReportIsLost'
  BY <1>1, <1>2, ConcludedIsHeard
<1>5. Once' /\ Routed'
  <2>1. by' \in [Command -> Socket \cup {None}]
    BY <1>3 DEF TrackTypes
  <2>2. Once' /\ Sent
    BY <1>1, OnceKept DEF OutboxInv
  <2>3. Routed'
    BY <1>1, <2>1, RoutedKept DEF OutboxInv
  <2> QED
    BY <2>2, <2>3
<1>6. Sent'
  <2>1. ASSUME NEW t \in Socket, NEW i \in 1..Len(outbox[t]), outbox[t][i] # Answer,
               t = s => i > n
        PROVE  notice'[outbox[t][i].of][outbox[t][i].device]
                 = notice[outbox[t][i].of][outbox[t][i].device]
    <3>1. /\ outbox[t][i].of \in Command /\ outbox[t][i].device \in Device
          /\ outbox[t][i] = [of |-> outbox[t][i].of, device |-> outbox[t][i].device]
      BY <2>1, ReportOfItem
    <3>2. ~(outbox[t][i].of = c /\ outbox[t][i].device = d)
      BY <2>1, <3>1
    <3> QED
      BY <1>2, <3>1, <3>2
  <2> QED
    BY <1>1, <2>1, SentKept DEF OutboxInv
<1> QED
  BY <1>2, <1>3, <1>4, <1>5, <1>6 DEF ReportInv, OutboxInv

LEMMA TellTypes ==
  ASSUME TrackTypes, NEW s, NEW c \in Command, NEW d \in Device, Tell(s, c, d)
  PROVE  /\ told' \in [Command -> SUBSET Device]
         /\ \A b \in Command : told[b] \subseteq told'[b]
         /\ s = by[c] /\ link[s] => d \in told'[c]
<1>1. told' = [told EXCEPT ![c] = @ \cup {x \in {d} : s = by[c] /\ link[s]}]
  BY DEF Tell
<1>2. told \in [Command -> SUBSET Device]
  BY DEF TrackTypes
<1>3. told'[c] = told[c] \cup {x \in {d} : s = by[c] /\ link[s]}
  BY <1>1, <1>2
<1>4. \A b \in Command : b # c => told'[b] = told[b]
  BY <1>1, <1>2
<1>5. told' \in [Command -> SUBSET Device]
  BY <1>1, <1>2, <1>3
<1>6. \A b \in Command : told[b] \subseteq told'[b]
  BY <1>3, <1>4
<1>7. s = by[c] /\ link[s] => d \in told'[c]
  BY <1>3
<1> QED
  BY <1>5, <1>6, <1>7

LEMMA SendEndsKeeps ==
  ASSUME LockInv, ReportInv, Ages, NEW s \in Socket, SendEnds(s)
  PROVE  ReportInv'
<1>0. SocketTypes /\ TrackTypes /\ Sensible /\ OutboxInv
  BY DEF LockInv, ReportInv
<1>1. Kept(s, 1) /\ outbox' \in [Socket -> Seq(Item)]
  BY <1>0, SendIsKept, SendFalls
<1>2. CASE Head(outbox[s]) = Answer
  <2>1. UNCHANGED trackVars
    BY <1>2 DEF SendEnds, trackVars
  <2> QED
    BY <1>0, <1>1, <2>1, UntouchedKeeps
<1>3. CASE Head(outbox[s]) # Answer
  <2> DEFINE c == outbox[s][1].of
             d == outbox[s][1].device
  <2>1. outbox[s] # <<>> /\ outbox[s] \in Seq(Item) /\ Head(outbox[s]) = outbox[s][1]
    BY <1>0, DropItem DEF SendEnds, SocketTypes
  <2>2. 1 \in 1..Len(outbox[s])
    BY <2>1
  <2>3. /\ c \in Command /\ d \in Device /\ outbox[s][1] = [of |-> c, device |-> d]
        /\ outbox[s][1] # Answer
    BY <1>0, <1>3, <2>1, <2>2, ReportOfItem
  <2>4. Concluded(c, d) /\ Tell(s, c, d) /\ UNCHANGED <<target, by>>
    BY <1>3, <2>1 DEF SendEnds
  <2>5. notice[c][d] = "sending"
    BY <1>0, <2>2, <2>3 DEF OutboxInv, Sent
  <2>6. Working(by[c]) => by[c] = s
    BY <1>0, <2>2, <2>3 DEF OutboxInv, Routed
  <2>7. \A t \in Socket : \A i \in 1..Len(outbox[t]) :
          outbox[t][i] # Answer /\ (t = s => i > 1) => outbox[t][i] # [of |-> c, device |-> d]
    <3> SUFFICES ASSUME NEW t \in Socket, NEW i \in 1..Len(outbox[t]), t = s => i > 1
                 PROVE  outbox[t][i] # outbox[s][1]
      BY <2>3
    <3>1. s = t => 1 # i
      OBVIOUS
    <3> QED
      BY <1>0, <2>2, <2>3, <3>1 DEF OutboxInv, Once
  <2> HIDE DEF c, d
  <2>8. d \in target[c]
    BY <1>0, <2>3, <2>5 DEF Sensible
  <2>9. Working(by[c]) => s = by[c] /\ link[s]
    BY <2>6 DEF Working, Open
  <2>10. /\ told' \in [Command -> SUBSET Device]
         /\ \A b \in Command : told[b] \subseteq told'[b]
         /\ Working(by[c]) => d \in told'[c]
    BY <1>0, <2>3, <2>4, <2>9, TellTypes
  <2>11. notice[c][d] # "done" /\ 1 \in Nat
    BY <2>5
  <2> QED
    BY <1>0, <1>1, <2>3, <2>4, <2>7, <2>8, <2>10, <2>11, ConcludeKeeps, Zenon
<1> QED
  BY <1>2, <1>3

(* The report waits in the outbox of the entry.                            *)
LEMMA QueuedKeeps ==
  ASSUME LockInv, ReportInv, Ages, NEW c \in Command, NEW d \in Device, Notify(c, d),
         sessions # None,
         outbox' = [outbox EXCEPT ![sessions] = Append(@, [of |-> c, device |-> d])],
         notice' = [notice EXCEPT ![c][d] = "sending"],
         UNCHANGED <<told, tracked, pending>>
  PROVE  ReportInv'
<1>0. SocketTypes /\ TrackTypes /\ Sensible /\ OutboxInv
  BY DEF LockInv, ReportInv
<1>1. notice[c][d] = "spawned" /\ UNCHANGED <<target, by>>
  BY DEF Notify
<1>2. \A b \in Command : \A e \in Device :
        notice'[b][e] = IF b = c /\ e = d THEN "sending" ELSE notice[b][e]
  BY <1>0 DEF TrackTypes
<1>3. TrackTypes'
  BY <1>0, <1>1 DEF TrackTypes, Stage
<1>4. Sensible'
  <2> SUFFICES ASSUME NEW b \in Command
               PROVE  /\ by[b] = None => target[b] = {} /\ b \notin tracked
                      /\ by[b] # None => handler'[by[b]] \in Begun
                      /\ \A e \in Device : notice'[b][e] # "none" => e \in target[b]
    BY <1>1 DEF Sensible
  <2>1. by[b] # None => by[b] \in Socket
    BY <1>0 DEF TrackTypes
  <2>2. by[b] # None => handler'[by[b]] \in Begun
    BY <1>0, <2>1 DEF Sensible, Ages
  <2>3. \A e \in Device : notice'[b][e] # "none" => e \in target[b]
    BY <1>0, <1>1, <1>2 DEF Sensible
  <2> QED
    BY <1>0, <2>2, <2>3 DEF Sensible
<1>5. TrackingIsExact'
  <2> SUFFICES ASSUME NEW b \in Command
               PROVE  /\ pending'[b] = Cardinality(Owed(b)')
                      /\ by'[b] # None /\ target'[b] # {} => (b \in tracked' <=> Owed(b)' # {})
    BY ExactForm, Zenon DEF TrackingIsExact, Owed
  <2>1. Owed(b)' = Owed(b)
    BY <1>0, <1>1, <1>2 DEF Owed, TrackTypes
  <2> QED
    BY <1>1, <2>1, ExactForm DEF ReportInv
<1>6. NoReportIsLost'
  <2> SUFFICES ASSUME NEW b \in Command, Working(by[b])', NEW e \in target[b],
                      notice'[b][e] = "done"
               PROVE  e \in told[b]
    BY <1>1 DEF NoReportIsLost, Working
  <2>1. Working(by[b])
    BY <1>0, <1>1, AgeingLosesNothing
  <2>2. e \in Device
    BY <1>0 DEF TrackTypes
  <2> QED
    BY <1>2, <2>1, <2>2, LostForm DEF ReportInv
<1> DEFINE s == sessions
           m == [of |-> c, device |-> d]
           n == Len(outbox[s])
<1>7. s \in Socket /\ m \in Item /\ m # Answer /\ m.of = c /\ m.device = d
  BY <1>0, AnswerIsNoReport DEF SocketTypes, Item, Report
<1>8. /\ n \in Nat /\ Len(outbox'[s]) = n + 1
      /\ \A i \in 1..n : outbox'[s][i] = outbox[s][i]
      /\ outbox'[s][n + 1] = m
      /\ \A t \in Socket : t # s => outbox'[t] = outbox[t]
  BY <1>0, <1>7, AppendItem DEF SocketTypes
<1> HIDE DEF n, s, m
(* An item is the new one, or was there before and is another.             *)
<1>9. ASSUME NEW t \in Socket, NEW i \in 1..Len(outbox'[t])
      PROVE  \/ t = s /\ i = n + 1 /\ outbox'[t][i] = m
             \/ /\ i \in 1..Len(outbox[t]) /\ outbox'[t][i] = outbox[t][i]
                /\ outbox[t][i] # m
  <2>1. CASE t = s /\ i = n + 1
    BY <1>8, <2>1
  <2>2. CASE ~(t = s /\ i = n + 1)
    <3>1. i \in 1..Len(outbox[t]) /\ outbox'[t][i] = outbox[t][i]
      <4>1. CASE t = s
        BY <1>8, <2>2, <4>1 DEF n
      <4>2. CASE t # s
        BY <1>8, <4>2
      <4> QED
        BY <4>1, <4>2
    <3>2. outbox[t][i] # m
      BY <1>0, <1>1, <1>7, <3>1 DEF OutboxInv, Sent
    <3> QED
      BY <3>1, <3>2
  <2> QED
    BY <2>1, <2>2
<1>10. Once'
  <2> SUFFICES ASSUME NEW t \in Socket, NEW u \in Socket, NEW i \in 1..Len(outbox'[t]),
                      NEW j \in 1..Len(outbox'[u]), outbox'[t][i] # Answer,
                      outbox'[t][i] = outbox'[u][j]
               PROVE  t = u /\ i = j
    BY DEF Once
  <2>1. CASE t = s /\ i = n + 1 /\ outbox'[t][i] = m
    <3>1. outbox'[u][j] = m
      BY <2>1
    <3>2. u = s /\ j = n + 1
      BY <1>9, <3>1
    <3> QED
      BY <2>1, <3>2
  <2>2. CASE /\ i \in 1..Len(outbox[t]) /\ outbox'[t][i] = outbox[t][i]
             /\ outbox[t][i] # m
    <3>1. outbox'[u][j] # m
      BY <2>2
    <3>2. j \in 1..Len(outbox[u]) /\ outbox'[u][j] = outbox[u][j]
      BY <1>9, <3>1
    <3>3. outbox[t][i] # Answer /\ outbox[t][i] = outbox[u][j]
      BY <2>2, <3>2
    <3> QED
      BY <1>0, <2>2, <3>2, <3>3 DEF OutboxInv, Once
  <2> QED
    BY <1>9, <2>1, <2>2
<1>11. Sent'
  <2> SUFFICES ASSUME NEW t \in Socket, NEW i \in 1..Len(outbox'[t]), outbox'[t][i] # Answer
               PROVE  notice'[outbox'[t][i].of][outbox'[t][i].device] = "sending"
    BY DEF Sent
  <2>1. CASE outbox'[t][i] = m
    BY <1>2, <1>7, <2>1
  <2>2. CASE i \in 1..Len(outbox[t]) /\ outbox'[t][i] = outbox[t][i]
    <3>1. outbox[t][i].of \in Command /\ outbox[t][i].device \in Device
      BY <1>0, <2>2, ReportOfItem
    <3>2. notice[outbox[t][i].of][outbox[t][i].device] = "sending"
      BY <1>0, <2>2 DEF OutboxInv, Sent
    <3> QED
      BY <1>2, <2>2, <3>1, <3>2
  <2> QED
    BY <1>9, <2>1, <2>2
<1>12. Routed'
  <2> SUFFICES ASSUME NEW t \in Socket, NEW i \in 1..Len(outbox'[t]), outbox'[t][i] # Answer,
                      Working(by[outbox[t][i].of])'
               PROVE  by'[outbox'[t][i].of] = t
    BY DEF Routed
  <2>1. CASE t = s /\ outbox'[t][i] = m
    <3>1. Working(by[c])'
      BY <1>7, <2>1 DEF Working, Open
    <3>2. Working(by[c])
      BY <1>0, <1>1, <3>1, AgeingLosesNothing
    <3>3. by[c] = s
      BY <3>2, WorkingIsRegistered DEF s
    <3> QED
      BY <1>1, <1>7, <2>1, <3>3
  <2>2. CASE i \in 1..Len(outbox[t]) /\ outbox'[t][i] = outbox[t][i]
    <3>1. PICK b \in Command : b = outbox[t][i].of
      BY <1>0, <2>2, ReportOfItem
    <3>2. Working(by[b])'
      BY <2>2, <3>1 DEF Working, Open
    <3>3. Working(by[b])
      BY <1>0, <1>1, <3>2, AgeingLosesNothing
    <3> QED
      BY <1>0, <1>1, <2>2, <3>1, <3>3 DEF OutboxInv, Routed
  <2> QED
    BY <1>9, <2>1, <2>2
<1> QED
  BY <1>3, <1>4, <1>5, <1>6, <1>10, <1>11, <1>12 DEF ReportInv, OutboxInv

LEMMA NotifyKeeps ==
  ASSUME LockInv, ReportInv, Ages, NEW c \in Command, NEW d \in Device, Notify(c, d)
  PROVE  ReportInv'
<1>0. SocketTypes /\ TrackTypes /\ Sensible /\ OutboxInv
  BY DEF LockInv, ReportInv
<1>1. notice[c][d] = "spawned" /\ d \in target[c] /\ UNCHANGED <<target, by>>
  BY <1>0 DEF Notify, Sensible
<1>2. by[c] # None => c \in tracked
  <2>1. d \in Owed(c)
    BY <1>1 DEF Owed
  <2> QED
    BY <1>1, <2>1, ExactForm DEF ReportInv
<1>3. Working(by[c]) => sessions = by[c] /\ sessions # None /\ c \in tracked /\ Open(sessions)
  <2> SUFFICES ASSUME Working(by[c])
               PROVE  sessions = by[c] /\ sessions # None /\ c \in tracked /\ Open(sessions)
    OBVIOUS
  <2>1. by[c] \in Socket /\ by[c] # None /\ Open(by[c])
    BY NoneIsNoSocket DEF Working
  <2>2. sessions = by[c]
    BY WorkingIsRegistered
  <2> QED
    BY <1>2, <2>1, <2>2
<1>4. CASE /\ Concluded(c, d) /\ outbox' = outbox
           /\ \/ told' = told /\ (sessions = None \/ c \notin tracked \/ ~Open(sessions))
              \/ Tell(sessions, c, d)
  <2>1. PICK s \in Socket : by[c] = s
    BY <1>0, <1>1, NoneIsNoSocket DEF Sensible, TrackTypes
  <2>2. Kept(s, 0) /\ outbox' \in [Socket -> Seq(Item)]
    BY <1>0, <1>4, SameIsKept DEF SocketTypes
  <2>3. Concluded(c, d) /\ notice[c][d] # "done" /\ 0 \in Nat
    BY <1>1, <1>4
  <2>4. \A t \in Socket : \A i \in 1..Len(outbox[t]) :
          outbox[t][i] # Answer /\ (t = s => i > 0) => outbox[t][i] # [of |-> c, device |-> d]
    BY <1>0, <1>1 DEF OutboxInv, Sent
  <2>5. /\ told' \in [Command -> SUBSET Device]
        /\ \A b \in Command : told[b] \subseteq told'[b]
        /\ Working(by[c]) => d \in told'[c]
    <3>1. CASE told' = told /\ (sessions = None \/ c \notin tracked \/ ~Open(sessions))
      BY <1>0, <1>3, <3>1 DEF TrackTypes
    <3>2. CASE Tell(sessions, c, d)
      <4>1. Working(by[c]) => sessions = by[c] /\ link[sessions]
        BY <1>3 DEF Open
      <4> QED
        BY <1>0, <3>2, <4>1, TellTypes
    <3> QED
      BY <1>4, <3>1, <3>2
  <2> QED
    BY <1>0, <1>1, <2>2, <2>3, <2>4, <2>5, ConcludeKeeps, Zenon
<1>5. CASE /\ sessions # None
           /\ outbox' = [outbox EXCEPT ![sessions] = Append(@, [of |-> c, device |-> d])]
           /\ notice' = [notice EXCEPT ![c][d] = "sending"]
           /\ UNCHANGED <<told, tracked, pending>>
  BY <1>5, QueuedKeeps
<1> QED
  BY <1>4, <1>5 DEF Notify, Drop

LEMMA HandleKeeps ==
  ASSUME LockInv, ReportInv, Ages, NEW s \in Socket, Handle(s)
  PROVE  ReportInv'
<1>0. SocketTypes /\ outbox' \in [Socket -> Seq(Item)]
  BY HandlerIsEndpoint DEF LockInv, Endpoint
<1>1. ASSUME NEW c \in Command, NEW ds \in SUBSET Device, HandleSubmit(s, c, ds)
      PROVE  ReportInv'
  BY <1>0, <1>1, SubmitKeeps
<1>2. ASSUME NEW d \in Device, HandleAcquire(s, d)
      PROVE  ReportInv'
  <2>1. Kept(s, 0) /\ UNCHANGED trackVars
    BY <1>0, <1>2, ReplyIsKept DEF HandleAcquire
  <2> QED
    BY <1>0, <2>1, UntouchedKeeps
<1>3. ASSUME NEW d \in Device, HandleRelease(s, d)
      PROVE  ReportInv'
  <2>1. Kept(s, 0) /\ UNCHANGED trackVars
    BY <1>0, <1>3, SameIsKept DEF HandleRelease
  <2> QED
    BY <1>0, <2>1, UntouchedKeeps
<1>4. ASSUME HandleOther(s)
      PROVE  ReportInv'
  <2>1. Kept(s, 0) /\ UNCHANGED trackVars
    BY <1>0, <1>4, ReplyIsKept DEF HandleOther
  <2> QED
    BY <1>0, <2>1, UntouchedKeeps
<1> QED
  BY <1>1, <1>2, <1>3, <1>4 DEF Handle

LEMMA ReportStep ==
  ASSUME LockInv, Answers, ReportInv, [SessionsNext]_sessionVars
  PROVE  ReportInv'
<1>0. SocketTypes /\ Ages
  BY EveryStepAges DEF LockInv
<1>1. ASSUME NEW s \in Socket,
             \/ Connect(s) \/ Replaces(s) \/ CloseFails(s) \/ Disconnected(s) \/ PeerGoes(s)
      PROVE  ReportInv'
  <2>1. outbox' = outbox /\ UNCHANGED trackVars
    BY <1>1 DEF Connect, Replaces, CloseFails, Disconnected, PeerGoes
  <2>2. Kept(s, 0) /\ outbox' \in [Socket -> Seq(Item)]
    BY <1>0, <2>1, SameIsKept DEF SocketTypes
  <2> QED
    BY <1>0, <2>1, <2>2, UntouchedKeeps
<1>2. ASSUME NEW s \in Socket, Handle(s)
      PROVE  ReportInv'
  BY <1>0, <1>2, HandleKeeps
<1>3. ASSUME NEW s \in Socket, SendEnds(s)
      PROVE  ReportInv'
  BY <1>0, <1>3, SendEndsKeeps
<1>4. ASSUME NEW c \in Command, NEW d \in Device, Settle(c, d)
      PROVE  ReportInv'
  BY <1>0, <1>4, SettleKeeps
<1>5. ASSUME NEW c \in Command, NEW d \in Device, Notify(c, d)
      PROVE  ReportInv'
  BY <1>0, <1>5, NotifyKeeps
<1>6. ASSUME UNCHANGED sessionVars
      PROVE  ReportInv'
  <2>1. UNCHANGED <<handler, app, link, outbox, orphaned, tracked, pending, target, notice, by, told>>
    BY <1>6 DEF sessionVars, socketVars, trackVars
  <2>2. TrackTypes' /\ Sensible' /\ Sent' /\ Routed' /\ Once'
    BY <2>1 DEF ReportInv, OutboxInv, TrackTypes, Sensible, Sent, Routed, Once, Working, Open
  <2>3. TrackingIsExact' /\ NoReportIsLost'
    BY <2>1 DEF ReportInv, TrackingIsExact, NoReportIsLost, Open
  <2> QED
    BY <2>2, <2>3 DEF ReportInv, OutboxInv
<1> QED
  BY <1>1, <1>2, <1>3, <1>4, <1>5, <1>6 DEF SessionsNext

LEMMA SafeReports == SessionsSpec => []ReportInv
<1>1. SessionsInit => LockInv /\ Answers /\ ReportInv
  BY InitLocks, InitAnswers, InitReports
<1>2. LockInv /\ Answers /\ ReportInv /\ [SessionsNext]_sessionVars
        => LockInv' /\ Answers' /\ ReportInv'
  BY LockStep, AnswersStep, ReportStep
<1> QED
  BY <1>1, <1>2, PTL DEF SessionsSpec

(* The entries of a command that is sent to devices live exactly as long   *)
(* as one of them owes a report on it, and count those devices: the        *)
(* read-and-write of on_command_complete after its send loses no count,    *)
(* whatever happened to the sessions during the send.                      *)
THEOREM NoEntryLeaks == SessionsSpec => []TrackingIsExact
<1>1. ReportInv => TrackingIsExact
  BY DEF ReportInv
<1> QED
  BY <1>1, SafeReports, PTL

(* A working connection has heard of every settled command it sent, for    *)
(* any number of connections of its user before and after it. It rests on  *)
(* the working connection being the entry, on the order in which a command *)
(* is registered before a device can settle it, and on each report being   *)
(* in one outbox at most.                                                  *)
THEOREM EveryReportArrives == SessionsSpec => []NoReportIsLost
<1>1. ReportInv => NoReportIsLost
  BY DEF ReportInv
<1> QED
  BY <1>1, SafeReports, PTL

=============================================================================
