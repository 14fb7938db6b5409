---------------------------- MODULE Yarp13_proofs ----------------------------
(***************************************************************************)
(* What the robot's own program guarantees whatever driver, line and       *)
(* surroundings do, and that a stop_all stops the wheels, proved for any   *)
(* length of bursts, tails, watchdog and calibration and for any number of *)
(* losses below that of the repeats.                                       *)
(***************************************************************************)
EXTENDS Yarp13, FiniteSetTheorems, SequenceTheorems, TLAPS

(* What the proofs need of the robot's types: which commands arrive does   *)
(* not matter for them.                                                    *)
WheelsOK ==
  /\ wheels \in [left : -1..1, right : -1..1]
  /\ age \in 0..(WaitCmd + 2)
  /\ calibr \in 0..CalibrSteps
  /\ checked \in BOOLEAN

(* HoldRunsOut is not inductive: a stored command sets the wheels going    *)
(* when it is carried out, so the watchdog must have been reset by then.   *)
StoredIsFresh == command # "none" => age = 0

WatchdogInv == WheelsOK /\ StoredIsFresh /\ HoldRunsOut /\ ReflexesHold

(* A robot that was switched on stands.                                    *)
LEMMA InitWatchdog == RobotInit => WatchdogInv
BY FirmwareAssumption
   DEF RobotInit, WatchdogInv, WheelsOK, StoredIsFresh, HoldRunsOut, ReflexesHold, Still

(* The wheels that the reflexes and the watchdog leave.                    *)
LEMMA BrakedWheels ==
  ASSUME WheelsOK, NEW sensed
  PROVE  /\ Braked(sensed) \in [left : -1..1, right : -1..1]
         /\ Guarded /\ age > WaitCmd => Braked(sensed) = Still
         /\ "power" \in sensed => Braked(sensed) = Still
         /\ {"left", "right"} \subseteq sensed =>
              Braked(sensed).left <= 0 /\ Braked(sensed).right <= 0
<1>1. Still \in [left : -1..1, right : -1..1] /\ Still.left = 0 /\ Still.right = 0
  BY DEF Still
<1>2. wheels.left \in -1..1 /\ wheels.right \in -1..1
  BY DEF WheelsOK
<1>. QED BY <1>1, <1>2 DEF Braked

(* A step of the calibration turns the wheels, or ends with them still.    *)
LEMMA TurnWheels ==
  ASSUME calibr \in 0..CalibrSteps
  PROVE  /\ Turn \in [left : -1..1, right : -1..1]
         /\ calibr + 1 >= CalibrSteps => Turn = Still
<1>1. Still \in [left : -1..1, right : -1..1]
  BY DEF Still
<1>. QED BY <1>1 DEF Turn

(* What carrying out the stored command does.                              *)
LEMMA HandleEffect ==
  ASSUME NEW w \in [left : -1..1, right : -1..1], NEW k \in 0..CalibrSteps, Handle(w, k)
  PROVE  /\ wheels' \in [left : -1..1, right : -1..1]
         /\ calibr' \in 0..CalibrSteps
         /\ command' = "none"
         /\ command = "none" => wheels' = w /\ calibr' = k
         /\ command # "dctl" => wheels' \in {w, Still}
<1>1. command' = "none"
  BY DEF Handle
<1>2. /\ wheels' \in {Forward, Still, w}
      /\ command = "none" => wheels' = w
      /\ command # "dctl" => wheels' \in {w, Still}
  BY DEF Handle
<1>3. calibr' \in {0, CalibrSteps, k} /\ (command = "none" => calibr' = k)
  BY DEF Handle
<1>4. Forward \in [left : -1..1, right : -1..1] /\ Still \in [left : -1..1, right : -1..1]
  BY DEF Forward, Still
<1>. QED BY <1>1, <1>2, <1>3, <1>4, FirmwareAssumption

(* A frame that arrives minds the reflexes, and is news to the watchdog.   *)
LEMMA ReceiveKeepsInv ==
  ASSUME WatchdogInv, NEW f, Receive(f)
  PROVE  WatchdogInv'
<1>. USE FirmwareAssumption DEF WatchdogInv, WheelsOK, StoredIsFresh, HoldRunsOut, ReflexesHold
<1>1. CASE MessageCbVel(f)
  <2>1. CASE "power" \in status
    BY <1>1, <2>1 DEF MessageCbVel, Calibrating
  <2>2. CASE "power" \notin status
    <3>1. PICK v \in {0, 1} : wheels' = Mindful(v)
      BY <1>1, <2>2 DEF MessageCbVel
    <3>2. /\ wheels' \in [left : -1..1, right : -1..1]
          /\ {"left", "right"} \subseteq status => wheels'.left <= 0 /\ wheels'.right <= 0
      BY <3>1 DEF Mindful
    <3>3. age' = 0 /\ UNCHANGED <<status, calibr, command, checked>>
      BY <1>1, <2>2 DEF MessageCbVel
    <3>. QED BY <2>2, <3>2, <3>3
  <2>. QED BY <2>1, <2>2
<1>2. CASE MessageCbCmd(f)
  <2>1. age' = 0 /\ UNCHANGED <<wheels, status, calibr, checked>>
    BY <1>2 DEF MessageCbCmd
  <2>. QED BY <2>1 DEF Calibrating
<1>. QED BY <1>1, <1>2 DEF Receive

(* A pass before the next tick: a command it carries out came just now.    *)
LEMMA PassKeepsInv == WatchdogInv /\ Pass => WatchdogInv'
<1> SUFFICES ASSUME WatchdogInv, Pass PROVE WatchdogInv'
  OBVIOUS
<1>. USE FirmwareAssumption DEF WatchdogInv, WheelsOK
<1>1. /\ wheels' \in [left : -1..1, right : -1..1]
      /\ calibr' \in 0..CalibrSteps
      /\ command' = "none"
      /\ command = "none" => wheels' = wheels /\ calibr' = calibr
      /\ command # "dctl" => wheels' \in {wheels, Still}
  BY HandleEffect DEF Pass
<1>2. age' = age /\ status' = status /\ checked' = (checked /\ command # "dctl")
  BY DEF Pass
<1>3. WheelsOK' /\ StoredIsFresh'
  BY <1>1, <1>2 DEF StoredIsFresh
<1>4. HoldRunsOut'
  BY <1>1, <1>2 DEF HoldRunsOut, StoredIsFresh, Calibrating
<1>5. ReflexesHold'
  <2>1. SUFFICES ASSUME checked' PROVE ReflexesHold'
    BY DEF ReflexesHold
  <2>2. checked /\ wheels' \in {wheels, Still}
    BY <1>1, <1>2, <2>1
  <2>3. Still.left = 0 /\ Still.right = 0
    BY DEF Still
  <2>. QED BY <1>2, <2>2, <2>3 DEF ReflexesHold
<1>. QED BY <1>3, <1>4, <1>5

(* A tick counts a period without a frame, and brakes when it was the last *)
(* one allowed.                                                            *)
LEMMA TickKeepsInv ==
  ASSUME WatchdogInv, NEW sensed, Tick(sensed)
  PROVE  WatchdogInv'
<1>. USE FirmwareAssumption DEF WatchdogInv, WheelsOK
<1>1. CASE Calibrating
  <2>1. calibr + 1 \in 0..CalibrSteps
    BY <1>1 DEF Calibrating
  <2>2. Handle(Turn, calibr + 1) /\ age' = 0 /\ checked' = FALSE
    BY <1>1 DEF Tick
  <2>3. wheels' \in [left : -1..1, right : -1..1] /\ calibr' \in 0..CalibrSteps
    BY <2>1, <2>2, TurnWheels, HandleEffect
  <2>4. WheelsOK'
    <3>1. age' \in 0..(WaitCmd + 2)
      BY <2>2
    <3>2. checked' \in BOOLEAN
      BY <2>2
    <3>. QED BY <2>3, <3>1, <3>2
  <2>5. StoredIsFresh' /\ HoldRunsOut'
    BY <2>2 DEF StoredIsFresh, HoldRunsOut
  <2>6. ReflexesHold'
    BY <2>2 DEF ReflexesHold
  <2>. QED BY <2>4, <2>5, <2>6
<1>2. CASE ~Calibrating
  <2>1. /\ Handle(Braked(sensed), calibr)
        /\ age' = IF age <= WaitCmd + 1 THEN age + 1 ELSE age
        /\ status' = sensed
        /\ checked' = (command # "dctl")
    BY <1>2 DEF Tick
  <2>2. /\ wheels' \in [left : -1..1, right : -1..1]
        /\ calibr' \in 0..CalibrSteps
        /\ command' = "none"
        /\ command = "none" => wheels' = Braked(sensed)
        /\ command # "dctl" => wheels' \in {Braked(sensed), Still}
    BY <2>1, BrakedWheels, HandleEffect
  <2>3. WheelsOK'
    BY <2>1, <2>2
  <2>4. StoredIsFresh'
    BY <2>2 DEF StoredIsFresh
  <2>5. HoldRunsOut'
    <3>1. SUFFICES ASSUME Guarded, age' > WaitCmd + 1
                   PROVE  wheels' = Still
      BY DEF HoldRunsOut
    <3>2. age > WaitCmd
      BY <2>1, <3>1
    <3>3. command = "none"
      BY <3>2 DEF StoredIsFresh
    <3>. QED BY <2>2, <3>1, <3>2, <3>3, BrakedWheels
  <2>6. ReflexesHold'
    <3>1. SUFFICES ASSUME checked' PROVE ReflexesHold'
      BY DEF ReflexesHold
    <3>2. wheels' \in {Braked(sensed), Still}
      BY <2>1, <2>2, <3>1
    <3>3. Still.left = 0 /\ Still.right = 0
      BY DEF Still
    <3>. QED BY <2>1, <3>2, <3>3, BrakedWheels DEF ReflexesHold
  <2>. QED BY <2>3, <2>4, <2>5, <2>6
<1>. QED BY <1>1, <1>2

(* Every step of the whole is one of these, or leaves the robot alone.     *)
LEMMA StepWatchdog == WatchdogInv /\ [Next]_vars => WatchdogInv'
<1> SUFFICES ASSUME WatchdogInv, [Next]_vars PROVE WatchdogInv'
  OBVIOUS
<1>1. ASSUME UNCHANGED robotVars
      PROVE  WatchdogInv'
  BY <1>1 DEF robotVars, WatchdogInv, WheelsOK, StoredIsFresh, HoldRunsOut, ReflexesHold,
     Calibrating
<1>2. CASE \/ \E name \in CommandName : Command(name)
           \/ StopAll \/ DriverCalled \/ DriverWorks \/ FrameLost
  BY <1>1, <1>2 DEF Command, StopAll, DriverCalled, DriverWorks, FrameLost
<1>3. CASE FrameArrives
  <2>1. Receive(Head(line))
    BY <1>3 DEF FrameArrives
  <2>. QED BY <2>1, ReceiveKeepsInv
<1>4. CASE RobotPasses
  BY <1>4, PassKeepsInv DEF RobotPasses
<1>5. CASE RobotTicks \/ SurroundingsChange
  BY <1>5, TickKeepsInv DEF RobotTicks, SurroundingsChange
<1>6. CASE UNCHANGED vars
  BY <1>1, <1>6 DEF vars
<1>. QED BY <1>2, <1>3, <1>4, <1>5, <1>6 DEF Next

(* With its watchdog on the robot turns its wheels at most one tick longer *)
(* than Wait_cmd_time after the last frame.                                *)
THEOREM WatchdogStopsTheWheels == Spec => []HoldRunsOut
<1>1. Init => WatchdogInv
  BY InitWatchdog DEF Init
<1>2. WatchdogInv => HoldRunsOut
  BY DEF WatchdogInv
<1>. QED BY <1>1, <1>2, StepWatchdog, PTL DEF Spec

(* A velocity of the server never undoes a reflex that acts.               *)
THEOREM ReflexesAreNotUndone == Spec => []ReflexesHold
<1>1. Init => WatchdogInv
  BY InitWatchdog DEF Init
<1>2. WatchdogInv => ReflexesHold
  BY DEF WatchdogInv
<1>. QED BY <1>1, <1>2, StepWatchdog, PTL DEF Spec

-----------------------------------------------------------------------------
(* The frames that may turn the wheels, and those that do it when they are *)
(* carried out.                                                            *)
Movers == {"go", "dctl", "calibr_speed"}
Slow == {"dctl", "calibr_speed"}

(* In a sequence of frames: the rounds of an emergency stop that nothing   *)
(* follows which may turn the wheels. A round begins with a halt and a     *)
(* command behind it.                                                      *)
Clear(s) == \A j \in 1..Len(s) : s[j] \notin Movers
Rounds(s) ==
  {i \in 1..Len(s) : /\ s[i] = "halt" /\ i + 1 \in 1..Len(s) /\ s[i + 1] = "dctl 0"
                     /\ \A j \in i..Len(s) : s[j] \notin Movers}
Count(s) == Cardinality(Rounds(s))

LEMMA CountType ==
  ASSUME NEW s \in Seq(Frame)
  PROVE  IsFiniteSet(Rounds(s)) /\ Count(s) \in Nat
<1>1. Len(s) \in Nat
  OBVIOUS
<1>2. IsFiniteSet(1..Len(s))
  BY <1>1, FS_Interval
<1>3. Rounds(s) \in SUBSET (1..Len(s))
  BY DEF Rounds
<1>4. IsFiniteSet(Rounds(s))
  BY <1>2, <1>3, FS_Subset
<1>. QED BY <1>4, FS_CardinalityType DEF Count

LEMMA CountEmpty == Count(<<>>) = 0
<1>1. Rounds(<<>>) = {}
  BY DEF Rounds
<1>. QED BY <1>1, FS_EmptySet DEF Count

(* The first frame arrives or is lost.                                     *)
LEMMA CountTail ==
  ASSUME NEW s \in Seq(Frame), s # <<>>
  PROVE  /\ Tail(s) \in Seq(Frame) /\ Head(s) = s[1] /\ s[1] \in Frame
         /\ Clear(s) => Clear(Tail(s)) /\ s[1] \notin Movers
         /\ Count(Tail(s)) + 1 >= Count(s)
         /\ 1 \notin Rounds(s) => Count(Tail(s)) >= Count(s)
         /\ 1 \in Rounds(s) => /\ s[1] = "halt" /\ Clear(Tail(s))
                               /\ Tail(s) # <<>> /\ Head(Tail(s)) = "dctl 0"
<1>1. /\ Tail(s) \in Seq(Frame) /\ Head(s) = s[1] /\ s[1] \in Frame
      /\ Len(Tail(s)) = Len(s) - 1 /\ Len(s) \in Nat \ {0}
      /\ \A i \in 1..Len(s) - 1 : Tail(s)[i] = s[i + 1]
  BY HeadTailProperties
<1>2. PICK n \in Nat : n = Len(s) - 1
  <2>1. Len(s) - 1 \in Nat
    BY <1>1
  <2>. QED BY <2>1
<1>3. PICK t \in Seq(Frame) : t = Tail(s)
  BY <1>1
<1>4. Len(s) = n + 1 /\ Len(t) = n /\ \A i \in 1..n : t[i] = s[i + 1]
  BY <1>1, <1>2, <1>3
<1>5. Clear(s) => Clear(t) /\ s[1] \notin Movers
  <2>1. \A i \in 1..n : i + 1 \in 1..n + 1
    BY <1>2
  <2>2. 1 \in 1..n + 1
    BY <1>2
  <2>. QED BY <1>4, <2>1, <2>2 DEF Clear
<1>6. ASSUME NEW i \in 1..n, i + 1 \in Rounds(s) PROVE i \in Rounds(t)
  <2>1. s[i + 1] = "halt" /\ i + 2 \in 1..n + 1 /\ s[i + 2] = "dctl 0"
    <3>1. (i + 1) + 1 = i + 2
      OBVIOUS
    <3>. QED BY <1>4, <1>6, <3>1 DEF Rounds
  <2>2. \A j \in i + 1..n + 1 : s[j] \notin Movers
    BY <1>4, <1>6 DEF Rounds
  <2>3. i + 1 \in 1..n
    <3>1. i + 2 \in 1..n + 1
      BY <2>1
    <3>. QED BY <1>2, <1>6, <3>1
  <2>4. t[i] = "halt" /\ t[i + 1] = "dctl 0"
    <3>1. t[i] = s[i + 1]
      BY <1>4
    <3>2. t[i + 1] = s[(i + 1) + 1] /\ (i + 1) + 1 = i + 2
      BY <1>4, <2>3
    <3>. QED BY <2>1, <3>1, <3>2
  <2>5. ASSUME NEW j \in i..n PROVE t[j] \notin Movers
    <3>1. j \in 1..n /\ j + 1 \in i + 1..n + 1
      BY <1>2
    <3>. QED BY <1>4, <2>2, <3>1
  <2>. QED BY <1>4, <2>3, <2>4, <2>5 DEF Rounds
<1>7. PICK P, Q : P = Rounds(s) /\ Q = Rounds(t)
  OBVIOUS
<1>8. IsFiniteSet(P) /\ IsFiniteSet(Q) /\ Cardinality(P) \in Nat /\ Cardinality(Q) \in Nat
  BY <1>3, <1>7, CountType DEF Count
<1>9. Cardinality(P \ {1}) <= Cardinality(Q)
  <2> DEFINE down == [k \in P \ {1} |-> k - 1]
  <2>1. P \subseteq 1..n + 1
    BY <1>4, <1>7 DEF Rounds
  <2>2. ASSUME NEW k \in P \ {1} PROVE k - 1 \in Q
    <3>1. k - 1 \in 1..n /\ (k - 1) + 1 = k
      BY <1>2, <2>1, <2>2
    <3>2. (k - 1) + 1 \in Rounds(s)
      BY <1>7, <2>2, <3>1
    <3>. QED BY <1>6, <1>7, <3>1, <3>2
  <2>3. down \in [P \ {1} -> Q]
    BY <2>2
  <2>4. \A k, l \in P \ {1} : down[k] = down[l] => k = l
    BY <1>2, <2>1
  <2> HIDE DEF down
  <2>5. down \in Injection(P \ {1}, Q)
    BY <2>3, <2>4 DEF Injection, IsInjective
  <2>. QED BY <1>8, <2>5, FS_Injection
<1>10. Cardinality(P \ {1}) = IF 1 \in P THEN Cardinality(P) - 1 ELSE Cardinality(P)
  BY <1>8, FS_RemoveElement
<1>11. /\ Count(t) + 1 >= Count(s)
       /\ 1 \notin Rounds(s) => Count(t) >= Count(s)
  BY <1>7, <1>8, <1>9, <1>10 DEF Count
<1>12. ASSUME 1 \in Rounds(s)
       PROVE  s[1] = "halt" /\ Clear(t) /\ t # <<>> /\ Head(t) = "dctl 0"
  <2>1. s[1] = "halt" /\ 1 + 1 \in 1..n + 1 /\ s[1 + 1] = "dctl 0"
    BY <1>4, <1>12 DEF Rounds
  <2>2. \A j \in 1..n + 1 : s[j] \notin Movers
    BY <1>4, <1>12 DEF Rounds
  <2>3. Clear(s)
    BY <1>4, <2>2 DEF Clear
  <2>4. 1 \in 1..n
    <3>1. 1 + 1 \in 1..n + 1
      BY <2>1
    <3>. QED BY <1>2, <3>1
  <2>5. t[1] = "dctl 0"
    BY <1>4, <2>1, <2>4
  <2>6. t # <<>>
    BY <1>2, <1>4, <2>4
  <2>7. Head(t) = t[1]
    BY <1>3, <2>6
  <2>. QED BY <1>5, <2>1, <2>3, <2>5, <2>6, <2>7
<1>. QED BY <1>1, <1>3, <1>5, <1>11, <1>12

(* Something is published that does not turn the wheels.                   *)
LEMMA CountGrows ==
  ASSUME NEW s \in Seq(Frame), NEW t \in Seq(Frame), Len(t) > Len(s),
         \A i \in 1..Len(s) : t[i] = s[i],
         \A i \in 1..Len(t) : i \in 1..Len(s) \/ t[i] \notin Movers
  PROVE  /\ Clear(s) => Clear(t)
         /\ Count(t) >= Count(s)
         /\ t[Len(s) + 1] = "halt" /\ Len(t) > Len(s) + 1 /\ t[Len(s) + 2] = "dctl 0"
              => Count(t) >= Count(s) + 1
         /\ s # <<>> => t # <<>> /\ Head(t) = Head(s)
<1>1. PICK n, m \in Nat : n = Len(s) /\ m = Len(t)
  OBVIOUS
<1>2. /\ n < m /\ \A i \in 1..n : t[i] = s[i]
      /\ \A i \in 1..m : i \in 1..n \/ t[i] \notin Movers
  BY <1>1
<1>3. Clear(s) => Clear(t)
  BY <1>1, <1>2 DEF Clear
<1>4. Rounds(s) \subseteq Rounds(t)
  <2>1. SUFFICES ASSUME NEW i \in Rounds(s) PROVE i \in Rounds(t)
    OBVIOUS
  <2>2. /\ i \in 1..n /\ s[i] = "halt" /\ i + 1 \in 1..n /\ s[i + 1] = "dctl 0"
        /\ \A j \in i..n : s[j] \notin Movers
    BY <1>1, <2>1 DEF Rounds
  <2>3. i \in 1..m /\ t[i] = "halt" /\ i + 1 \in 1..m /\ t[i + 1] = "dctl 0"
    <3>1. 1..n \subseteq 1..m
      BY <1>1, <1>2
    <3>. QED BY <1>2, <2>2, <3>1
  <2>4. ASSUME NEW j \in i..m PROVE t[j] \notin Movers
    <3>a. i \in 1..n
      BY <2>2
    <3>1. j \in 1..m
      BY <1>1, <2>4, <3>a
    <3>2. CASE j \in 1..n
      <4>1. j \in i..n
        BY <1>1, <2>4, <3>a, <3>1, <3>2
      <4>. QED BY <1>2, <2>2, <3>2, <4>1
    <3>. QED BY <1>2, <3>1, <3>2
  <2>. QED BY <1>1, <2>3, <2>4 DEF Rounds
<1>5. /\ IsFiniteSet(Rounds(s)) /\ Cardinality(Rounds(s)) \in Nat
      /\ IsFiniteSet(Rounds(t)) /\ Cardinality(Rounds(t)) \in Nat
  BY CountType DEF Count
<1>6. Count(t) >= Count(s)
  BY <1>4, <1>5, FS_Subset DEF Count
<1>7. ASSUME t[n + 1] = "halt", m > n + 1, t[n + 2] = "dctl 0"
      PROVE  Count(t) >= Count(s) + 1
  <2>1. n + 1 \in Rounds(t)
    <3>1. n + 1 \in 1..m /\ (n + 1) + 1 \in 1..m /\ (n + 1) + 1 = n + 2
      <4>1. m > n + 1
        BY <1>7
      <4>. QED BY <1>1, <4>1
    <3>2. ASSUME NEW j \in n + 1..m PROVE t[j] \notin Movers
      <4>1. j \in 1..m /\ j \notin 1..n
        BY <1>1
      <4>. QED BY <1>2, <4>1
    <3>. QED BY <1>1, <1>7, <3>1, <3>2 DEF Rounds
  <2>2. n + 1 \notin Rounds(s)
    <3>1. n + 1 \notin 1..n
      BY <1>1
    <3>. QED BY <1>1, <3>1 DEF Rounds
  <2>3. Cardinality(Rounds(s) \cup {n + 1}) = Cardinality(Rounds(s)) + 1
    BY <1>5, <2>2, FS_AddElement
  <2>4. Rounds(s) \cup {n + 1} \subseteq Rounds(t)
    BY <1>4, <2>1
  <2>5. Cardinality(Rounds(s) \cup {n + 1}) <= Cardinality(Rounds(t))
    BY <1>5, <2>4, FS_Subset
  <2>. QED BY <1>5, <2>3, <2>5 DEF Count
<1>8. ASSUME s # <<>> PROVE t # <<>> /\ Head(t) = Head(s)
  <2>1. 1 \in 1..n
    BY <1>1, <1>8
  <2>2. t # <<>> /\ Head(t) = t[1] /\ Head(s) = s[1]
    BY <1>1, <1>2, <1>8, <2>1
  <2>. QED BY <1>2, <2>1, <2>2
<1>. QED BY <1>1, <1>3, <1>6, <1>7, <1>8

(* What every frame that is no motor command does to the line.             *)
LEMMA AppendGrows ==
  ASSUME NEW s \in Seq(Frame), NEW f \in Frame, f \notin Movers
  PROVE  /\ Append(s, f) \in Seq(Frame)
         /\ Clear(s) => Clear(Append(s, f))
         /\ Count(Append(s, f)) >= Count(s)
         /\ s # <<>> => Append(s, f) # <<>> /\ Head(Append(s, f)) = Head(s)
<1>1. PICK t \in Seq(Frame) : t = Append(s, f)
  BY AppendProperties
<1>2. /\ Len(t) = Len(s) + 1 /\ t[Len(s) + 1] = f
      /\ \A i \in 1..Len(s) : t[i] = s[i]
  BY <1>1, AppendProperties
<1>3. Len(t) > Len(s) /\ Len(s) \in Nat
  BY <1>2
<1>4. \A i \in 1..Len(t) : i \in 1..Len(s) \/ t[i] \notin Movers
  BY <1>2, <1>3
<1>. QED BY <1>1, <1>2, <1>3, <1>4, CountGrows

(* What the frames of an emergency stop do to it.                          *)
LEMMA StopsGrow ==
  ASSUME NEW s \in Seq(Frame)
  PROVE  /\ s \o Stops \in Seq(Frame)
         /\ Clear(s) => Clear(s \o Stops)
         /\ Count(s \o Stops) >= Count(s) + 1
         /\ s # <<>> => s \o Stops # <<>> /\ Head(s \o Stops) = Head(s)
<1>1. /\ Stops \in Seq(Frame) /\ Len(Stops) = 5
      /\ Stops[1] = "halt" /\ Stops[2] = "dctl 0" /\ Stops[3] = "pidctl 0"
      /\ Stops[4] = "beep_off" /\ Stops[5] = "gun_off"
  <2>1. /\ "halt" \in Frame /\ "dctl 0" \in Frame /\ "pidctl 0" \in Frame
        /\ "beep_off" \in Frame /\ "gun_off" \in Frame
    BY DEF Frame
  <2>2. Stops \in Seq(Frame)
    <3>1. \A a, b, c, d, e \in Frame : <<a, b, c, d, e>> \in Seq(Frame)
      OBVIOUS
    <3>. QED BY <2>1, <3>1, Zenon DEF Stops
  <2>3. Len(Stops) = 5
    BY DEF Stops
  <2>4. Stops[1] = "halt" /\ Stops[2] = "dctl 0"
    BY DEF Stops
  <2>5. Stops[3] = "pidctl 0" /\ Stops[4] = "beep_off" /\ Stops[5] = "gun_off"
    BY DEF Stops
  <2>. QED BY <2>2, <2>3, <2>4, <2>5
<1>2. PICK u \in Seq(Frame) : u = Stops
  BY <1>1
<1>3. PICK t \in Seq(Frame) : t = s \o u
  BY <1>2, ConcatProperties
<1>4. PICK n \in Nat : n = Len(s)
  OBVIOUS
<1>5. /\ Len(t) = n + 5
      /\ \A i \in 1..n + 5 : t[i] = IF i <= n THEN s[i] ELSE u[i - n]
  <2>1. Len(u) = 5
    BY <1>1, <1>2
  <2>2. /\ Len(t) = Len(s) + Len(u)
        /\ \A i \in 1..Len(s) + Len(u) :
             t[i] = IF i <= Len(s) THEN s[i] ELSE u[i - Len(s)]
    BY <1>3, ConcatProperties
  <2>. QED BY <1>4, <2>1, <2>2
<1>6. Len(t) > n /\ Len(t) > n + 1
  BY <1>5
<1>7. \A i \in 1..n : t[i] = s[i]
  BY <1>5
<1>8. t[n + 1] = "halt" /\ t[n + 2] = "dctl 0"
  <2>1. n + 1 \in 1..n + 5 /\ (n + 1) - n = 1 /\ ~(n + 1 <= n)
    OBVIOUS
  <2>2. n + 2 \in 1..n + 5 /\ (n + 2) - n = 2 /\ ~(n + 2 <= n)
    OBVIOUS
  <2>3. t[n + 1] = u[1]
    BY <1>5, <2>1
  <2>4. t[n + 2] = u[2]
    BY <1>5, <2>2
  <2>. QED BY <1>1, <1>2, <2>3, <2>4
<1>9. ASSUME NEW i \in 1..Len(t) PROVE i \in 1..n \/ t[i] \notin Movers
  <2>1. i \in 1..n + 5
    BY <1>5, <1>9
  <2>2. SUFFICES ASSUME ~(i <= n) PROVE t[i] \notin Movers
    BY <2>1
  <2>3. t[i] = u[i - n]
    BY <1>5, <2>1, <2>2
  <2>4. i - n \in 1..5
    BY <2>1, <2>2
  <2>5. \A k \in 1..5 : u[k] \notin Movers
    <3>1. \A k \in 1..5 : k = 1 \/ k = 2 \/ k = 3 \/ k = 4 \/ k = 5
      OBVIOUS
    <3>. QED BY <1>1, <1>2, <3>1 DEF Movers
  <2>. QED BY <2>3, <2>4, <2>5
<1>10. Clear(s) => Clear(t)
  BY <1>4, <1>6, <1>7, <1>9, CountGrows
<1>11. Count(t) >= Count(s) + 1
  BY <1>4, <1>6, <1>7, <1>8, <1>9, CountGrows
<1>12. s # <<>> => t # <<>> /\ Head(t) = Head(s)
  BY <1>4, <1>6, <1>7, <1>9, CountGrows
<1>. QED BY <1>2, <1>3, <1>10, <1>11, <1>12

-----------------------------------------------------------------------------
(* What the argument needs of the types.                                   *)
TailFrame == {"none", "deadman", "halt", "dctl 0", "beep_off"}

StopTypes ==
  /\ line \in Seq(Frame)
  /\ lost \in 0..(MaxLost + 1)
  /\ halted \in BOOLEAN
  /\ cmd \in [name : CommandName \cup {"none"}, left : Int, cancelled : BOOLEAN]
  /\ cmd.name = "none" => cmd = Nothing
  /\ tail \in [Slot -> [frame : TailFrame \cup {"stops"}, left : Nat]]
  /\ \A s \in {"drive", "beep"} : tail[s].frame \in TailFrame
  /\ tail["__estop__"].frame \in {"none", "stops"}
  /\ \A r \in Slot : tail[r].frame = "none" <=> tail[r].left = 0

(* How often the stop is still to come.                                    *)
Coming == Count(line) + tail["__estop__"].left

(* A command that may turn the wheels does not publish any more.           *)
NoneDrives == Setpoint(cmd.name) \in Movers => cmd.cancelled

(* How far a stop_all got: the stop was obeyed and nothing can undo it; or *)
(* it is still to come more often than it can be lost; or just as often,   *)
(* but a motor command can be stored no more, or is replaced at once.      *)
Stopped == Clear(line) /\ command \notin Slow /\ (wheels = Still \/ Calibrating)
Enough == Coming + lost >= TailLen + 1
Last ==
  /\ Coming + lost >= TailLen
  /\ Clear(line)
  /\ command \in Slow => line # <<>> /\ Head(line) = "dctl 0"
Obeyed == Stopped \/ Enough \/ Last

StopInv ==
  /\ StopTypes
  /\ halted => NoneDrives /\ (lost <= MaxLost => Obeyed)

LEMMA ComingType ==
  ASSUME StopTypes
  PROVE  /\ Count(line) \in Nat /\ tail["__estop__"].left \in Nat /\ Coming \in Nat
         /\ lost \in Nat /\ TailLen \in Nat /\ MaxLost \in Nat /\ MaxLost < TailLen
<1>1. Count(line) \in Nat
  BY CountType DEF StopTypes
<1>2. tail["__estop__"].left \in Nat
  BY DEF StopTypes, Slot
<1>3. lost \in Nat
  BY LossAssumption DEF StopTypes
<1>. QED BY <1>1, <1>2, <1>3, LossAssumption, BurstAssumption DEF Coming

(* Quiet with the stop obeyed means that the wheels stand.                 *)
LEMMA StopInvHolds == StopInv => StopAllStopsTheWheels
<1> SUFFICES ASSUME StopInv, Quiet, halted, ~Calibrating, lost <= MaxLost
             PROVE  wheels = Still
  BY DEF StopAllStopsTheWheels
<1>1. StopTypes /\ Obeyed
  BY DEF StopInv
<1>2. Count(line) = 0 /\ tail["__estop__"].left = 0
  <2>1. line = <<>> /\ tail = [s \in Slot |-> NoTail]
    BY DEF Quiet, Idle
  <2>. QED BY <2>1, CountEmpty DEF NoTail, Slot
<1>3. Coming + lost < TailLen
  BY <1>1, <1>2, ComingType DEF Coming
<1>4. ~Enough /\ ~Last
  <2>1. \A c, l, n \in Nat : c + l < n => ~(c + l >= n + 1) /\ ~(c + l >= n)
    OBVIOUS
  <2>2. ~(Coming + lost >= TailLen + 1) /\ ~(Coming + lost >= TailLen)
    BY <1>1, <1>3, <2>1, ComingType
  <2>. QED BY <2>2 DEF Enough, Last
<1>. QED BY <1>1, <1>4 DEF Obeyed, Stopped

LEMMA InitStopInv == Init => StopInv
<1> SUFFICES ASSUME Init PROVE StopInv
  OBVIOUS
<1>1. /\ line = <<>> /\ lost = 0 /\ halted = FALSE
      /\ cmd = [name |-> "none", left |-> 0, cancelled |-> FALSE]
      /\ tail = [s \in Slot |-> [frame |-> "none", left |-> 0]]
  BY DEF Init, DriverInit, Nothing, NoTail
<1>2. line \in Seq(Frame) /\ lost \in 0..(MaxLost + 1) /\ halted \in BOOLEAN
  <2>1. <<>> \in Seq(Frame)
    OBVIOUS
  <2>2. 0 \in 0..(MaxLost + 1)
    BY LossAssumption
  <2>. QED BY <1>1, <2>1, <2>2
<1>3. cmd \in [name : CommandName \cup {"none"}, left : Int, cancelled : BOOLEAN]
  BY <1>1
<1>4. /\ tail \in [Slot -> [frame : TailFrame \cup {"stops"}, left : Nat]]
      /\ \A s \in Slot : tail[s].frame = "none" /\ tail[s].left = 0
  BY <1>1 DEF TailFrame
<1>. QED BY <1>1, <1>2, <1>3, <1>4 DEF StopInv, StopTypes, TailFrame, Slot, Nothing

(* The driver says something more that does not turn the wheels, and the   *)
(* stop is to come as often as before.                                     *)
LEMMA MoreIsSaid ==
  ASSUME StopTypes, StopTypes', Obeyed, UNCHANGED <<robotVars, lost>>,
         Clear(line) => Clear(line'),
         Coming' \in Nat, Coming' >= Coming,
         line # <<>> => line' # <<>> /\ Head(line') = Head(line)
  PROVE  Obeyed'
<1>1. UNCHANGED <<wheels, calibr, command, lost>>
  BY DEF robotVars
<1>2. CASE Stopped
  BY <1>1, <1>2 DEF Stopped, Calibrating, Obeyed
<1>3. CASE Enough
  <2>1. Coming \in Nat /\ lost \in Nat /\ TailLen \in Nat
    BY ComingType
  <2>2. Coming + lost >= TailLen + 1
    BY <1>3 DEF Enough
  <2>3. Coming' + lost' >= TailLen + 1
    <3>1. \A a, b, l, n \in Nat : a + l >= n + 1 /\ b >= a => b + l >= n + 1
      OBVIOUS
    <3>. QED BY <1>1, <2>1, <2>2, <3>1
  <2>. QED BY <2>3 DEF Enough, Obeyed
<1>4. CASE Last
  <2>1. Coming \in Nat /\ lost \in Nat /\ TailLen \in Nat
    BY ComingType
  <2>2. Coming + lost >= TailLen
    BY <1>4 DEF Last
  <2>3. Coming' + lost' >= TailLen
    <3>1. \A a, b, l, n \in Nat : a + l >= n /\ b >= a => b + l >= n
      OBVIOUS
    <3>. QED BY <1>1, <2>1, <2>2, <3>1
  <2>4. Clear(line') /\ (command' \in Slow => line' # <<>> /\ Head(line') = "dctl 0")
    BY <1>1, <1>4 DEF Last
  <2>. QED BY <2>3, <2>4 DEF Last, Obeyed
<1>. QED BY <1>2, <1>3, <1>4 DEF Obeyed

(* The robot goes on without a frame, and carries out what it stored.      *)
LEMMA RobotGoesOn ==
  ASSUME StopTypes, Obeyed, UNCHANGED <<line, tail, lost>>, command' = "none",
         command \notin Slow /\ (wheels = Still \/ Calibrating)
           => wheels' = Still \/ Calibrating'
  PROVE  Obeyed'
<1>1. Coming' = Coming /\ Count(line') = Count(line)
  BY DEF Coming
<1>2. "none" \notin Slow
  BY DEF Slow
<1>3. CASE Stopped
  BY <1>2, <1>3 DEF Stopped, Obeyed
<1>4. CASE Enough
  BY <1>1, <1>4 DEF Enough, Obeyed
<1>5. CASE Last
  BY <1>1, <1>2, <1>5 DEF Last, Obeyed
<1>. QED BY <1>3, <1>4, <1>5 DEF Obeyed

(* What carrying out a stored command that is not slow does to a robot     *)
(* that stands or calibrates.                                              *)
LEMMA HandleStops ==
  ASSUME NEW w, NEW k \in Nat, Handle(w, k), command \notin Slow,
         w = Still \/ k < CalibrSteps
  PROVE  command' = "none" /\ (wheels' = Still \/ Calibrating')
<1>1. command' = "none"
  BY DEF Handle
<1>2. CASE command = "calibr"
  <2>1. calibr' = 0
    BY <1>2 DEF Handle
  <2>. QED BY <1>1, <2>1, FirmwareAssumption DEF Calibrating
<1>3. CASE command # "calibr"
  <2>1. command # "dctl" /\ command # "calibr_speed"
    BY DEF Slow
  <2>2. calibr' = k /\ wheels' \in {w, Still}
    BY <1>3, <2>1 DEF Handle
  <2>. QED BY <1>1, <2>2 DEF Calibrating
<1>. QED BY <1>2, <1>3

LEMMA PassAndTick ==
  ASSUME StopTypes, Obeyed, WheelsOK, UNCHANGED <<line, tail, lost>>,
         Pass \/ \E sensed : Tick(sensed)
  PROVE  Obeyed'
<1>1. calibr \in Nat
  BY FirmwareAssumption DEF WheelsOK
<1>2. PICK w, k : Handle(w, k) /\ k \in Nat
                  /\ (wheels = Still \/ Calibrating => w = Still \/ k < CalibrSteps)
  <2>1. CASE Pass
    BY <1>1, <2>1 DEF Pass, Calibrating
  <2>2. ASSUME NEW sensed, Tick(sensed), Calibrating
        PROVE  Handle(Turn, calibr + 1) /\ (Turn = Still \/ calibr + 1 < CalibrSteps)
    <3>1. Handle(Turn, calibr + 1)
      BY <2>2 DEF Tick
    <3>2. calibr + 1 >= CalibrSteps => Turn = Still
      BY TurnWheels DEF WheelsOK
    <3>. QED BY <1>1, <3>1, <3>2, FirmwareAssumption
  <2>3. ASSUME NEW sensed, Tick(sensed), ~Calibrating
        PROVE  Handle(Braked(sensed), calibr) /\ (wheels = Still => Braked(sensed) = Still)
    <3>1. Handle(Braked(sensed), calibr)
      BY <2>3 DEF Tick
    <3>2. wheels = Still => Braked(sensed) = Still
      BY DEF Braked, Still
    <3>. QED BY <3>1, <3>2
  <2>. QED BY <1>1, <2>1, <2>2, <2>3
<1>3. command' = "none"
  BY <1>2 DEF Handle
<1>4. command \notin Slow /\ (wheels = Still \/ Calibrating)
        => wheels' = Still \/ Calibrating'
  BY <1>2, HandleStops
<1>. QED BY <1>3, <1>4, RobotGoesOn

(* A frame is lost.                                                        *)
LEMMA LossKeeps ==
  ASSUME StopTypes, lost <= MaxLost => Obeyed, FrameLost, lost' <= MaxLost
  PROVE  Obeyed'
<1>1. /\ line # <<>> /\ line' = Tail(line) /\ line \in Seq(Frame)
      /\ UNCHANGED <<tail, wheels, calibr, command>>
  BY DEF FrameLost, robotVars, StopTypes
<1>2. lost' = lost + 1 /\ lost <= MaxLost
  <2>1. lost \in Nat /\ MaxLost \in Nat
    BY ComingType
  <2>2. lost' = IF lost <= MaxLost THEN lost + 1 ELSE lost
    BY DEF FrameLost, Loss
  <2>. QED BY <2>1, <2>2
<1>3. /\ Clear(line) => Clear(line')
      /\ Count(line') + 1 >= Count(line)
      /\ 1 \notin Rounds(line) => Count(line') >= Count(line)
      /\ Head(line) = line[1] /\ (1 \in Rounds(line) => line[1] = "halt")
      /\ line' \in Seq(Frame)
  BY <1>1, CountTail
<1>4. /\ Count(line) \in Nat /\ tail["__estop__"].left \in Nat
      /\ lost \in Nat /\ TailLen \in Nat /\ Count(line') \in Nat
  BY <1>3, ComingType, CountType
<1>5. Coming' + lost' >= Coming + lost
  <2>1. \A a, b, t, l \in Nat : b + 1 >= a => b + t + (l + 1) >= a + t + l
    OBVIOUS
  <2>2. tail' = tail
    BY <1>1
  <2>. QED BY <1>2, <1>3, <1>4, <2>1, <2>2 DEF Coming
<1>6. Coming \in Nat /\ Coming' \in Nat /\ lost' \in Nat
  BY <1>1, <1>2, <1>4 DEF Coming
<1>7. \A a, b, l, m, n \in Nat :
        b + m >= a + l => /\ a + l >= n + 1 => b + m >= n + 1
                          /\ a + l >= n => b + m >= n
  OBVIOUS
<1>8. CASE Stopped
  BY <1>1, <1>3, <1>8 DEF Stopped, Obeyed, Calibrating
<1>9. CASE Enough
  <2>1. Coming + lost >= TailLen + 1
    BY <1>9 DEF Enough
  <2>2. Coming' + lost' >= TailLen + 1
    BY <1>4, <1>5, <1>6, <1>7, <2>1
  <2>. QED BY <2>2 DEF Enough, Obeyed
<1>10. CASE Last
  <2>1. Coming + lost >= TailLen /\ Clear(line)
        /\ (command \in Slow => Head(line) = "dctl 0")
    BY <1>10 DEF Last
  <2>2. CASE command \notin Slow
    <3>1. Coming' + lost' >= TailLen
      BY <1>4, <1>5, <1>6, <1>7, <2>1
    <3>. QED BY <1>1, <1>3, <2>1, <2>2, <3>1 DEF Last, Obeyed
  <2>3. CASE command \in Slow
    <3>1. 1 \notin Rounds(line)
      BY <1>3, <2>1, <2>3
    <3>2. Count(line') >= Count(line)
      BY <1>3, <3>1
    <3>3. \A a, b, t, l, n \in Nat : b >= a /\ a + t + l >= n => b + t + (l + 1) >= n + 1
      OBVIOUS
    <3>4. Coming' + lost' >= TailLen + 1
      BY <1>1, <1>2, <1>4, <2>1, <3>2, <3>3 DEF Coming
    <3>. QED BY <3>4 DEF Enough, Obeyed
  <2>. QED BY <2>2, <2>3
<1>. QED BY <1>2, <1>8, <1>9, <1>10 DEF Obeyed

(* A frame arrives at a robot that obeys the stop already: none is left    *)
(* that turns the wheels.                                                  *)
LEMMA StoppedKeeps ==
  ASSUME StopTypes, Stopped, FrameArrives
  PROVE  Stopped'
<1>1. /\ line # <<>> /\ line' = Tail(line) /\ line \in Seq(Frame) /\ Receive(Head(line))
  BY DEF FrameArrives, StopTypes
<1>2. Clear(line') /\ Head(line) \notin Movers
  BY <1>1, CountTail DEF Stopped
<1>3. PICK f : f = Head(line) /\ f \notin Movers
  BY <1>2
<1>4. CASE MessageCbVel(f)
  <2>1. f # "go" /\ UNCHANGED <<calibr, command>>
    BY <1>3, <1>4 DEF MessageCbVel, Movers
  <2>2. wheels' = wheels \/ wheels' = Mindful(0)
    BY <1>4, <2>1 DEF MessageCbVel
  <2>3. Mindful(0) = Still
    BY DEF Mindful, Still
  <2>. QED BY <1>2, <2>1, <2>2, <2>3 DEF Stopped, Calibrating
<1>5. CASE MessageCbCmd(f)
  <2>1. command' \notin Slow
    BY <1>3, <1>5 DEF MessageCbCmd, Movers, Slow
  <2>2. UNCHANGED <<wheels, calibr>>
    BY <1>5 DEF MessageCbCmd
  <2>. QED BY <1>2, <2>1, <2>2 DEF Stopped, Calibrating
<1>. QED BY <1>1, <1>3, <1>4, <1>5 DEF Receive

LEMMA ArrivalKeeps ==
  ASSUME StopTypes, lost <= MaxLost => Obeyed, FrameArrives, lost' <= MaxLost
  PROVE  Obeyed'
<1>1. /\ line # <<>> /\ line' = Tail(line) /\ line \in Seq(Frame) /\ Receive(Head(line))
      /\ tail' = tail
      /\ lost \in Nat /\ MaxLost \in Nat
      /\ IF Head(line) = "halt" /\ "power" \in status THEN Loss ELSE UNCHANGED lost
  BY ComingType DEF FrameArrives, StopTypes
<1>2. /\ lost <= MaxLost /\ lost' \in Nat /\ lost' >= lost
      /\ Head(line) = "halt" /\ "power" \in status => lost' = lost + 1
  BY <1>1 DEF Loss
<1>3. /\ Clear(line) => Clear(line') /\ Head(line) \notin Movers
      /\ Count(line') + 1 >= Count(line)
      /\ 1 \notin Rounds(line) => Count(line') >= Count(line)
      /\ 1 \in Rounds(line) => /\ Head(line) = "halt" /\ Clear(line')
                               /\ line' # <<>> /\ Head(line') = "dctl 0"
      /\ line' \in Seq(Frame)
  BY <1>1, CountTail
<1>4. /\ Count(line) \in Nat /\ tail["__estop__"].left \in Nat
      /\ lost \in Nat /\ TailLen \in Nat /\ Count(line') \in Nat
  BY <1>3, ComingType, CountType
<1>5. CASE Stopped
  BY <1>5, StoppedKeeps DEF Obeyed
<1>6. ASSUME 1 \in Rounds(line), Coming + lost >= TailLen, "power" \in status,
             Clear(line) \/ Coming + lost >= TailLen + 1
      PROVE  Obeyed'
  <2>1. lost' = lost + 1 /\ Clear(line') /\ line' # <<>> /\ Head(line') = "dctl 0"
    BY <1>2, <1>3, <1>6
  <2>2. \A a, b, t, l, n \in Nat : b + 1 >= a /\ a + t + l >= n => b + t + (l + 1) >= n
    OBVIOUS
  <2>3. Coming' + lost' >= TailLen
    BY <1>1, <1>3, <1>4, <1>6, <2>1, <2>2 DEF Coming
  <2>. QED BY <2>1, <2>3 DEF Last, Obeyed
<1>7. CASE Enough
  <2>1. Coming + lost >= TailLen + 1
    BY <1>7 DEF Enough
  <2>2. CASE 1 \in Rounds(line)
    <3>1. \A a, b, t, l, m, n \in Nat :
            b + 1 >= a /\ m >= l /\ a + t + l >= n + 1 => b + t + m >= n
      OBVIOUS
    <3>2. Coming' + lost' >= TailLen
      BY <1>1, <1>2, <1>3, <1>4, <2>1, <3>1 DEF Coming
    <3>. QED BY <1>3, <2>2, <3>2 DEF Last, Obeyed
  <2>3. CASE 1 \notin Rounds(line)
    <3>1. \A a, b, t, l, m, n \in Nat :
            b >= a /\ m >= l /\ a + t + l >= n + 1 => b + t + m >= n + 1
      OBVIOUS
    <3>2. Count(line') >= Count(line)
      BY <1>3, <2>3
    <3>3. Coming' + lost' >= TailLen + 1
      BY <1>1, <1>2, <1>4, <2>1, <3>1, <3>2 DEF Coming
    <3>. QED BY <3>3 DEF Enough, Obeyed
  <2>. QED BY <2>2, <2>3
<1>8. CASE Last
  <2>1. /\ Coming + lost >= TailLen /\ Clear(line)
        /\ command \in Slow => Head(line) = "dctl 0"
    BY <1>8 DEF Last
  <2>2. Clear(line') /\ Head(line) \notin Movers
    BY <1>3, <2>1
  <2>3. CASE 1 \in Rounds(line) /\ "power" \in status
    <3>1. Coming + lost >= TailLen
      BY <2>1
    <3>. QED BY <1>6, <2>1, <2>3
  <2>4. CASE 1 \in Rounds(line) /\ "power" \notin status
    <3>1. Head(line) = "halt" /\ command \notin Slow
      BY <1>3, <2>1, <2>4
    <3>2. MessageCbVel("halt")
      BY <1>1, <3>1 DEF Receive
    <3>3. wheels' = Mindful(0) /\ command' = command
      BY <2>4, <3>2 DEF MessageCbVel
    <3>4. Mindful(0) = Still
      BY DEF Mindful, Still
    <3>. QED BY <2>2, <3>1, <3>3, <3>4 DEF Stopped, Obeyed
  <2>5. CASE 1 \notin Rounds(line)
    <3>1. Count(line') >= Count(line)
      BY <1>3, <2>5
    <3>2. \A a, b, t, l, m, n \in Nat :
            b >= a /\ m >= l /\ a + t + l >= n => b + t + m >= n
      OBVIOUS
    <3>3. Coming' + lost' >= TailLen
      BY <1>1, <1>2, <1>4, <2>1, <3>1, <3>2 DEF Coming
    <3>4. CASE Head(line) \in {"go", "halt"}
      <4>1. command \notin Slow /\ command' = command
        BY <1>1, <2>1, <3>4 DEF Receive, MessageCbVel
      <4>. QED BY <2>2, <3>3, <4>1 DEF Last, Obeyed
    <3>5. CASE Head(line) \notin {"go", "halt"}
      <4>1. MessageCbCmd(Head(line))
        BY <1>1, <3>5 DEF Receive
      <4>2. command' \notin Slow
        BY <2>2, <4>1 DEF MessageCbCmd, Movers, Slow
      <4>. QED BY <2>2, <3>3, <4>2 DEF Last, Obeyed
    <3>. QED BY <3>4, <3>5
  <2>. QED BY <2>3, <2>4, <2>5
<1>. QED BY <1>2, <1>5, <1>7, <1>8 DEF Obeyed

(* What the commands stream, and where their tails go.                     *)
LEMMA Setpoints ==
  ASSUME NEW name \in CommandName
  PROVE  /\ Setpoint(name) \in Frame
         /\ Channel(name) # "__estop__"
         /\ Setpoint(name) \in Movers => ActuatorOf(name) = "drive" /\ name # "stop"
<1>1. /\ "go" \in Frame /\ "halt" \in Frame /\ "dctl" \in Frame /\ "beep_on" \in Frame
      /\ "beep_off" \in Frame /\ "gun_on" \in Frame /\ "gun_off" \in Frame
      /\ "calibr" \in Frame /\ "calibr_speed" \in Frame
  BY DEF Frame
<1>2. \/ name = "move" \/ name = "dctl" \/ name = "beep" \/ name = "beep_on"
      \/ name = "beep_off" \/ name = "gun_on" \/ name = "gun_off"
      \/ name = "compass_calibr" \/ name = "set_calibr_speed" \/ name = "stop"
      \/ name = "hold"
  BY DEF CommandName, Motion, OneShot
<1>3. Setpoint(name) \in Frame
  BY <1>1, <1>2 DEF Setpoint
<1>4. Channel(name) # "__estop__"
  BY <1>2 DEF Channel
<1>5. Setpoint(name) \in Movers => ActuatorOf(name) = "drive" /\ name # "stop"
  BY <1>2 DEF Setpoint, Movers, ActuatorOf
<1>. QED BY <1>3, <1>4, <1>5

(* The driver says something, or nothing.                                  *)
LEMMA SayKeeps ==
  ASSUME StopTypes, StopTypes', lost <= MaxLost => Obeyed, UNCHANGED <<robotVars, lost>>,
         \/ /\ line' = line \/ \E f \in Frame : f \notin Movers /\ line' = Append(line, f)
            /\ tail'["__estop__"].left = tail["__estop__"].left
         \/ /\ line' = line \o Stops
            /\ tail'["__estop__"].left + 1 = tail["__estop__"].left
  PROVE  lost' <= MaxLost => Obeyed'
<1>1. line \in Seq(Frame) /\ line' \in Seq(Frame)
  BY DEF StopTypes
<1>2. /\ Count(line) \in Nat /\ Count(line') \in Nat
      /\ tail["__estop__"].left \in Nat
  BY <1>1, CountType, ComingType
<1>3. tail'["__estop__"].left \in Nat
  BY DEF StopTypes, Slot
<1>4. Coming \in Nat /\ Coming' \in Nat
  BY <1>2, <1>3 DEF Coming
<1>5. /\ Clear(line) => Clear(line')
      /\ Coming' >= Coming
      /\ line # <<>> => line' # <<>> /\ Head(line') = Head(line)
  <2>1. CASE line' = line /\ tail'["__estop__"].left = tail["__estop__"].left
    BY <1>2, <2>1 DEF Coming
  <2>2. ASSUME NEW f \in Frame, f \notin Movers, line' = Append(line, f),
               tail'["__estop__"].left = tail["__estop__"].left
        PROVE  /\ Clear(line) => Clear(line')
               /\ Coming' >= Coming
               /\ line # <<>> => line' # <<>> /\ Head(line') = Head(line)
    <3>1. /\ Clear(line) => Clear(line')
          /\ Count(line') >= Count(line)
          /\ line # <<>> => line' # <<>> /\ Head(line') = Head(line)
      BY <1>1, <2>2, AppendGrows
    <3>2. \A a, b, t \in Nat : b >= a => b + t >= a + t
      OBVIOUS
    <3>. QED BY <1>2, <2>2, <3>1, <3>2 DEF Coming
  <2>3. CASE /\ line' = line \o Stops
             /\ tail'["__estop__"].left + 1 = tail["__estop__"].left
    <3>1. /\ Clear(line) => Clear(line')
          /\ Count(line') >= Count(line) + 1
          /\ line # <<>> => line' # <<>> /\ Head(line') = Head(line)
      BY <1>1, <2>3, StopsGrow
    <3>2. \A a, b, t, u \in Nat : b >= a + 1 /\ u + 1 = t => b + u >= a + t
      OBVIOUS
    <3>. QED BY <1>2, <1>3, <2>3, <3>1, <3>2 DEF Coming
  <2>. QED BY <2>1, <2>2, <2>3
<1>6. ASSUME Obeyed PROVE Obeyed'
  BY <1>4, <1>5, <1>6, MoreIsSaid
<1>7. lost' = lost
  OBVIOUS
<1>. QED BY <1>6, <1>7

(* What the driver does with its tails keeps their types.                  *)
LEMMA TailTypes ==
  ASSUME StopTypes, NEW slots,
         \/ \E s : slots = CancelTail(tail, s) /\ s # "__estop__"
         \/ \E s \in {"drive", "beep"}, f \in TailFrame, n \in Nat :
              /\ f = "none" <=> n = 0
              /\ slots = [tail EXCEPT ![s] = [frame |-> f, left |-> n]]
         \/ \E f \in {"none", "stops"}, n \in Nat :
              /\ f = "none" <=> n = 0
              /\ slots = [tail EXCEPT !["__estop__"] = [frame |-> f, left |-> n]]
  PROVE  /\ slots \in [Slot -> [frame : TailFrame \cup {"stops"}, left : Nat]]
         /\ \A s \in {"drive", "beep"} : slots[s].frame \in TailFrame
         /\ slots["__estop__"].frame \in {"none", "stops"}
         /\ \A r \in Slot : slots[r].frame = "none" <=> slots[r].left = 0
<1>. USE DEF StopTypes
<1>1. NoTail \in [frame : TailFrame \cup {"stops"}, left : Nat]
      /\ NoTail.frame \in TailFrame /\ NoTail.frame = "none" /\ NoTail.left = 0
  BY DEF NoTail, TailFrame
<1>2. CASE \E s : slots = CancelTail(tail, s) /\ s # "__estop__"
  <2>1. PICK s : slots = CancelTail(tail, s) /\ s # "__estop__"
    BY <1>2
  <2>2. slots = [r \in Slot |-> IF r = s THEN NoTail ELSE tail[r]]
    BY <2>1 DEF CancelTail
  <2>. QED BY <1>1, <2>1, <2>2 DEF Slot
<1>3. CASE \E s \in {"drive", "beep"}, f \in TailFrame, n \in Nat :
             /\ f = "none" <=> n = 0
             /\ slots = [tail EXCEPT ![s] = [frame |-> f, left |-> n]]
  <2>1. PICK s \in {"drive", "beep"}, f \in TailFrame, n \in Nat :
          /\ f = "none" <=> n = 0
          /\ slots = [tail EXCEPT ![s] = [frame |-> f, left |-> n]]
    BY <1>3
  <2>2. /\ s \in Slot /\ s # "__estop__"
        /\ [frame |-> f, left |-> n] \in [frame : TailFrame \cup {"stops"}, left : Nat]
    BY <2>1 DEF Slot
  <2>. QED BY <2>1, <2>2 DEF Slot
<1>4. CASE \E f \in {"none", "stops"}, n \in Nat :
             /\ f = "none" <=> n = 0
             /\ slots = [tail EXCEPT !["__estop__"] = [frame |-> f, left |-> n]]
  <2>1. PICK f \in {"none", "stops"}, n \in Nat :
             /\ f = "none" <=> n = 0
             /\ slots = [tail EXCEPT !["__estop__"] = [frame |-> f, left |-> n]]
    BY <1>4
  <2>2. [frame |-> f, left |-> n] \in [frame : TailFrame \cup {"stops"}, left : Nat]
    BY <2>1 DEF TailFrame
  <2>. QED BY <2>1, <2>2 DEF Slot
<1>. QED BY <1>2, <1>3, <1>4

(* The commands of the scheduler: one that turns the wheels ends what a    *)
(* stop_all promised.                                                      *)
LEMMA CommandKeeps ==
  ASSUME StopInv, NEW name \in CommandName, Command(name)
  PROVE  StopInv'
<1>1. /\ line' = Append(line, Setpoint(name))
      /\ tail' = CancelTail(tail, Channel(name))
      /\ \E n \in Burst(name) : cmd' = [name |-> name, left |-> n - 1, cancelled |-> FALSE]
      /\ halted' = (halted /\ (ActuatorOf(name) # "drive" \/ name = "stop"))
      /\ UNCHANGED <<robotVars, lost>>
  BY DEF Command, ExecuteCommand, Publish
<1>2. Setpoint(name) \in Frame /\ Channel(name) # "__estop__"
  BY Setpoints
<1>3. StopTypes'
  <2>1. line' \in Seq(Frame)
    BY <1>1, <1>2, AppendProperties DEF StopInv, StopTypes
  <2>2. /\ cmd' \in [name : CommandName \cup {"none"}, left : Int, cancelled : BOOLEAN]
        /\ cmd'.name = "none" => cmd' = Nothing
    <3>1. Burst(name) \subseteq Int
      BY BurstAssumption DEF Burst, CommandName, Motion, OneShot
    <3>2. name # "none"
      BY DEF CommandName, Motion, OneShot
    <3>. QED BY <1>1, <3>1, <3>2
  <2>3. /\ tail' \in [Slot -> [frame : TailFrame \cup {"stops"}, left : Nat]]
        /\ \A s \in {"drive", "beep"} : tail'[s].frame \in TailFrame
        /\ tail'["__estop__"].frame \in {"none", "stops"}
        /\ \A r \in Slot : tail'[r].frame = "none" <=> tail'[r].left = 0
    BY <1>1, <1>2, TailTypes DEF StopInv
  <2>4. lost' \in 0..(MaxLost + 1) /\ halted' \in BOOLEAN
    BY <1>1 DEF StopInv, StopTypes
  <2>. QED BY <2>1, <2>2, <2>3, <2>4 DEF StopTypes
<1>4. ASSUME halted' PROVE NoneDrives' /\ (lost' <= MaxLost => Obeyed')
  <2>1. halted /\ (ActuatorOf(name) # "drive" \/ name = "stop")
    BY <1>1, <1>4
  <2>2. Setpoint(name) \notin Movers
    BY <2>1, Setpoints
  <2>3. cmd'.name = name
    BY <1>1
  <2>4. NoneDrives'
    BY <2>2, <2>3 DEF NoneDrives
  <2>5. tail'["__estop__"].left = tail["__estop__"].left
    BY <1>1, <1>2 DEF CancelTail, Slot
  <2>6. lost <= MaxLost => Obeyed
    BY <2>1 DEF StopInv
  <2>7. lost' <= MaxLost => Obeyed'
    BY <1>1, <1>2, <1>3, <2>2, <2>5, <2>6, SayKeeps DEF StopInv
  <2>. QED BY <2>4, <2>7
<1>. QED BY <1>3, <1>4 DEF StopInv

(* stop_all itself: from now on the stop is to come once more than it is   *)
(* repeated.                                                               *)
LEMMA StopAllKeeps ==
  ASSUME StopInv, StopAll
  PROVE  StopInv'
<1>1. /\ line' = line \o Stops
      /\ cmd' = IF cmd = Nothing THEN cmd ELSE [cmd EXCEPT !.cancelled = TRUE]
      /\ tail' = [s \in Slot |-> IF s = "__estop__" THEN [frame |-> "stops", left |-> TailLen]
                                 ELSE NoTail]
      /\ halted' = TRUE /\ lost' = lost
  BY DEF StopAll, EmergencyStop, PublishStops, EstopTail
<1>2. line \in Seq(Frame) /\ lost \in Nat /\ TailLen \in Nat /\ TailLen # 0
      /\ Count(line) \in Nat
  BY ComingType, BurstAssumption DEF StopInv, StopTypes
<1>3. line' \in Seq(Frame) /\ Count(line') >= Count(line) + 1
  BY <1>1, <1>2, StopsGrow
<1>4. tail'["__estop__"] = [frame |-> "stops", left |-> TailLen]
  BY <1>1 DEF Slot
<1>5. StopTypes'
  <2>1. /\ cmd' \in [name : CommandName \cup {"none"}, left : Int, cancelled : BOOLEAN]
        /\ cmd'.name = "none" => cmd' = Nothing
    BY <1>1 DEF StopInv, StopTypes
  <2>2. tail' \in [Slot -> [frame : TailFrame \cup {"stops"}, left : Nat]]
    BY <1>1, <1>2 DEF NoTail, TailFrame
  <2>3. \A s \in {"drive", "beep"} : tail'[s].frame \in TailFrame
    BY <1>1 DEF NoTail, TailFrame, Slot
  <2>4. lost' \in 0..(MaxLost + 1) /\ halted' \in BOOLEAN
    BY <1>1 DEF StopInv, StopTypes
  <2>5. \A r \in Slot : tail'[r].frame = "none" <=> tail'[r].left = 0
    BY <1>1, <1>2 DEF NoTail
  <2>. QED BY <1>2, <1>3, <1>4, <2>1, <2>2, <2>3, <2>4, <2>5 DEF StopTypes
<1>6. NoneDrives'
  <2>1. CASE cmd = Nothing
    <3>1. cmd'.name = "none"
      BY <1>1, <2>1 DEF Nothing
    <3>2. Setpoint("none") \notin Movers
      BY DEF Setpoint, Movers
    <3>. QED BY <3>1, <3>2 DEF NoneDrives
  <2>2. CASE cmd # Nothing
    BY <1>1, <2>2 DEF NoneDrives, StopInv, StopTypes
  <2>. QED BY <2>1, <2>2
<1>7. Enough'
  <2>1. \A a, b, l, n \in Nat : b >= a + 1 => b + n + l >= n + 1
    OBVIOUS
  <2>2. Count(line') \in Nat
    BY <1>3, CountType
  <2>3. Count(line') + TailLen + lost >= TailLen + 1
    BY <1>2, <1>3, <2>1, <2>2
  <2>4. Coming' = Count(line') + TailLen
    BY <1>4 DEF Coming
  <2>. QED BY <1>1, <2>3, <2>4 DEF Enough
<1>. QED BY <1>5, <1>6, <1>7 DEF StopInv, Obeyed

(* Interruptions, restarts and setpoints of procedures.                    *)
LEMMA CallKeeps ==
  ASSUME StopInv, DriverCalled
  PROVE  StopInv'
<1>1. UNCHANGED <<robotVars, lost>>
  BY DEF DriverCalled
<1>2. CASE Interrupt
  <2>1. cmd # Nothing /\ cmd' = [cmd EXCEPT !.cancelled = TRUE]
        /\ UNCHANGED <<tail, line, halted>>
    BY <1>2 DEF Interrupt
  <2>2. StopTypes'
    BY <1>1, <2>1 DEF StopInv, StopTypes
  <2>3. NoneDrives'
    BY <2>1 DEF NoneDrives, StopInv, StopTypes
  <2>4. (lost <= MaxLost => Obeyed) => (lost' <= MaxLost => Obeyed')
    BY <1>1, <2>1, <2>2, SayKeeps DEF StopInv
  <2>. QED BY <2>1, <2>2, <2>3, <2>4 DEF StopInv
<1>3. CASE TeardownTelemetry
  <2>1. /\ tail' = [s \in Slot |-> NoTail] /\ line' = <<>> /\ halted' = FALSE /\ cmd' = cmd
    BY <1>3 DEF TeardownTelemetry
  <2>2. /\ tail' \in [Slot -> [frame : TailFrame \cup {"stops"}, left : Nat]]
        /\ \A s \in Slot : tail'[s].frame = "none" /\ tail'[s].left = 0
    BY <2>1 DEF NoTail, TailFrame
  <2>3. line' \in Seq(Frame)
    BY <2>1
  <2>. QED BY <1>1, <2>1, <2>2, <2>3 DEF StopInv, StopTypes, TailFrame, Slot
<1>4. ASSUME NEW f \in {"go", "halt"}, SetVelocity(f)
      PROVE  StopInv'
  <2>1. /\ line' = Append(line, f)
        /\ tail' = [tail EXCEPT !["drive"] = [frame |-> "deadman", left |-> TailLen]]
        /\ halted' = FALSE /\ cmd' = cmd
    BY <1>4 DEF SetVelocity, Publish
  <2>2. f \in Frame
    BY DEF Frame
  <2>3. line' \in Seq(Frame)
    BY <2>1, <2>2, AppendProperties DEF StopInv, StopTypes
  <2>4. "deadman" \in TailFrame /\ TailLen \in Nat /\ TailLen # 0
    BY BurstAssumption DEF TailFrame
  <2>5. /\ tail' \in [Slot -> [frame : TailFrame \cup {"stops"}, left : Nat]]
        /\ \A s \in {"drive", "beep"} : tail'[s].frame \in TailFrame
        /\ tail'["__estop__"].frame \in {"none", "stops"}
        /\ \A r \in Slot : tail'[r].frame = "none" <=> tail'[r].left = 0
    BY <2>1, <2>4, TailTypes DEF StopInv
  <2>. QED BY <1>1, <2>1, <2>3, <2>5 DEF StopInv, StopTypes
<1>. QED BY <1>2, <1>3, <1>4 DEF DriverCalled

(* The driver's tasks.                                                     *)
LEMMA DriverKeeps ==
  ASSUME StopInv, DriverWorks
  PROVE  StopInv'
<1>1. UNCHANGED <<robotVars, lost>>
  BY DEF DriverWorks
<1>2. ASSUME StopTypes', halted' = halted, halted => NoneDrives',
             \/ /\ \/ line' = line
                   \/ \E f \in Frame : /\ halted => f \notin Movers
                                       /\ line' = Append(line, f)
                /\ tail'["__estop__"].left = tail["__estop__"].left
             \/ /\ line' = line \o Stops
                /\ tail'["__estop__"].left + 1 = tail["__estop__"].left
      PROVE  StopInv'
  <2>1. ASSUME halted PROVE lost' <= MaxLost => Obeyed'
    BY <1>1, <1>2, <2>1, SayKeeps DEF StopInv
  <2>. QED BY <1>2, <2>1 DEF StopInv
<1>3. CASE CommandResumes
  <2>1. halted' = halted
    BY <1>3 DEF CommandResumes
  <2>2. CASE /\ ~cmd.cancelled /\ cmd.left > 0
             /\ Publish(Setpoint(cmd.name))
             /\ cmd' = [cmd EXCEPT !.left = @ - 1]
             /\ UNCHANGED <<tail, promise>>
    <3>1. cmd # Nothing /\ cmd.left \in Int /\ cmd.name \in CommandName
      BY <1>3 DEF CommandResumes, StopInv, StopTypes
    <3>2. line' = Append(line, Setpoint(cmd.name)) /\ tail' = tail
      BY <2>2 DEF Publish
    <3>3. /\ cmd' \in [name : CommandName \cup {"none"}, left : Int, cancelled : BOOLEAN]
          /\ cmd'.name = cmd.name /\ cmd'.cancelled = cmd.cancelled
      <4>1. PICK n \in Int : cmd' = [cmd EXCEPT !.left = n]
        BY <2>2, <3>1
      <4>. QED BY <4>1 DEF StopInv, StopTypes
    <3>4. cmd.name # "none"
      BY <3>1 DEF CommandName, Motion, OneShot
    <3>5. Setpoint(cmd.name) \in Frame
      BY <3>1, Setpoints
    <3>6. halted => Setpoint(cmd.name) \notin Movers
      BY <2>2 DEF StopInv, NoneDrives
    <3>7. line' \in Seq(Frame)
      BY <3>2, <3>5, AppendProperties DEF StopInv, StopTypes
    <3>8. StopTypes'
      BY <1>1, <2>1, <3>2, <3>3, <3>4, <3>7 DEF StopInv, StopTypes
    <3>9. halted => NoneDrives'
      BY <3>3, <3>6 DEF NoneDrives
    <3>. QED BY <1>2, <2>1, <3>2, <3>5, <3>6, <3>8, <3>9
  <2>3. CASE CommandEnds
    <3>1. /\ cmd' = Nothing /\ line' = line
          /\ IF cmd.name \in Motion
               THEN tail' = [tail EXCEPT ![Channel(cmd.name)] =
                               [frame |-> OffFrame(cmd.name), left |-> TailLen]]
               ELSE tail' = tail
      BY <2>3 DEF CommandEnds, StartTail
    <3>2. cmd' \in [name : CommandName \cup {"none"}, left : Int, cancelled : BOOLEAN]
      BY <3>1 DEF Nothing
    <3>3. NoneDrives'
      <4>1. cmd'.name = "none"
        BY <3>1 DEF Nothing
      <4>2. Setpoint("none") \notin Movers
        BY DEF Setpoint, Movers
      <4>. QED BY <4>1, <4>2 DEF NoneDrives
    <3>4. /\ tail' \in [Slot -> [frame : TailFrame \cup {"stops"}, left : Nat]]
          /\ \A s \in {"drive", "beep"} : tail'[s].frame \in TailFrame
          /\ tail'["__estop__"].frame \in {"none", "stops"}
          /\ \A r \in Slot : tail'[r].frame = "none" <=> tail'[r].left = 0
          /\ tail'["__estop__"].left = tail["__estop__"].left
      <4>1. CASE cmd.name \in Motion
        <5>1. /\ Channel(cmd.name) \in {"drive", "beep"}
              /\ OffFrame(cmd.name) \in TailFrame /\ OffFrame(cmd.name) # "none"
          BY <4>1 DEF Channel, OffFrame, Motion, TailFrame
        <5>2. tail' = [tail EXCEPT ![Channel(cmd.name)] =
                         [frame |-> OffFrame(cmd.name), left |-> TailLen]]
          BY <3>1, <4>1
        <5>3. tail'["__estop__"].left = tail["__estop__"].left
          BY <5>1, <5>2 DEF StopInv, StopTypes, Slot
        <5>4. TailLen \in Nat /\ TailLen # 0
          BY BurstAssumption
        <5>. QED BY <5>1, <5>2, <5>3, <5>4, TailTypes DEF StopInv
      <4>2. CASE cmd.name \notin Motion
        BY <3>1, <4>2 DEF StopInv, StopTypes
      <4>. QED BY <4>1, <4>2
    <3>5. StopTypes'
      BY <1>1, <2>1, <3>1, <3>2, <3>4 DEF StopInv, StopTypes
    <3>. QED BY <1>2, <2>1, <3>1, <3>3, <3>4, <3>5
  <2>. QED BY <1>3, <2>2, <2>3 DEF CommandResumes
<1>4. CASE DeadmanFires
  <2>1. /\ tail' = [tail EXCEPT !["drive"].frame = "halt"]
        /\ UNCHANGED <<cmd, line, halted>>
    BY <1>4 DEF DeadmanFires
  <2>2. tail' = [tail EXCEPT !["drive"] = [frame |-> "halt", left |-> tail["drive"].left]]
        /\ tail["drive"].left \in Nat /\ tail["drive"].left # 0
        /\ "halt" \in TailFrame
    <3>1. tail["drive"] \in [frame : TailFrame \cup {"stops"}, left : Nat]
      BY DEF StopInv, StopTypes, Slot
    <3>2. [tail["drive"] EXCEPT !.frame = "halt"] = [frame |-> "halt", left |-> tail["drive"].left]
      BY <3>1
    <3>3. tail["drive"].left # 0
      BY <1>4 DEF DeadmanFires, StopInv, StopTypes, Slot
    <3>. QED BY <2>1, <3>1, <3>2, <3>3 DEF TailFrame
  <2>3. /\ tail' \in [Slot -> [frame : TailFrame \cup {"stops"}, left : Nat]]
        /\ \A s \in {"drive", "beep"} : tail'[s].frame \in TailFrame
        /\ tail'["__estop__"].frame \in {"none", "stops"}
        /\ \A r \in Slot : tail'[r].frame = "none" <=> tail'[r].left = 0
    BY <2>2, TailTypes DEF StopInv
  <2>4. tail'["__estop__"].left = tail["__estop__"].left
    BY <2>2 DEF StopInv, StopTypes, Slot
  <2>5. StopTypes'
    BY <1>1, <2>1, <2>3 DEF StopInv, StopTypes
  <2>6. halted => NoneDrives'
    BY <2>1 DEF NoneDrives, StopInv
  <2>. QED BY <1>2, <2>1, <2>4, <2>5, <2>6
<1>5. ASSUME NEW s \in Slot, TailPublishes(s) PROVE StopInv'
  <2>1. /\ UNCHANGED <<cmd, halted>> /\ tail[s].frame \notin {"none", "deadman"}
        /\ IF s = "__estop__" THEN line' = line \o Stops
                              ELSE line' = Append(line, tail[s].frame)
    BY <1>5 DEF TailPublishes, Publish, PublishStops
  <2>2. tail' = [tail EXCEPT ![s] = IF tail[s].left = 1 THEN NoTail
                             ELSE [frame |-> tail[s].frame, left |-> tail[s].left - 1]]
    BY <1>5 DEF TailPublishes
  <2>3. halted => NoneDrives'
    BY <2>1 DEF NoneDrives, StopInv
  <2>4. /\ StopTypes /\ NoTail = [frame |-> "none", left |-> 0] /\ tail[s].left \in Nat
        /\ "none" \in TailFrame
    BY DEF StopInv, StopTypes, NoTail, TailFrame
  <2>5. CASE s = "__estop__"
    <3>1. tail[s].frame = "stops" /\ tail[s].left # 0 /\ tail[s].left \in Nat
      BY <2>1, <2>5 DEF StopInv, StopTypes
    <3>2. PICK f \in {"none", "stops"}, n \in Nat :
            /\ f = "none" <=> n = 0
            /\ n + 1 = tail[s].left
            /\ tail' = [tail EXCEPT !["__estop__"] = [frame |-> f, left |-> n]]
      <4>1. CASE tail[s].left = 1
        <5>1. tail' = [tail EXCEPT !["__estop__"] = [frame |-> "none", left |-> 0]]
          BY <2>2, <2>4, <2>5, <4>1
        <5>2. 0 + 1 = tail[s].left
          BY <4>1
        <5>. QED BY <5>1, <5>2
      <4>2. CASE tail[s].left # 1
        <5>1. tail[s].left - 1 \in Nat /\ tail[s].left - 1 # 0
              /\ (tail[s].left - 1) + 1 = tail[s].left
          BY <3>1, <4>2
        <5>. QED BY <2>2, <2>5, <3>1, <4>2, <5>1
      <4>. QED BY <4>1, <4>2
    <3>3. /\ tail' \in [Slot -> [frame : TailFrame \cup {"stops"}, left : Nat]]
          /\ \A r \in {"drive", "beep"} : tail'[r].frame \in TailFrame
          /\ tail'["__estop__"].frame \in {"none", "stops"}
          /\ \A r \in Slot : tail'[r].frame = "none" <=> tail'[r].left = 0
      BY <2>4, <3>2, TailTypes
    <3>4. tail'["__estop__"].left + 1 = tail["__estop__"].left
      BY <2>4, <2>5, <3>2 DEF StopTypes
    <3>5. line' = line \o Stops /\ line' \in Seq(Frame)
      BY <2>1, <2>5, StopsGrow DEF StopInv, StopTypes
    <3>6. StopTypes'
      BY <1>1, <2>1, <2>4, <3>3, <3>5 DEF StopTypes
    <3>. QED BY <1>2, <2>1, <2>3, <3>4, <3>5, <3>6
  <2>6. CASE s # "__estop__"
    <3>1. /\ s \in {"drive", "beep"} /\ tail[s].frame \in {"halt", "dctl 0", "beep_off"}
          /\ tail[s].left # 0
      BY <2>1, <2>6 DEF StopInv, StopTypes, Slot, TailFrame
    <3>2. PICK f \in TailFrame, n \in Nat :
            /\ f = "none" <=> n = 0
            /\ tail' = [tail EXCEPT ![s] = [frame |-> f, left |-> n]]
      <4>1. CASE tail[s].left = 1
        <5>1. tail' = [tail EXCEPT ![s] = [frame |-> "none", left |-> 0]]
          BY <2>2, <2>4, <4>1
        <5>. QED BY <2>4, <5>1
      <4>2. CASE tail[s].left # 1
        <5>1. tail[s].left - 1 \in Nat /\ tail[s].left - 1 # 0
          <6>1. \A n \in Nat : n # 0 /\ n # 1 => n - 1 \in Nat /\ n - 1 # 0
            OBVIOUS
          <6>2. tail[s].left \in Nat
            BY <2>4
          <6>3. tail[s].left # 0
            BY <3>1
          <6>. QED BY <4>2, <6>1, <6>2, <6>3
        <5>2. tail[s].frame \in TailFrame /\ tail[s].frame # "none"
          BY <3>1 DEF TailFrame
        <5>3. tail' = [tail EXCEPT ![s] = [frame |-> tail[s].frame, left |-> tail[s].left - 1]]
          BY <2>2, <4>2
        <5>. QED BY <5>1, <5>2, <5>3
      <4>. QED BY <4>1, <4>2
    <3>3. /\ tail' \in [Slot -> [frame : TailFrame \cup {"stops"}, left : Nat]]
          /\ \A r \in {"drive", "beep"} : tail'[r].frame \in TailFrame
          /\ tail'["__estop__"].frame \in {"none", "stops"}
          /\ \A r \in Slot : tail'[r].frame = "none" <=> tail'[r].left = 0
      BY <2>4, <3>1, <3>2, TailTypes
    <3>4. tail'["__estop__"].left = tail["__estop__"].left
      BY <2>2, <2>4, <2>6 DEF StopTypes, Slot
    <3>5. tail[s].frame \in Frame /\ tail[s].frame \notin Movers
      BY <3>1 DEF Frame, Movers
    <3>6. line' = Append(line, tail[s].frame) /\ line' \in Seq(Frame)
      <4>1. line' = Append(line, tail[s].frame)
        BY <2>1, <2>6
      <4>2. line \in Seq(Frame)
        BY DEF StopInv, StopTypes
      <4>. QED BY <3>5, <4>1, <4>2, AppendProperties
    <3>7. StopTypes'
      BY <1>1, <2>1, <2>4, <3>3, <3>6 DEF StopTypes
    <3>. QED BY <1>2, <2>1, <2>3, <3>4, <3>5, <3>6, <3>7
  <2>. QED BY <2>5, <2>6
<1>. QED BY <1>3, <1>4, <1>5 DEF DriverWorks

(* Every step of the driver, of the line and of the robot.                 *)
LEMMA StepStopInv == StopInv /\ WatchdogInv /\ [Next]_vars => StopInv'
<1> SUFFICES ASSUME StopInv, WatchdogInv, [Next]_vars PROVE StopInv'
  OBVIOUS
<1>1. CASE \E name \in CommandName : Command(name)
  BY <1>1, CommandKeeps
<1>2. CASE StopAll
  BY <1>2, StopAllKeeps
<1>3. CASE DriverCalled
  BY <1>3, CallKeeps
<1>4. CASE DriverWorks
  BY <1>4, DriverKeeps
<1>5. ASSUME UNCHANGED <<cmd, tail, halted>>, line' \in Seq(Frame),
             lost' \in 0..(MaxLost + 1),
             halted => (lost' <= MaxLost => Obeyed')
      PROVE  StopInv'
  <2>1. StopTypes'
    BY <1>5 DEF StopInv, StopTypes
  <2>2. halted => NoneDrives'
    BY <1>5 DEF StopInv, NoneDrives
  <2>. QED BY <1>5, <2>1, <2>2 DEF StopInv
<1>6. Loss => lost' \in 0..(MaxLost + 1)
  <2>1. lost \in 0..(MaxLost + 1) /\ MaxLost \in Nat
    BY LossAssumption DEF StopInv, StopTypes
  <2>. QED BY <2>1 DEF Loss
<1>7. CASE FrameLost
  <2>1. UNCHANGED <<cmd, tail, halted>> /\ line' = Tail(line) /\ line # <<>> /\ Loss
    BY <1>7 DEF FrameLost
  <2>2. line' \in Seq(Frame)
    BY <2>1, CountTail DEF StopInv, StopTypes
  <2>. QED BY <1>5, <1>6, <1>7, <2>1, <2>2, LossKeeps DEF StopInv
<1>8. CASE FrameArrives
  <2>1. /\ UNCHANGED <<cmd, tail, halted>> /\ line' = Tail(line) /\ line # <<>>
        /\ Loss \/ lost' = lost
    BY <1>8 DEF FrameArrives
  <2>2. line' \in Seq(Frame)
    BY <2>1, CountTail DEF StopInv, StopTypes
  <2>3. lost' \in 0..(MaxLost + 1)
    BY <1>6, <2>1 DEF StopInv, StopTypes
  <2>. QED BY <1>5, <1>8, <2>1, <2>2, <2>3, ArrivalKeeps DEF StopInv
<1>9. CASE RobotPasses \/ RobotTicks \/ SurroundingsChange
  <2>1. UNCHANGED <<cmd, tail, line, halted, lost>>
    BY <1>9 DEF RobotPasses, RobotTicks, SurroundingsChange, driverVars
  <2>2. Pass \/ \E sensed : Tick(sensed)
    BY <1>9 DEF RobotPasses, RobotTicks, SurroundingsChange
  <2>3. Obeyed => Obeyed'
    BY <2>1, <2>2, PassAndTick DEF StopInv, WatchdogInv
  <2>4. line' \in Seq(Frame) /\ lost' \in 0..(MaxLost + 1)
    BY <2>1 DEF StopInv, StopTypes
  <2>. QED BY <1>5, <2>1, <2>3, <2>4 DEF StopInv
<1>10. CASE UNCHANGED vars
  <2>1. UNCHANGED <<cmd, tail, line, halted, lost, wheels, calibr, command>>
    BY <1>10 DEF vars, driverVars, robotVars
  <2>2. Coming' = Coming
    BY <2>1 DEF Coming
  <2>3. Obeyed => Obeyed'
    BY <2>1, <2>2 DEF Obeyed, Stopped, Enough, Last, Calibrating
  <2>4. line' \in Seq(Frame) /\ lost' \in 0..(MaxLost + 1)
    BY <2>1 DEF StopInv, StopTypes
  <2>. QED BY <1>5, <2>1, <2>3, <2>4 DEF StopInv
<1>. QED BY <1>1, <1>2, <1>3, <1>4, <1>7, <1>8, <1>9, <1>10 DEF Next

(* After a stop_all the wheels stand as soon as everything said has        *)
(* arrived, whatever was under way or stored, unless more was lost than    *)
(* the repeats of _estop_tail() make up for.                               *)
THEOREM StopAllIsObeyed == Spec => []StopAllStopsTheWheels
<1>1. Init => StopInv /\ WatchdogInv
  BY InitStopInv, InitWatchdog DEF Init
<1>2. StopInv /\ WatchdogInv /\ [Next]_vars => (StopInv /\ WatchdogInv)'
  BY StepStopInv, StepWatchdog
<1>3. StopInv => StopAllStopsTheWheels
  BY StopInvHolds
<1>. QED BY <1>1, <1>2, <1>3, PTL DEF Spec
=============================================================================
