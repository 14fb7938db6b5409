---------------------- MODULE CommandScheduler_proofs ----------------------
(***************************************************************************)
(* Machine-checked proofs about CommandScheduler, for any finite sets of   *)
(* devices and commands and any clients and integer priorities.            *)
(***************************************************************************)
EXTENDS CommandScheduler, FiniteSetTheorems, TLAPS

---------------------------------------------------------------------------
(* Type correctness.                                                       *)

(* TypeOK is not inductive: that the command entering the driver is a      *)
(* command needs that a worker that executes holds one.                    *)
TypeInv == TypeOK /\ WorkerConsistent

(* The number of queues of a new command is a natural number.              *)
LEMMA CardinalityType ==
  /\ \A ds \in SUBSET Device : QueueCount(ds) \in Nat
  /\ Cardinality(Issued) \in Nat
<1>1. ASSUME NEW ds \in SUBSET Device
      PROVE  QueueCount(ds) \in Nat
  <2>1. IsFiniteSet(ds)
    BY SchedulerAssumption, FS_Subset
  <2>. QED BY <2>1, FS_CardinalityType DEF QueueCount
<1>2. Cardinality(Issued) \in Nat
  <2>1. Issued \subseteq Command
    BY DEF Issued
  <2>2. IsFiniteSet(Issued)
    BY <2>1, SchedulerAssumption, FS_Subset
  <2>. QED BY <2>2, FS_CardinalityType
<1>. QED BY <1>1, <1>2

(* Settling keeps the types of the tracking state and forgets ids only.    *)
LEMMA SettleType ==
  ASSUME TypeOK, NEW d \in Device, NEW cs, NEW ex, Settle(d, cs, ex)
  PROVE  /\ pendingCounts' \in [Command -> Nat]
         /\ cancelled' \subseteq cancelled
         /\ clientCommands' \in [Client -> SUBSET Command]
         /\ \A cl \in Client : clientCommands'[cl] \subseteq clientCommands[cl]
         /\ settled' \in [Device -> [Command -> Outcome]]
<1>1. pendingCounts' \in [Command -> Nat]
  BY DEF TypeOK, Settle, LeavingLast
<1>2. cancelled' \subseteq cancelled
  BY DEF Settle
<1>3. /\ clientCommands' \in [Client -> SUBSET Command]
      /\ \A cl \in Client : clientCommands'[cl] \subseteq clientCommands[cl]
  BY DEF TypeOK, Settle
<1>4. settled' \in [Device -> [Command -> Outcome]]
  BY DEF TypeOK, Settle, Outcome
<1>. QED BY <1>1, <1>2, <1>3, <1>4

(* Taking the next command keeps the types of the worker's state.          *)
LEMMA TakeNextType ==
  ASSUME TypeInv, NEW d \in Device, TakeNext(d)
  PROVE  /\ queue' \in [Device -> SUBSET Command]
         /\ phase' \in [Device -> Phase]
         /\ held' \in [Device -> Command \cup {None}]
         /\ \A e \in Device : held'[e] = None <=> phase'[e] \in {"idle", "stopped"}
<1>. USE SchedulerAssumption DEF TypeInv, TypeOK, WorkerConsistent, Phase, Executing, AtGate
<1>1. CASE /\ queue' = [queue EXCEPT ![d] = {}]
           /\ held' = [held EXCEPT ![d] = None]
           /\ phase' = [phase EXCEPT ![d] = "idle"]
  BY <1>1
<1>2. ASSUME NEW c \in queue[d],
             queue' = [queue EXCEPT ![d] = (queue[d] \ Skippable(d)) \ {c}],
             held' = [held EXCEPT ![d] = c],
             phase' = [phase EXCEPT ![d] = IF ready[d] THEN "starting" ELSE "gate"]
      PROVE  /\ queue' \in [Device -> SUBSET Command]
             /\ phase' \in [Device -> Phase]
             /\ held' \in [Device -> Command \cup {None}]
             /\ \A e \in Device : held'[e] = None <=> phase'[e] \in {"idle", "stopped"}
  <2>1. c \in Command /\ c # None
    OBVIOUS
  <2>. QED BY <1>2, <2>1
<1>. QED BY <1>1, <1>2 DEF TakeNext, Firsts

(* Initially every worker is idle and holds nothing.                     *)
LEMMA InitTypeInv == Init => TypeInv
BY SchedulerAssumption
   DEF Init, TypeInv, TypeOK, WorkerConsistent, Phase, Outcome, Issued

(* No call and no step of a worker breaks the types, or leaves a worker  *)
(* holding a command it does not work on.                                *)
LEMMA StepTypeInv == TypeInv /\ [Next]_vars => TypeInv'
<1> SUFFICES ASSUME TypeInv, [Next]_vars PROVE TypeInv'
  OBVIOUS
<1>. USE SchedulerAssumption DEF TypeInv
<1>1. ASSUME NEW c \in Command, NEW cl \in Client, NEW ds \in SUBSET Device,
             NEW p \in Priority, Submit(c, cl, ds, p)
      PROVE  TypeInv'
  <2>1. [client |-> cl, devices |-> ds, priority |-> p, stamp |-> Cardinality(Issued)] \in Info
    BY CardinalityType DEF Info
  <2>2. PICK r \in Info : info' = [info EXCEPT ![c] = r]
    BY <1>1, <2>1 DEF Submit
  <2>5. TypeOK'
    BY <1>1, <2>2, CardinalityType DEF TypeOK, Submit
  <2>3. Issued' = Issued \cup {c}
    <3>1. r # None
      OBVIOUS
    <3>. QED BY <2>2, <3>1 DEF TypeOK, Issued
  <2>4. WorkerConsistent'
    BY <1>1, <2>3 DEF TypeOK, Submit, WorkerConsistent
  <2>. QED BY <2>5, <2>4
<1>2. ASSUME NEW c \in Command, Cancel(c)
      PROVE  TypeInv'
  BY <1>2 DEF TypeOK, Cancel, WorkerConsistent, Issued
<1>3. ASSUME NEW cl \in Client, CancelClientCommands(cl)
      PROVE  TypeInv'
  BY <1>3 DEF TypeOK, CancelClientCommands, WorkerConsistent, Issued
<1>4. CASE CancelAllPending
  BY <1>4 DEF TypeOK, CancelAllPending, WithdrawAll, WorkerConsistent, Issued
<1>5. ASSUME NEW d \in Device, PauseDevice(d)
      PROVE  TypeInv'
  BY <1>5 DEF TypeOK, PauseDevice, WorkerConsistent, Issued
<1>6. ASSUME NEW d \in Device, ResumeDevice(d)
      PROVE  TypeInv'
  BY <1>6 DEF TypeOK, ResumeDevice, WorkerConsistent, Issued, Phase, AtGate, Executing
<1>7. ASSUME CancelExec(Device) \/ \E d \in Device : CancelExec({d}),
             UNCHANGED <<info, queue, held, pendingCounts, clientCommands, cancelled,
                         settled, driven>>,
             ready' \in [Device -> BOOLEAN], running' \in BOOLEAN
      PROVE  TypeInv'
  BY <1>7 DEF TypeOK, CancelExec, WorkerConsistent, Issued, Phase, AtGate, Executing
<1>8. ASSUME NEW d \in Device, InterruptDevice(d)
      PROVE  TypeInv'
  BY <1>7, <1>8 DEF InterruptDevice, TypeOK
<1>9. CASE InterruptAllDevices
  BY <1>7, <1>9 DEF InterruptAllDevices, TypeOK
<1>10. CASE Shutdown
  BY <1>7, <1>10 DEF Shutdown, TypeOK
<1>11. ASSUME NEW d \in Device, NEW cs, NEW ex, Settle(d, cs, ex), TakeNext(d),
              UNCHANGED <<info, ready, driven, running>>
       PROVE  TypeInv'
  <2>1. TypeOK'
    BY <1>11, SettleType, TakeNextType DEF TypeOK
  <2>2. WorkerConsistent'
    BY <1>11, SettleType, TakeNextType DEF WorkerConsistent, Issued
  <2>. QED BY <2>1, <2>2
<1>12. ASSUME NEW d \in Device, Worker(d)
       PROVE  TypeInv'
  <2>1. CASE WorkerWakes(d)
    BY <1>11, <2>1 DEF WorkerWakes
  <2>2. CASE WorkerPassesGate(d)
    BY <2>2 DEF WorkerPassesGate, TypeOK, WorkerConsistent, Issued, Phase, AtGate, Executing
  <2>3. CASE WorkerSkipsHeld(d)
    BY <1>11, <2>3 DEF WorkerSkipsHeld
  <2>4. CASE ExecBegins(d)
    BY <2>4 DEF ExecBegins, TypeOK, WorkerConsistent, Issued, Phase, AtGate, Executing
  <2>5. CASE ExecEnds(d)
    BY <2>5 DEF ExecEnds, TypeOK, WorkerConsistent, Issued, Phase, AtGate, Executing
  <2>6. CASE WorkerSettles(d)
    BY <1>11, <2>6 DEF WorkerSettles
  <2>7. CASE WorkerStops(d)
    <3>1. PICK cs, ex : Settle(d, cs, ex)
      BY <2>7 DEF WorkerStops
    <3>2. TypeOK'
      BY <2>7, <3>1, SettleType DEF WorkerStops, TypeOK, Phase
    <3>3. WorkerConsistent'
      BY <2>7, <3>1, SettleType DEF WorkerStops, TypeOK, WorkerConsistent, Issued
    <3>. QED BY <3>2, <3>3
  <2>. QED BY <1>12, <2>1, <2>2, <2>3, <2>4, <2>5, <2>6, <2>7 DEF Worker
<1>13. CASE UNCHANGED vars
  BY <1>13 DEF vars, TypeOK, WorkerConsistent, Issued
<1>. QED
  BY <1>1, <1>2, <1>3, <1>4, <1>5, <1>6, <1>8, <1>9, <1>10, <1>12, <1>13 DEF Next

(* Every variable keeps its type, and a worker holds a command exactly     *)
(* while it works on one, whatever the number of devices and commands.     *)
THEOREM TypeCorrect == Spec => []TypeInv
BY InitTypeInv, StepTypeInv, PTL DEF Spec

---------------------------------------------------------------------------
(* The tracking invariant. The counters, the client entries and the        *)
(* cancelled ids are three separate tables in the code; that none of them  *)
(* is cleaned up too early or too late needs all the parts together: the   *)
(* counter says when a command leaves its last device only if no command   *)
(* is settled twice, and that follows from conservation.                   *)
TrackInv ==
  /\ TypeInv
  /\ Conservation
  /\ PendingIsExact
  /\ WaitingIsTracked
  /\ ReportsAgreeWithDriver

(* The devices a command still has to leave.                               *)
Holders(c) == {d \in Device : Present(c, d)}

(* What any run of the worker of d that settles the commands cs, those in  *)
(* ex as executed, has in common.                                          *)
WorkerRun(d, cs, ex) ==
  /\ cs \subseteq Command /\ ex \subseteq cs
  /\ \A c \in cs : Present(c, d)
  /\ Settle(d, cs, ex)
  /\ \A e \in Device \ {d} : /\ queue'[e] = queue[e]
                             /\ held'[e] = held[e]
                             /\ phase'[e] = phase[e]
  /\ \A c \in Command : /\ Present(c, d)' <=> Present(c, d) /\ c \notin cs
                        /\ Waiting(c, d)' => Waiting(c, d)
                        /\ c \in queue'[d] => held'[d] # c
                        /\ held[d] = c /\ phase[d] \in Executing => c \in ex
  /\ UNCHANGED <<info, driven>>

(* Finitely many devices hold a command.                                   *)
LEMMA HoldersFinite ==
  ASSUME NEW c
  PROVE  IsFiniteSet(Holders(c)) /\ Cardinality(Holders(c)) \in Nat
<1>1. Holders(c) \subseteq Device
  BY DEF Holders
<1>2. IsFiniteSet(Holders(c))
  BY <1>1, SchedulerAssumption, FS_Subset
<1>. QED BY <1>2, FS_CardinalityType

(* A command whose counter was at most 1 leaves its last device.           *)
LEMMA RunHolders ==
  ASSUME TrackInv, NEW d \in Device, NEW cs, NEW ex, WorkerRun(d, cs, ex)
  PROVE  /\ PendingIsExact'
         /\ \A c \in LeavingLast(cs), e \in Device : ~Present(c, e)'
<1>1. ASSUME NEW c \in Command
      PROVE  Holders(c)' = IF c \in cs THEN Holders(c) \ {d} ELSE Holders(c)
  <2>1. \A e \in Device \ {d} : Present(c, e)' <=> Present(c, e)
    BY DEF WorkerRun, Present
  <2>2. Present(c, d)' <=> Present(c, d) /\ c \notin cs
    BY DEF WorkerRun
  <2>. QED BY <2>1, <2>2 DEF Holders
<1>2. ASSUME NEW c \in cs
      PROVE  /\ c \in Command /\ d \in Holders(c)
             /\ Cardinality(Holders(c)') = Cardinality(Holders(c)) - 1
  <2>1. c \in Command /\ d \in Holders(c)
    BY DEF WorkerRun, Holders
  <2>2. Holders(c)' = Holders(c) \ {d}
    BY <1>1, <2>1
  <2>3. Cardinality(Holders(c) \ {d}) = Cardinality(Holders(c)) - 1
    BY <2>1, HoldersFinite, FS_RemoveElement
  <2>. QED BY <2>1, <2>2, <2>3
<1>3. \A c \in Command : pendingCounts[c] = Cardinality(Holders(c))
  BY DEF TrackInv, PendingIsExact, Holders
<1>4. \A c \in Command : Cardinality(Holders(c)) \in Nat
  BY HoldersFinite
<1>5. \A c \in cs : Cardinality(Holders(c)) >= 1
  <2>1. \A c \in cs : Holders(c) # {}
    BY <1>2
  <2>. QED BY <2>1, <1>2, <1>4, HoldersFinite, FS_EmptySet
<1>6. ASSUME NEW c \in Command
      PROVE  pendingCounts'[c] = Cardinality(Holders(c)')
  <2>1. CASE c \in cs
    <3>1. pendingCounts'[c] = pendingCounts[c] - 1
      BY <2>1, <1>3, <1>4, <1>5 DEF WorkerRun, Settle, LeavingLast
    <3>. QED BY <2>1, <3>1, <1>2, <1>3
  <2>2. CASE c \notin cs
    <3>1. pendingCounts'[c] = pendingCounts[c]
      BY <2>2 DEF WorkerRun, Settle, LeavingLast
    <3>2. Holders(c)' = Holders(c)
      BY <2>2, <1>1
    <3>. QED BY <3>1, <3>2, <1>3
  <2>. QED BY <2>1, <2>2
<1>7. ASSUME NEW c \in LeavingLast(cs)
      PROVE  Holders(c)' = {}
  <2>1. c \in cs /\ c \in Command /\ pendingCounts[c] <= 1
    BY <1>2 DEF LeavingLast
  <2>2. Cardinality(Holders(c)) = 1
    BY <2>1, <1>3, <1>4, <1>5
  <2>3. Cardinality(Holders(c) \ {d}) = 0
    <3>1. Holders(c)' = Holders(c) \ {d}
      BY <2>1, <1>1
    <3>. QED BY <2>1, <2>2, <3>1, <1>2
  <2>4. IsFiniteSet(Holders(c) \ {d})
    BY HoldersFinite, FS_RemoveElement
  <2>5. Holders(c) \ {d} = {}
    BY <2>3, <2>4, FS_EmptySet
  <2>. QED BY <2>1, <2>5, <1>1
<1>. QED
  <2>1. PendingIsExact'
    BY <1>6 DEF PendingIsExact, Holders
  <2>2. \A c \in LeavingLast(cs), e \in Device : ~Present(c, e)'
    BY <1>7 DEF Holders
  <2>. QED BY <2>1, <2>2

(* Any run of a worker keeps the tracking invariant.                       *)
LEMMA RunTrackInv ==
  ASSUME TrackInv, TypeInv', NEW d \in Device, NEW cs, NEW ex, WorkerRun(d, cs, ex)
  PROVE  TrackInv'
<1>. USE DEF TrackInv
<1>1. PendingIsExact'
  BY RunHolders
<1>2. /\ \A c \in Command : settled'[d][c] = IF c \in ex THEN "executed"
                                            ELSE IF c \in cs THEN "skipped"
                                            ELSE settled[d][c]
      /\ \A e \in Device \ {d}, c \in Command : settled'[e][c] = settled[e][c]
  BY DEF WorkerRun, Settle, TypeInv, TypeOK
<1>3. \A e \in Device \ {d}, c \in Command :
        /\ Present(c, e)' <=> Present(c, e)
        /\ Waiting(c, e)' <=> Waiting(c, e)
  BY DEF WorkerRun, Present, Waiting
<1>4. Conservation'
  <2> SUFFICES ASSUME NEW c \in Command, NEW e \in Device
               PROVE  /\ c \in queue'[e] => held'[e] # c
                      /\ Present(c, e)' => settled'[e][c] = "none"
                      /\ (Present(c, e)' \/ settled'[e][c] # "none")
                           <=> (c \in Issued' /\ e \in info'[c].devices)
    BY DEF Conservation
  <2>1. c \in Issued' <=> c \in Issued
    BY DEF WorkerRun, Issued
  <2>2. info' = info
    BY DEF WorkerRun
  <2>3. CASE e # d
    BY <2>1, <2>2, <2>3, <1>2, <1>3 DEF Conservation, WorkerRun
  <2>4. CASE e = d
    BY <2>1, <2>2, <2>4, <1>2 DEF Conservation, WorkerRun
  <2>. QED BY <2>3, <2>4
<1>5. WaitingIsTracked'
  <2> SUFFICES ASSUME NEW c \in Command, NEW e \in Device, Waiting(c, e)'
               PROVE  c \in cancelled' \/ c \in clientCommands'[info'[c].client]
    BY DEF WaitingIsTracked
  <2>1. Waiting(c, e)
    <3>1. CASE e = d
      BY <3>1 DEF WorkerRun
    <3>2. CASE e # d
      BY <3>2, <1>3
    <3>. QED BY <3>1, <3>2
  <2>2. c \in cancelled \/ c \in clientCommands[info[c].client]
    BY <2>1 DEF WaitingIsTracked
  <2>3. Present(c, e)'
    BY DEF Waiting, Present
  <2>4. c \notin LeavingLast(cs)
    BY <2>3, RunHolders
  <2>5. info[c].client \in Client
    <3>1. Present(c, e)
      BY <2>1 DEF Waiting, Present
    <3>2. c \in Issued
      BY <3>1 DEF Conservation
    <3>. QED BY <3>2 DEF Issued, TypeInv, TypeOK, Info
  <2>. QED BY <2>2, <2>4, <2>5 DEF WorkerRun, Settle
<1>6. ReportsAgreeWithDriver'
  <2> SUFFICES ASSUME NEW c \in Command, NEW e \in Device, c \in driven'[e]
               PROVE  \/ settled'[e][c] = "executed"
                      \/ held'[e] = c /\ phase'[e] \in Executing
    BY DEF ReportsAgreeWithDriver
  <2>1. \/ settled[e][c] = "executed"
        \/ held[e] = c /\ phase[e] \in Executing
    BY DEF WorkerRun, ReportsAgreeWithDriver
  <2>2. CASE e # d
    BY <2>1, <2>2, <1>2 DEF WorkerRun
  <2>3. CASE e = d
    <3>1. settled[d][c] = "executed" => c \notin cs
      BY DEF WorkerRun, Conservation
    <3>. QED BY <2>1, <2>3, <3>1, <1>2 DEF WorkerRun
  <2>. QED BY <2>2, <2>3
<1>. QED BY <1>1, <1>4, <1>5, <1>6

(* After TakeNext the worker's device holds exactly what was queued and    *)
(* not skipped, and nothing starts to wait.                                *)
LEMMA TakeNextPresence ==
  ASSUME TrackInv, NEW d \in Device, TakeNext(d)
  PROVE  /\ \A e \in Device \ {d} : /\ queue'[e] = queue[e]
                                    /\ held'[e] = held[e]
                                    /\ phase'[e] = phase[e]
         /\ \A c \in Command :
              /\ Present(c, d)' <=> c \in queue[d] \ Skippable(d)
              /\ Waiting(c, d)' => c \in queue[d]
              /\ c \in queue'[d] => held'[d] # c
<1>. DEFINE rest == queue[d] \ Skippable(d)
<1>. USE SchedulerAssumption DEF TrackInv, TypeInv, TypeOK
<1>1. CASE /\ rest = {}
           /\ queue' = [queue EXCEPT ![d] = {}]
           /\ held' = [held EXCEPT ![d] = None]
           /\ phase' = [phase EXCEPT ![d] = "idle"]
  BY <1>1 DEF Present, Waiting
<1>2. ASSUME NEW b \in Firsts(rest),
             queue' = [queue EXCEPT ![d] = rest \ {b}],
             held' = [held EXCEPT ![d] = b],
             phase' = [phase EXCEPT ![d] = IF ready[d] THEN "starting" ELSE "gate"]
      PROVE  /\ \A e \in Device \ {d} : /\ queue'[e] = queue[e]
                                        /\ held'[e] = held[e]
                                        /\ phase'[e] = phase[e]
             /\ \A c \in Command :
                  /\ Present(c, d)' <=> c \in queue[d] \ Skippable(d)
                  /\ Waiting(c, d)' => c \in queue[d]
                  /\ c \in queue'[d] => held'[d] # c
  BY <1>2 DEF Present, Waiting, Firsts
<1>. HIDE DEF rest
<1>. QED BY <1>1, <1>2 DEF TakeNext, rest

(* Each action of a worker that settles commands is a WorkerRun.                 *)
LEMMA WorkerRuns ==
  ASSUME TrackInv, NEW d \in Device
  PROVE  /\ WorkerWakes(d) => WorkerRun(d, Skippable(d), {})
         /\ WorkerSkipsHeld(d) => WorkerRun(d, {held[d]} \cup Skippable(d), {})
         /\ WorkerSettles(d) => WorkerRun(d, {held[d]} \cup Skippable(d), {held[d]})
         /\ WorkerStops(d) =>
              WorkerRun(d, HeldBy(d), IF phase[d] = "finished" THEN HeldBy(d) ELSE {})
<1>. USE SchedulerAssumption DEF TrackInv, TypeInv
<1>1. Skippable(d) \subseteq queue[d] /\ queue[d] \subseteq Command
  BY DEF Skippable, TypeOK
<1>2. \A c \in Skippable(d) : Present(c, d)
  BY <1>1 DEF Present
<1>3. held[d] = None <=> phase[d] \in {"idle", "stopped"}
  BY DEF WorkerConsistent
<1>4. held[d] # None => /\ held[d] \in Command
                        /\ Present(held[d], d)
                        /\ held[d] \notin queue[d]
  BY DEF TypeOK, Present, Conservation
<1>5. ASSUME WorkerWakes(d)
      PROVE  WorkerRun(d, Skippable(d), {})
  <2>1. held[d] = None /\ phase[d] = "idle"
    BY <1>5, <1>3 DEF WorkerWakes
  <2>2. \A c \in Command : held[d] # c
    BY <2>1
  <2>. QED
    BY <1>1, <1>2, <1>5, <2>1, <2>2, TakeNextPresence
       DEF WorkerWakes, WorkerRun, Present, Waiting
<1>6. ASSUME WorkerSkipsHeld(d)
      PROVE  WorkerRun(d, {held[d]} \cup Skippable(d), {})
  <2>1. held[d] # None /\ phase[d] = "released"
    BY <1>6, <1>3 DEF WorkerSkipsHeld
  <2>2. phase[d] \notin Executing
    BY <2>1 DEF Executing
  <2>. QED
    BY <1>1, <1>2, <1>4, <1>6, <2>1, <2>2, TakeNextPresence
       DEF WorkerSkipsHeld, WorkerRun, Present, Waiting
<1>7. ASSUME WorkerSettles(d)
      PROVE  WorkerRun(d, {held[d]} \cup Skippable(d), {held[d]})
  <2>1. held[d] # None /\ phase[d] = "finished"
    BY <1>7, <1>3 DEF WorkerSettles
  <2>. QED
    BY <1>1, <1>2, <1>4, <1>7, <2>1, TakeNextPresence
       DEF WorkerSettles, WorkerRun, Present, Waiting
<1>8. ASSUME WorkerStops(d)
      PROVE  WorkerRun(d, HeldBy(d), IF phase[d] = "finished" THEN HeldBy(d) ELSE {})
  <2>1. /\ queue' = queue
        /\ held' = [held EXCEPT ![d] = None]
        /\ phase' = [phase EXCEPT ![d] = "stopped"]
    BY <1>8 DEF WorkerStops
  <2>2. phase[d] \in Executing => phase[d] = "finished"
    BY <1>8 DEF WorkerStops, StopsWhen, Executing, AtGate
  <2>3. \A c \in Command : /\ Present(c, d)' <=> c \in queue[d]
                           /\ ~(c \in queue'[d] /\ held'[d] = c)
                           /\ Waiting(c, d)' => c \in queue[d]
    BY <2>1 DEF TypeOK, Present, Waiting
  <2>4. \A c \in Command : c \in HeldBy(d) <=> held[d] = c
    BY DEF HeldBy
  <2>5. \A c \in Command : /\ c \in queue[d] <=> Present(c, d) /\ c \notin HeldBy(d)
                           /\ c \in queue[d] => Waiting(c, d)
    BY <2>4, <1>4 DEF Present, Waiting
  <2>6. /\ HeldBy(d) \subseteq Command
        /\ \A c \in HeldBy(d) : Present(c, d)
    BY <1>4 DEF HeldBy
  <2>7. Settle(d, HeldBy(d), IF phase[d] = "finished" THEN HeldBy(d) ELSE {})
    BY <1>8 DEF WorkerStops
  <2>8. \A e \in Device \ {d} : /\ queue'[e] = queue[e]
                                /\ held'[e] = held[e]
                                /\ phase'[e] = phase[e]
    BY <2>1 DEF TypeOK
  <2>9. UNCHANGED <<info, driven>>
    BY <1>8 DEF WorkerStops
  <2>. QED BY <2>2, <2>3, <2>4, <2>5, <2>6, <2>7, <2>8, <2>9 DEF WorkerRun
<1>. QED BY <1>5, <1>6, <1>7, <1>8

(* Before the first command nothing is queued, held, settled or counted. *)
LEMMA InitTrackInv == Init => TrackInv
<1> SUFFICES ASSUME Init PROVE TrackInv
  OBVIOUS
<1>1. TypeInv
  BY InitTypeInv
<1>2. \A c \in Command, d \in Device : ~Present(c, d) /\ ~Waiting(c, d)
  BY SchedulerAssumption DEF Init, Present, Waiting
<1>3. \A c \in Command : {d \in Device : Present(c, d)} = {}
  BY <1>2
<1>4. PendingIsExact
  BY <1>3, FS_EmptySet DEF Init, PendingIsExact
<1>5. Conservation /\ WaitingIsTracked /\ ReportsAgreeWithDriver
  BY <1>2, SchedulerAssumption
     DEF Init, Conservation, WaitingIsTracked, ReportsAgreeWithDriver, Issued
<1>. QED BY <1>1, <1>4, <1>5 DEF TrackInv

(* A new command is present on its devices only, and is not cancelled.     *)
LEMMA SubmitTrackInv ==
  ASSUME TrackInv, TypeInv', NEW c \in Command, NEW cl \in Client,
         NEW ds \in SUBSET Device, NEW p \in Priority, Submit(c, cl, ds, p)
  PROVE  TrackInv'
<1>. USE SchedulerAssumption DEF TrackInv, TypeInv
<1>1. /\ info'[c].client = cl /\ info'[c].devices = ds
      /\ \A b \in Command \ {c} : info'[b] = info[b]
  BY DEF Submit, TypeOK
<1>2. /\ c \in Issued' /\ c \notin Issued
      /\ \A b \in Command \ {c} : b \in Issued' <=> b \in Issued
  <2>1. [client |-> cl, devices |-> ds, priority |-> p, stamp |-> Cardinality(Issued)] \in Info
    BY CardinalityType DEF Info
  <2>2. info'[c] # None
    <3>1. info'[c] \in Info
      BY <2>1 DEF Submit, TypeOK
    <3>. QED BY <3>1
  <2>3. c \notin Issued
    BY DEF Submit
  <2>. QED BY <1>1, <2>2, <2>3 DEF Issued
<1>3. \A d \in Device : ~Present(c, d) /\ ~Waiting(c, d) /\ settled[d][c] = "none"
  BY <1>2 DEF Conservation, Present, Waiting
<1>4. /\ \A d \in Device : Present(c, d)' <=> d \in ds
      /\ \A b \in Command \ {c}, d \in Device :
           /\ Present(b, d)' <=> Present(b, d)
           /\ Waiting(b, d)' <=> Waiting(b, d)
  BY <1>3 DEF Submit, Present, Waiting, TypeOK
<1>5. Conservation'
  BY <1>1, <1>2, <1>3, <1>4 DEF Conservation, Submit, Present, TypeOK
<1>6. PendingIsExact'
  <2>1. {d \in Device : Present(c, d)'} = ds
    BY <1>4
  <2>2. \A b \in Command \ {c} :
          {d \in Device : Present(b, d)'} = {d \in Device : Present(b, d)}
    BY <1>4
  <2>3. /\ pendingCounts'[c] = Cardinality(ds)
        /\ \A b \in Command \ {c} : pendingCounts'[b] = pendingCounts[b]
    BY DEF Submit, TypeOK, QueueCount
  <2>. QED BY <2>1, <2>2, <2>3 DEF PendingIsExact
<1>7. WaitingIsTracked'
  <2>1. /\ c \in clientCommands'[cl]
        /\ \A b \in Client : clientCommands[b] \subseteq clientCommands'[b]
        /\ cancelled' = cancelled
    BY DEF Submit, TypeOK
  <2>2. \A b \in Command, d \in Device : Waiting(b, d) => b \in Issued
    BY DEF Conservation, Waiting, Present
  <2>3. \A b \in Issued : info[b].client \in Client
    BY DEF Issued, TypeOK, Info
  <2>. QED BY <1>1, <1>4, <2>1, <2>2, <2>3 DEF WaitingIsTracked
<1>8. ReportsAgreeWithDriver'
  BY DEF ReportsAgreeWithDriver, Submit
<1>. QED BY <1>5, <1>6, <1>7, <1>8

(* A step that moves no command keeps the invariant if it forgets no       *)
(* client entry and no cancelled id of a command that waits.               *)
LEMMA StillTrackInv ==
  ASSUME TrackInv, TypeInv', UNCHANGED <<info, queue, held, pendingCounts, settled>>,
         \A d \in Device : /\ phase[d] \in Executing <=> phase'[d] \in Executing
                           /\ phase'[d] \in AtGate => phase[d] \in AtGate,
         \A d \in Device : \A c \in driven'[d] :
            c \in driven[d] \/ (held[d] = c /\ phase[d] \in Executing),
         \A c \in Command, d \in Device :
            Waiting(c, d) /\ c \notin cancelled'
              => /\ c \notin cancelled
                 /\ c \in clientCommands[info[c].client]
                      => c \in clientCommands'[info[c].client]
  PROVE  TrackInv'
<1>. USE DEF TrackInv
<1>1. \A c \in Command, d \in Device : Present(c, d)' <=> Present(c, d)
  BY DEF Present
<1>2. \A c \in Command, d \in Device : Waiting(c, d)' => Waiting(c, d)
  BY DEF Waiting
<1>3. \A c \in Command :
        {d \in Device : Present(c, d)'} = {d \in Device : Present(c, d)}
  BY <1>1
<1>4. PendingIsExact'
  BY <1>3 DEF PendingIsExact
<1>5. Conservation'
  BY <1>1 DEF Conservation, Issued
<1>6. WaitingIsTracked'
  BY <1>2 DEF WaitingIsTracked
<1>7. ReportsAgreeWithDriver'
  BY DEF ReportsAgreeWithDriver
<1>. QED BY <1>4, <1>5, <1>6, <1>7

(* Every call and every step of a worker keeps the tracking invariant.   *)
LEMMA StepTrackInv == TrackInv /\ [Next]_vars => TrackInv'
<1> SUFFICES ASSUME TrackInv, [Next]_vars PROVE TrackInv'
  OBVIOUS
<1>1. TypeInv'
  BY StepTypeInv DEF TrackInv
<1>2. TypeOK
  BY DEF TrackInv, TypeInv
<1>3. ASSUME NEW c \in Command, NEW cl \in Client, NEW ds \in SUBSET Device,
             NEW p \in Priority, Submit(c, cl, ds, p)
      PROVE  TrackInv'
  BY <1>1, <1>3, SubmitTrackInv
<1>4. ASSUME NEW c \in Command, Cancel(c)
      PROVE  TrackInv'
  BY <1>1, <1>4, StillTrackInv DEF Cancel, TypeInv, TrackInv, TypeOK
<1>5. \A c \in Issued : info[c].client \in Client
  BY <1>2, SchedulerAssumption DEF Issued, TypeOK, Info
<1>6. \A c \in Command, d \in Device : Waiting(c, d) => c \in Issued
  BY DEF TrackInv, Conservation, Waiting, Present
<1>7. ASSUME NEW cl \in Client, CancelClientCommands(cl)
      PROVE  TrackInv'
  BY <1>1, <1>2, <1>5, <1>6, <1>7, StillTrackInv DEF CancelClientCommands, TypeOK
<1>8. CASE CancelAllPending
  BY <1>1, <1>2, <1>5, <1>6, <1>8, StillTrackInv DEF CancelAllPending, WithdrawAll, TypeOK
<1>9. ASSUME NEW d \in Device, PauseDevice(d)
      PROVE  TrackInv'
  BY <1>1, <1>9, StillTrackInv DEF PauseDevice
<1>10. ASSUME NEW d \in Device, ResumeDevice(d)
       PROVE  TrackInv'
  BY <1>1, <1>2, <1>10, StillTrackInv DEF ResumeDevice, TypeOK, AtGate, Executing
<1>11. ASSUME CancelExec(Device) \/ \E d \in Device : CancelExec({d}),
              UNCHANGED <<info, queue, held, pendingCounts, clientCommands, cancelled,
                          settled, driven>>
       PROVE  TrackInv'
  <2>1. \A d \in Device : /\ phase[d] \in Executing <=> phase'[d] \in Executing
                          /\ phase'[d] \in AtGate => phase[d] \in AtGate
    BY <1>11 DEF CancelExec, Executing, AtGate
  <2>. QED BY <1>1, <1>11, <2>1, StillTrackInv
<1>12. ASSUME NEW d \in Device, InterruptDevice(d)
       PROVE  TrackInv'
  BY <1>11, <1>12 DEF InterruptDevice
<1>13. CASE InterruptAllDevices
  BY <1>11, <1>13 DEF InterruptAllDevices
<1>14. CASE Shutdown
  BY <1>11, <1>14 DEF Shutdown
<1>15. ASSUME NEW d \in Device, Worker(d)
       PROVE  TrackInv'
  <2>1. CASE WorkerWakes(d) \/ WorkerSkipsHeld(d) \/ WorkerSettles(d) \/ WorkerStops(d)
    <3>1. PICK cs, ex : WorkerRun(d, cs, ex)
      BY <2>1, WorkerRuns
    <3>. QED BY <1>1, <3>1, RunTrackInv
  <2>2. CASE WorkerPassesGate(d)
    <3>1. held[d] \notin cancelled /\ phase[d] = "released"
      BY <2>2 DEF WorkerPassesGate
    <3>2. \A c \in Command, e \in Device : Present(c, e)' <=> Present(c, e)
      BY <2>2 DEF WorkerPassesGate, Present
    <3>3. \A c \in Command, e \in Device : Waiting(c, e)' => Waiting(c, e)
      BY <1>2, <2>2 DEF WorkerPassesGate, Waiting, TypeOK, AtGate
    <3>4. \A c \in Command :
            {e \in Device : Present(c, e)'} = {e \in Device : Present(c, e)}
      BY <3>2
    <3>5. PendingIsExact'
      BY <2>2, <3>4 DEF TrackInv, PendingIsExact, WorkerPassesGate
    <3>6. Conservation'
      BY <2>2, <3>2 DEF TrackInv, Conservation, Issued, WorkerPassesGate
    <3>7. WaitingIsTracked'
      BY <2>2, <3>3 DEF TrackInv, WaitingIsTracked, WorkerPassesGate
    <3>8. ReportsAgreeWithDriver'
      BY <1>2, <2>2 DEF TrackInv, ReportsAgreeWithDriver, WorkerPassesGate, TypeOK, Executing
    <3>. QED BY <1>1, <3>5, <3>6, <3>7, <3>8 DEF TrackInv
  <2>3. CASE ExecBegins(d)
    BY <1>1, <1>2, <2>3, StillTrackInv DEF ExecBegins, TypeOK, Executing, AtGate
  <2>4. CASE ExecEnds(d)
    BY <1>1, <1>2, <2>4, StillTrackInv DEF ExecEnds, TypeOK, Executing, AtGate
  <2>. QED BY <1>15, <2>1, <2>2, <2>3, <2>4 DEF Worker
<1>16. CASE UNCHANGED vars
  BY <1>1, <1>16, StillTrackInv DEF vars
<1>. QED
  BY <1>3, <1>4, <1>7, <1>8, <1>9, <1>10, <1>12, <1>13, <1>14, <1>15, <1>16 DEF Next

(* The tables of the scheduler agree in every reachable state: no command  *)
(* is lost or settled twice, the pending counters are exact, and every     *)
(* waiting command can still be withdrawn.                                 *)
THEOREM TrackingCorrect ==
  Spec => [](Conservation /\ PendingIsExact /\ WaitingIsTracked /\ ReportsAgreeWithDriver)
<1>1. Spec => []TrackInv
  BY InitTrackInv, StepTrackInv, PTL DEF Spec
<1>2. TrackInv => Conservation /\ PendingIsExact /\ WaitingIsTracked /\ ReportsAgreeWithDriver
  BY DEF TrackInv
<1>. QED BY <1>1, <1>2, PTL

(* The variables of the scheduler keep their types.                        *)
THEOREM SchedulerTypes == Spec => []TypeOK
<1>1. TypeInv => TypeOK
  BY DEF TypeInv
<1>. QED BY TypeCorrect, <1>1, PTL

(* The counter that decides when _on_command_done forgets a command is the *)
(* number of devices it still has to leave: never too small, or a second   *)
(* device would start a command whose cancellation is forgotten, and never *)
(* too large, or its entries would stay for ever.                          *)
THEOREM CountersAreExact == Spec => []PendingIsExact
<1>1. Spec => []TrackInv
  BY InitTrackInv, StepTrackInv, PTL DEF Spec
<1>2. TrackInv => PendingIsExact
  BY DEF TrackInv
<1>. QED BY <1>1, <1>2, PTL

(* No waiting command is out of the reach of cancel_client_commands and    *)
(* cancel_all_pending.                                                     *)
THEOREM NothingEscapesWithdrawal == Spec => []WaitingIsTracked
<1>1. Spec => []TrackInv
  BY InitTrackInv, StepTrackInv, PTL DEF Spec
<1>2. TrackInv => WaitingIsTracked
  BY DEF TrackInv
<1>. QED BY <1>1, <1>2, PTL

(* on_command_settled never reports a command as skipped that entered the  *)
(* driver.                                                                 *)
THEOREM ReportsAreTrue == Spec => []ReportsAgreeWithDriver
<1>1. Spec => []TrackInv
  BY InitTrackInv, StepTrackInv, PTL DEF Spec
<1>2. TrackInv => ReportsAgreeWithDriver
  BY DEF TrackInv
<1>. QED BY <1>1, <1>2, PTL

---------------------------------------------------------------------------
(* The order of commands of one priority.                                  *)

(* b is for device d too, has the priority of c and was made before c.     *)
Older(b, c, d) ==
  /\ d \in info[b].devices
  /\ info[b].priority = info[c].priority
  /\ info[b].stamp < info[c].stamp

(* The commands the worker of d took out of its queue last or gave to the  *)
(* driver.                                                                 *)
Taken(d) == driven[d] \cup ({held[d]} \ {None})

(* FifoAmongEquals is not inductive. A command is ordered when it is taken *)
(* out of the queue, perhaps long before it enters the driver, so it has   *)
(* to hold of the held command too; and a command made later must be no    *)
(* older, which is what the creation stamps are for.                       *)
OrderInv ==
  /\ TrackInv
  /\ \A c \in Issued : info[c].stamp < Cardinality(Issued)
  /\ \A d \in Device : \A c \in Taken(d), b \in Issued :
       Older(b, c, d) => settled[d][b] # "none"

(* A command that was taken was made.                                      *)
LEMMA TakenIsIssued ==
  ASSUME TrackInv, NEW d \in Device, NEW c \in Taken(d)
  PROVE  c \in Issued
<1>1. CASE c \in driven[d]
  <2>1. c \in Command
    BY <1>1 DEF TrackInv, TypeInv, TypeOK
  <2>2. settled[d][c] = "executed" \/ held[d] = c
    BY <1>1, <2>1 DEF TrackInv, ReportsAgreeWithDriver
  <2>. QED BY <2>1, <2>2 DEF TrackInv, Conservation, Present
<1>2. CASE held[d] = c /\ c # None
  <2>1. c \in Command
    BY <1>2 DEF TrackInv, TypeInv, TypeOK
  <2>. QED BY <1>2, <2>1 DEF TrackInv, Conservation, Present
<1>. QED BY <1>1, <1>2 DEF Taken

(* A step that makes no command, takes none and forgets no report keeps    *)
(* the order.                                                              *)
LEMMA StillOrder ==
  ASSUME OrderInv, TrackInv', UNCHANGED info,
         \A d \in Device : Taken(d)' \subseteq Taken(d),
         \A d \in Device, c \in Command :
           settled[d][c] # "none" => settled'[d][c] # "none"
  PROVE  OrderInv'
<1>1. Issued' = Issued /\ Issued \subseteq Command
  BY DEF Issued
<1>2. \A c \in Issued' : info'[c].stamp < Cardinality(Issued')
  BY <1>1 DEF OrderInv
<1>3. \A d \in Device : \A c \in Taken(d)', b \in Issued' :
        Older(b, c, d)' => settled'[d][b] # "none"
  BY <1>1 DEF OrderInv, Older
<1>. QED BY <1>2, <1>3 DEF OrderInv

(* A new command is the youngest.                                          *)
LEMMA SubmitOrder ==
  ASSUME OrderInv, TrackInv', NEW c \in Command, NEW cl \in Client,
         NEW ds \in SUBSET Device, NEW p \in Priority, Submit(c, cl, ds, p)
  PROVE  OrderInv'
<1>. DEFINE new == [client |-> cl, devices |-> ds, priority |-> p,
                    stamp |-> Cardinality(Issued)]
<1>1. TrackInv /\ TypeOK
  BY DEF OrderInv, TrackInv, TypeInv
<1>2. new \in Info /\ new # None /\ new.stamp = Cardinality(Issued)
  BY CardinalityType, SchedulerAssumption DEF Info
<1>3. /\ info'[c] = new
      /\ \A b \in Command \ {c} : info'[b] = info[b]
  BY <1>1 DEF Submit, TypeOK
<1>. HIDE DEF new
<1>4. c \notin Issued /\ Issued' = Issued \cup {c} /\ Issued \subseteq Command
  BY <1>2, <1>3 DEF Issued, Submit
<1>5. Cardinality(Issued') = Cardinality(Issued) + 1 /\ Cardinality(Issued) \in Nat
  <2>1. IsFiniteSet(Issued)
    BY <1>4, SchedulerAssumption, FS_Subset
  <2>. QED BY <1>4, <2>1, FS_AddElement, CardinalityType
<1>6. \A b \in Issued : info'[b] = info[b] /\ info[b].stamp < Cardinality(Issued)
                        /\ info[b].stamp \in Nat
  BY <1>1, <1>3, <1>4, SchedulerAssumption DEF OrderInv, TypeOK, Issued, Info
<1>7. \A b \in Issued' : info'[b].stamp < Cardinality(Issued')
  BY <1>2, <1>3, <1>4, <1>5, <1>6
<1>8. ASSUME NEW d \in Device, NEW t \in Taken(d)', NEW b \in Issued', Older(b, t, d)'
      PROVE  settled'[d][b] # "none"
  <2>1. t \in Taken(d) /\ settled' = settled
    BY DEF Submit, Taken
  <2>2. t \in Issued
    BY <1>1, <2>1, TakenIsIssued
  <2>3. b # c
    BY <1>2, <1>3, <1>5, <1>6, <1>8, <2>2 DEF Older
  <2>4. b \in Issued
    BY <1>4, <2>3
  <2>5. Older(b, t, d)
    BY <1>6, <1>8, <2>2, <2>4 DEF Older
  <2>. QED BY <2>1, <2>2, <2>4, <2>5 DEF OrderInv
<1>. QED BY <1>7, <1>8 DEF OrderInv

(* A worker that settles commands and takes the next one takes the oldest  *)
(* of its priority: what is older is neither queued nor held any more.     *)
LEMMA RunOrder ==
  ASSUME OrderInv, TrackInv', NEW d \in Device, NEW cs, NEW ex, WorkerRun(d, cs, ex),
         TakeNext(d) \/ held'[d] = None
  PROVE  OrderInv'
<1>1. TrackInv /\ TypeOK
  BY DEF OrderInv, TrackInv, TypeInv
<1>2. info' = info /\ driven' = driven /\ Issued' = Issued /\ Issued \subseteq Command
  BY DEF WorkerRun, Issued
<1>3. \A e \in Device, c \in Command : settled[e][c] # "none" => settled'[e][c] # "none"
  BY <1>1 DEF WorkerRun, Settle, TypeOK
<1>4. \A c \in Issued' : info'[c].stamp < Cardinality(Issued')
  BY <1>2 DEF OrderInv
<1>5. ASSUME NEW e \in Device, NEW t \in Taken(e)', NEW b \in Issued', Older(b, t, e)'
      PROVE  settled'[e][b] # "none"
  <2>1. b \in Issued /\ b \in Command /\ Older(b, t, e)
    BY <1>2, <1>5 DEF Older
  <2>2. CASE t \in Taken(e)
    BY <1>3, <2>1, <2>2 DEF OrderInv
  <2>3. CASE t \notin Taken(e)
    <3>1. e = d /\ t = held'[d] /\ t # None
      BY <1>2, <2>3 DEF Taken, WorkerRun
    <3>2. TakeNext(d)
      BY <3>1
    <3>3. t \in Firsts(queue[d] \ Skippable(d))
      BY <1>1, <3>1, <3>2 DEF TakeNext, TypeOK
    <3>4. ~Present(b, d)'
      <4>1. Precedes(b, t)
        BY <2>1 DEF Older, Precedes
      <4>2. b \notin queue[d] \ Skippable(d)
        BY <3>3, <4>1 DEF Firsts
      <4>. QED BY <1>1, <2>1, <3>2, <4>2, TakeNextPresence
    <3>5. b \in Issued' /\ d \in info'[b].devices
      BY <1>2, <2>1, <3>1 DEF Older
    <3>6. Present(b, d)' \/ settled'[d][b] # "none"
      BY <2>1, <3>5 DEF TrackInv, Conservation
    <3>. QED BY <3>1, <3>4, <3>6
  <2>. QED BY <2>2, <2>3
<1>. QED BY <1>4, <1>5 DEF OrderInv

(* Every step keeps the order.                                             *)
LEMMA StepOrder == OrderInv /\ [Next]_vars => OrderInv'
<1> SUFFICES ASSUME OrderInv, [Next]_vars PROVE OrderInv'
  OBVIOUS
<1>1. TrackInv /\ TypeOK /\ TrackInv'
  BY StepTrackInv DEF OrderInv, TrackInv, TypeInv
<1>2. ASSUME NEW c \in Command, NEW cl \in Client, NEW ds \in SUBSET Device,
             NEW p \in Priority, Submit(c, cl, ds, p)
      PROVE  OrderInv'
  BY <1>1, <1>2, SubmitOrder
<1>3. ASSUME UNCHANGED <<info, held, settled, driven>>
      PROVE  OrderInv'
  BY <1>1, <1>3, StillOrder DEF Taken
<1>4. ASSUME NEW d \in Device, Worker(d)
      PROVE  OrderInv'
  <2>1. CASE WorkerWakes(d) \/ WorkerSkipsHeld(d) \/ WorkerSettles(d)
    <3>1. PICK cs, ex : WorkerRun(d, cs, ex)
      BY <1>1, <2>1, WorkerRuns
    <3>2. TakeNext(d)
      BY <2>1 DEF WorkerWakes, WorkerSkipsHeld, WorkerSettles
    <3>. QED BY <1>1, <3>1, <3>2, RunOrder
  <2>2. CASE WorkerStops(d)
    <3>1. PICK cs, ex : WorkerRun(d, cs, ex)
      BY <1>1, <2>2, WorkerRuns
    <3>2. held'[d] = None
      BY <1>1, <2>2 DEF WorkerStops, TypeOK
    <3>. QED BY <1>1, <3>1, <3>2, RunOrder
  <2>3. CASE WorkerPassesGate(d) \/ ExecEnds(d)
    BY <1>3, <2>3 DEF WorkerPassesGate, ExecEnds
  <2>4. CASE ExecBegins(d)
    <3>1. held[d] # None
      BY <1>1, <2>4 DEF ExecBegins, TrackInv, TypeInv, WorkerConsistent
    <3>2. \A e \in Device : Taken(e)' \subseteq Taken(e)
      BY <1>1, <2>4, <3>1 DEF ExecBegins, Taken, TypeOK
    <3>. QED BY <1>1, <2>4, <3>2, StillOrder DEF ExecBegins
  <2>. QED BY <1>4, <2>1, <2>2, <2>3, <2>4 DEF Worker
<1>5. CASE \/ \E c \in Command : Cancel(c)
           \/ \E cl \in Client : CancelClientCommands(cl)
           \/ CancelAllPending
           \/ \E d \in Device : PauseDevice(d) \/ ResumeDevice(d) \/ InterruptDevice(d)
           \/ InterruptAllDevices \/ Shutdown
  BY <1>3, <1>5 DEF Cancel, CancelClientCommands, CancelAllPending, PauseDevice,
     ResumeDevice, InterruptDevice, InterruptAllDevices, Shutdown
<1>6. CASE UNCHANGED vars
  BY <1>3, <1>6 DEF vars
<1>. QED BY <1>2, <1>4, <1>5, <1>6 DEF Next

(* Commands of one priority enter the driver of a device in the order in   *)
(* which they were made, whatever is cancelled, paused or shut down.       *)
THEOREM EqualsKeepTheirOrder == Spec => []FifoAmongEquals
<1>1. Init => OrderInv
  BY InitTrackInv, SchedulerAssumption DEF Init, OrderInv, Taken, Issued
<1>2. OrderInv => FifoAmongEquals
  BY DEF OrderInv, FifoAmongEquals, Taken, Older
<1>. QED BY <1>1, <1>2, StepOrder, PTL DEF Spec

---------------------------------------------------------------------------

(* The status of a command is one of those of CommandLifecycle.          *)
LEMMA StatusType ==
  ASSUME TypeOK, NEW d \in Device, NEW c \in Command
  PROVE  StatusOf(d, c) \in Lifecycle!Status
BY DEF TypeOK, Outcome, StatusOf, Lifecycle!Status

(* Before the first command every status is absent.                      *)
LEMMA InitRefines == Init => Lifecycle!LifecycleInit
<1> SUFFICES ASSUME Init PROVE Lifecycle!LifecycleInit
  OBVIOUS
<1>1. \A d \in Device, c \in Command : StatusOf(d, c) = "absent"
  BY SchedulerAssumption DEF Init, StatusOf, Present
<1>2. (~running) = FALSE
  BY DEF Init
<1>. QED BY <1>1, <1>2 DEF Lifecycle!LifecycleInit

(* A run of the worker of d touches no other device, and what still waits  *)
(* there or on d keeps its cancellation.                                   *)
LEMMA RunStatus ==
  ASSUME TrackInv, NEW d \in Device, NEW cs, NEW ex, WorkerRun(d, cs, ex)
  PROVE  /\ \A e \in Device \ {d}, c \in Command : StatusOf(e, c)' = StatusOf(e, c)
         /\ \A c \in Command :
              /\ c \in ex => StatusOf(d, c)' = "executed"
              /\ c \in cs \ ex => StatusOf(d, c)' = "skipped"
              /\ c \notin cs /\ (Waiting(c, d)' \/ ~Present(c, d))
                   => StatusOf(d, c)' = StatusOf(d, c)
              /\ c \notin cs /\ Present(c, d) /\ ~Waiting(c, d)'
                   => StatusOf(d, c)' = "running"
<1>. USE DEF TrackInv
<1>1. /\ \A c \in Command : settled'[d][c] = IF c \in ex THEN "executed"
                                            ELSE IF c \in cs THEN "skipped"
                                            ELSE settled[d][c]
      /\ \A e \in Device \ {d}, c \in Command : settled'[e][c] = settled[e][c]
  BY DEF WorkerRun, Settle, TypeInv, TypeOK
<1>2. \A c \in Command, e \in Device :
        Present(c, e)' => (c \in cancelled' <=> c \in cancelled)
  <2>1. cancelled' = cancelled \ LeavingLast(cs)
    BY DEF WorkerRun, Settle
  <2>. QED BY <2>1, RunHolders
<1>3. \A e \in Device \ {d}, c \in Command :
        /\ Present(c, e)' <=> Present(c, e)
        /\ Waiting(c, e)' <=> Waiting(c, e)
  BY DEF WorkerRun, Present, Waiting
<1>4. \A c \in Command, e \in Device : Waiting(c, e) => Present(c, e)
  BY DEF Waiting, Present
<1>5. \A c \in Command, e \in Device : Present(c, e) => settled[e][c] = "none"
  BY DEF Conservation
<1>6. \A c \in Command : /\ Present(c, d)' <=> Present(c, d) /\ c \notin cs
                         /\ Waiting(c, d)' => Waiting(c, d)
  BY DEF WorkerRun
<1>7. ex \subseteq cs
  BY DEF WorkerRun
<1>8. ASSUME NEW e \in Device \ {d}, NEW c \in Command
      PROVE  StatusOf(e, c)' = StatusOf(e, c)
  BY <1>1, <1>2, <1>3, <1>4 DEF StatusOf
<1>9. ASSUME NEW c \in Command
      PROVE  /\ c \in ex => StatusOf(d, c)' = "executed"
             /\ c \in cs \ ex => StatusOf(d, c)' = "skipped"
             /\ c \notin cs /\ (Waiting(c, d)' \/ ~Present(c, d))
                  => StatusOf(d, c)' = StatusOf(d, c)
             /\ c \notin cs /\ Present(c, d) /\ ~Waiting(c, d)'
                  => StatusOf(d, c)' = "running"
  <2>1. c \in ex => StatusOf(d, c)' = "executed"
    BY <1>1 DEF StatusOf
  <2>2. c \in cs \ ex => StatusOf(d, c)' = "skipped"
    BY <1>1 DEF StatusOf
  <2>3. ASSUME c \notin cs, Waiting(c, d)'
        PROVE  StatusOf(d, c)' = StatusOf(d, c)
    <3>1. Waiting(c, d) /\ Present(c, d) /\ Present(c, d)' /\ settled[d][c] = "none"
      BY <2>3, <1>4, <1>5, <1>6
    <3>2. settled'[d][c] = "none"
      BY <2>3, <3>1, <1>1, <1>7
    <3>3. c \in cancelled' <=> c \in cancelled
      BY <3>1, <1>2
    <3>. QED BY <2>3, <3>1, <3>2, <3>3 DEF StatusOf
  <2>4. ASSUME c \notin cs, ~Present(c, d)
        PROVE  StatusOf(d, c)' = StatusOf(d, c)
    BY <2>4, <1>1, <1>6, <1>7 DEF StatusOf
  <2>5. ASSUME c \notin cs, Present(c, d), ~Waiting(c, d)'
        PROVE  StatusOf(d, c)' = "running"
    BY <2>5, <1>1, <1>5, <1>6, <1>7 DEF StatusOf
  <2>. QED BY <2>1, <2>2, <2>3, <2>4, <2>5
<1>. QED BY <1>8, <1>9

(* A run that skips only cancelled commands, settles as executed only the  *)
(* command it ran, and starts at most one that is not cancelled, is Work.  *)
LEMMA RunIsWork ==
  ASSUME TrackInv, NEW d \in Device, NEW cs, NEW ex, WorkerRun(d, cs, ex),
         \A c \in cs \ ex : Waiting(c, d) /\ c \in cancelled,
         \A c \in ex : ~Waiting(c, d),
         \A c \in Command : Waiting(c, d) /\ ~Waiting(c, d)' /\ c \notin cs
                              => c \notin cancelled,
         running' = running
  PROVE  Lifecycle!Work(d)
<1>. USE DEF TrackInv, TypeInv
<1>0. settled' \in [Device -> [Command -> Outcome]]
  BY SettleType DEF WorkerRun
<1>1. \A e \in Device, c \in Command : StatusOf(e, c)' \in Lifecycle!Status
  BY <1>0 DEF StatusOf, Outcome, Lifecycle!Status
<1>2. \A e \in Device \ {d}, c \in Command : StatusOf(e, c)' = StatusOf(e, c)
  BY RunStatus
<1>3. \A c \in Command : Present(c, d) => settled[d][c] = "none"
  BY DEF Conservation
<1>4. ASSUME NEW c \in Command
      PROVE  \/ StatusOf(d, c)' = StatusOf(d, c)
             \/ <<StatusOf(d, c), StatusOf(d, c)'>> \in Lifecycle!Moves
  <2>1. CASE c \in ex
    <3>1. Present(c, d) /\ ~Waiting(c, d)
      BY <2>1 DEF WorkerRun
    <3>2. StatusOf(d, c) = "running"
      BY <3>1, <1>3 DEF StatusOf
    <3>. QED BY <2>1, <3>2, RunStatus DEF Lifecycle!Moves
  <2>2. CASE c \in cs \ ex
    <3>1. StatusOf(d, c) = "revoked"
      BY <2>2, <1>3 DEF StatusOf, Waiting, Present
    <3>. QED BY <2>2, <3>1, RunStatus DEF Lifecycle!Moves
  <2>3. CASE c \notin cs /\ (Waiting(c, d)' \/ ~Present(c, d))
    BY <2>3, RunStatus
  <2>4. CASE c \notin cs /\ Present(c, d) /\ ~Waiting(c, d)'
    <3>1. StatusOf(d, c)' = "running"
      BY <2>4, RunStatus
    <3>2. StatusOf(d, c) \in {"running", "waiting"}
      BY <2>4, <1>3 DEF StatusOf
    <3>. QED BY <3>1, <3>2 DEF Lifecycle!Moves
  <2>5. ex \subseteq cs
    BY DEF WorkerRun
  <2>. QED BY <2>1, <2>2, <2>3, <2>4, <2>5
<1>5. ASSUME NEW b \in Command, NEW c \in Command,
             StatusOf(d, b)' = "running", StatusOf(d, c)' = "running"
      PROVE  b = c
  <2>1. ASSUME NEW a \in Command, StatusOf(d, a)' = "running"
        PROVE  held'[d] = a
    <3>1. settled'[d][a] # "running"
      BY <1>0 DEF Outcome
    <3>2. Present(a, d)' /\ ~Waiting(a, d)'
      BY <2>1, <3>1 DEF StatusOf
    <3>. QED BY <3>2 DEF Present, Waiting
  <2>. QED BY <1>5, <2>1
<1>. QED BY <1>1, <1>2, <1>4, <1>5 DEF Lifecycle!Work

(* The first command that is not skipped and starts is not cancelled.      *)
LEMMA TakeNextStartsLive ==
  ASSUME TrackInv, NEW d \in Device, TakeNext(d),
         NEW c \in queue[d] \ Skippable(d), ~Waiting(c, d)'
  PROVE  c \notin cancelled
<1>. USE SchedulerAssumption DEF TrackInv, TypeInv
<1>. DEFINE rest == queue[d] \ Skippable(d)
<1>1. c \in Command /\ queue[d] \subseteq Command
  BY DEF TypeOK
<1>2. PICK b \in Firsts(rest) :
        /\ queue' = [queue EXCEPT ![d] = rest \ {b}]
        /\ held' = [held EXCEPT ![d] = b]
        /\ phase' = [phase EXCEPT ![d] = IF ready[d] THEN "starting" ELSE "gate"]
  BY DEF TakeNext
<1>3. /\ queue'[d] = rest \ {b} /\ held'[d] = b
      /\ phase'[d] = IF ready[d] THEN "starting" ELSE "gate"
  BY <1>2 DEF TypeOK
<1>4. c = b /\ ready[d]
  BY <1>3 DEF Waiting, AtGate
<1>5. \A a \in rest : ~Precedes(a, c)
  BY <1>2, <1>4 DEF Firsts
<1>6. SUFFICES ASSUME c \in cancelled PROVE FALSE
  OBVIOUS
<1>7. PICK a \in queue[d] : Precedes(a, c) /\ a \notin cancelled
  BY <1>4, <1>6 DEF Skippable
<1>8. a \in rest
  BY <1>7 DEF Skippable
<1>. QED BY <1>5, <1>7, <1>8

(* Commands that stay where they are keep their status, apart from those   *)
(* cs that are cancelled while they wait.                                  *)
LEMMA StillStatus ==
  ASSUME TypeOK, UNCHANGED <<queue, held, settled>>, NEW cs, cancelled' = cancelled \cup cs,
         \A d \in Device : phase'[d] \in AtGate <=> phase[d] \in AtGate
  PROVE  \A d \in Device, c \in Command :
           StatusOf(d, c)' = IF c \in cs /\ StatusOf(d, c) = "waiting"
                               THEN "revoked" ELSE StatusOf(d, c)
<1>1. ASSUME NEW d \in Device, NEW c \in Command
      PROVE  StatusOf(d, c)' = IF c \in cs /\ StatusOf(d, c) = "waiting"
                                 THEN "revoked" ELSE StatusOf(d, c)
  <2>1. /\ Present(c, d)' <=> Present(c, d)
        /\ Waiting(c, d)' <=> Waiting(c, d)
    BY DEF Present, Waiting
  <2>2. settled[d][c] # "waiting"
    BY DEF TypeOK, Outcome
  <2>. QED BY <2>1, <2>2 DEF StatusOf
<1>. QED BY <1>1

(* Every call and every step of a worker is a step of the life cycle, or *)
(* leaves every status as it is.                                         *)
LEMMA StepRefines ==
  TrackInv /\ [Next]_vars => [Lifecycle!LifecycleNext]_(Lifecycle!lifecycleVars)
<1> SUFFICES ASSUME TrackInv, [Next]_vars
             PROVE  Lifecycle!LifecycleNext \/ UNCHANGED Lifecycle!lifecycleVars
  OBVIOUS
<1>. USE SchedulerAssumption
<1>1. TypeOK /\ TypeInv /\ Conservation
  BY DEF TrackInv, TypeInv
<1>2. ASSUME NEW c \in Command, NEW cl \in Client, NEW ds \in SUBSET Device,
             NEW p \in Priority, Submit(c, cl, ds, p)
      PROVE  Lifecycle!Submit(c, ds)
  <2>1. c \notin Issued /\ c \notin cancelled
    BY <1>1, <1>2 DEF Submit, TypeInv, WorkerConsistent
  <2>2. \A d \in Device : ~Present(c, d) /\ settled[d][c] = "none"
    BY <1>1, <2>1 DEF Conservation
  <2>3. \A d \in Device : StatusOf(d, c) = "absent"
    BY <2>2 DEF StatusOf
  <2>4. \A d \in Device : StatusOf(d, c)' = IF d \in ds THEN "waiting" ELSE "absent"
    BY <1>1, <1>2, <2>1, <2>2 DEF Submit, StatusOf, Present, Waiting, TypeOK
  <2>5. \A d \in Device, b \in Command \ {c} : StatusOf(d, b)' = StatusOf(d, b)
    BY <1>1, <1>2 DEF Submit, StatusOf, Present, Waiting, TypeOK
  <2>6. running' = running
    BY <1>2 DEF Submit
  <2>. QED BY <2>3, <2>4, <2>5, <2>6 DEF Lifecycle!Submit
<1>3. ASSUME NEW cs \in SUBSET Command, cancelled' = cancelled \cup cs,
             UNCHANGED <<queue, held, phase, settled, running>>
      PROVE  Lifecycle!Revoke(cs)
  BY <1>1, <1>3, StillStatus DEF Lifecycle!Revoke
<1>4. ASSUME UNCHANGED <<queue, held, settled, cancelled>>,
             \A d \in Device : phase'[d] \in AtGate <=> phase[d] \in AtGate
      PROVE  \A d \in Device, c \in Command : StatusOf(d, c)' = StatusOf(d, c)
  <2>1. \A d \in Device, c \in Command : /\ Present(c, d)' <=> Present(c, d)
                                         /\ Waiting(c, d)' <=> Waiting(c, d)
    BY <1>4 DEF Present, Waiting
  <2>. QED BY <1>4, <2>1 DEF StatusOf
<1>5. ASSUME NEW c \in Command, Cancel(c)
      PROVE  Lifecycle!LifecycleNext
  <2>1. Lifecycle!Revoke({c})
    BY <1>3, <1>5 DEF Cancel
  <2>. QED BY <2>1 DEF Lifecycle!LifecycleNext
<1>6. ASSUME NEW cl \in Client, CancelClientCommands(cl)
      PROVE  Lifecycle!LifecycleNext
  <2>1. Lifecycle!Revoke(clientCommands[cl])
    BY <1>1, <1>3, <1>6 DEF CancelClientCommands, TypeOK
  <2>. QED BY <1>1, <2>1 DEF Lifecycle!LifecycleNext, TypeOK
<1>7. CASE CancelAllPending
  <2>1. UNION {clientCommands[cl] : cl \in Client} \in SUBSET Command
    BY <1>1 DEF TypeOK
  <2>2. Lifecycle!Revoke(UNION {clientCommands[cl] : cl \in Client})
    BY <1>3, <1>7, <2>1 DEF CancelAllPending, WithdrawAll
  <2>. QED BY <2>1, <2>2 DEF Lifecycle!LifecycleNext
<1>8. ASSUME NEW d \in Device,
             \/ PauseDevice(d) \/ ResumeDevice(d) \/ InterruptDevice(d)
             \/ ExecBegins(d) \/ ExecEnds(d)
      PROVE  UNCHANGED Lifecycle!lifecycleVars
  <2>1. UNCHANGED <<queue, held, settled, cancelled, running>>
    BY <1>8 DEF PauseDevice, ResumeDevice, InterruptDevice, ExecBegins, ExecEnds
  <2>2. \A e \in Device : phase'[e] \in AtGate <=> phase[e] \in AtGate
    BY <1>1, <1>8 DEF PauseDevice, ResumeDevice, InterruptDevice, CancelExec, ExecBegins,
                      ExecEnds, AtGate, TypeOK
  <2>. QED BY <1>4, <2>1, <2>2 DEF Lifecycle!lifecycleVars
<1>9. CASE InterruptAllDevices
  <2>1. \A e \in Device : phase'[e] \in AtGate <=> phase[e] \in AtGate
    BY <1>9 DEF InterruptAllDevices, CancelExec, AtGate
  <2>. QED BY <1>4, <1>9, <2>1 DEF Lifecycle!lifecycleVars, InterruptAllDevices
<1>10. CASE Shutdown
  <2>1. \A e \in Device : phase'[e] \in AtGate <=> phase[e] \in AtGate
    BY <1>10 DEF Shutdown, CancelExec, AtGate
  <2>2. \A d \in Device, c \in Command : StatusOf(d, c)' = StatusOf(d, c)
    BY <1>4, <1>10, <2>1 DEF Shutdown
  <2>3. Lifecycle!Close
    BY <1>10, <2>2 DEF Lifecycle!Close, Shutdown
  <2>. QED BY <2>3 DEF Lifecycle!LifecycleNext
<1>11. ASSUME NEW d \in Device, Worker(d)
       PROVE  Lifecycle!LifecycleNext \/ UNCHANGED Lifecycle!lifecycleVars
  <2>1. held[d] = None <=> phase[d] \in {"idle", "stopped"}
    BY <1>1 DEF TypeInv, WorkerConsistent
  <2>2. \A c \in Skippable(d) : c \in queue[d] /\ c \in cancelled /\ Waiting(c, d)
    BY DEF Skippable, Waiting
  <2>3. \A c \in Command : held[d] = c => c \notin queue[d]
    BY <1>1 DEF Conservation
  <2>4. CASE WorkerWakes(d)
    <3>1. WorkerRun(d, Skippable(d), {})
      BY <2>4, WorkerRuns
    <3>2. \A c \in Command : Waiting(c, d) => c \in queue[d]
      BY <2>4 DEF Waiting, WorkerWakes, AtGate
    <3>3. Lifecycle!Work(d)
      BY <2>2, <2>4, <3>1, <3>2, TakeNextStartsLive, RunIsWork DEF WorkerWakes
    <3>. QED BY <3>3 DEF Lifecycle!LifecycleNext
  <2>5. CASE WorkerPassesGate(d)
    <3>1. /\ held[d] \notin cancelled /\ phase[d] = "released" /\ held[d] \in Command
          /\ phase' = [phase EXCEPT ![d] = "starting"]
          /\ UNCHANGED <<queue, held, settled, cancelled, running>>
      BY <1>1, <2>1, <2>5 DEF WorkerPassesGate, TypeOK
    <3>2. \A e \in Device \ {d}, c \in Command : StatusOf(e, c)' = StatusOf(e, c)
      BY <1>1, <3>1 DEF StatusOf, Present, Waiting, TypeOK
    <3>3. \A c \in Command : settled[d][c] # "none" => ~Present(c, d)
      BY <1>1 DEF Conservation
    <3>4. \A c \in Command \ {held[d]} : StatusOf(d, c)' = StatusOf(d, c)
      BY <3>1 DEF StatusOf, Present, Waiting
    <3>5. StatusOf(d, held[d]) = "waiting" /\ StatusOf(d, held[d])' = "running"
      BY <1>1, <2>3, <3>1, <3>3 DEF StatusOf, Present, Waiting, AtGate, TypeOK
    <3>6. \A c \in Command \ {held[d]} : StatusOf(d, c)' # "running"
      BY <1>1, <3>1, <3>4 DEF StatusOf, Present, Waiting, AtGate, TypeOK, Outcome
    <3>7. \A e \in Device, c \in Command : StatusOf(e, c)' \in Lifecycle!Status
      BY <1>1, <3>1 DEF StatusOf, TypeOK, Outcome, Lifecycle!Status
    <3>8. Lifecycle!Work(d)
      BY <3>1, <3>2, <3>4, <3>5, <3>6, <3>7 DEF Lifecycle!Work, Lifecycle!Moves
    <3>. QED BY <3>8 DEF Lifecycle!LifecycleNext
  <2>6. CASE WorkerSkipsHeld(d)
    <3>1. WorkerRun(d, {held[d]} \cup Skippable(d), {})
      BY <2>6, WorkerRuns
    <3>2. held[d] \in cancelled /\ Waiting(held[d], d)
      BY <2>6 DEF WorkerSkipsHeld, Waiting, AtGate
    <3>3. \A c \in Command : Waiting(c, d) => c \in queue[d] \/ c = held[d]
      BY DEF Waiting
    <3>4. Lifecycle!Work(d)
      BY <2>2, <2>6, <3>1, <3>2, <3>3, TakeNextStartsLive, RunIsWork DEF WorkerSkipsHeld
    <3>. QED BY <3>4 DEF Lifecycle!LifecycleNext
  <2>7. CASE ExecBegins(d) \/ ExecEnds(d)
    BY <1>8, <2>7
  <2>8. CASE WorkerSettles(d)
    <3>1. WorkerRun(d, {held[d]} \cup Skippable(d), {held[d]})
      BY <2>8, WorkerRuns
    <3>2. phase[d] = "finished" /\ held[d] \in Command
      BY <1>1, <2>1, <2>8 DEF WorkerSettles, TypeOK
    <3>3. \A c \in Command : Waiting(c, d) <=> c \in queue[d]
      BY <3>2 DEF Waiting, AtGate
    <3>4. ~Waiting(held[d], d)
      BY <2>3, <3>2, <3>3
    <3>5. Lifecycle!Work(d)
      BY <2>2, <2>8, <3>1, <3>3, <3>4, TakeNextStartsLive, RunIsWork DEF WorkerSettles
    <3>. QED BY <3>5 DEF Lifecycle!LifecycleNext
  <2>9. CASE WorkerStops(d)
    <3>1. WorkerRun(d, HeldBy(d), IF phase[d] = "finished" THEN HeldBy(d) ELSE {})
      BY <2>9, WorkerRuns
    <3>2. /\ queue' = queue /\ running' = running /\ ~running
          /\ held'[d] = None
          /\ phase[d] \in {"idle", "finished"} \cup AtGate
      BY <1>1, <2>9 DEF WorkerStops, StopsWhen, TypeOK
    <3>3. \A c \in Command : c \in HeldBy(d) <=> held[d] = c
      BY DEF HeldBy
    <3>4. \A c \in Command : Waiting(c, d)' <=> c \in queue[d]
      BY <3>2 DEF Waiting
    <3>5. CASE phase[d] = "finished"
      <4>1. \A c \in Command : Waiting(c, d) <=> c \in queue[d]
        BY <3>5 DEF Waiting, AtGate
      <4>2. \A c \in HeldBy(d) : c \in Command /\ ~Waiting(c, d)
        BY <1>1, <2>3, <3>3, <4>1 DEF HeldBy, TypeOK
      <4>3. Lifecycle!Work(d)
        BY <3>1, <3>2, <3>4, <3>5, <4>1, <4>2, RunIsWork
      <4>. QED BY <4>3 DEF Lifecycle!LifecycleNext
    <3>6. CASE phase[d] = "idle"
      <4>1. HeldBy(d) = {}
        BY <2>1, <3>6 DEF HeldBy
      <4>2. \A c \in Command : Present(c, d) <=> c \in queue[d]
        BY <2>1, <3>6 DEF Present
      <4>3. \A e \in Device, c \in Command : StatusOf(e, c)' = StatusOf(e, c)
        BY <3>1, <3>4, <3>6, <4>1, <4>2, RunStatus
      <4>. QED BY <3>2, <4>3 DEF Lifecycle!lifecycleVars
    <3>7. CASE phase[d] \in AtGate
      <4>1. PICK h \in Command : h = held[d]
        BY <1>1, <2>1, <3>7 DEF TypeOK, AtGate
      <4>2. Waiting(h, d) /\ settled[d][h] = "none"
        BY <1>1, <3>7, <4>1 DEF Waiting, Conservation, Present
      <4>3. StatusOf(d, h) \in {"waiting", "revoked"}
        BY <4>2 DEF StatusOf, Waiting, Present
      <4>4. HeldBy(d) = {h} /\ phase[d] # "finished"
        BY <3>7, <4>1 DEF HeldBy, AtGate
      <4>5. WorkerRun(d, {h}, {})
        BY <3>1, <4>4
      <4>6. StatusOf(d, h)' = "skipped"
        BY <4>5, RunStatus
      <4>7. \A e \in Device \ {d}, c \in Command : StatusOf(e, c)' = StatusOf(e, c)
        BY <4>5, RunStatus
      <4>8. \A c \in Command \ {h} : Present(c, d) <=> c \in queue[d]
        BY <4>1 DEF Present
      <4>9. \A c \in Command \ {h} : StatusOf(d, c)' = StatusOf(d, c)
        BY <3>4, <4>5, <4>8, RunStatus
      <4>10. Lifecycle!Abandon(d, h)
        BY <3>2, <4>3, <4>6, <4>7, <4>9 DEF Lifecycle!Abandon
      <4>. QED BY <4>1, <4>10 DEF Lifecycle!LifecycleNext
    <3>. QED BY <3>2, <3>5, <3>6, <3>7
  <2>. QED BY <1>11, <2>4, <2>5, <2>6, <2>7, <2>8, <2>9 DEF Worker
<1>12. CASE UNCHANGED vars
  <2>1. UNCHANGED <<queue, held, settled, cancelled, running, phase>>
    BY <1>12 DEF vars
  <2>. QED BY <1>4, <2>1 DEF Lifecycle!lifecycleVars
<1>. QED
  BY <1>2, <1>5, <1>6, <1>7, <1>8, <1>9, <1>10, <1>11, <1>12
     DEF Next, Lifecycle!LifecycleNext

(* The scheduler implements the life cycle of a command, for any devices   *)
(* and commands: withdrawn commands stay withdrawn, a device runs one      *)
(* command at a time, and only a shutdown skips a command nobody withdrew. *)
THEOREM SchedulerImplementsLifecycle == Spec => ImplementsLifecycle
<1>1. Spec => []TrackInv
  BY InitTrackInv, StepTrackInv, PTL DEF Spec
<1>. QED
  BY <1>1, InitRefines, StepRefines, PTL
     DEF Spec, ImplementsLifecycle, Lifecycle!LifecycleSpec

---------------------------------------------------------------------------
(* What stop_all and a disconnect rely on: no command escapes withdrawal.  *)
THEOREM CancellationIsTotal == Spec => CancelAllIsTotal /\ CancelClientIsTotal
<1>1. Spec => []TrackInv
  BY InitTrackInv, StepTrackInv, PTL DEF Spec
<1>2. ASSUME TrackInv
      PROVE  CancelAllPending =>
               \A c \in Command, d \in Device : Waiting(c, d) => c \in cancelled'
  <2> SUFFICES ASSUME CancelAllPending, NEW c \in Command, NEW d \in Device, Waiting(c, d)
               PROVE  c \in cancelled'
    OBVIOUS
  <2>1. c \in cancelled \/ c \in clientCommands[info[c].client]
    BY <1>2 DEF TrackInv, WaitingIsTracked
  <2>2. info[c].client \in Client
    <3>1. c \in Issued
      BY <1>2 DEF TrackInv, Conservation, Waiting, Present
    <3>. QED BY <1>2, <3>1 DEF TrackInv, TypeInv, TypeOK, Issued, Info
  <2>. QED BY <2>1, <2>2 DEF CancelAllPending, WithdrawAll
<1>3. ASSUME TrackInv
      PROVE  \A cl \in Client : CancelClientCommands(cl) =>
               \A c \in Issued, d \in Device :
                 Waiting(c, d) /\ info[c].client = cl => c \in cancelled'
  <2> SUFFICES ASSUME NEW cl \in Client, CancelClientCommands(cl), NEW c \in Issued,
                      NEW d \in Device, Waiting(c, d), info[c].client = cl
               PROVE  c \in cancelled'
    OBVIOUS
  <2>1. c \in cancelled \/ c \in clientCommands[cl]
    BY <1>3 DEF TrackInv, WaitingIsTracked, Issued
  <2>. QED BY <2>1 DEF CancelClientCommands
<1>4. Spec => CancelAllIsTotal
  BY <1>1, <1>2, PTL DEF CancelAllIsTotal
<1>5. Spec => CancelClientIsTotal
  BY <1>1, <1>3, PTL DEF CancelClientIsTotal
<1>. QED BY <1>4, <1>5

(* What a disconnect relies on: after cancel_client_commands no command of *)
(* the client waits that a worker could start.                             *)
THEOREM DisconnectIsTotal == Spec => CancelClientIsTotal
BY CancellationIsTotal
===========================================================================
