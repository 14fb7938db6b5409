----------------------- MODULE DeviceSupervisor_proofs -----------------------
(* The restarts of DeviceSupervisor, proved for any number of devices.      *)
EXTENDS DeviceSupervisor, TLAPS

(* What a restart did so far: from the wait after _stop_procs until a part  *)
(* is started again, no process of that part lives.                         *)
StoppedBefore ==
  \A d \in Device :
    /\ stage[d] \in {"cool", "transports"} => transport[d] # "alive"
    /\ stage[d] \in {"cool", "transports", "adapters"} => adapter[d] # "alive"

SupervisorInv == SupervisorTypeOK /\ StoppedBefore

(* A freshly started supervisor has its types right and nothing to stop.    *)
LEMMA InitSupervisorInv == SupervisorInit => SupervisorInv
  BY SupervisorAssumption DEF SupervisorInit, SupervisorInv, SupervisorTypeOK, StoppedBefore,
     Started, Launched, Process, RestartStage, Restarting

(* Every step keeps both.                                                   *)
LEMMA NextSupervisorInv ==
  SupervisorInv /\ [SupervisorNext]_supervisorVars => SupervisorInv'
<1> SUFFICES ASSUME SupervisorInv, [SupervisorNext]_supervisorVars
             PROVE  SupervisorInv'
  OBVIOUS
<1> USE SupervisorAssumption
    DEF SupervisorInv, SupervisorTypeOK, StoppedBefore, Process, RestartStage, Restarting
<1>1. CASE WatchdogLooks
  BY <1>1 DEF WatchdogLooks, LookedAt, Dead
<1>2. ASSUME NEW d \in Device, TransportDies(d)
      PROVE  SupervisorInv'
  BY <1>2 DEF TransportDies
<1>3. ASSUME NEW d \in Device, AdapterDies(d)
      PROVE  SupervisorInv'
  BY <1>3 DEF AdapterDies
<1>4. ASSUME NEW d \in Device, RestartAdvances(d)
      PROVE  SupervisorInv'
  <2>1. CASE RestartBegins(d)
    BY <2>1 DEF RestartBegins, Goes
  <2>2. CASE TornDown(d)
    BY <2>2 DEF TornDown, Goes
  <2>3. CASE ProcsStopped(d)
    BY <2>3 DEF ProcsStopped, StopAllProcs, Ended, Goes
  <2>4. CASE Cooled(d)
    BY <2>4 DEF Cooled, Goes
  <2>5. CASE TransportsStarted(d)
    BY <2>5 DEF TransportsStarted, Launched, Goes
  <2>6. CASE AdaptersStarted(d)
    BY <2>6 DEF AdaptersStarted, Launched, Goes
  <2>7. CASE TelemetrySetUp(d)
    BY <2>7 DEF TelemetrySetUp, Goes
  <2>8. CASE RestartEnds(d)
    BY <2>8 DEF RestartEnds, ReadyAgain, Goes
  <2> QED
    BY <1>4, <2>1, <2>2, <2>3, <2>4, <2>5, <2>6, <2>7, <2>8 DEF RestartAdvances
<1>5. ASSUME NEW d \in Device, RestartFails(d)
      PROVE  SupervisorInv'
  BY <1>5 DEF RestartFails
<1>6. CASE ShutdownBegins
  BY <1>6 DEF ShutdownBegins
<1>7. CASE ShutdownTearsDown
  BY <1>7 DEF ShutdownTearsDown
<1>8. CASE ShutdownFails
  BY <1>8 DEF ShutdownFails
<1>9. ASSUME NEW d \in Device, ShutdownStops(d)
      PROVE  SupervisorInv'
  BY <1>9 DEF ShutdownStops, StopAllProcs, Ended
<1>10. CASE UNCHANGED supervisorVars
  BY <1>10 DEF supervisorVars
<1> QED
  BY <1>1, <1>2, <1>3, <1>4, <1>5, <1>6, <1>7, <1>8, <1>9, <1>10 DEF SupervisorNext

(* The devices, their processes, locks and queues agree in every state.     *)
THEOREM SupervisorTypeCorrect == SupervisorSpec => []SupervisorTypeOK
<1>1. SupervisorInv => SupervisorTypeOK
  BY DEF SupervisorInv
<1> QED
  BY InitSupervisorInv, NextSupervisorInv, <1>1, PTL DEF SupervisorSpec

(* A restart starts processes only where none is left alive, whatever died, *)
(* failed or was shut down meanwhile.                                       *)
THEOREM RestartForgetsNothing == SupervisorSpec => NoProcessIsForgotten
<1>1. SupervisorInv =>
        [\A d \in Device : /\ TransportsStarted(d) => transport[d] # "alive"
                           /\ AdaptersStarted(d) => adapter[d] # "alive"]_supervisorVars
  BY DEF SupervisorInv, StoppedBefore, TransportsStarted, AdaptersStarted, Goes
<1> QED
  BY InitSupervisorInv, NextSupervisorInv, <1>1, PTL DEF SupervisorSpec, NoProcessIsForgotten
=============================================================================
