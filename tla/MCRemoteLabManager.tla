------------------------- MODULE MCRemoteLabManager -------------------------
(* Model values and symmetry for the runs of RemoteLabManager.             *)
EXTENDS RemoteLabManager, TLC

Symmetry == Permutations(Procedure) \cup Permutations(UserCommand)
              \cup Permutations(Command \ UserCommand)

(* What the self-test depends on: who moves a device, and what a stop_all  *)
(* found, change nothing else and no property of that run reads them.      *)
SyncView == <<vars, owner, waiters, proc, woken, doomed>>

(* For the runs whose devices are all alike.                               *)
DeviceSymmetry == Symmetry \cup Permutations(Device)

(* Every command is for one device.                                        *)
Single == \A c \in Issued' : Cardinality(info'[c].devices) = 1
=============================================================================
