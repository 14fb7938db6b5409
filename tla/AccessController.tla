-------------------------- MODULE AccessController --------------------------
(***************************************************************************)
(* manager/AccessController.py: who may command which device. Every method *)
(* runs under one lock and is one step. The calls a procedure makes in a   *)
(* row without suspending, one for each device, are taken together.        *)
(***************************************************************************)
CONSTANTS
  Device,
  Client,
  Exclusive,  \* the devices that must be acquired, the others are shared
  None        \* no owner

VARIABLE owner   \* _device_owner

OwnerTypeOK == owner \in [Device -> Client \cup {None}]

OwnerInit == owner = [d \in Device |-> None]

(* What acquire answers for d. A shared device has no owner to record.     *)
Acquirable(d, cl) == d \in Exclusive => owner[d] \in {None, cl}

Acquired(ds, cl) ==
  [d \in Device |-> IF d \in ds \cap Exclusive /\ Acquirable(d, cl) THEN cl ELSE owner[d]]

Acquire(ds, cl) == owner' = Acquired(ds, cl)

(* release of every device of ds, and release_all.                         *)
Released(ds, cl) ==
  [d \in Device |-> IF d \in ds /\ owner[d] = cl THEN None ELSE owner[d]]

Release(ds, cl) == owner' = Released(ds, cl)

ReleaseAll(cl) == Release(Device, cl)

CheckAccess(d, cl) == d \in Exclusive => owner[d] = cl
=============================================================================
