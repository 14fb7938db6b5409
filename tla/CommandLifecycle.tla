------------------------- MODULE CommandLifecycle -------------------------
(***************************************************************************)
(* What the command scheduler promises about one command on one device,   *)
(* whatever the queues, the gates, the restarts and the interrupts do in   *)
(* between: a command waits, it may be withdrawn while it waits, it runs   *)
(* at most once and only if it was not withdrawn, a device runs at most    *)
(* one command at a time, and every command leaves the device once, as     *)
(* "executed" or as "skipped".                                             *)
(***************************************************************************)
CONSTANTS Device, Command

VARIABLES
  status,   \* status[d][c]: where command c stands on device d
  closed    \* the scheduler was shut down

lifecycleVars == <<status, closed>>

Status == {"absent", "waiting", "revoked", "running", "executed", "skipped"}

LifecycleTypeOK ==
  /\ status \in [Device -> [Command -> Status]]
  /\ closed \in BOOLEAN

LifecycleInit ==
  /\ status = [d \in Device |-> [c \in Command |-> "absent"]]
  /\ closed = FALSE

(* A command unknown so far is put in the queue of every device of ds.     *)
Submit(c, ds) ==
  /\ \A d \in Device : status[d][c] = "absent"
  /\ status' = [d \in Device |->
                  [status[d] EXCEPT ![c] = IF d \in ds THEN "waiting" ELSE @]]
  /\ UNCHANGED closed

(* The commands of cs are withdrawn from every device they still wait for. *)
Revoke(cs) ==
  /\ status' = [d \in Device |-> [c \in Command |->
                  IF c \in cs /\ status[d][c] = "waiting"
                    THEN "revoked" ELSE status[d][c]]]
  /\ UNCHANGED closed

(* What one run of the worker of a device may do to a command.             *)
Moves == {<<"running", "executed">>, <<"revoked", "skipped">>,
          <<"waiting", "running">>}

(* The worker of d runs until it suspends: it may settle the command it    *)
(* ran, skip withdrawn ones and start one that waits. Device d then runs   *)
(* at most one command.                                                    *)
Work(d) ==
  /\ status' \in [Device -> [Command -> Status]]
  /\ \A e \in Device \ {d} : status'[e] = status[e]
  /\ \A c \in Command : \/ status'[d][c] = status[d][c]
                        \/ <<status[d][c], status'[d][c]>> \in Moves
  /\ \A b, c \in Command : /\ status'[d][b] = "running"
                           /\ status'[d][c] = "running"
                           => b = c
  /\ UNCHANGED closed

Close ==
  /\ closed' = TRUE
  /\ UNCHANGED status

(* Only a shutdown gives up a command that nobody withdrew.                *)
Abandon(d, c) ==
  /\ closed
  /\ status[d][c] \in {"waiting", "revoked"}
  /\ status' = [status EXCEPT ![d][c] = "skipped"]
  /\ UNCHANGED closed

LifecycleNext ==
  \/ \E c \in Command, ds \in SUBSET Device : Submit(c, ds)
  \/ \E cs \in SUBSET Command : Revoke(cs)
  \/ \E d \in Device : Work(d)
  \/ Close
  \/ \E d \in Device, c \in Command : Abandon(d, c)

LifecycleSpec == LifecycleInit /\ [][LifecycleNext]_lifecycleVars
===========================================================================
