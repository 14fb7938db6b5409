------------------------- MODULE MCCommandScheduler -------------------------
(* Symmetry sets for the run of CommandScheduler.                          *)
EXTENDS CommandScheduler, TLC

Symmetry == Permutations(Device) \cup Permutations(Client) \cup Permutations(Command)
=============================================================================
