------------------------------- MODULE AStar -------------------------------
(***************************************************************************)
(* a_star() of manager/navigation/algorithms.py: the path all_go_home      *)
(* drives a robot along.  One step is one turn of its loop.  A cell that   *)
(* was improved is pushed again; its older entries stay in the heap and    *)
(* are skipped when they come up.                                          *)
(***************************************************************************)
EXTENDS Integers, Sequences, FiniteSets

CONSTANTS
  GridW, GridH,  \* grid_w, grid_h
  MaxBlocked     \* bound: cells under obstacles and other robots

ASSUME GridAssumption ==
  GridW \in Nat \ {0} /\ GridH \in Nat \ {0} /\ MaxBlocked \in Nat

VARIABLES
  start, goal, blocked,  \* the arguments
  open,      \* open_heap: entries <<f, cell>>
  closed,    \* the cells that were expanded
  g,         \* per cell the cost of the best way found, or Far
  cameFrom,  \* the cell before it on that way, or NoCell
  result     \* "searching" | "path" | "none"

vars == <<start, goal, blocked, open, closed, g, cameFrom, result>>

Cell == (0..GridW - 1) \X (0..GridH - 1)
NoCell == <<>>
Far == GridW * GridH

Dist(a, b) == IF a >= b THEN a - b ELSE b - a

Neighbours(c) == {n \in Cell : Dist(n[1], c[1]) + Dist(n[2], c[2]) = 1}

H(c) == Dist(c[1], goal[1]) + Dist(c[2], goal[2])

(* Fault variant: entries are pushed as (cell, f).                         *)
BeforeFaulty(a, b) ==
  \/ a[2][1] < b[2][1]
  \/ a[2][1] = b[2][1] /\ a[2][2] < b[2][2]
  \/ a[2] = b[2] /\ a[1] < b[1]

(* The order of the heap: the estimate, then the cell.                     *)
Before(a, b) ==
  \/ a[1] < b[1]
  \/ a[1] = b[1] /\ a[2][1] < b[2][1]
  \/ a[1] = b[1] /\ a[2][1] = b[2][1] /\ a[2][2] < b[2][2]

Top == CHOOSE e \in open : \A o \in open \ {e} : Before(e, o)

---------------------------------------------------------------------------
(* What all_go_home asks for: obstacles anywhere, also on the home cell,   *)
(* but never on the robot itself.                                          *)
Request ==
  /\ start \in Cell /\ goal \in Cell
  /\ blocked \in {B \in SUBSET (Cell \ {start}) : Cardinality(B) <= MaxBlocked}

Init ==
  /\ Request
  /\ open = {<<H(start), start>>}
  /\ closed = {}
  /\ g = [c \in Cell |-> IF c = start THEN 0 ELSE Far]
  /\ cameFrom = [c \in Cell \cup {NoCell} |-> NoCell]
  /\ result = IF goal \in blocked THEN "none" ELSE "searching"

Searching == result = "searching" /\ open # {}

SkipStale ==
  /\ Searching
  /\ Top[2] \in closed
  /\ open' = open \ {Top}
  /\ UNCHANGED <<start, goal, blocked, closed, g, cameFrom, result>>

(* Fault variant: the first way found to a cell is kept.                   *)
BetterFaulty(c) ==
  {n \in Neighbours(c) \ (blocked \cup closed) : g[n] = Far}

(* The neighbours that are reached at less cost over c.                    *)
Better(c) ==
  {n \in Neighbours(c) \ (blocked \cup closed) : g[c] + 1 < g[n]}

Expand ==
  /\ Searching
  /\ Top[2] \notin closed \cup {goal}
  /\ LET c == Top[2] IN
       /\ closed' = closed \cup {c}
       /\ cameFrom' = [n \in DOMAIN cameFrom |->
                         IF n \in Better(c) THEN c ELSE cameFrom[n]]
       /\ g' = [n \in Cell |-> IF n \in Better(c) THEN g[c] + 1 ELSE g[n]]
       /\ open' = (open \ {Top}) \cup {<<g[c] + 1 + H(n), n>> : n \in Better(c)}
  /\ UNCHANGED <<start, goal, blocked, result>>

Found ==
  /\ Searching
  /\ Top[2] = goal
  /\ goal \notin closed
  /\ result' = "path"
  /\ open' = open \ {Top}
  /\ UNCHANGED <<start, goal, blocked, closed, g, cameFrom>>

GiveUp ==
  /\ result = "searching"
  /\ open = {}
  /\ result' = "none"
  /\ UNCHANGED <<start, goal, blocked, open, closed, g, cameFrom>>

Returned == result # "searching" /\ UNCHANGED vars

Next == SkipStale \/ Expand \/ Found \/ GiveUp \/ Returned

Spec == Init /\ [][Next]_vars

(* The cells before the goal, counted back along cameFrom.                 *)
Back[n \in 0..Far] == IF n = 0 THEN goal ELSE cameFrom[Back[n - 1]]

(* The path that is returned.                                              *)
Path ==
  LET moves == Cardinality({n \in 1..Far : Back[n] # NoCell})
  IN  [i \in 1..moves + 1 |-> Back[moves + 1 - i]]

---------------------------------------------------------------------------
(* The cells within n moves of the start, by the grid alone.               *)
Reach[n \in 0..Far] ==
  IF n = 0 THEN {start}
  ELSE {start} \cup UNION {Neighbours(c) \ blocked : c \in Reach[n - 1]}

(* The robot is sent along free cells from one to the next, by as few as   *)
(* there can be, and only stays where it is when there is no way           *)
(* ("Returns the list of cells start..goal, or None if no path exists").   *)
ShortestPath ==
  /\ result = "path" =>
       /\ Path[1] = start /\ Path[Len(Path)] = goal
       /\ \A i \in 1..Len(Path) - 1 :
            Path[i + 1] \in Neighbours(Path[i]) \ blocked
       /\ Len(Path) > 1 => goal \notin Reach[Len(Path) - 2]
  /\ result = "none" => goal \in blocked \/ goal \notin Reach[Far]

(* Leaving closed cells alone misses no better way to them: no neighbour   *)
(* offers an expanded cell, or lacks itself, a cheaper way ("skipped on    *)
(* pop via closed").                                                       *)
ClosedIsFinal ==
  \A c \in closed : \A n \in Neighbours(c) \ blocked : g[n] <= g[c] + 1
=============================================================================
