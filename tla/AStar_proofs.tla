---------------------------- MODULE AStar_proofs ----------------------------
(***************************************************************************)
(* The path search is right on every grid: what is expanded is final, and  *)
(* a path that is returned is as short as any.                             *)
(***************************************************************************)
EXTENDS AStar, FiniteSetTheorems, WellFoundedInduction, TLAPS

(* The well-founded order of the natural numbers, as induction and as the  *)
(* existence of minima. Both speak of sets.                                *)
Less == {ss \in Nat \X Nat : ss[1] < ss[2]}

LEMMA LeastOf ==
  ASSUME NEW T, T \subseteq Nat, T # {}
  PROVE  \E x \in T : \A y \in T : x <= y
<1>1. IsWellFoundedOn(Less, Nat)
  BY NatLessThanWellFounded DEF OpToRel, Less
<1>2. \E x \in T : \A y \in T : ~(<<y, x>> \in Less)
  BY <1>1, WFMin
<1>3. PICK x \in T : \A y \in T : ~(<<y, x>> \in Less)
  BY <1>2
<1>4. ASSUME NEW y \in T
      PROVE  x <= y
  <2>1. x \in Nat /\ y \in Nat /\ <<y, x>> \notin Less
    BY <1>3
  <2>2. ~(y < x)
    BY <2>1 DEF Less
  <2> QED
    BY <2>1, <2>2
<1> QED
  BY <1>4

LEMMA NatIsInductive ==
  ASSUME NEW S, 0 \in S, \A n \in Nat : n \in S => n + 1 \in S
  PROVE  \A n \in Nat : n \in S
<1> DEFINE T == Nat \ S
<1> SUFFICES ASSUME T # {}
             PROVE  FALSE
  OBVIOUS
<1>1. PICK x \in T : \A y \in T : x <= y
  <2>1. T \subseteq Nat
    OBVIOUS
  <2> HIDE DEF T
  <2> QED
    BY <2>1, LeastOf
<1>2. x # 0 /\ x - 1 \in Nat
  OBVIOUS
<1>3. x - 1 \notin S
  BY <1>2
<1>4. x <= x - 1
  BY <1>1, <1>2, <1>3
<1> QED
  BY <1>2, <1>4

-----------------------------------------------------------------------------
(* The grid.                                                               *)

LEMMA CellCoordinates ==
  ASSUME NEW c \in Cell
  PROVE  c[1] \in Nat /\ c[2] \in Nat /\ c = <<c[1], c[2]>>
  BY GridAssumption DEF Cell

LEMMA SameCell ==
  ASSUME NEW a \in Cell, NEW b \in Cell, a[1] = b[1], a[2] = b[2]
  PROVE  a = b
  BY CellCoordinates

LEMMA CellsCounted ==
  /\ IsFiniteSet(Cell) /\ Cardinality(Cell) = Far /\ Far \in Nat /\ Far > 0
<1> DEFINE A == 0..GridW - 1
           B == 0..GridH - 1
<1>1. GridW \in Nat \ {0} /\ GridH \in Nat \ {0}
  BY GridAssumption
<1>2. IsFiniteSet(A) /\ IsFiniteSet(B) /\ Cardinality(A) = GridW /\ Cardinality(B) = GridH
  BY <1>1, FS_Interval
<1> HIDE DEF A, B
<1>3. IsFiniteSet(A \X B) /\ Cardinality(A \X B) = Cardinality(A) * Cardinality(B)
  BY <1>2, FS_Product
<1>4. Cell = A \X B
  BY DEF A, B, Cell
<1>5. IsFiniteSet(Cell) /\ Cardinality(Cell) = Far
  BY <1>2, <1>3, <1>4 DEF Far
<1>6. Cardinality(Cell) \in Nat
  BY <1>5, FS_CardinalityType
<1>7. <<0, 0>> \in Cell
  BY <1>1 DEF Cell
<1>8. Cardinality(Cell) # 0
  BY <1>5, <1>7, FS_EmptySet
<1> QED
  BY <1>5, <1>6, <1>8

LEMMA CellIsNotNoCell == NoCell \notin Cell
  BY DEF NoCell, Cell

LEMMA NoNeighbourOfItself ==
  ASSUME NEW c \in Cell
  PROVE  c \notin Neighbours(c) /\ Neighbours(c) \subseteq Cell
  BY CellCoordinates DEF Neighbours, Dist

(* The estimate falls by at most one with every move.                      *)
LEMMA Estimate ==
  ASSUME goal \in Cell, NEW c \in Cell
  PROVE  /\ H(c) \in Nat
         /\ \A n \in Neighbours(c) : H(n) \in Nat /\ H(n) <= H(c) + 1 /\ H(c) <= H(n) + 1
         /\ H(c) = 0 <=> c = goal
<1>1. H(c) \in Nat
  BY CellCoordinates DEF H, Dist
<1>2. ASSUME NEW n \in Neighbours(c)
      PROVE  H(n) \in Nat /\ H(n) <= H(c) + 1 /\ H(c) <= H(n) + 1
  <2>1. n \in Cell /\ Dist(n[1], c[1]) + Dist(n[2], c[2]) = 1
    BY <1>2 DEF Neighbours
  <2> QED
    BY <2>1, CellCoordinates DEF H, Dist
<1>3. H(c) = 0 => c[1] = goal[1] /\ c[2] = goal[2]
  BY CellCoordinates DEF H, Dist
<1>4. c = goal => H(c) = 0
  BY CellCoordinates DEF H, Dist
<1> QED
  BY <1>1, <1>2, <1>3, <1>4, SameCell

(* The top of the heap is an entry that none comes before.                 *)
LEMMA TopIsLeast ==
  ASSUME open \subseteq Nat \X Cell, open # {}
  PROVE  Top \in open /\ \A o \in open : Top[1] <= o[1]
<1>1. \A o \in open : o[1] \in Nat /\ o[2] \in Cell /\ o = <<o[1], o[2]>>
  OBVIOUS
<1>2. PICK f \in {o[1] : o \in open} : \A x \in {o[1] : o \in open} : f <= x
  <2>1. {o[1] : o \in open} \subseteq Nat /\ {o[1] : o \in open} # {}
    BY <1>1
  <2> QED
    BY <2>1, LeastOf
<1> DEFINE A == {o \in open : o[1] = f}
<1>3. PICK i \in {o[2][1] : o \in A} : \A x \in {o[2][1] : o \in A} : i <= x
  <2>1. {o[2][1] : o \in A} \subseteq Nat /\ {o[2][1] : o \in A} # {}
    BY <1>1, <1>2, CellCoordinates
  <2> QED
    BY <2>1, LeastOf
<1> DEFINE B == {o \in A : o[2][1] = i}
<1>4. PICK j \in {o[2][2] : o \in B} : \A x \in {o[2][2] : o \in B} : j <= x
  <2>1. {o[2][2] : o \in B} \subseteq Nat /\ {o[2][2] : o \in B} # {}
    BY <1>1, <1>3, CellCoordinates
  <2> QED
    BY <2>1, LeastOf
<1>5. PICK t \in open : t[1] = f /\ t[2][1] = i /\ t[2][2] = j
  BY <1>4
<1>6. ASSUME NEW o \in open \ {t}
      PROVE  Before(t, o)
  <2>1. /\ o[1] \in Nat /\ o[2] \in Cell /\ o = <<o[1], o[2]>> /\ t = <<t[1], t[2]>>
        /\ t[1] \in Nat /\ t[2] \in Cell /\ o # t
    BY <1>1, <1>6
  <2>2. /\ o[2][1] \in Nat /\ o[2][2] \in Nat /\ t[2][1] \in Nat /\ t[2][2] \in Nat
    BY <2>1, CellCoordinates
  <2>3. f <= o[1]
    BY <1>2
  <2>4. o[1] = f => i <= o[2][1]
    BY <1>3
  <2>5. o[1] = f /\ o[2][1] = i => j <= o[2][2]
    BY <1>4
  <2>6. ~(o[1] = f /\ o[2][1] = i /\ o[2][2] = j)
    BY <1>5, <2>1, SameCell
  <2> QED
    BY <1>5, <2>1, <2>2, <2>3, <2>4, <2>5, <2>6 DEF Before
<1>7. Top \in open /\ \A o \in open \ {Top} : Before(Top, o)
  <2>1. \E e \in open : \A o \in open \ {e} : Before(e, o)
    BY <1>6
  <2> QED
    BY <2>1 DEF Top
<1>8. ASSUME NEW o \in open
      PROVE  Top[1] <= o[1]
  <2>1. Top[1] \in Nat /\ o[1] \in Nat
    BY <1>1, <1>7
  <2> QED
    BY <1>7, <2>1 DEF Before
<1> QED
  BY <1>7, <1>8

-----------------------------------------------------------------------------
(* The invariant. ClosedIsFinal holds because cells are expanded in the    *)
(* order of their estimates (Rising), and that they are needs the heap to  *)
(* hold an up-to-date entry of every cell that was reached (Offered) and   *)
(* no entry that promises too much (Honest).                               *)

Known(c) == g[c] < Far

SearchTypes ==
  /\ start \in Cell /\ goal \in Cell /\ blocked \subseteq Cell
  /\ open \subseteq Nat \X Cell
  /\ closed \subseteq Cell
  /\ g \in [Cell -> 0..Far]
  /\ cameFrom \in [Cell \cup {NoCell} -> Cell \cup {NoCell}]
  /\ result \in {"searching", "path", "none"}

Began ==
  /\ g[start] = 0
  /\ cameFrom[start] = NoCell /\ cameFrom[NoCell] = NoCell
  /\ goal \notin closed
  /\ \A c \in closed : Known(c)

(* Every way that was found leads back to the start over expanded cells.   *)
Traced ==
  \A c \in Cell \ {start} : Known(c) =>
    /\ cameFrom[c] \in closed
    /\ c \in Neighbours(cameFrom[c]) \ blocked
    /\ g[c] = g[cameFrom[c]] + 1

Offered ==
  \A c \in Cell \ closed : Known(c) =>
    <<g[c] + H(c), c>> \in open \/ (result = "path" /\ c = goal)

Honest == \A e \in open : Known(e[2]) /\ g[e[2]] + H(e[2]) <= e[1]

Rising == \A c \in closed, e \in open : g[c] + H(c) <= e[1]

Ended ==
  /\ result = "path" => Known(goal) /\ \A e \in open : g[goal] <= e[1]
  /\ result = "none" => goal \in blocked \/ open = {}

SearchInv ==
  /\ SearchTypes /\ Began /\ Traced /\ Offered /\ Honest /\ Rising
  /\ ClosedIsFinal /\ Ended

LEMMA InitSearch == Init => SearchInv
<1> SUFFICES ASSUME Init
             PROVE  SearchInv
  OBVIOUS
<1>1. start \in Cell /\ goal \in Cell /\ blocked \subseteq Cell
  BY DEF Init, Request
<1>2. Far \in Nat /\ Far > 0 /\ H(start) \in Nat /\ H(start)' = H(start)'
  BY <1>1, CellsCounted, Estimate
<1>3. /\ g = [c \in Cell |-> IF c = start THEN 0 ELSE Far]
      /\ cameFrom = [c \in Cell \cup {NoCell} |-> NoCell]
      /\ open = {<<H(start), start>>} /\ closed = {}
      /\ result \in {"searching", "none"} /\ (result = "none" => goal \in blocked)
  BY DEF Init
<1>4. SearchTypes
  BY <1>1, <1>2, <1>3 DEF SearchTypes
<1>5. g[start] = 0 /\ \A c \in Cell \ {start} : g[c] = Far
  BY <1>1, <1>3
<1>6. \A c \in Cell : Known(c) => c = start
  BY <1>2, <1>5 DEF Known
<1>7. Began
  BY <1>1, <1>3, <1>5 DEF Began
<1>8. Traced /\ Rising /\ ClosedIsFinal /\ Ended
  BY <1>3, <1>6 DEF Traced, Rising, ClosedIsFinal, Ended
<1>9. Offered
  BY <1>2, <1>3, <1>5, <1>6 DEF Offered
<1>10. Honest
  <2>1. \A e \in open : e[1] = H(start) /\ e[2] = start
    BY <1>3
  <2> QED
    BY <1>2, <1>5, <2>1 DEF Honest, Known
<1> QED
  BY <1>4, <1>7, <1>8, <1>9, <1>10 DEF SearchInv

(* The entry that comes up for a cell not yet expanded is its best one.    *)
LEMMA TopIsBest ==
  ASSUME SearchInv, Searching, Top[2] \notin closed
  PROVE  /\ Top \in open /\ Top[2] \in Cell /\ Known(Top[2])
         /\ Top[1] = g[Top[2]] + H(Top[2]) /\ g[Top[2]] \in Nat /\ H(Top[2]) \in Nat
         /\ \A e \in open : Top[1] <= e[1] /\ e[1] \in Nat
<1>0. SearchTypes /\ Offered /\ Honest
  BY DEF SearchInv
<1>1. Top \in open /\ \A e \in open : Top[1] <= e[1]
  BY <1>0, TopIsLeast DEF Searching, SearchTypes
<1>2. \A e \in open : e[1] \in Nat /\ e[2] \in Cell
  BY <1>0 DEF SearchTypes
<1>3. Known(Top[2]) /\ g[Top[2]] + H(Top[2]) <= Top[1]
  BY <1>0, <1>1 DEF Honest
<1>4. <<g[Top[2]] + H(Top[2]), Top[2]>> \in open
  BY <1>0, <1>1, <1>2, <1>3 DEF Offered, Searching
<1>5. Top[1] <= g[Top[2]] + H(Top[2])
  BY <1>1, <1>4
<1>6. Top[2] \in Cell /\ g[Top[2]] \in Nat /\ H(Top[2]) \in Nat
  <2>1. Top[2] \in Cell /\ goal \in Cell
    BY <1>0, <1>1, <1>2 DEF SearchTypes
  <2>2. H(Top[2]) \in Nat
    BY <2>1, Estimate
  <2>3. g[Top[2]] \in Nat
    BY <1>0, <2>1, CellsCounted DEF SearchTypes
  <2> QED
    BY <2>1, <2>2, <2>3
<1>7. Top[1] \in Nat
  BY <1>1, <1>2
<1>8. Top[1] = g[Top[2]] + H(Top[2])
  BY <1>3, <1>5, <1>6, <1>7
<1> QED
  BY <1>1, <1>2, <1>3, <1>6, <1>8

(* Entries are only taken away, none that a cell still needs.              *)
LEMMA HeapShrinks ==
  ASSUME SearchInv, UNCHANGED <<start, goal, blocked, closed, g, cameFrom>>,
         open' \subseteq open, result' \in {"searching", "path", "none"},
         Offered', Ended'
  PROVE  SearchInv'
<1>0. SearchTypes /\ Began /\ Traced /\ Honest /\ Rising /\ ClosedIsFinal
  BY DEF SearchInv
<1>1. SearchTypes' /\ Began' /\ Traced' /\ ClosedIsFinal'
  BY <1>0 DEF SearchTypes, Began, Traced, ClosedIsFinal, Known, Neighbours
<1>2. Honest' /\ Rising'
  BY <1>0 DEF Honest, Rising, Known, H
<1> QED
  BY <1>1, <1>2 DEF SearchInv

LEMMA SkipStep ==
  ASSUME SearchInv, SkipStale
  PROVE  SearchInv'
<1>0. SearchTypes /\ Offered /\ result = "searching"
  BY DEF SearchInv, SkipStale, Searching
<1>1. /\ Top[2] \in closed /\ open' = open \ {Top}
      /\ UNCHANGED <<start, goal, blocked, closed, g, cameFrom, result>>
  BY DEF SkipStale
<1>2. Offered'
  <2> SUFFICES ASSUME NEW c \in Cell \ closed, Known(c)
               PROVE  <<g[c] + H(c), c>> \in open \ {Top}
    BY <1>1 DEF Offered, Known, H
  <2>1. <<g[c] + H(c), c>> \in open
    BY <1>0 DEF Offered
  <2>2. <<g[c] + H(c), c>> # Top
    BY <1>1
  <2> QED
    BY <2>1, <2>2
<1>3. Ended'
  BY <1>0, <1>1 DEF Ended
<1> QED
  BY <1>0, <1>1, <1>2, <1>3, HeapShrinks

LEMMA FoundStep ==
  ASSUME SearchInv, Found
  PROVE  SearchInv'
<1>0. SearchTypes /\ Offered /\ result = "searching" /\ goal \notin closed
  BY DEF SearchInv, Found, Searching
<1>1. /\ Top[2] = goal /\ open' = open \ {Top} /\ result' = "path"
      /\ UNCHANGED <<start, goal, blocked, closed, g, cameFrom>> /\ Searching
  BY DEF Found
<1>2. Offered'
  <2> SUFFICES ASSUME NEW c \in Cell \ closed, Known(c), c # goal
               PROVE  <<g[c] + H(c), c>> \in open \ {Top}
    BY <1>1 DEF Offered, Known, H
  <2>1. <<g[c] + H(c), c>> \in open
    BY <1>0 DEF Offered
  <2>2. <<g[c] + H(c), c>> # Top
    BY <1>1
  <2> QED
    BY <2>1, <2>2
<1>3. Ended'
  <2>1. Known(goal) /\ Top[1] = g[goal] + H(goal) /\ \A e \in open : Top[1] <= e[1]
    BY <1>0, <1>1, TopIsBest
  <2>2. H(goal) = 0 /\ g[goal] \in Nat
    BY <1>0, Estimate, CellsCounted DEF SearchTypes
  <2> QED
    BY <1>1, <2>1, <2>2 DEF Ended, Known
<1> QED
  BY <1>1, <1>2, <1>3, HeapShrinks

LEMMA GiveUpStep ==
  ASSUME SearchInv, GiveUp
  PROVE  SearchInv'
<1>0. SearchTypes /\ Offered
  BY DEF SearchInv
<1>1. /\ result = "searching" /\ open = {} /\ open' = {} /\ result' = "none"
      /\ UNCHANGED <<start, goal, blocked, closed, g, cameFrom>>
  BY DEF GiveUp
<1>2. Offered'
  BY <1>0, <1>1 DEF Offered, Known, H
<1>3. Ended'
  BY <1>1 DEF Ended
<1> QED
  BY <1>1, <1>2, <1>3, HeapShrinks

LEMMA ExpandStep ==
  ASSUME SearchInv, Expand
  PROVE  SearchInv'
<1> DEFINE c == Top[2]
<1>0. SearchTypes /\ Began /\ Traced /\ Offered /\ Honest /\ Rising /\ ClosedIsFinal
  BY DEF SearchInv
<1>1. Searching /\ result = "searching" /\ c \notin closed /\ c # goal
  BY DEF Expand, Searching
<1>2. /\ Top \in open /\ c \in Cell /\ Known(c)
      /\ Top[1] = g[c] + H(c) /\ g[c] \in Nat /\ H(c) \in Nat
      /\ \A e \in open : Top[1] <= e[1] /\ e[1] \in Nat
  BY <1>1, TopIsBest
<1>3. /\ closed' = closed \cup {c}
      /\ cameFrom' = [n \in DOMAIN cameFrom |-> IF n \in Better(c) THEN c ELSE cameFrom[n]]
      /\ g' = [n \in Cell |-> IF n \in Better(c) THEN g[c] + 1 ELSE g[n]]
      /\ open' = (open \ {Top}) \cup {<<g[c] + 1 + H(n), n>> : n \in Better(c)}
      /\ start' = start /\ goal' = goal /\ blocked' = blocked /\ result' = result
  BY DEF Expand
<1> HIDE DEF c
<1>4. \A n \in Cell : /\ H(n) \in Nat /\ g[n] \in Nat /\ g[n] <= Far
                      /\ H(n)' = H(n) /\ Neighbours(n)' = Neighbours(n)
  <2>1. goal \in Cell
    BY <1>0 DEF SearchTypes
  <2>2. \A n \in Cell : g[n] \in Nat /\ g[n] <= Far
    BY <1>0, CellsCounted DEF SearchTypes
  <2>3. \A n \in Cell : H(n)' = H(n) /\ Neighbours(n)' = Neighbours(n)
    BY <1>3 DEF H, Neighbours
  <2> QED
    BY <2>1, <2>2, <2>3, Estimate
<1>5. \A n \in Better(c) :
        /\ n \in Cell /\ n \in Neighbours(c) \ blocked /\ n \notin closed /\ g[c] + 1 < g[n]
        /\ n # c /\ H(c) <= H(n) + 1
  BY <1>0, <1>2, NoNeighbourOfItself, Estimate DEF Better, SearchTypes
<1>6. Far \in Nat
  BY CellsCounted
<1>7. \A n \in Cell : /\ n \in Better(c) => g'[n] = g[c] + 1 /\ cameFrom'[n] = c
                      /\ n \notin Better(c) => g'[n] = g[n] /\ cameFrom'[n] = cameFrom[n]
                      /\ g'[n] <= g[n]
  BY <1>0, <1>2, <1>3, <1>4, <1>5 DEF SearchTypes
<1>8. \A n \in closed' : n \in Cell /\ n \notin Better(c) /\ g'[n] = g[n] /\ g[n] \in Nat
  BY <1>0, <1>2, <1>3, <1>4, <1>5, <1>7 DEF SearchTypes
<1>9. SearchTypes'
  <2>1. open' \subseteq Nat \X Cell
    <3>1. \A n \in Better(c) : g[c] + 1 + H(n) \in Nat /\ n \in Cell
      BY <1>2, <1>4, <1>5
    <3> QED
      BY <1>0, <1>3, <3>1 DEF SearchTypes
  <2>2. g' \in [Cell -> 0..Far]
    <3>1. \A n \in Better(c) : g[c] + 1 \in 0..Far
      BY <1>2, <1>4, <1>5, <1>6
    <3> QED
      BY <1>0, <1>3, <3>1 DEF SearchTypes
  <2>3. cameFrom' \in [Cell \cup {NoCell} -> Cell \cup {NoCell}]
    BY <1>0, <1>2, <1>3 DEF SearchTypes
  <2> QED
    BY <1>0, <1>2, <1>3, <2>1, <2>2, <2>3 DEF SearchTypes
<1>10. \A n \in Cell : /\ Known(n)' => n \in Better(c) \/ Known(n)
                       /\ n \in Better(c) \/ Known(n) => Known(n)'
  BY <1>2, <1>4, <1>5, <1>6, <1>7 DEF Known
<1>11. start \in Cell /\ start \notin Better(c) /\ NoCell \notin Better(c)
  <2>1. start \in Cell /\ g[start] = 0
    BY <1>0 DEF SearchTypes, Began
  <2>2. ~(g[c] + 1 < g[start])
    BY <1>2, <2>1
  <2> QED
    BY <1>5, <2>1, <2>2, CellIsNotNoCell
<1>12. Began'
  <2>1. g'[start] = 0 /\ cameFrom'[start] = NoCell /\ cameFrom'[NoCell] = NoCell
    BY <1>0, <1>3, <1>7, <1>11 DEF Began, SearchTypes
  <2>2. \A n \in closed' : Known(n)'
    BY <1>0, <1>2, <1>3, <1>8, <1>10 DEF Began
  <2> QED
    BY <1>0, <1>1, <1>3, <2>1, <2>2 DEF Began
<1>13. Traced'
  <2> SUFFICES ASSUME NEW n \in Cell \ {start}, Known(n)'
               PROVE  /\ cameFrom'[n] \in closed'
                      /\ n \in Neighbours(cameFrom'[n]) \ blocked
                      /\ g'[n] = g'[cameFrom'[n]] + 1
    BY <1>3 DEF Traced, Neighbours
  <2>1. CASE n \in Better(c)
    <3>1. c \in closed' /\ g'[c] = g[c]
      BY <1>3, <1>8
    <3> QED
      BY <1>5, <1>7, <2>1, <3>1
  <2>2. CASE n \notin Better(c)
    <3>1. /\ cameFrom[n] \in closed /\ n \in Neighbours(cameFrom[n]) \ blocked
          /\ g[n] = g[cameFrom[n]] + 1
      BY <1>0, <1>10, <2>2 DEF Traced
    <3>2. g'[cameFrom[n]] = g[cameFrom[n]] /\ cameFrom'[n] = cameFrom[n] /\ g'[n] = g[n]
      BY <1>3, <1>7, <1>8, <2>2, <3>1
    <3> QED
      BY <1>3, <3>1, <3>2
  <2> QED
    BY <2>1, <2>2
<1>14. Offered'
  <2> SUFFICES ASSUME NEW n \in Cell \ closed', Known(n)'
               PROVE  <<g'[n] + H(n), n>> \in open'
    BY <1>4 DEF Offered
  <2>1. CASE n \in Better(c)
    BY <1>3, <1>7, <2>1
  <2>2. CASE n \notin Better(c)
    <3>1. <<g[n] + H(n), n>> \in open
      BY <1>0, <1>1, <1>3, <1>10, <2>2 DEF Offered
    <3>2. <<g[n] + H(n), n>> # Top
      BY <1>3 DEF c
    <3>3. g'[n] = g[n]
      BY <1>7, <2>2
    <3> QED
      BY <1>3, <3>1, <3>2, <3>3
  <2> QED
    BY <2>1, <2>2
<1>15. \A e \in open' : \/ e \in open
                        \/ \E n \in Better(c) : e[1] = g[c] + 1 + H(n) /\ e[2] = n
  BY <1>3
<1>16. Honest'
  <2> SUFFICES ASSUME NEW e \in open'
               PROVE  Known(e[2])' /\ g'[e[2]] + H(e[2])' <= e[1]
    BY DEF Honest
  <2>1. CASE e \in open
    <3>1. e[1] \in Nat /\ e[2] \in Cell /\ Known(e[2]) /\ g[e[2]] + H(e[2]) <= e[1]
      BY <1>0, <2>1 DEF SearchTypes, Honest
    <3>2. /\ H(e[2])' = H(e[2]) /\ H(e[2]) \in Nat /\ g[e[2]] \in Nat
          /\ g'[e[2]] <= g[e[2]] /\ g'[e[2]] \in Nat
      BY <1>4, <1>7, <1>9, <3>1, <1>6 DEF SearchTypes
    <3>3. Known(e[2])'
      BY <1>10, <3>1
    <3> QED
      BY <3>1, <3>2, <3>3
  <2>2. ASSUME NEW n \in Better(c), e[1] = g[c] + 1 + H(n), e[2] = n
        PROVE  Known(e[2])' /\ g'[e[2]] + H(e[2])' <= e[1]
    <3>1. n \in Cell /\ g'[n] = g[c] + 1 /\ H(n)' = H(n) /\ H(n) \in Nat /\ Known(n)'
      BY <1>4, <1>5, <1>7, <1>10
    <3> QED
      BY <1>2, <2>2, <3>1
  <2> QED
    BY <1>15, <2>1, <2>2
<1>17. Rising'
  <2> SUFFICES ASSUME NEW k \in closed', NEW e \in open'
               PROVE  g[k] + H(k) <= e[1]
    BY <1>4, <1>8 DEF Rising
  <2>1. k \in Cell /\ g[k] \in Nat /\ H(k) \in Nat
    BY <1>4, <1>8
  <2>2. g[k] + H(k) <= Top[1]
    BY <1>0, <1>2, <1>3, <2>1 DEF Rising
  <2>3. CASE e \in open
    BY <1>2, <2>1, <2>2, <2>3
  <2>4. ASSUME NEW n \in Better(c), e[1] = g[c] + 1 + H(n)
        PROVE  g[k] + H(k) <= e[1]
    <3>1. n \in Cell /\ H(c) <= H(n) + 1 /\ H(n) \in Nat
      BY <1>4, <1>5
    <3> QED
      BY <1>2, <2>1, <2>2, <2>4, <3>1
  <2> QED
    BY <1>15, <2>3, <2>4
<1>18. ClosedIsFinal'
  <2> SUFFICES ASSUME NEW k \in closed', NEW n \in Neighbours(k) \ blocked
               PROVE  g'[n] <= g'[k] + 1
    BY <1>3 DEF ClosedIsFinal, Neighbours
  <2>1. k \in Cell /\ g'[k] = g[k] /\ g[k] \in Nat /\ n \in Cell
    BY <1>8, NoNeighbourOfItself
  <2>2. g'[n] <= g[n] /\ g'[n] \in Nat /\ g[n] \in Nat
    BY <1>4, <1>6, <1>7, <1>9, <2>1 DEF SearchTypes
  <2>3. CASE k \in closed
    <3>1. g[n] <= g[k] + 1
      BY <1>0, <2>3 DEF ClosedIsFinal
    <3> QED
      BY <2>1, <2>2, <3>1
  <2>4. CASE k = c /\ n \notin closed
    <3>1. n \in Better(c) \/ ~(g[c] + 1 < g[n])
      BY <2>4 DEF Better
    <3> QED
      BY <1>7, <2>1, <2>2, <2>4, <3>1
  <2>5. CASE k = c /\ n \in closed
    <3>1. g[n] + H(n) <= g[c] + H(c)
      BY <1>0, <1>2, <2>5 DEF Rising
    <3>2. H(c) <= H(n) + 1 /\ H(n) \in Nat
      BY <1>0, <1>2, <2>1, <2>5, Estimate DEF SearchTypes
    <3> QED
      BY <1>2, <2>1, <2>2, <2>5, <3>1, <3>2
  <2> QED
    BY <1>3, <2>3, <2>4, <2>5
<1>19. Ended'
  BY <1>1, <1>3 DEF Ended
<1> QED
  BY <1>9, <1>12, <1>13, <1>14, <1>16, <1>17, <1>18, <1>19 DEF SearchInv

LEMMA SearchStep ==
  ASSUME SearchInv, [Next]_vars
  PROVE  SearchInv'
<1>1. CASE UNCHANGED vars
  BY <1>1 DEF vars, SearchInv, SearchTypes, Began, Traced, Offered, Honest, Rising,
              ClosedIsFinal, Ended, Known, H, Neighbours
<1> QED
  BY <1>1, SkipStep, ExpandStep, FoundStep, GiveUpStep DEF Next, Returned

(* An expanded cell has its final cost: no neighbour that is expanded      *)
(* later offers it a cheaper way, so a_star() may skip it when an older    *)
(* entry of it comes up. On every grid, with the estimate of the code.     *)
THEOREM ExpandedIsFinal == Spec => []ClosedIsFinal
<1>1. SearchInv => ClosedIsFinal
  BY DEF SearchInv
<1> QED
  BY <1>1, InitSearch, SearchStep, PTL DEF Spec

-----------------------------------------------------------------------------
(* The two recursions of the property. Both apply a function over and over *)
(* to a value of some set, so they exist and stay in that set.             *)
Iterates(f, x, F, m) == f[0] = x /\ \A n \in 1..m : f[n] = F[f[n - 1]]

LEMMA Iterated ==
  ASSUME NEW T, NEW x \in T, NEW F \in [T -> T]
  PROVE  \A m \in Nat : \E f \in [0..m -> T] : Iterates(f, x, F, m)
<1> DEFINE Upto(f, m) == Iterates(f, x, F, m)
           S == {m \in Nat : \E f \in [0..m -> T] : Upto(f, m)}
<1>1. 0 \in S
  <2> DEFINE f0 == [n \in 0..0 |-> x]
  <2>1. f0 \in [0..0 -> T] /\ Upto(f0, 0)
    BY DEF Iterates
  <2> QED
    BY <2>1
<1>2. ASSUME NEW m \in Nat, m \in S
      PROVE  m + 1 \in S
  <2>1. PICK f \in [0..m -> T] : Upto(f, m)
    BY <1>2
  <2> DEFINE h == [n \in 0..m + 1 |-> IF n = m + 1 THEN F[f[m]] ELSE f[n]]
  <2>0. f[0] = x /\ \A n \in 1..m : f[n] = F[f[n - 1]]
    BY <2>1 DEF Iterates
  <2>2. \A n \in 0..m : f[n] \in T /\ n \in 0..m + 1 /\ n # m + 1
    BY <2>1
  <2>3. F[f[m]] \in T
    BY <2>2
  <2>4. h \in [0..m + 1 -> T]
    BY <2>2, <2>3
  <2>5. h[m + 1] = F[f[m]] /\ \A n \in 0..m : h[n] = f[n]
    BY <2>2
  <2> HIDE DEF h
  <2>6. Upto(h, m + 1)
    <3>1. h[0] = x
      BY <2>0, <2>5
    <3>2. ASSUME NEW n \in 1..m + 1
          PROVE  h[n] = F[h[n - 1]]
      <4>1. CASE n = m + 1
        <5>1. n - 1 = m /\ m \in 0..m
          BY <4>1
        <5> QED
          BY <2>5, <4>1, <5>1
      <4>2. CASE n # m + 1
        <5>1. n \in 1..m /\ n \in 0..m /\ n - 1 \in 0..m
          BY <4>2
        <5> QED
          BY <2>0, <2>5, <5>1
      <4> QED
        BY <4>1, <4>2
    <3> QED
      BY <3>1, <3>2 DEF Iterates
  <2>7. m + 1 \in Nat
    OBVIOUS
  <2> HIDE DEF Upto
  <2> QED
    BY <2>4, <2>6, <2>7
<1>3. \A n \in Nat : n \in S => n + 1 \in S
  BY <1>2
<1>4. \A m \in Nat : m \in S
  <2> HIDE DEF S
  <2> QED
    BY <1>1, <1>3, NatIsInductive
<1> QED
  BY <1>4

LEMMA IteratedTypes ==
  ASSUME NEW T, NEW x \in T, NEW F \in [T -> T], NEW m \in Nat, NEW f,
         Iterates(f, x, F, m)
  PROVE  \A n \in 0..m : f[n] \in T
<1> DEFINE S == {n \in Nat : n <= m => f[n] \in T}
<1>0. f[0] = x /\ \A n \in 1..m : f[n] = F[f[n - 1]]
  BY DEF Iterates
<1>1. 0 \in S
  BY <1>0
<1>2. ASSUME NEW n \in Nat, n \in S
      PROVE  n + 1 \in S
  <2>1. CASE n + 1 <= m
    <3>1. n + 1 \in 1..m /\ n <= m /\ (n + 1) - 1 = n
      BY <2>1
    <3>2. f[n + 1] = F[f[n]] /\ f[n] \in T
      BY <1>0, <1>2, <3>1
    <3> QED
      BY <3>2
  <2> QED
    BY <2>1
<1>3. \A n \in Nat : n \in S
  <2>1. \A n \in Nat : n \in S => n + 1 \in S
    BY <1>2
  <2> HIDE DEF S
  <2> QED
    BY <1>1, <2>1, NatIsInductive
<1> QED
  BY <1>3

LEMMA BackSteps ==
  ASSUME SearchTypes
  PROVE  /\ \A n \in 0..Far : Back[n] \in Cell \cup {NoCell}
         /\ Back[0] = goal
         /\ \A n \in 1..Far : Back[n] = cameFrom[Back[n - 1]]
<1> DEFINE T == Cell \cup {NoCell}
<1>1. goal \in T /\ cameFrom \in [T -> T] /\ Far \in Nat
  BY CellsCounted DEF SearchTypes
<1>2. 0 \in 0..Far /\ \A n \in 0..Far : n # 0 => n \in 1..Far
  BY <1>1
<1>3. PICK f \in [0..Far -> T] : Iterates(f, goal, cameFrom, Far)
  <2> HIDE DEF T
  <2> QED
    BY <1>1, Iterated
<1>3a. f[0] = goal /\ \A n \in 1..Far : f[n] = cameFrom[f[n - 1]]
  BY <1>3 DEF Iterates
<1>4. f = [n \in 0..Far |-> IF n = 0 THEN goal ELSE cameFrom[f[n - 1]]]
  <2>1. \A n \in 0..Far : f[n] = IF n = 0 THEN goal ELSE cameFrom[f[n - 1]]
    BY <1>2, <1>3a
  <2>2. f = [n \in 0..Far |-> f[n]]
    BY <1>3
  <2> QED
    BY <2>1, <2>2
<1>5. Back = [n \in 0..Far |-> IF n = 0 THEN goal ELSE cameFrom[Back[n - 1]]]
  BY <1>4 DEF Back
<1>6. \A n \in 1..Far : n \in 0..Far /\ n # 0
  BY <1>1
<1>7. Back[0] = goal /\ \A n \in 1..Far : Back[n] = cameFrom[Back[n - 1]]
  BY <1>2, <1>5, <1>6
<1>8. \A n \in 0..Far : Back[n] \in T
  <2>1. Iterates(Back, goal, cameFrom, Far)
    BY <1>7 DEF Iterates
  <2> HIDE DEF T
  <2> QED
    BY <1>1, <2>1, IteratedTypes
<1> QED
  BY <1>7, <1>8

LEMMA ReachSteps ==
  ASSUME SearchTypes
  PROVE  /\ Reach[0] = {start}
         /\ \A n \in 1..Far : \A c \in Reach[n] :
              c = start \/ \E d \in Reach[n - 1] : c \in Neighbours(d) \ blocked
         /\ \A n \in 0..Far : Reach[n] \subseteq Cell
<1> DEFINE T == SUBSET Cell
           Spread(X) == {start} \cup UNION {Neighbours(c) \ blocked : c \in X}
           F == [X \in T |-> Spread(X)]
<1>1. {start} \in T /\ F \in [T -> T] /\ Far \in Nat
  BY CellsCounted DEF SearchTypes, Neighbours
<1>2. \A n \in 1..Far : n \in 0..Far /\ n # 0 /\ n - 1 \in 0..Far
  BY <1>1
<1>3. PICK f \in [0..Far -> T] : Iterates(f, {start}, F, Far)
  <2> HIDE DEF T, F
  <2> QED
    BY <1>1, Iterated
<1>3a. f[0] = {start} /\ \A n \in 1..Far : f[n] = F[f[n - 1]]
  <2> HIDE DEF F
  <2> QED
    BY <1>3 DEF Iterates
<1>4. \A n \in 1..Far : f[n] = Spread(f[n - 1])
  <2>1. \A n \in 1..Far : f[n - 1] \in T
    BY <1>2, <1>3
  <2>2. \A X \in T : F[X] = Spread(X)
    OBVIOUS
  <2> HIDE DEF F, Spread, T
  <2> QED
    BY <1>3a, <2>1, <2>2
<1>5. f = [n \in 0..Far |-> IF n = 0 THEN {start} ELSE Spread(f[n - 1])]
  <2>1. \A n \in 0..Far : n # 0 => n \in 1..Far
    BY <1>1
  <2>2. f = [n \in 0..Far |-> f[n]]
    BY <1>3
  <2> HIDE DEF F, Spread, T
  <2>3. \A n \in 0..Far : f[n] = IF n = 0 THEN {start} ELSE Spread(f[n - 1])
    BY <1>3a, <1>4, <2>1
  <2> QED
    BY <2>2, <2>3
<1>6. Reach = [n \in 0..Far |-> IF n = 0 THEN {start} ELSE Spread(Reach[n - 1])]
  BY <1>5 DEF Reach
<1>7. Reach[0] = {start} /\ \A n \in 1..Far : Reach[n] = Spread(Reach[n - 1])
  <2>1. 0 \in 0..Far
    BY <1>1
  <2> HIDE DEF Spread
  <2> QED
    BY <1>2, <1>6, <2>1
<1>8. \A n \in 0..Far : Reach[n] \subseteq Cell
  <2>1. {start} \subseteq Cell /\ \A X : Spread(X) \subseteq Cell
    BY DEF SearchTypes, Neighbours
  <2>2. \A n \in 0..Far : n # 0 => n \in 1..Far
    BY <1>1
  <2> HIDE DEF Spread
  <2> QED
    BY <1>7, <2>1, <2>2
<1> QED
  BY <1>7, <1>8

-----------------------------------------------------------------------------
(* Counting back from a goal that was reached: the cost falls by one with  *)
(* every cell, so the start comes up after as many as the goal costs, and  *)
(* nothing after it.                                                       *)
LEMMA CostsCountDown ==
  ASSUME SearchInv, NEW d \in Cell, Known(d)
  PROVE  /\ g[d] \in Nat /\ g[d] < Far
         /\ d # start => /\ cameFrom[d] \in Cell /\ Known(cameFrom[d])
                         /\ g[cameFrom[d]] = g[d] - 1 /\ g[d] > 0
                         /\ d \in Neighbours(cameFrom[d]) \ blocked
         /\ g[d] = 0 <=> d = start
<1>0. SearchTypes /\ Began /\ Traced
  BY DEF SearchInv
<1>1. g[d] \in Nat /\ g[d] < Far
  BY <1>0, CellsCounted DEF SearchTypes, Known
<1>2. ASSUME d # start
      PROVE  /\ cameFrom[d] \in Cell /\ Known(cameFrom[d])
             /\ g[cameFrom[d]] = g[d] - 1 /\ g[d] > 0
             /\ d \in Neighbours(cameFrom[d]) \ blocked
  <2>1. cameFrom[d] \in closed /\ d \in Neighbours(cameFrom[d]) \ blocked
        /\ g[d] = g[cameFrom[d]] + 1
    BY <1>0, <1>2 DEF Traced
  <2>2. cameFrom[d] \in Cell /\ Known(cameFrom[d])
    BY <1>0, <2>1 DEF SearchTypes, Began
  <2>3. g[cameFrom[d]] \in Nat
    BY <1>0, <2>2, CellsCounted DEF SearchTypes
  <2> QED
    BY <1>1, <2>1, <2>2, <2>3
<1> QED
  BY <1>0, <1>1, <1>2 DEF Began

LEMMA BackFromGoal ==
  ASSUME SearchInv, Known(goal)
  PROVE  /\ g[goal] \in Nat /\ g[goal] < Far
         /\ \A n \in 0..g[goal] :
              Back[n] \in Cell /\ Known(Back[n]) /\ g[Back[n]] = g[goal] - n
         /\ Back[0] = goal /\ Back[g[goal]] = start
         /\ \A n \in 1..g[goal] : Back[n - 1] \in Neighbours(Back[n]) \ blocked
         /\ \A n \in 1..Far : n > g[goal] => Back[n] = NoCell
<1>0. SearchTypes /\ Began
  BY DEF SearchInv
<1>1. goal \in Cell /\ Far \in Nat
  BY <1>0, CellsCounted DEF SearchTypes
<1>2. g[goal] \in Nat /\ g[goal] < Far
  BY <1>1, CostsCountDown
<1>3. Back[0] = goal /\ \A n \in 1..Far : Back[n] = cameFrom[Back[n - 1]]
  BY <1>0, BackSteps
<1>4. PICK k \in Nat : k = g[goal]
  BY <1>2
<1> DEFINE Right(n) == Back[n] \in Cell /\ Known(Back[n]) /\ g[Back[n]] = k - n
           S == {n \in Nat : n <= k => Right(n)}
<1>5. ASSUME NEW n \in Nat, n < k, Right(n)
      PROVE  Right(n + 1) /\ Back[n] \in Neighbours(Back[n + 1]) \ blocked
  <2>1. n + 1 \in 1..Far /\ (n + 1) - 1 = n
    BY <1>1, <1>2, <1>4, <1>5
  <2>2. Back[n + 1] = cameFrom[Back[n]]
    BY <1>3, <2>1
  <2>3. PICK d \in Cell : d = Back[n] /\ Known(d) /\ g[d] = k - n
    BY <1>5
  <2>4. d # start
    BY <1>5, <2>3, CostsCountDown
  <2>5. /\ cameFrom[d] \in Cell /\ Known(cameFrom[d]) /\ g[cameFrom[d]] = g[d] - 1
        /\ d \in Neighbours(cameFrom[d]) \ blocked
    BY <2>3, <2>4, CostsCountDown
  <2>6. g[cameFrom[d]] = k - (n + 1)
    BY <1>5, <2>3, <2>5
  <2> QED
    BY <2>2, <2>3, <2>5, <2>6
<1>6. \A n \in Nat : n \in S
  <2>1. 0 \in S
    BY <1>1, <1>2, <1>3, <1>4
  <2>2. \A n \in Nat : n \in S => n + 1 \in S
    <3>1. ASSUME NEW n \in Nat, n \in S, n + 1 <= k
          PROVE  Right(n + 1)
      <4>1. n < k /\ n <= k
        BY <3>1
      <4>2. Right(n)
        BY <3>1, <4>1
      <4> HIDE DEF Right
      <4> QED
        BY <1>5, <4>1, <4>2
    <3> HIDE DEF Right
    <3> QED
      BY <3>1
  <2> HIDE DEF S
  <2> QED
    BY <2>1, <2>2, NatIsInductive
<1>7. \A n \in 0..k : Right(n)
  <2> HIDE DEF Right
  <2> QED
    BY <1>4, <1>6
<1>8. Back[k] = start
  <2>1. Right(k)
    BY <1>4, <1>7
  <2>2. PICK d \in Cell : d = Back[k] /\ Known(d) /\ g[d] = 0
    BY <1>4, <2>1
  <2> QED
    BY <2>2, CostsCountDown
<1>9. \A n \in 1..k : Back[n - 1] \in Neighbours(Back[n]) \ blocked
  <2>1. ASSUME NEW n \in 1..k
        PROVE  Back[n - 1] \in Neighbours(Back[n]) \ blocked
    <3>1. n - 1 \in Nat /\ n - 1 < k /\ n - 1 \in 0..k /\ (n - 1) + 1 = n
      BY <1>4, <2>1
    <3>2. Right(n - 1)
      BY <1>7, <3>1
    <3> HIDE DEF Right
    <3> QED
      BY <1>5, <3>1, <3>2
  <2> QED
    BY <2>1
<1>10. \A n \in 1..Far : n > k => Back[n] = NoCell
  <2> DEFINE E == {n \in Nat : n \in 1..Far /\ n > k => Back[n] = NoCell}
  <2>1. 0 \in E
    BY <1>1
  <2>2. ASSUME NEW n \in Nat, n \in E
        PROVE  n + 1 \in E
    <3>1. CASE n + 1 \in 1..Far /\ n + 1 > k
      <4>1. Back[n + 1] = cameFrom[Back[n]] /\ (n = k \/ (n > k /\ n \in 1..Far))
        <5>1. (n + 1) - 1 = n
          OBVIOUS
        <5> QED
          BY <1>1, <1>3, <1>4, <3>1, <5>1
      <4>2. Back[n] = start \/ Back[n] = NoCell
        BY <1>8, <2>2, <4>1
      <4> QED
        BY <1>0, <4>1, <4>2 DEF Began
    <3> QED
      BY <3>1
  <2>3. \A n \in Nat : n \in E => n + 1 \in E
    BY <2>2
  <2>4. \A n \in Nat : n \in E
    <3> HIDE DEF E
    <3> QED
      BY <2>1, <2>3, NatIsInductive
  <2> QED
    BY <2>4
<1> QED
  BY <1>2, <1>3, <1>4, <1>7, <1>8, <1>9, <1>10

LEMMA PathIsBack ==
  ASSUME SearchInv, Known(goal)
  PROVE  Path = [i \in 1..g[goal] + 1 |-> Back[g[goal] + 1 - i]]
<1>1. /\ g[goal] \in Nat /\ g[goal] < Far
      /\ \A n \in 0..g[goal] : Back[n] \in Cell
      /\ \A n \in 1..Far : n > g[goal] => Back[n] = NoCell
  BY BackFromGoal
<1>2. PICK k \in Nat : k = g[goal]
  BY <1>1
<1>3. Far \in Nat
  BY CellsCounted
<1>4. {n \in 1..Far : Back[n] # NoCell} = 1..k
  <2>1. \A n \in 1..Far : n > k => Back[n] = NoCell
    BY <1>1, <1>2
  <2>2. \A n \in 1..k : n \in 1..Far /\ Back[n] # NoCell
    BY <1>1, <1>2, <1>3, CellIsNotNoCell
  <2>3. \A n : n \in {m \in 1..Far : Back[m] # NoCell} <=> n \in 1..k
    BY <1>2, <1>3, <2>1, <2>2
  <2> QED
    BY <2>3
<1>5. Cardinality(1..k) = k
  BY <1>2, FS_Interval
<1> QED
  BY <1>2, <1>4, <1>5 DEF Path

-----------------------------------------------------------------------------
(* A way visits no cell twice, so one that has the cost of the last cell   *)
(* has been everywhere: Far, the cost of what was not reached, is never a  *)
(* cost of what was.                                                       *)
LEMMA NothingIsAsFar ==
  ASSUME SearchInv, NEW c \in closed, g[c] = Far - 1
  PROVE  \A d \in Cell : Known(d)
<1>0. c \in Cell /\ Known(c) /\ g \in [Cell -> 0..Far] /\ Far \in Nat /\ Far > 0
  BY CellsCounted DEF SearchInv, SearchTypes, Began
<1> DEFINE S == {j \in Nat : j < Far => \E d \in Cell : Known(d) /\ g[d] = Far - 1 - j}
<1>1. 0 \in S
  BY <1>0
<1>2. ASSUME NEW j \in Nat, j \in S
      PROVE  j + 1 \in S
  <2>1. CASE j + 1 < Far
    <3>1. PICK d \in Cell : Known(d) /\ g[d] = Far - 1 - j
      BY <1>0, <1>2, <2>1
    <3>2. d # start
      BY <1>0, <2>1, <3>1, CostsCountDown
    <3>3. cameFrom[d] \in Cell /\ Known(cameFrom[d]) /\ g[cameFrom[d]] = g[d] - 1
      BY <3>1, <3>2, CostsCountDown
    <3>4. g[cameFrom[d]] = Far - 1 - (j + 1)
      BY <1>0, <3>1, <3>3
    <3> QED
      BY <3>3, <3>4
  <2> QED
    BY <2>1
<1>3. \A j \in Nat : j \in S
  <2>1. \A j \in Nat : j \in S => j + 1 \in S
    BY <1>2
  <2> HIDE DEF S
  <2> QED
    BY <1>1, <2>1, NatIsInductive
<1>4. \A k \in 0..Far - 1 : \E d \in Cell : Known(d) /\ g[d] = k
  <2>1. ASSUME NEW k \in 0..Far - 1
        PROVE  \E d \in Cell : Known(d) /\ g[d] = k
    <3>1. Far - 1 - k \in Nat /\ Far - 1 - k < Far /\ Far - 1 - (Far - 1 - k) = k
      BY <1>0
    <3>2. Far - 1 - k \in S
      BY <1>3, <3>1
    <3> QED
      BY <3>1, <3>2
  <2> QED
    BY <2>1
<1>5. SUFFICES ASSUME NEW d \in Cell, ~Known(d)
               PROVE  FALSE
  OBVIOUS
<1> DEFINE K == 0..Far - 1
           T == Cell \ {d}
           w == [k \in K |-> CHOOSE e \in Cell : Known(e) /\ g[e] = k]
<1>6. \A k \in K : w[k] \in T /\ g[w[k]] = k
  BY <1>4, <1>5
<1>7. w \in [K -> T] /\ \A x, y \in K : w[x] = w[y] => x = y
  BY <1>6
<1>8. IsFiniteSet(T) /\ Cardinality(T) = Far - 1
  BY <1>5, CellsCounted, FS_RemoveElement
<1>9. IsFiniteSet(K) /\ Cardinality(K) = Far
  BY <1>0, FS_Interval
<1>10. Cardinality(T) < Cardinality(K)
  BY <1>0, <1>8, <1>9
<1> HIDE DEF K, T, w
<1>11. \E x, y \in K : x # y /\ w[x] = w[y]
  BY <1>7, <1>8, <1>9, <1>10, FS_PigeonHole
<1> QED
  BY <1>7, <1>11

(* What is within n moves of the start is expanded at no more than that,   *)
(* or an entry of the heap, or the path found, costs no more than a way    *)
(* over it would.                                                          *)
Within(c, n) ==
  \/ c \in closed /\ g[c] <= n
  \/ \E e \in open : e[1] <= n + H(c)
  \/ result = "path" /\ g[goal] <= n + H(c)

(* A cell that was reached at cost n and is not expanded yet is Within.    *)
LEMMA ReachedIsWithin ==
  ASSUME SearchInv, NEW c \in Cell, Known(c), NEW n \in Nat, g[c] <= n
  PROVE  Within(c, n)
<1>0. SearchTypes /\ Offered
  BY DEF SearchInv
<1>1. goal \in Cell /\ g[c] \in Nat /\ H(c) \in Nat
  BY <1>0, Estimate, CellsCounted DEF SearchTypes
<1>2. g[c] + H(c) <= n + H(c)
  BY <1>1
<1>3. CASE c \in closed
  BY <1>3 DEF Within
<1>4. CASE <<g[c] + H(c), c>> \in open
  <2>1. PICK e \in open : e[1] = g[c] + H(c)
    BY <1>4
  <2> QED
    BY <1>2, <2>1 DEF Within
<1>5. CASE result = "path" /\ c = goal
  <2>1. g[goal] <= n + H(c)
    BY <1>1, <1>5
  <2> QED
    BY <1>5, <2>1 DEF Within
<1> QED
  BY <1>0, <1>3, <1>4, <1>5 DEF Offered

LEMMA EverythingWithin ==
  ASSUME SearchInv
  PROVE  \A n \in 0..Far : \A c \in Reach[n] : Within(c, n)
<1>0. SearchTypes /\ Began /\ ClosedIsFinal
  BY DEF SearchInv
<1>1. /\ goal \in Cell /\ start \in Cell /\ Far \in Nat /\ Far > 0
      /\ closed \subseteq Cell /\ open \subseteq Nat \X Cell /\ g \in [Cell -> 0..Far]
  BY <1>0, CellsCounted DEF SearchTypes
<1>2. /\ Reach[0] = {start}
      /\ \A n \in 1..Far : \A c \in Reach[n] :
           c = start \/ \E d \in Reach[n - 1] : c \in Neighbours(d) \ blocked
      /\ \A n \in 0..Far : Reach[n] \subseteq Cell
  BY <1>0, ReachSteps
<1> DEFINE S == {n \in Nat : n <= Far => \A c \in Reach[n] : Within(c, n)}
<1>3. \A n \in Nat : Within(start, n)
  <2>1. Known(start) /\ \A n \in Nat : g[start] <= n
    BY <1>0, <1>1 DEF Began, Known
  <2> QED
    BY <1>1, <2>1, ReachedIsWithin
<1>4. 0 \in S
  BY <1>2, <1>3
<1>5. ASSUME NEW n \in Nat, n \in S, n + 1 <= Far, NEW c \in Reach[n + 1]
      PROVE  Within(c, n + 1)
  <2>1. n + 1 \in 1..Far /\ n + 1 \in 0..Far /\ n \in 0..Far /\ (n + 1) - 1 = n
    BY <1>1, <1>5
  <2>2. CASE c = start
    BY <1>3, <2>2
  <2>3. CASE c # start
    <3>1. PICK d \in Reach[n] : c \in Neighbours(d) \ blocked
      BY <1>2, <1>5, <2>1, <2>3
    <3>2. d \in Cell /\ c \in Cell
      BY <1>2, <1>5, <2>1, <3>1
    <3>3. H(d) \in Nat /\ H(c) \in Nat /\ H(d) <= H(c) + 1
      BY <1>1, <3>1, <3>2, Estimate
    <3>4. n + H(d) <= (n + 1) + H(c)
      BY <3>3
    <3>5. Within(d, n)
      BY <1>1, <1>5, <2>1
    <3>6. CASE \E e \in open : e[1] <= n + H(d)
      <4>1. PICK e \in open : e[1] <= n + H(d)
        BY <3>6
      <4>2. e[1] \in Nat
        BY <1>1
      <4>3. e[1] <= (n + 1) + H(c)
        BY <3>3, <4>1, <4>2
      <4> QED
        BY <4>3 DEF Within
    <3>7. CASE result = "path" /\ g[goal] <= n + H(d)
      <4>1. g[goal] \in Nat
        BY <1>1
      <4>2. g[goal] <= (n + 1) + H(c)
        BY <3>3, <3>7, <4>1
      <4> QED
        BY <3>7, <4>2 DEF Within
    <3>8. CASE d \in closed /\ g[d] <= n
      <4>1. g[c] <= g[d] + 1 /\ Known(d)
        BY <1>0, <3>1, <3>8 DEF ClosedIsFinal, Began
      <4>2. g[c] \in 0..Far /\ g[d] \in 0..Far /\ g[d] < Far
        BY <1>1, <3>2, <4>1 DEF Known
      <4>3. Known(c)
        <5>1. CASE g[d] = Far - 1
          BY <3>2, <3>8, <5>1, NothingIsAsFar
        <5>2. CASE g[d] # Far - 1
          BY <1>1, <4>1, <4>2, <5>2 DEF Known
        <5> QED
          BY <5>1, <5>2
      <4>4. n + 1 \in Nat /\ g[c] <= n + 1
        BY <3>8, <4>1, <4>2
      <4> QED
        BY <3>2, <4>3, <4>4, ReachedIsWithin
    <3> QED
      BY <3>5, <3>6, <3>7, <3>8 DEF Within
  <2> QED
    BY <2>2, <2>3
<1>6. \A n \in Nat : n \in S
  <2>1. \A n \in Nat : n \in S => n + 1 \in S
    BY <1>5
  <2> HIDE DEF S
  <2> QED
    BY <1>4, <2>1, NatIsInductive
<1> QED
  BY <1>1, <1>6

(* On every grid, whatever is blocked: a path that is returned leads from  *)
(* the start to the goal over free neighbouring cells and no way has fewer *)
(* moves, and without a path there is none.                                *)
THEOREM PathsAreShortest == Spec => []ShortestPath
<1>1. ASSUME SearchInv
      PROVE  ShortestPath
  <2>0. SearchTypes /\ Began /\ Ended
    BY <1>1 DEF SearchInv
  <2>1. goal \in Cell /\ Far \in Nat /\ Far > 0 /\ g \in [Cell -> 0..Far]
        /\ goal \notin closed /\ open \subseteq Nat \X Cell
    BY <2>0, CellsCounted DEF SearchTypes, Began
  <2>2. H(goal) = 0
    BY <2>1, Estimate
  <2>3. ASSUME result = "path"
        PROVE  /\ Path[1] = start /\ Path[Len(Path)] = goal
               /\ \A i \in 1..Len(Path) - 1 :
                    Path[i + 1] \in Neighbours(Path[i]) \ blocked
               /\ Len(Path) > 1 => goal \notin Reach[Len(Path) - 2]
    <3>1. Known(goal) /\ \A e \in open : g[goal] <= e[1]
      BY <2>0, <2>3 DEF Ended
    <3>2. /\ g[goal] \in Nat /\ g[goal] < Far
          /\ Back[0] = goal /\ Back[g[goal]] = start
          /\ \A n \in 1..g[goal] : Back[n - 1] \in Neighbours(Back[n]) \ blocked
      BY <1>1, <3>1, BackFromGoal
    <3>3. PICK k \in Nat : k = g[goal]
      BY <3>2
    <3>4. Path = [i \in 1..k + 1 |-> Back[k + 1 - i]]
      BY <1>1, <3>1, <3>3, PathIsBack
    <3>5. Len(Path) = k + 1
      BY <3>3, <3>4
    <3>6. Path[1] = start /\ Path[k + 1] = goal
      BY <3>2, <3>3, <3>4
    <3>7. ASSUME NEW i \in 1..k
          PROVE  Path[i + 1] \in Neighbours(Path[i]) \ blocked
      <4>1. k + 1 - i \in 1..k /\ (k + 1 - i) - 1 = k + 1 - (i + 1)
        BY <3>3, <3>7
      <4>2. Path[i] = Back[k + 1 - i] /\ Path[i + 1] = Back[k + 1 - (i + 1)]
        BY <3>3, <3>4, <3>7
      <4> QED
        BY <3>2, <3>3, <4>1, <4>2
    <3>8. ASSUME k > 0
          PROVE  goal \notin Reach[k - 1]
      <4>1. k - 1 \in 0..Far /\ ~(k <= k - 1) /\ (k - 1) + 0 = k - 1
        BY <2>1, <3>2, <3>3, <3>8
      <4>2. SUFFICES ASSUME Within(goal, k - 1)
                     PROVE  FALSE
        BY <1>1, <4>1, EverythingWithin
      <4>3. CASE \E e \in open : e[1] <= k - 1
        <5>1. PICK e \in open : e[1] <= k - 1
          BY <4>3
        <5>2. e[1] \in Nat /\ k <= e[1]
          BY <2>1, <3>1, <3>3
        <5> QED
          BY <3>3, <5>1, <5>2
      <4> QED
        BY <2>1, <2>2, <3>3, <4>1, <4>2, <4>3 DEF Within
    <3>9. (k + 1) - 1 = k /\ (k + 1) - 2 = k - 1 /\ (k + 1 > 1 <=> k > 0)
      BY <3>3
    <3> QED
      BY <3>5, <3>6, <3>7, <3>8, <3>9
  <2>4. ASSUME result = "none", goal \notin blocked
        PROVE  goal \notin Reach[Far]
    <3>1. open = {} /\ result # "path"
      BY <2>0, <2>4 DEF Ended
    <3>2. ~Within(goal, Far)
      BY <2>1, <3>1 DEF Within
    <3> QED
      BY <1>1, <2>1, <3>2, EverythingWithin
  <2> QED
    BY <2>3, <2>4 DEF ShortestPath
<1> QED
  BY <1>1, InitSearch, SearchStep, PTL DEF Spec

=============================================================================
