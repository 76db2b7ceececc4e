--------------------------- MODULE ServicesProofs ---------------------------
(***************************************************************************)
(* Proofs about the parts MCServices checks side by side.                  *)
(*                                                                         *)
(* The search (AStar): for every world, source and list of places it finds *)
(* a shortest way, whichever of several cheapest nodes is taken.  A closed *)
(* node is never improved: its neighbours are known and cost no more than  *)
(* one step from it (Relaxed), and no open node has a lower score          *)
(* (Ordered), for the estimate grows by at most one step's cost from a     *)
(* cell to the next (ManhattanIsConsistent).  The way back (findbestpath)  *)
(* has as many cells as its cost has tens (Parents, FewSteps), and no ball *)
(* around the source that is smaller reaches beside a place (BallIsBound). *)
(*                                                                         *)
(* The accounts and the transfers: AccountsProofs and FtpProofs, carried   *)
(* over to the run of all the parts.                                       *)
(*                                                                         *)
(* The buffer (ByteArray): each call on the chain of nodes is the call of  *)
(* FlatBytes on a string of bytes, for nodes of every size.                *)
(*                                                                         *)
(* The integers (Varint): what has been read after i groups is what i      *)
(* groups can hold of the number (ReadDoes), for every width.              *)
(***************************************************************************)
EXTENDS MCServices, SequenceTheorems, FiniteSetTheorems, WellFoundedInduction, TLAPS

(* The search *)

Score(c) == G[c] + manhattan(c, End)

Started == IF closedSet = {} THEN openSet = {source} ELSE source \in closedSet
Relaxed ==
  \A c \in closedSet : \A d \in Neighbours(c) \cap Free :
    d \in openSet \cup closedSet /\ G[d] <= G[c] + 10
Ordered == \A c \in closedSet : \A d \in openSet : Score(c) <= Score(d)
Taken ==
  phase = "found" => current \in openSet /\ \A d \in openSet : Score(current) <= Score(d)

SearchInv ==
  /\ TypeOK
  /\ openSet \cap closedSet = {}
  /\ G[source] = 0
  /\ Started /\ Relaxed /\ Ordered /\ Taken

-----------------------------------------------------------------------------
(* The estimate. *)

LEMMA CellsAreInt == ASSUME NEW c \in Cell PROVE c[1] \in Int /\ c[2] \in Int
BY WorldSize DEF Cell

LEMMA DistanceIsNat == ASSUME NEW a \in Int, NEW b \in Int PROVE Distance(a, b) \in Nat
BY DEF Distance

LEMMA ManhattanIsNat == ASSUME NEW c \in Cell, NEW e \in Cell PROVE manhattan(c, e) \in Nat
<1>1. c[1] \in Int /\ c[2] \in Int /\ e[1] \in Int /\ e[2] \in Int
  BY CellsAreInt
<1>2. Distance(c[1], e[1]) \in Nat /\ Distance(c[2], e[2]) \in Nat
  BY <1>1, DistanceIsNat
<1> QED
  BY <1>2 DEF manhattan

\* One step changes the estimate by no more than the step costs.
LEMMA ManhattanIsConsistent ==
  ASSUME NEW c \in Cell, NEW d \in Cell, NEW e \in Cell, d \in Neighbours(c)
  PROVE  manhattan(d, e) <= manhattan(c, e) + 10 /\ manhattan(c, e) <= manhattan(d, e) + 10
<1>1. /\ c[1] \in Int /\ c[2] \in Int /\ d[1] \in Int /\ d[2] \in Int
      /\ e[1] \in Int /\ e[2] \in Int
  BY CellsAreInt
<1>2. \/ d[1] = c[1] /\ d[2] = c[2] + 1
      \/ d[1] = c[1] + 1 /\ d[2] = c[2]
      \/ d[1] = c[1] /\ d[2] = c[2] - 1
      \/ d[1] = c[1] - 1 /\ d[2] = c[2]
  BY DEF Neighbours
<1> QED
  BY <1>1, <1>2 DEF manhattan, Distance

LEMMA EndIsCell == ASSUME TypeOK PROVE End \in Cell
BY DEF TypeOK, End

-----------------------------------------------------------------------------
LEMMA FreeIsCells == ASSUME TypeOK PROVE Free \subseteq Cell
BY DEF TypeOK, Free

\* What holds whenever findPath begins.
LEMMA FreshSearch ==
  ASSUME blocked \subseteq Cell, source \in Cell,
         openSet = {source}, closedSet = {}, G = [c \in Cell |-> 0], phase = "searching"
  PROVE  /\ openSet \cap closedSet = {} /\ G[source] = 0
         /\ Started /\ Relaxed /\ Ordered /\ Taken
BY DEF Started, Relaxed, Ordered, Taken

LEMMA InitHolds == Init => SearchInv
<1> SUFFICES ASSUME Init PROVE SearchInv
  OBVIOUS
<1>1. source \in Cell /\ blocked \subseteq Cell
  BY SourcesInside DEF Init, Maps
<1>2. PICK n \in 1..MaxEnds : ends \in [1..n -> Place]
  BY DEF Init
<1>3. n \in Nat \ {0}
  BY <1>2, Bounds
<1>4. Len(ends) = n
  BY <1>2, <1>3
<1>5. ends \in [1..Len(ends) -> Cell] /\ Len(ends) > 0 /\ target \in 1..Len(ends)
  BY <1>2, <1>3, <1>4, SourcesInside DEF Init
<1>6. /\ openSet \subseteq Free /\ closedSet \subseteq Free /\ current \in Free
      /\ G \in [Cell -> Nat] /\ parent \in [Cell -> Cell \cup {Nowhere}]
  BY <1>1 DEF Init, Free
<1>7. TypeOK
  BY <1>1, <1>5, <1>6 DEF TypeOK, Init
<1> QED
  BY <1>1, <1>7, FreshSearch DEF SearchInv, Init

-----------------------------------------------------------------------------
(* The steps. *)

\* Among open nodes the score is the cost and the estimate: the source, whose
\* estimate is 0, is open only alone.
LEMMA CheapestHasLeastScore ==
  ASSUME SearchInv, NEW n \in openSet, Cheapest(n), NEW d \in openSet
  PROVE  Score(n) <= Score(d)
<1>1. /\ G \in [Cell -> Nat] /\ n \in Cell /\ d \in Cell /\ End \in Cell
  BY FreeIsCells, EndIsCell DEF SearchInv, TypeOK
<1>2. Score(n) \in Nat /\ Score(d) \in Nat
  BY <1>1, ManhattanIsNat DEF Score
<1>3. CASE n = source \/ d = source
  <2>1. n = d
    BY <1>3 DEF SearchInv, Started
  <2> QED
    BY <2>1, <1>2
<1>4. CASE n # source /\ d # source
  BY <1>4 DEF Cheapest, getScore, H, Score
<1> QED
  BY <1>3, <1>4

LEMMA ArriveKeeps == ASSUME SearchInv, NEW n \in Cell, Arrive(n) PROVE SearchInv'
<1>1. UNCHANGED <<world, target, openSet, closedSet, G, parent>> /\ n \in openSet
  BY DEF Arrive
<1>2. TypeOK'
  BY <1>1 DEF SearchInv, TypeOK, Arrive, Free, world
<1>3. \A d \in openSet : Score(n) <= Score(d)
  BY CheapestHasLeastScore DEF Arrive
<1>4. Taken'
  BY <1>1, <1>3 DEF Taken, Score, Arrive, End, world
<1>5. /\ (openSet \cap closedSet = {})' /\ (G[source] = 0)'
      /\ Started' /\ Relaxed' /\ Ordered'
  BY <1>1 DEF SearchInv, Started, Relaxed, Ordered, Score, End, Free, world
<1> QED
  BY <1>2, <1>4, <1>5 DEF SearchInv

LEMMA GiveUpKeeps == ASSUME SearchInv, GiveUp PROVE SearchInv'
BY DEF SearchInv, TypeOK, GiveUp, Free, world, search, Started, Relaxed, Ordered, Taken, Score, End

LEMMA ReturnKeeps == ASSUME SearchInv, Return PROVE SearchInv'
<1>1. UNCHANGED world
  BY DEF Return
<1>2. CASE target = Len(ends)
  <2>1. UNCHANGED <<world, target, search>> /\ phase' = "done"
    BY <1>1, <1>2 DEF Return
  <2> QED
    BY <2>1 DEF SearchInv, TypeOK, Free, world, search, Started, Relaxed, Ordered, Taken, Score, End
<1>3. CASE target # Len(ends)
  <2>1. /\ target' = target + 1 /\ phase' = "searching"
        /\ openSet' = {source} /\ closedSet' = {}
        /\ G' = [c \in Cell |-> 0] /\ parent' = [c \in Cell |-> Nowhere]
        /\ current' = source
    BY <1>3 DEF Return
  <2>2. source' = source /\ ends' = ends /\ blocked' = blocked
    BY <1>1 DEF world
  <2>3. target' \in 1..Len(ends)'
    <3>1. target \in 1..Len(ends) /\ Len(ends) \in Nat
      BY DEF SearchInv, TypeOK
    <3>2. Len(ends)' = Len(ends)
      BY <2>2
    <3> HIDE DEF SearchInv
    <3> QED
      BY <3>1, <3>2, <1>3, <2>1
  <2>4. TypeOK'
    BY <2>1, <2>2, <2>3 DEF SearchInv, TypeOK, Free
  <2>5. /\ (openSet \cap closedSet = {})' /\ (G[source] = 0)'
        /\ Started' /\ Relaxed' /\ Ordered' /\ Taken'
    BY <2>1, <2>2 DEF SearchInv, TypeOK, Started, Relaxed, Ordered, Taken
  <2> QED
    BY <2>4, <2>5 DEF SearchInv
<1> QED
  BY <1>2, <1>3

LEMMA ExpandKeeps == ASSUME SearchInv, NEW n \in Cell, Expand(n) PROVE SearchInv'
<1> DEFINE cost == G[n] + 10
           free == {d \in Neighbours(n) : ~detectCollision(d) /\ d \notin closedSet \cup {n}}
           better == {d \in free : Improves(d, cost)}
<1>1. /\ n \in openSet /\ Cheapest(n)
      /\ closedSet' = closedSet \cup {n} /\ openSet' = (openSet \ {n}) \cup free
      /\ G' = [c \in Cell |-> IF c \in better THEN cost ELSE G[c]]
      /\ parent' = [c \in Cell |-> IF c \in better THEN n ELSE parent[c]]
      /\ current' = n /\ phase' = "searching" /\ phase = "searching"
      /\ UNCHANGED <<world, target, best>>
  BY DEF Expand
<1>2. /\ source' = source /\ blocked' = blocked /\ ends' = ends /\ target' = target
      /\ End' = End /\ Free' = Free
  BY <1>1 DEF world, End, Free
<1>3. /\ G \in [Cell -> Nat] /\ Free \subseteq Cell /\ End \in Cell
      /\ openSet \subseteq Free /\ closedSet \subseteq Free /\ n \in Free /\ source \in Cell
  BY <1>1, FreeIsCells, EndIsCell DEF SearchInv, TypeOK
<1>4. free \subseteq Free /\ free \subseteq Neighbours(n) /\ free \cap (closedSet \cup {n}) = {}
  BY DEF detectCollision, Free
<1>5. \A d \in Neighbours(n) \cap Free : d \in free \cup closedSet \/ d = n \/ d = source
  BY <1>3 DEF detectCollision, Free
<1>6. source \in closedSet \cup {n}
  BY <1>1 DEF SearchInv, Started
<1>7. \A d \in Neighbours(n) \cap Free : d \in free \cup closedSet \cup {n}
  BY <1>5, <1>6
<1>8. cost \in Nat /\ \A c \in Cell : G[c] \in Nat
  BY <1>3
<1>9. better \subseteq free /\ \A d \in free : d \in better <=> (d \in openSet => cost < G[d])
  BY DEF Improves
<1> HIDE DEF cost, free, better
\* Costs only fall, and of nodes that are not closed.
<1>10. \A c \in Cell : G'[c] = IF c \in better THEN cost ELSE G[c]
  BY <1>1
<1>11. \A c \in closedSet \cup {n} : G'[c] = G[c]
  BY <1>3, <1>4, <1>9, <1>10
<1>12. \A d \in openSet : G'[d] <= G[d]
  BY <1>3, <1>4, <1>8, <1>9, <1>10
<1>13. \A d \in free : G'[d] <= cost
  BY <1>3, <1>4, <1>8, <1>9, <1>10
<1>14. \A d \in free : G'[d] = cost \/ (d \in openSet /\ G'[d] = G[d])
  BY <1>3, <1>4, <1>9, <1>10
<1>15. TypeOK'
  <2>1. G' \in [Cell -> Nat]
    BY <1>1, <1>8
  <2>2. parent' \in [Cell -> Cell \cup {Nowhere}]
    BY <1>1, <1>3 DEF SearchInv, TypeOK
  <2>3. openSet' \subseteq Free /\ closedSet' \subseteq Free /\ current' \in Free
    BY <1>1, <1>3, <1>4
  <2> QED
    BY <1>1, <1>2, <2>1, <2>2, <2>3 DEF SearchInv, TypeOK
<1>16. (openSet \cap closedSet = {})'
  BY <1>1, <1>4 DEF SearchInv
<1>17. (G[source] = 0)'
  BY <1>2, <1>6, <1>11 DEF SearchInv
<1>18. Started'
  BY <1>1, <1>2, <1>6 DEF Started
<1>19. \A c \in Cell : Score(c) = G[c] + manhattan(c, End) /\ manhattan(c, End) \in Nat
  BY <1>3, ManhattanIsNat DEF Score
<1>20. \A c \in Cell : Score(c)' = G'[c] + manhattan(c, End)
  BY <1>2 DEF Score
<1>21. \A d \in openSet : Score(n) <= Score(d)
  BY <1>1, CheapestHasLeastScore
<1>22. \A d \in openSet' : Score(n) <= Score(d)'
  <2> TAKE d \in openSet'
  <2>1. d \in Cell /\ n \in Cell /\ (d \in openSet \/ d \in free)
    BY <1>1, <1>3, <1>4
  <2>2. CASE d \in free /\ G'[d] = cost
    <3>1. manhattan(n, End) <= manhattan(d, End) + 10
      BY <2>1, <2>2, <1>3, <1>4, ManhattanIsConsistent
    <3> QED
      BY <3>1, <2>1, <2>2, <1>8, <1>19, <1>20 DEF cost
  <2>3. CASE d \in openSet /\ G'[d] = G[d]
    BY <2>1, <2>3, <1>19, <1>20, <1>21
  <2>4. CASE d \in openSet /\ d \notin free
    <3>1. G'[d] = G[d]
      BY <2>1, <2>4, <1>9, <1>10
    <3> QED
      BY <3>1, <2>3, <2>4
  <2> QED
    BY <2>1, <2>2, <2>3, <2>4, <1>14
<1>23. \A c \in closedSet : Score(c) <= Score(n)
  BY <1>1 DEF SearchInv, Ordered
<1>24. \A c \in closedSet \cup {n} : Score(c)' = Score(c)
  BY <1>3, <1>11, <1>19, <1>20
<1>25. Ordered'
  <2> SUFFICES ASSUME NEW c \in closedSet', NEW d \in openSet' PROVE Score(c)' <= Score(d)'
    BY DEF Ordered
  <2>1. c \in closedSet \cup {n} /\ c \in Cell /\ d \in Cell
    BY <1>1, <1>3, <1>4
  <2>2. Score(c)' = Score(c) /\ Score(n) <= Score(d)'
    BY <2>1, <1>22, <1>24
  <2>3. Score(c) <= Score(n)
    BY <2>1, <1>1, <1>21, <1>23
  <2>4. Score(c) \in Int /\ Score(n) \in Int
    BY <2>1, <1>3, <1>8, <1>19
  <2>5. Score(d)' \in Int
    <3>1. G'[d] \in Nat
      BY <2>1, <1>15 DEF TypeOK
    <3> QED
      BY <3>1, <2>1, <1>19, <1>20
  <2> QED
    BY <2>2, <2>3, <2>4, <2>5
<1>26. Relaxed'
  <2> SUFFICES ASSUME NEW c \in closedSet \cup {n}, NEW d \in Neighbours(c) \cap Free
               PROVE  d \in openSet' \cup closedSet' /\ G'[d] <= G'[c] + 10
    BY <1>1, <1>2 DEF Relaxed
  <2>1. c \in Cell /\ d \in Cell /\ n \in Cell /\ G'[c] = G[c]
    BY <1>3, <1>11
  <2>2. CASE c \in closedSet
    <3>1. d \in openSet \cup closedSet /\ G[d] <= G[c] + 10
      BY <2>2 DEF SearchInv, Relaxed
    <3>2. G'[d] <= G[d]
      BY <3>1, <1>11, <1>12, <1>8, <2>1
    <3>3. G'[d] \in Nat
      BY <1>15, <2>1 DEF TypeOK
    <3> QED
      BY <3>1, <3>2, <3>3, <2>1, <1>1, <1>8
  <2>3. CASE c = n /\ d \in free
    BY <2>1, <2>3, <1>1, <1>13 DEF cost
  <2>4. CASE c = n /\ d = n
    BY <2>1, <2>4, <1>1, <1>8
  <2>5. CASE c = n /\ d \in closedSet
    <3>1. manhattan(n, End) <= manhattan(d, End) + 10
      BY <2>1, <2>5, <1>3, ManhattanIsConsistent
    <3>2. Score(d) <= Score(n)
      BY <2>5, <1>23
    <3>3. G[d] <= G[n] + 10
      BY <3>1, <3>2, <2>1, <1>8, <1>19
    <3> QED
      BY <3>3, <2>1, <2>5, <1>1, <1>11
  <2> QED
    BY <2>2, <2>3, <2>4, <2>5, <1>7
<1>27. Taken'
  BY <1>1 DEF Taken
<1> QED
  BY <1>15, <1>16, <1>17, <1>18, <1>25, <1>26, <1>27 DEF SearchInv

LEMMA NextKeeps == ASSUME SearchInv, [Next]_vars PROVE SearchInv'
<1>1. CASE \E n \in Cell : Arrive(n) \/ Expand(n)
  BY <1>1, ArriveKeeps, ExpandKeeps
<1>2. CASE GiveUp \/ Return
  BY <1>2, GiveUpKeeps, ReturnKeeps
<1>3. CASE UNCHANGED vars
  BY <1>3 DEF vars, world, search, SearchInv, TypeOK, Free, Started, Relaxed, Ordered, Taken, Score, End
<1> QED
  BY <1>1, <1>2, <1>3 DEF Next

(* What findPath keeps of its lists, turn by turn: the source costs         *)
(* nothing, a closed node's neighbours are known and cost at most a step   *)
(* more, and no open node has a lower score than a closed one.             *)
THEOREM SearchIsSound == Spec => []SearchInv
BY InitHolds, NextKeeps, PTL DEF Spec

-----------------------------------------------------------------------------
(* The sets of nodes, the costs and the parents are of their types, and    *)
(* the search stays on cells a car may be on (findPath's detectCollision). *)
THEOREM SearchIsTyped == Spec => []TypeOK
<1>1. SearchInv => TypeOK
  BY DEF SearchInv
<1> QED
  BY <1>1, SearchIsSound, PTL

\* When findPath stops at the target, AtLeast is a lower bound of every way.
LEMMA FoundIsShortest == SearchInv => NoShorterWay
<1> SUFFICES ASSUME SearchInv, phase = "found" PROVE
      /\ AtLeast(source) = 0 /\ AtLeast(current) = G[current]
      /\ \A c \in Free : \A d \in Neighbours(c) \cap Free : AtLeast(d) <= AtLeast(c) + 10
  BY DEF NoShorterWay
<1>1. /\ G \in [Cell -> Nat] /\ Free \subseteq Cell /\ End \in Cell
      /\ openSet \subseteq Free /\ closedSet \subseteq Free /\ source \in Cell
  BY FreeIsCells, EndIsCell DEF SearchInv, TypeOK
<1>2. current \in openSet /\ current \in Cell /\ current \notin closedSet
  BY <1>1 DEF SearchInv, Taken
<1>3. \A c \in Cell : G[c] \in Nat /\ manhattan(c, End) \in Nat /\ Score(c) = G[c] + manhattan(c, End)
  BY <1>1, ManhattanIsNat DEF Score
<1>4. \A c \in Cell : AtLeast(c) = IF c \in closedSet THEN G[c]
                                   ELSE Score(current) - manhattan(c, End)
  <2> TAKE c \in Cell
  <2>1. CASE c \in closedSet
    BY <2>1 DEF AtLeast
  <2>2. CASE c \notin closedSet
    <3>1. AtLeast(c) = G[current] + manhattan(current, End) - manhattan(c, End)
      BY <2>2 DEF AtLeast
    <3>2. Score(current) = G[current] + manhattan(current, End)
      BY DEF Score
    <3>3. AtLeast(c) = Score(current) - manhattan(c, End)
      BY <3>1, <3>2, <1>2, <1>3
    <3> QED
      BY <2>2, <3>3
  <2> QED
    BY <2>1, <2>2
<1>5. AtLeast(current) = G[current]
  BY <1>2, <1>3, <1>4
<1>6. AtLeast(source) = 0
  BY <1>1, <1>2, <1>4, <1>5 DEF SearchInv, Started
<1>7. ASSUME NEW c \in Free, NEW d \in Neighbours(c) \cap Free
      PROVE  AtLeast(d) <= AtLeast(c) + 10
  <2>1. c \in Cell /\ d \in Cell
    BY <1>1
  <2>2. manhattan(c, End) <= manhattan(d, End) + 10
    BY <2>1, <1>1, ManhattanIsConsistent
  <2>3. CASE c \in closedSet /\ d \in closedSet
    BY <2>1, <2>3, <1>4 DEF SearchInv, Relaxed
  <2>4. CASE c \in closedSet /\ d \notin closedSet
    <3>1. d \in openSet /\ G[d] <= G[c] + 10
      BY <2>4 DEF SearchInv, Relaxed
    <3>2. Score(current) <= Score(d)
      BY <3>1 DEF SearchInv, Taken
    <3> QED
      BY <3>1, <3>2, <2>1, <2>4, <1>2, <1>3, <1>4
  <2>5. CASE c \notin closedSet /\ d \in closedSet
    <3>1. Score(d) <= Score(current)
      BY <2>5, <1>2 DEF SearchInv, Ordered
    <3> QED
      BY <3>1, <2>1, <2>2, <2>5, <1>2, <1>3, <1>4
  <2>6. CASE c \notin closedSet /\ d \notin closedSet
    BY <2>1, <2>2, <2>6, <1>2, <1>3, <1>4
  <2> QED
    BY <2>3, <2>4, <2>5, <2>6
<1> QED
  BY <1>5, <1>6, <1>7

(* findPath returns a shortest way in every world: no node needs to be     *)
(* looked at again once it is closed (AStar.cpp:195), and the missing      *)
(* estimate of the source does no harm.                                    *)
THEOREM PathIsShortest == Spec => []NoShorterWay
BY SearchIsSound, FoundIsShortest, PTL

-----------------------------------------------------------------------------
(* Induction and recursion over the naturals, for sets and functions. *)

LEMMA LeastExists ==
  ASSUME NEW T \in SUBSET Nat, T # {}
  PROVE  \E n \in T : \A k \in T : n <= k
<1> DEFINE Less == OpToRel(<, Nat)
<1>1. IsWellFoundedOn(Less, Nat)
  BY NatLessThanWellFounded
<1>2. \A x, y \in Nat : y < x => <<y, x>> \in Less
  BY DEF OpToRel
<1> HIDE DEF Less
<1>3. \E n \in T : \A y \in T : ~(<<y, n>> \in Less)
  BY <1>1, WFMin
<1>4. PICK n \in T : \A y \in T : ~(<<y, n>> \in Less)
  BY <1>3
<1>5. \A k \in T : ~(k < n)
  BY <1>2, <1>4
<1>6. n \in Nat /\ \A k \in T : k \in Nat
  OBVIOUS
<1> QED
  BY <1>5, <1>6

LEMMA Induction ==
  ASSUME NEW T, 0 \in T, \A n \in Nat : n \in T => n + 1 \in T
  PROVE  Nat \subseteq T
<1> SUFFICES ASSUME Nat \ T # {} PROVE FALSE
  OBVIOUS
<1>1. PICK n \in Nat \ T : \A k \in Nat \ T : n <= k
  <2>1. Nat \ T \in SUBSET Nat
    OBVIOUS
  <2> QED
    BY <2>1, LeastExists
<1>2. n - 1 \in Nat /\ n = n - 1 + 1 /\ ~(n <= n - 1)
  BY <1>1
<1>3. n - 1 \in T
  BY <1>1, <1>2
<1> QED
  BY <1>1, <1>2, <1>3

Iterates(f, S, a, h, n) == f \in [0..n -> S] /\ f[0] = a /\ \A k \in 1..n : f[k] = h[f[k - 1]]

LEMMA Recursion ==
  ASSUME NEW S, NEW a \in S, NEW h \in [S -> S], NEW n \in Nat
  PROVE  \E f : Iterates(f, S, a, h, n)
<1> DEFINE T == {i \in Nat : \E f : Iterates(f, S, a, h, i)}
<1>1. 0 \in T
  <2>1. PICK f : f = [k \in 0..0 |-> a]
    OBVIOUS
  <2>2. Iterates(f, S, a, h, 0)
    BY <2>1 DEF Iterates
  <2> QED
    BY <2>2
<1>2. ASSUME NEW i \in Nat, i \in T PROVE i + 1 \in T
  <2>1. PICK f : Iterates(f, S, a, h, i)
    BY <1>2
  <2> USE DEF Iterates
  <2>2. PICK g : g = [k \in 0..i + 1 |-> IF k <= i THEN f[k] ELSE h[f[i]]]
    OBVIOUS
  <2>3. f[i] \in S
    BY <2>1
  <2>4. g \in [0..i + 1 -> S]
    BY <2>1, <2>2, <2>3
  <2>5. g[0] = a
    BY <2>1, <2>2
  <2>6. ASSUME NEW k \in 1..i + 1 PROVE g[k] = h[g[k - 1]]
    <3>1. k - 1 \in 0..i /\ k \in 0..i + 1 /\ g[k - 1] = f[k - 1]
      BY <2>2
    <3>2. CASE k <= i
      BY <3>1, <3>2, <2>1, <2>2
    <3>3. CASE k = i + 1
      BY <3>1, <3>3, <2>2
    <3> QED
      BY <3>2, <3>3
  <2> QED
    BY <2>4, <2>5, <2>6
<1> HIDE DEF T
<1>3. Nat \subseteq T
  BY <1>1, <1>2, Induction
<1>4. n \in T
  BY <1>3
<1> QED
  BY <1>4 DEF T

-----------------------------------------------------------------------------
(* The shortest way (findbestpath). *)

Far == Rows * Columns

LEMMA FarIsNat == Far \in Nat
BY WorldSize DEF Far

LEMMA CellsAreFinite == IsFiniteSet(Cell) /\ Cardinality(Cell) = Far
<1>1. /\ IsFiniteSet(0..Rows - 1) /\ Cardinality(0..Rows - 1) = Rows
      /\ IsFiniteSet(0..Columns - 1) /\ Cardinality(0..Columns - 1) = Columns
  <2>1. 0 \in Int /\ Rows - 1 \in Int /\ Columns - 1 \in Int /\ ~(0 > Rows - 1) /\ ~(0 > Columns - 1)
        /\ Rows - 1 - 0 + 1 = Rows /\ Columns - 1 - 0 + 1 = Columns
    BY WorldSize
  <2> QED
    BY <2>1, FS_Interval
<1>2. PICK A, B : A = 0..Rows - 1 /\ B = 0..Columns - 1
  OBVIOUS
<1>3. IsFiniteSet(A) /\ IsFiniteSet(B) /\ Cardinality(A) = Rows /\ Cardinality(B) = Columns
  BY <1>1, <1>2
<1>4. IsFiniteSet(A \X B) /\ Cardinality(A \X B) = Cardinality(A) * Cardinality(B)
  BY ONLY <1>3, FS_Product
<1> QED
  BY <1>2, <1>3, <1>4 DEF Cell, Far

LEMMA NeighboursAreMutual ==
  ASSUME NEW c \in Cell, NEW d \in Cell
  PROVE  c \in Neighbours(d) <=> d \in Neighbours(c)
<1>1. c[1] \in Int /\ c[2] \in Int /\ d[1] \in Int /\ d[2] \in Int
  BY CellsAreInt
<1>2. c = <<c[1], c[2]>> /\ d = <<d[1], d[2]>>
  BY DEF Cell
<1> QED
  BY <1>1, <1>2 DEF Neighbours

\* The balls around the source.
Grow(w) == w \cup {d \in Cell \ blocked : Neighbours(d) \cap w # {}}

LEMMA Balls ==
  ASSUME source \in Cell
  PROVE  /\ Within \in [0..Far -> SUBSET Cell] /\ Within[0] = {source}
         /\ \A k \in 1..Far : Within[k] = Grow(Within[k - 1])
<1> DEFINE IsWithin(ball) ==
             ball = [k \in 0..Far |-> IF k = 0 THEN {source} ELSE Grow(ball[k - 1])]
<1>1. PICK h : h = [w \in SUBSET Cell |-> Grow(w)]
  OBVIOUS
<1>2. h \in [SUBSET Cell -> SUBSET Cell]
  BY <1>1 DEF Grow
<1>3. {source} \in SUBSET Cell
  OBVIOUS
<1>4. PICK f \in [0..Far -> SUBSET Cell] : f[0] = {source} /\ \A k \in 1..Far : f[k] = h[f[k - 1]]
  <2>1. PICK S, a : S = SUBSET Cell /\ a = {source}
    OBVIOUS
  <2>2. a \in S /\ h \in [S -> S] /\ Far \in Nat
    BY <2>1, <1>2, <1>3, FarIsNat
  <2>3. \E f : Iterates(f, S, a, h, Far)
    BY ONLY <2>2, Recursion
  <2> QED
    BY <2>1, <2>3 DEF Iterates
<1>5. ASSUME NEW k \in 0..Far PROVE f[k] = IF k = 0 THEN {source} ELSE Grow(f[k - 1])
  <2>1. CASE k = 0
    BY <2>1, <1>4
  <2>2. CASE k # 0
    <3>1. k \in 1..Far /\ k - 1 \in 0..Far
      BY <2>2, FarIsNat
    <3>2. f[k - 1] \in SUBSET Cell
      BY <3>1, <1>4
    <3> QED
      BY <3>1, <3>2, <2>2, <1>1, <1>4
  <2> QED
    BY <2>1, <2>2
<1>6. IsWithin(f)
  BY <1>4, <1>5
<1>7. Within = CHOOSE ball : IsWithin(ball)
  BY DEF Within, Grow, Far
<1> HIDE DEF IsWithin
<1>8. IsWithin(Within)
  BY <1>6, <1>7
<1>9. Within = [k \in 0..Far |-> IF k = 0 THEN {source} ELSE Grow(Within[k - 1])]
  BY <1>8 DEF IsWithin
<1>10. Within[0] = {source} /\ \A k \in 1..Far : Within[k] = Grow(Within[k - 1])
  <2>1. PICK w : w = Within
    OBVIOUS
  <2>2. w = [k \in 0..Far |-> IF k = 0 THEN {source} ELSE Grow(w[k - 1])]
    BY <1>9, <2>1
  <2>3. w[0] = {source}
    BY <2>2, FarIsNat
  <2>4. ASSUME NEW k \in 1..Far PROVE w[k] = Grow(w[k - 1])
    <3>1. k \in 0..Far /\ k # 0
      BY FarIsNat
    <3> QED
      BY <3>1, <2>2
  <2> QED
    BY <2>1, <2>3, <2>4
<1> DEFINE T == {k \in Nat : k <= Far => Within[k] \in SUBSET Cell}
<1>11. 0 \in T
  BY <1>10
<1>12. ASSUME NEW k \in Nat, k \in T PROVE k + 1 \in T
  <2> SUFFICES ASSUME k + 1 <= Far PROVE Within[k + 1] \in SUBSET Cell
    OBVIOUS
  <2>1. k + 1 \in 1..Far /\ k + 1 - 1 = k /\ k <= Far
    BY FarIsNat
  <2>2. Within[k + 1] = Grow(Within[k])
    BY <2>1, <1>10
  <2>3. Within[k] \in SUBSET Cell
    BY <2>1, <1>12
  <2> QED
    BY <2>2, <2>3 DEF Grow
<1> HIDE DEF T
<1>13. Nat \subseteq T
  BY <1>11, <1>12, Induction
<1>14. \A k \in 0..Far : Within[k] \in SUBSET Cell
  BY <1>13 DEF T
<1>15. Within \in [0..Far -> SUBSET Cell]
  BY <1>9, <1>14
<1> QED
  BY <1>10, <1>15

LEMMA BallsGrow ==
  ASSUME source \in Cell, NEW i \in 0..Far, NEW j \in 0..Far, i <= j
  PROVE  Within[i] \subseteq Within[j]
<1> DEFINE T == {k \in Nat : i + k <= Far => Within[i] \subseteq Within[i + k]}
<1>1. 0 \in T
  OBVIOUS
<1>2. ASSUME NEW k \in Nat, k \in T PROVE k + 1 \in T
  <2> SUFFICES ASSUME i + (k + 1) <= Far PROVE Within[i] \subseteq Within[i + (k + 1)]
    OBVIOUS
  <2>1. i + (k + 1) \in 1..Far /\ i + (k + 1) - 1 = i + k /\ i + k <= Far
    BY FarIsNat
  <2>2. Within[i + (k + 1)] = Grow(Within[i + k])
    BY <2>1, Balls
  <2>3. Within[i] \subseteq Within[i + k]
    BY <2>1, <1>2
  <2> QED
    BY <2>2, <2>3 DEF Grow
<1> HIDE DEF T
<1>3. Nat \subseteq T
  BY <1>1, <1>2, Induction
<1>4. j - i \in T /\ i + (j - i) = j
  <2>1. j - i \in Nat
    OBVIOUS
  <2> QED
    BY <2>1, <1>3
<1> QED
  BY <1>4 DEF T

\* From each node known but the source a step of its cost leads to its parent,
\* which is closed; as many steps as there are closed nodes are enough.
Parents ==
  /\ parent[source] = Nowhere
  /\ \A c \in (openSet \cup closedSet) \ {source} :
       parent[c] \in closedSet /\ c \in Neighbours(parent[c]) /\ G[c] = G[parent[c]] + 10
FewSteps == \A c \in openSet \cup closedSet : G[c] <= 10 * Cardinality(closedSet)
NotPast == closedSet \cap Beside(End) = {}
Ended == /\ phase = "found" => current \in Beside(End)
         /\ phase = "unreachable" => openSet = {}
RouteInv == Parents /\ FewSteps /\ NotPast /\ Ended

\* No place is nearer than a way of p cells.
NotNearer(p, i) == Len(p) > 2 => Beside(ends[i]) \cap Within[Len(p) - 3] = {}

\* What findbestpath has when the paths of the first few places are compared.
BestOf(n) ==
  IF n = 0 THEN best = << >>
  ELSE /\ Len(best) \in 2..Far + 2 /\ IsWay(best)
       /\ \A i \in 1..n : NotNearer(best, i)
BestInv == Reachable => BestOf(IF phase = "done" THEN Len(ends) ELSE target - 1)

LEMMA WithinStays == source' = source /\ blocked' = blocked => Within' = Within
BY DEF Within

LEMMA KnownAreCells ==
  ASSUME SearchInv
  PROVE  /\ Free \subseteq Cell /\ openSet \subseteq Free /\ closedSet \subseteq Free /\ source \in Cell
         /\ openSet \subseteq Cell /\ closedSet \subseteq Cell
         /\ IsFiniteSet(closedSet) /\ Cardinality(closedSet) \in Nat /\ Cardinality(closedSet) <= Far
<1>1. /\ Free \subseteq Cell /\ openSet \subseteq Free /\ closedSet \subseteq Free /\ source \in Cell
  BY FreeIsCells DEF SearchInv, TypeOK
<1>2. openSet \subseteq Cell /\ closedSet \in SUBSET Cell
  BY <1>1
<1>3. IsFiniteSet(closedSet) /\ Cardinality(closedSet) <= Far
  BY <1>2, CellsAreFinite, FS_Subset
<1> QED
  BY <1>1, <1>2, <1>3, FS_CardinalityType

LEMMA RouteStarts == ASSUME Init PROVE RouteInv /\ BestInv
<1>1. /\ source \in Cell /\ openSet = {source} /\ closedSet = {} /\ phase = "searching" /\ target = 1
      /\ G = [c \in Cell |-> 0] /\ parent = [c \in Cell |-> Nowhere] /\ best = << >>
  BY SourcesInside DEF Init
<1>2. Parents /\ NotPast /\ Ended
  BY <1>1 DEF Parents, NotPast, Ended
<1>3. FewSteps
  BY <1>1, FS_EmptySet DEF FewSteps
<1>4. BestInv
  BY <1>1 DEF BestInv, BestOf
<1> QED
  BY <1>2, <1>3, <1>4 DEF RouteInv

\* The effect of closing a node.
Expanded(n, free, better) ==
  /\ n \in openSet /\ n \notin closedSet /\ n \notin Beside(End)
  /\ closedSet' = closedSet \cup {n} /\ openSet' = (openSet \ {n}) \cup free
  /\ G' = [c \in Cell |-> IF c \in better THEN G[n] + 10 ELSE G[c]]
  /\ parent' = [c \in Cell |-> IF c \in better THEN n ELSE parent[c]]
  /\ free \subseteq Cell /\ free \subseteq Neighbours(n) /\ free \cap (closedSet \cup {n}) = {}
  /\ better \subseteq free /\ free \subseteq openSet \cup better
  /\ source \in closedSet \cup {n}
  /\ phase = "searching" /\ phase' = "searching" /\ UNCHANGED <<world, target, best>>

LEMMA ExpandDoes ==
  ASSUME SearchInv, NEW n \in Cell, Expand(n)
  PROVE  \E free, better : Expanded(n, free, better)
<1> DEFINE cost == G[n] + 10
           free == {d \in Neighbours(n) : ~detectCollision(d) /\ d \notin closedSet \cup {n}}
           better == {d \in free : Improves(d, cost)}
<1>1. /\ n \in openSet /\ ~AtEnd(n)
      /\ closedSet' = closedSet \cup {n} /\ openSet' = (openSet \ {n}) \cup free
      /\ G' = [c \in Cell |-> IF c \in better THEN cost ELSE G[c]]
      /\ parent' = [c \in Cell |-> IF c \in better THEN n ELSE parent[c]]
      /\ phase' = "searching" /\ phase = "searching" /\ UNCHANGED <<world, target, best>>
  BY DEF Expand
<1>2. n \notin closedSet /\ n \notin Beside(End) /\ source \in closedSet \cup {n}
  BY <1>1 DEF SearchInv, Started, AtEnd, Beside
<1>3. free \subseteq Cell /\ free \subseteq Neighbours(n) /\ free \cap (closedSet \cup {n}) = {}
  BY DEF detectCollision
<1>4. better \subseteq free /\ free \subseteq openSet \cup better
  BY DEF Improves
<1> HIDE DEF free, better
<1>5. Expanded(n, free, better)
  BY <1>1, <1>2, <1>3, <1>4 DEF Expanded
<1> QED
  BY <1>5

LEMMA ExpandKeepsRoute == ASSUME SearchInv, RouteInv, NEW n \in Cell, Expand(n) PROVE RouteInv'
<1>1. PICK free, better : Expanded(n, free, better)
  BY ExpandDoes
<1>2. /\ n \in openSet /\ n \notin closedSet /\ n \notin Beside(End)
      /\ closedSet' = closedSet \cup {n} /\ openSet' = (openSet \ {n}) \cup free
      /\ free \subseteq Cell /\ free \subseteq Neighbours(n) /\ free \cap (closedSet \cup {n}) = {}
      /\ better \subseteq free /\ free \subseteq openSet \cup better
      /\ source \in closedSet \cup {n} /\ source' = source /\ End' = End /\ phase' = "searching"
  BY <1>1 DEF Expanded, world, End
<1>3. /\ openSet \subseteq Cell /\ closedSet \subseteq Cell /\ source \in Cell
      /\ \A c \in Cell : G[c] \in Nat
      /\ Cardinality(closedSet) \in Nat /\ IsFiniteSet(closedSet)
  BY KnownAreCells DEF SearchInv, TypeOK
<1>4. \A c \in Cell : /\ G'[c] = IF c \in better THEN G[n] + 10 ELSE G[c]
                      /\ parent'[c] = IF c \in better THEN n ELSE parent[c]
  BY <1>1 DEF Expanded
<1>5. \A c \in (openSet' \cup closedSet') \ better : c \in openSet \cup closedSet
  BY <1>2
<1>6. \A c \in closedSet \cup {n} : c \in Cell /\ c \notin better /\ G'[c] = G[c] /\ parent'[c] = parent[c]
  BY <1>2, <1>3, <1>4
<1>7. Parents'
  <2>1. parent'[source] = Nowhere
    BY <1>2, <1>6 DEF RouteInv, Parents
  <2>2. ASSUME NEW c \in (openSet' \cup closedSet') \ {source}
        PROVE  parent'[c] \in closedSet' /\ c \in Neighbours(parent'[c]) /\ G'[c] = G'[parent'[c]] + 10
    <3>1. CASE c \in better
      <4>1. parent'[c] = n /\ G'[c] = G[n] + 10 /\ G'[n] = G[n]
        BY <3>1, <1>2, <1>4, <1>6
      <4> QED
        BY <4>1, <3>1, <1>2
    <3>2. CASE c \notin better
      <4>1. c \in openSet \cup closedSet /\ c # source
        BY <3>2, <1>5
      <4>2. parent[c] \in closedSet /\ c \in Neighbours(parent[c]) /\ G[c] = G[parent[c]] + 10
        BY <4>1 DEF RouteInv, Parents
      <4>3. c \in Cell /\ G'[c] = G[c] /\ parent'[c] = parent[c] /\ G'[parent[c]] = G[parent[c]]
        BY <4>1, <4>2, <3>2, <1>3, <1>4, <1>6
      <4> QED
        BY <4>2, <4>3, <1>2
    <3> QED
      BY <3>1, <3>2
  <2> QED
    BY <2>1, <2>2, <1>2 DEF Parents
<1>8. FewSteps'
  <2>1. Cardinality(closedSet') = Cardinality(closedSet) + 1
    BY <1>2, <1>3, FS_AddElement
  <2>2. PICK z \in Nat : z = Cardinality(closedSet)
    BY <1>3
  <2>3. ASSUME NEW c \in openSet' \cup closedSet' PROVE G'[c] <= 10 * (z + 1)
    <3>1. CASE c \in better
      <4>1. G[n] <= 10 * z /\ G[n] \in Nat
        BY <2>2, <1>2, <1>3 DEF RouteInv, FewSteps
      <4>2. G'[c] = G[n] + 10
        BY <3>1, <1>2, <1>4
      <4> QED
        BY <4>1, <4>2
    <3>2. CASE c \notin better
      <4>1. c \in openSet \cup closedSet /\ c \in Cell
        BY <3>2, <1>3, <1>5
      <4>2. G[c] <= 10 * z /\ G[c] \in Nat
        BY <4>1, <2>2, <1>3 DEF RouteInv, FewSteps
      <4>3. G'[c] = G[c]
        BY <4>1, <3>2, <1>4
      <4> QED
        BY <4>2, <4>3
    <3> QED
      BY <3>1, <3>2
  <2> QED
    BY <2>1, <2>2, <2>3 DEF FewSteps
<1>9. NotPast'
  BY <1>2 DEF NotPast, RouteInv, Beside
<1>10. Ended'
  BY <1>2 DEF Ended
<1> QED
  BY <1>7, <1>8, <1>9, <1>10 DEF RouteInv

LEMMA ArriveKeepsRoute == ASSUME RouteInv, NEW n \in Cell, Arrive(n) PROVE RouteInv'
<1>1. /\ UNCHANGED <<world, target, openSet, closedSet, G, parent>> /\ AtEnd(n)
      /\ current' = n /\ phase' = "found"
  BY DEF Arrive
<1>2. End' = End /\ source' = source
  BY <1>1 DEF world, End
<1>3. n \in Beside(End)
  BY <1>1 DEF AtEnd, Beside
<1>4. Ended'
  BY <1>1, <1>2, <1>3 DEF Ended, Beside
<1>5. Parents' /\ FewSteps' /\ NotPast'
  BY <1>1, <1>2 DEF RouteInv, Parents, FewSteps, NotPast, Beside
<1> QED
  BY <1>4, <1>5 DEF RouteInv

LEMMA StandingKeepsRoute ==
  ASSUME RouteInv, UNCHANGED <<world, search>>,
         (UNCHANGED target /\ phase' \in {phase, "done"}) \/ GiveUp
  PROVE  RouteInv'
<1>1. UNCHANGED <<source, ends, openSet, closedSet, G, parent, current>> /\ target' = target
  BY DEF world, search, GiveUp
<1>2. End' = End
  BY <1>1 DEF End
<1>3. Ended'
  BY <1>1, <1>2 DEF RouteInv, Ended, GiveUp, Beside
<1> QED
  BY <1>1, <1>2, <1>3 DEF RouteInv, Parents, FewSteps, NotPast, Beside

LEMMA ReturnKeepsRoute == ASSUME SearchInv, RouteInv, Return PROVE RouteInv'
<1>1. CASE target = Len(ends)
  <2>1. UNCHANGED <<world, target, search>> /\ phase' = "done"
    BY <1>1 DEF Return
  <2> QED
    BY <2>1, StandingKeepsRoute
<1>2. CASE target # Len(ends)
  <2>1. /\ phase' = "searching" /\ openSet' = {source} /\ closedSet' = {}
        /\ G' = [c \in Cell |-> 0] /\ parent' = [c \in Cell |-> Nowhere] /\ source' = source
    BY <1>2 DEF Return, world
  <2>2. source \in Cell
    BY KnownAreCells
  <2>3. Parents' /\ NotPast' /\ Ended'
    BY <2>1, <2>2 DEF Parents, NotPast, Ended
  <2>4. FewSteps'
    BY <2>1, <2>2, FS_EmptySet DEF FewSteps
  <2> QED
    BY <2>3, <2>4 DEF RouteInv
<1> QED
  BY <1>1, <1>2

LEMMA NextKeepsRoute == ASSUME SearchInv, RouteInv, [Next]_vars PROVE RouteInv'
<1>1. CASE UNCHANGED vars
  <2>1. UNCHANGED <<world, target, search, phase>>
    BY <1>1 DEF vars
  <2> QED
    BY <2>1, StandingKeepsRoute
<1>2. CASE GiveUp
  <2>1. UNCHANGED <<world, search>>
    BY <1>2 DEF GiveUp
  <2> QED
    BY <2>1, <1>2, StandingKeepsRoute
<1> QED
  BY <1>1, <1>2, ArriveKeepsRoute, ExpandKeepsRoute, ReturnKeepsRoute DEF Next

\* The beginning of the way back, and one more step.
Onward(t) == IF parent[t[Len(t)]] = Nowhere THEN t ELSE Append(t, parent[t[Len(t)]])
Trail(t, n) ==
  /\ t \in Seq(Cell) /\ Len(t) > 0 /\ t[1] = n
  /\ \A i \in 1..Len(t) : t[i] \in openSet \cup closedSet
  /\ \A i \in 1..Len(t) - 1 : parent[t[i]] = t[i + 1]
  /\ G[t[Len(t)]] + 10 * (Len(t) - 1) = G[n]

LEMMA BackIsTrace ==
  ASSUME SearchInv, NEW n \in Cell
  PROVE  \E trace : /\ trace[0] = <<n>> /\ \A k \in 1..Far : trace[k] = Onward(trace[k - 1])
                    /\ Back(n) = trace[Far]
<1> DEFINE IsTrace(trace) == trace = [k \in 0..Far |-> IF k = 0 THEN <<n>> ELSE Onward(trace[k - 1])]
<1>1. PICK S : S = {t \in Seq(Cell) : Len(t) > 0}
  OBVIOUS
<1>2. PICK h : h = [t \in S |-> Onward(t)]
  OBVIOUS
<1>3. ASSUME NEW t \in S PROVE Onward(t) \in S
  <2>1. t \in Seq(Cell) /\ Len(t) \in Nat /\ Len(t) > 0 /\ t[Len(t)] \in Cell
    BY <1>1
  <2>2. parent[t[Len(t)]] \in Cell \cup {Nowhere}
    BY <2>1 DEF SearchInv, TypeOK
  <2>3. CASE parent[t[Len(t)]] = Nowhere
    BY <2>3 DEF Onward
  <2>4. CASE parent[t[Len(t)]] # Nowhere
    <3>1. PICK c \in Cell : c = parent[t[Len(t)]]
      BY <2>2, <2>4
    <3>2. Append(t, c) \in Seq(Cell) /\ Len(Append(t, c)) = Len(t) + 1
      BY <2>1
    <3> QED
      BY <2>1, <2>4, <3>1, <3>2, <1>1 DEF Onward
  <2> QED
    BY <2>3, <2>4
<1>4. h \in [S -> S]
  BY <1>2, <1>3
<1>5. PICK a : a = <<n>>
  OBVIOUS
<1>6. a \in S
  BY <1>1, <1>5
<1>7. PICK f : Iterates(f, S, a, h, Far)
  BY ONLY <1>4, <1>6, FarIsNat, Recursion
<1>8. ASSUME NEW k \in 0..Far PROVE f[k] = IF k = 0 THEN <<n>> ELSE Onward(f[k - 1])
  <2>1. CASE k = 0
    BY <2>1, <1>5, <1>7 DEF Iterates
  <2>2. CASE k # 0
    <3>1. k \in 1..Far /\ k - 1 \in 0..Far
      BY <2>2, FarIsNat
    <3>2. f[k - 1] \in S /\ f[k] = h[f[k - 1]]
      BY <3>1, <1>7 DEF Iterates
    <3> QED
      BY <3>2, <2>2, <1>2
  <2> QED
    BY <2>1, <2>2
<1>9. f = [k \in 0..Far |-> IF k = 0 THEN <<n>> ELSE Onward(f[k - 1])]
  <2>1. f = [k \in 0..Far |-> f[k]]
    BY <1>7 DEF Iterates
  <2> QED
    BY <2>1, <1>8
<1>10. IsTrace(f)
  BY <1>9
<1>11. Back(n) = (CHOOSE trace : IsTrace(trace))[Far]
  BY DEF Back, Onward, Far
<1> HIDE DEF IsTrace
<1>12. PICK w : IsTrace(w) /\ Back(n) = w[Far]
  BY <1>10, <1>11
<1>13. w = [k \in 0..Far |-> IF k = 0 THEN <<n>> ELSE Onward(w[k - 1])]
  BY <1>12 DEF IsTrace
<1>14. w[0] = <<n>>
  BY <1>13, FarIsNat
<1>15. ASSUME NEW k \in 1..Far PROVE w[k] = Onward(w[k - 1])
  <2>1. k \in 0..Far /\ k # 0
    BY FarIsNat
  <2> QED
    BY <2>1, <1>13
<1> QED
  BY <1>12, <1>14, <1>15

\* A step back is one to a known node that costs 10 less, until the source.
LEMMA TrailGoesOn ==
  ASSUME SearchInv, RouteInv, NEW n, NEW t, Trail(t, n)
  PROVE  /\ Trail(Onward(t), n)
         /\ IF t[Len(t)] = source THEN Onward(t) = t ELSE Len(Onward(t)) = Len(t) + 1
<1>1. /\ t \in Seq(Cell) /\ Len(t) \in Nat \ {0} /\ t[1] = n
      /\ \A i \in 1..Len(t) : t[i] \in openSet \cup closedSet
      /\ \A i \in 1..Len(t) - 1 : parent[t[i]] = t[i + 1]
      /\ G[t[Len(t)]] + 10 * (Len(t) - 1) = G[n]
  BY DEF Trail
<1>2. PICK c : c = t[Len(t)]
  OBVIOUS
<1>3. c \in openSet \cup closedSet /\ c \in Cell
  BY <1>1, <1>2, KnownAreCells
<1>4. CASE c = source
  <2>1. Onward(t) = t
    BY <1>2, <1>4 DEF Onward, RouteInv, Parents
  <2> QED
    BY <2>1, <1>2, <1>4
<1>5. CASE c # source
  <2>1. parent[c] \in closedSet /\ G[c] = G[parent[c]] + 10
    BY <1>3, <1>5 DEF RouteInv, Parents
  <2>2. PICK d : d = parent[c]
    OBVIOUS
  <2>3. d \in Cell /\ d \in openSet \cup closedSet /\ d # Nowhere
    BY <2>1, <2>2, KnownAreCells, SourcesInside
  <2>4. PICK u : u = Append(t, d)
    OBVIOUS
  <2>5. Onward(t) = u
    BY <1>2, <2>2, <2>3, <2>4 DEF Onward
  <2>6. PICK k \in Nat \ {0} : k = Len(t)
    BY <1>1
  <2>7. u \in Seq(Cell) /\ Len(u) = k + 1 /\ u[k + 1] = d /\ \A i \in 1..k : u[i] = t[i]
    BY <1>1, <2>3, <2>4, <2>6, AppendProperties
  <2>8. \A i \in 1..k + 1 : u[i] \in openSet \cup closedSet
    BY <1>1, <2>3, <2>6, <2>7
  <2>9. ASSUME NEW i \in 1..k PROVE parent[u[i]] = u[i + 1]
    <3>1. CASE i = k
      BY <3>1, <1>2, <2>2, <2>6, <2>7
    <3>2. CASE i # k
      <4>1. i \in 1..k - 1 /\ i + 1 \in 1..k
        BY <3>2
      <4> QED
        BY <4>1, <1>1, <2>6, <2>7
    <3> QED
      BY <3>1, <3>2
  <2>10. G[d] + 10 * k = G[n]
    <3>1. G[d] \in Nat /\ G[c] \in Nat
      BY <1>3, <2>3 DEF SearchInv, TypeOK
    <3>2. G[c] = G[d] + 10 /\ G[c] + 10 * (k - 1) = G[n]
      BY <1>1, <1>2, <2>1, <2>2, <2>6
    <3> QED
      BY <3>1, <3>2
  <2>11. u[1] = n /\ k + 1 - 1 = k
    BY <1>1, <2>6, <2>7
  <2>12. Trail(u, n)
    BY <2>7, <2>8, <2>9, <2>10, <2>11 DEF Trail
  <2> QED
    BY <2>5, <2>6, <2>7, <2>12, <1>2, <1>5
<1> QED
  BY <1>4, <1>5

\* All the way back: as many steps as the cost has tens.
LEMMA BackIsTrail ==
  ASSUME SearchInv, RouteInv, NEW n \in openSet
  PROVE  LET t == Back(n) IN
         /\ Trail(t, n) /\ t[Len(t)] = source
         /\ Len(t) \in 1..Far + 1 /\ 10 * (Len(t) - 1) = G[n]
<1>1. n \in Cell
  BY KnownAreCells
<1>2. PICK w : w[0] = <<n>> /\ (\A k \in 1..Far : w[k] = Onward(w[k - 1])) /\ Back(n) = w[Far]
  BY <1>1, BackIsTrace
<1> DEFINE Reached(k) == /\ Trail(w[k], n) /\ Len(w[k]) <= k + 1
                         /\ Len(w[k]) = k + 1 \/ w[k][Len(w[k])] = source
           T == {k \in Nat : k <= Far => Reached(k)}
<1>3. 0 \in T
  <2>1. PICK t : t = w[0]
    OBVIOUS
  <2>2. t \in Seq(Cell) /\ Len(t) = 1 /\ t[1] = n
    BY <2>1, <1>1, <1>2
  <2>3. G[n] \in Nat
    BY <1>1 DEF SearchInv, TypeOK
  <2>4. Trail(t, n)
    BY <2>2, <2>3 DEF Trail
  <2>5. Reached(0)
    <3>1. Len(t) <= 0 + 1 /\ Len(t) = 0 + 1
      BY <2>2
    <3> QED
      BY <3>1, <2>1, <2>4
  <2> QED
    BY <2>5
<1>4. ASSUME NEW k \in Nat, k \in T PROVE k + 1 \in T
  <2> SUFFICES ASSUME k + 1 <= Far PROVE Reached(k + 1)
    OBVIOUS
  <2>1. k + 1 \in 1..Far /\ k <= Far /\ k + 1 - 1 = k
    BY FarIsNat
  <2>2. Reached(k)
    BY <2>1, <1>4
  <2>3. PICK t : t = w[k]
    OBVIOUS
  <2>4. Trail(t, n) /\ Len(t) <= k + 1 /\ (Len(t) = k + 1 \/ t[Len(t)] = source)
    BY <2>2, <2>3
  <2>5. w[k + 1] = Onward(t)
    BY <2>1, <2>3, <1>2
  <2>6. /\ Trail(Onward(t), n)
        /\ IF t[Len(t)] = source THEN Onward(t) = t ELSE Len(Onward(t)) = Len(t) + 1
    BY <2>4, TrailGoesOn
  <2>7. Len(t) \in Nat
    BY <2>4 DEF Trail
  <2> QED
    BY <2>4, <2>5, <2>6, <2>7
<1> HIDE DEF T
<1>5. Far \in T
  BY <1>3, <1>4, FarIsNat, Induction
<1>6. PICK t : t = Back(n)
  OBVIOUS
<1>7. Trail(t, n) /\ Len(t) <= Far + 1 /\ (Len(t) = Far + 1 \/ t[Len(t)] = source)
  BY <1>2, <1>5, <1>6, FarIsNat DEF T
<1>8. Len(t) \in Nat \ {0} /\ t[Len(t)] \in openSet \cup closedSet /\ G[t[Len(t)]] + 10 * (Len(t) - 1) = G[n]
  BY <1>7 DEF Trail
<1>9. PICK c : c = t[Len(t)]
  OBVIOUS
<1>10. c \in openSet \cup closedSet /\ c \in Cell /\ G[c] \in Nat /\ G[n] \in Nat
  BY <1>1, <1>8, <1>9, KnownAreCells DEF SearchInv, TypeOK
<1>11. PICK z \in Nat : z = Cardinality(closedSet) /\ z <= Far
  BY KnownAreCells
<1>12. G[n] <= 10 * z
  BY <1>11 DEF RouteInv, FewSteps
<1>13. c = source
  <2> SUFFICES ASSUME c # source PROVE FALSE
    OBVIOUS
  <2>1. parent[c] \in closedSet /\ G[c] = G[parent[c]] + 10
    BY <1>10 DEF RouteInv, Parents
  <2>2. parent[c] \in Cell
    BY <2>1, KnownAreCells
  <2>3. G[parent[c]] \in Nat
    BY <2>2 DEF SearchInv, TypeOK
  <2>4. Len(t) = Far + 1
    BY <1>7, <1>9
  <2>5. G[c] + 10 * Far = G[n]
    BY <2>4, <1>8, <1>9, FarIsNat
  <2> QED
    BY <2>1, <2>3, <2>5, <1>10, <1>11, <1>12, FarIsNat
<1>14. G[c] = 0
  BY <1>13 DEF SearchInv
<1>15. 10 * (Len(t) - 1) = G[n]
  BY <1>8, <1>9, <1>14
<1>16. Len(t) \in 1..Far + 1
  BY <1>7, <1>8, FarIsNat
<1> QED
  BY <1>6, <1>7, <1>9, <1>13, <1>15, <1>16

\* Of the cells the search has found a way to, how near the others can be.
LEMMA AtLeastIsInt ==
  ASSUME SearchInv, phase = "found", NEW c \in Cell
  PROVE  AtLeast(c) \in Int
<1>1. current \in Cell /\ End \in Cell /\ \A d \in Cell : G[d] \in Nat
  BY KnownAreCells, EndIsCell DEF SearchInv, TypeOK
<1>2. manhattan(current, End) \in Nat /\ manhattan(c, End) \in Nat /\ G[c] \in Nat /\ G[current] \in Nat
  BY <1>1, ManhattanIsNat
<1> QED
  BY <1>2 DEF AtLeast

LEMMA BallIsBound ==
  ASSUME SearchInv, phase = "found", NEW k \in 0..Far, NEW c \in Within[k]
  PROVE  c \in Free /\ AtLeast(c) <= 10 * k
<1>1. /\ AtLeast(source) = 0 /\ source \in Cell /\ source \in Free /\ Free \subseteq Cell
      /\ \A e \in Free : \A d \in Neighbours(e) \cap Free : AtLeast(d) <= AtLeast(e) + 10
  BY KnownAreCells, FoundIsShortest DEF NoShorterWay, Free
<1> DEFINE Bound(j) == \A e \in Within[j] : e \in Free /\ AtLeast(e) <= 10 * j
           T == {j \in Nat : j <= Far => Bound(j)}
<1>2. 0 \in T
  <2>1. Bound(0)
    BY <1>1, Balls
  <2> QED
    BY <2>1
<1>3. ASSUME NEW j \in Nat, j \in T PROVE j + 1 \in T
  <2> SUFFICES ASSUME j + 1 <= Far, NEW e \in Within[j + 1]
               PROVE  e \in Free /\ AtLeast(e) <= 10 * (j + 1)
    OBVIOUS
  <2>1. j + 1 \in 1..Far /\ j <= Far /\ j \in 0..Far /\ j + 1 - 1 = j
    BY FarIsNat
  <2>2. Within[j + 1] = Grow(Within[j])
    BY <2>1, <1>1, Balls
  <2>3. Bound(j)
    BY <2>1, <1>3
  <2>4. CASE e \in Within[j]
    <3>1. e \in Free /\ e \in Cell /\ AtLeast(e) <= 10 * j
      BY <2>3, <2>4, <1>1
    <3>2. AtLeast(e) \in Int
      BY <3>1, AtLeastIsInt
    <3> QED
      BY <3>1, <3>2
  <2>5. CASE e \notin Within[j]
    <3>1. e \in Cell \ blocked /\ Neighbours(e) \cap Within[j] # {}
      BY <2>2, <2>5 DEF Grow
    <3>2. PICK d \in Within[j] : d \in Neighbours(e)
      BY <3>1
    <3>3. d \in Free /\ d \in Cell /\ AtLeast(d) <= 10 * j /\ e \in Free /\ e \in Cell
      BY <3>1, <2>3, <1>1 DEF Free
    <3>4. e \in Neighbours(d)
      BY <3>2, <3>3, NeighboursAreMutual
    <3>5. AtLeast(e) <= AtLeast(d) + 10
      BY <3>3, <3>4, <1>1
    <3>6. AtLeast(e) \in Int /\ AtLeast(d) \in Int
      BY <3>3, AtLeastIsInt
    <3> QED
      BY <3>3, <3>5, <3>6
  <2> QED
    BY <2>4, <2>5
<1> HIDE DEF T
<1>4. Nat \subseteq T
  BY <1>2, <1>3, Induction
<1>5. k \in T /\ k <= Far
  BY <1>4, FarIsNat
<1>6. Bound(k)
  BY <1>5 DEF T
<1> QED
  BY <1>6

LEMMA BesideIsOneStep ==
  ASSUME NEW e \in Cell, NEW c \in Cell, c \in Beside(e)
  PROVE  manhattan(c, e) = 10
<1>1. e[1] \in Int /\ e[2] \in Int
  BY CellsAreInt
<1>2. c[2] = e[2] /\ (c[1] = e[1] - 1 \/ c[1] = e[1] + 1)
  BY DEF Beside
<1> QED
  BY <1>1, <1>2 DEF manhattan, Distance

\* What findPath returns is as short as a way can be.
LEMMA NoneNearer ==
  ASSUME SearchInv, RouteInv, phase = "found", NEW k \in 0..Far,
         Beside(End) \cap Within[k] # {}
  PROVE  G[current] <= 10 * k
<1>1. PICK c \in Within[k] : c \in Beside(End)
  OBVIOUS
<1>2. c \in Free /\ AtLeast(c) <= 10 * k
  BY <1>1, BallIsBound
<1>3. c \in Cell /\ c \notin closedSet /\ current \in Cell /\ current \in Beside(End) /\ End \in Cell
  BY <1>1, <1>2, KnownAreCells, EndIsCell DEF RouteInv, NotPast, Ended, SearchInv, TypeOK
<1>4. manhattan(c, End) = 10 /\ manhattan(current, End) = 10
  BY <1>1, <1>3, BesideIsOneStep
<1>5. G[current] \in Nat
  BY <1>3 DEF SearchInv, TypeOK
<1>6. AtLeast(c) = G[current] + 10 - 10
  BY <1>3, <1>4 DEF AtLeast
<1> QED
  BY <1>2, <1>5, <1>6

\* A search that gives up has closed every cell there is a way to.
LEMMA AllClosed ==
  ASSUME SearchInv, openSet = {}
  PROVE  Within[Far] \subseteq closedSet
<1>1. source \in closedSet /\ source \in Cell
  BY KnownAreCells DEF SearchInv, Started
<1> DEFINE T == {k \in Nat : k <= Far => Within[k] \subseteq closedSet}
<1>2. 0 \in T
  BY <1>1, Balls
<1>3. ASSUME NEW k \in Nat, k \in T PROVE k + 1 \in T
  <2> SUFFICES ASSUME k + 1 <= Far, NEW c \in Within[k + 1] PROVE c \in closedSet
    OBVIOUS
  <2>1. k + 1 \in 1..Far /\ k <= Far /\ k + 1 - 1 = k
    BY FarIsNat
  <2>2. Within[k + 1] = Grow(Within[k]) /\ Within[k] \subseteq closedSet
    BY <2>1, <1>1, <1>3, Balls
  <2>3. CASE c \notin Within[k]
    <3>1. c \in Cell \ blocked /\ Neighbours(c) \cap Within[k] # {}
      BY <2>2, <2>3 DEF Grow
    <3>2. PICK d \in Within[k] : d \in Neighbours(c)
      BY <3>1
    <3>3. d \in closedSet /\ d \in Cell /\ c \in Free /\ c \in Cell
      BY <3>1, <2>2, KnownAreCells DEF Free
    <3>4. c \in Neighbours(d) \cap Free
      BY <3>2, <3>3, NeighboursAreMutual
    <3> QED
      BY <3>3, <3>4 DEF SearchInv, Relaxed
  <2> QED
    BY <2>2, <2>3
<1> HIDE DEF T
<1>4. Far \in T
  BY <1>2, <1>3, FarIsNat, Induction
<1> QED
  BY <1>4, FarIsNat DEF T

LEMMA ReachableIsFound == ASSUME SearchInv, RouteInv, Reachable PROVE phase # "unreachable"
<1> SUFFICES ASSUME phase = "unreachable" PROVE FALSE
  OBVIOUS
<1>1. openSet = {} /\ closedSet \cap Beside(End) = {}
  BY DEF RouteInv, Ended, NotPast
<1>2. target \in DOMAIN ends
  BY DEF SearchInv, TypeOK
<1>3. Beside(End) \cap Within[Far] # {}
  BY <1>2 DEF Reachable, End, Far
<1>4. Within[Far] \subseteq closedSet
  BY <1>1, AllClosed
<1> QED
  BY <1>1, <1>3, <1>4

\* What findPath returns when it has arrived.
LEMMA FoundIsWay ==
  ASSUME SearchInv, RouteInv, phase = "found", NEW p, p = <<End>> \o Back(current)
  PROVE  Len(p) \in 2..Far + 2 /\ IsWay(p) /\ NotNearer(p, target)
<1>1. current \in openSet /\ current \in Beside(End) /\ current \in Cell /\ End \in Cell
  BY KnownAreCells, EndIsCell DEF SearchInv, Taken, RouteInv, Ended
<1>2. PICK t : t = Back(current)
  OBVIOUS
<1>3. /\ Trail(t, current) /\ t[Len(t)] = source
      /\ Len(t) \in 1..Far + 1 /\ 10 * (Len(t) - 1) = G[current]
  BY <1>1, <1>2, BackIsTrail
<1>4. /\ t \in Seq(Cell) /\ t[1] = current
      /\ \A i \in 1..Len(t) : t[i] \in openSet \cup closedSet
      /\ \A i \in 1..Len(t) - 1 : parent[t[i]] = t[i + 1]
  BY <1>3 DEF Trail
<1>5. PICK l \in Nat : l = Len(t) /\ l \in 1..Far + 1
  BY <1>3, FarIsNat
<1>6. Len(p) = l + 1 /\ p[1] = End /\ \A i \in 2..l + 1 : p[i] = t[i - 1]
  <2>1. PICK s : s = <<End>>
    OBVIOUS
  <2>2. s \in Seq(Cell) /\ Len(s) = 1 /\ s[1] = End
    BY <2>1, <1>1
  <2>3. p = s \o t
    BY <2>1, <1>2
  <2>4. Len(p) = Len(s) + Len(t) /\ \A i \in 1..Len(s) + Len(t) :
          p[i] = IF i <= Len(s) THEN s[i] ELSE t[i - Len(s)]
    <3>1. s \in Seq(Cell) /\ t \in Seq(Cell)
      BY <2>2, <1>4
    <3>2. /\ Len(s \o t) = Len(s) + Len(t)
          /\ \A i \in 1..Len(s) + Len(t) : (s \o t)[i] = IF i <= Len(s) THEN s[i] ELSE t[i - Len(s)]
      BY ONLY <3>1, ConcatProperties
    <3> QED
      BY <3>2, <2>3
  <2>5. Len(p) = 1 + l /\ \A i \in 1..1 + l : p[i] = IF i <= 1 THEN s[i] ELSE t[i - 1]
    BY <2>2, <2>4, <1>5
  <2>6. ASSUME NEW i \in 2..l + 1 PROVE p[i] = t[i - 1]
    <3>1. i \in 1..1 + l /\ ~(i <= 1)
      OBVIOUS
    <3> QED
      BY <3>1, <2>5
  <2>7. p[1] = End /\ Len(p) = l + 1
    <3>1. 1 \in 1..1 + l /\ 1 <= 1
      OBVIOUS
    <3> QED
      BY <3>1, <2>2, <2>5
  <2>8. \A i \in 2..l + 1 : p[i] = t[i - 1]
    BY ONLY <2>6
  <2> QED
    BY ONLY <2>7, <2>8
<1>7. Len(p) \in 2..Far + 2
  BY <1>5, <1>6, FarIsNat
<1>8. IsWay(p)
  <2>1. \E i \in DOMAIN ends : p[1] = ends[i] /\ p[2] \in Beside(ends[i])
    <3>1. target \in DOMAIN ends /\ End = ends[target]
      BY DEF SearchInv, TypeOK, End
    <3>2. 2 \in 2..l + 1 /\ 2 - 1 = 1
      BY <1>5, FarIsNat
    <3>3. p[2] = current
      BY <3>2, <1>4, <1>6
    <3> QED
      BY <3>1, <3>3, <1>1, <1>6
  <2>2. p[Len(p)] = source
    <3>1. l + 1 \in 2..l + 1 /\ l + 1 - 1 = l
      BY <1>5, FarIsNat
    <3>2. p[l + 1] = t[l]
      BY <3>1, <1>6
    <3> QED
      BY <3>2, <1>3, <1>5, <1>6
  <2>3. ASSUME NEW i \in 2..Len(p) - 1 PROVE p[i] \in Neighbours(p[i + 1]) /\ ~detectCollision(p[i])
    <3>1. /\ i \in 2..l + 1 /\ i + 1 \in 2..l + 1 /\ i + 1 - 1 = i
          /\ i - 1 \in 1..l /\ i - 1 \in 1..l - 1 /\ i - 1 + 1 = i /\ i \in 1..l
      BY <1>5, <1>6, FarIsNat
    <3>2. PICK c : c = t[i - 1]
      OBVIOUS
    <3>3. p[i] = c /\ p[i + 1] = t[i]
      BY <3>1, <3>2, <1>6
    <3>4. c \in openSet \cup closedSet /\ parent[c] = t[i] /\ t[i] \in Cell
      BY <3>1, <3>2, <1>4, <1>5, KnownAreCells
    <3>5. c # source
      BY <3>4, SourcesInside DEF RouteInv, Parents
    <3>6. c \in Neighbours(parent[c])
      BY <3>4, <3>5 DEF RouteInv, Parents
    <3>7. c \in Cell /\ c \in Free
      BY <3>4, KnownAreCells
    <3>8. ~detectCollision(c)
      BY <3>5, <3>7 DEF Free, detectCollision
    <3> QED
      BY <3>3, <3>4, <3>6, <3>8
  <2> QED
    BY <2>1, <2>2, <2>3 DEF IsWay
<1>9. NotNearer(p, target)
  <2> SUFFICES ASSUME Len(p) > 2 PROVE Beside(End) \cap Within[Len(p) - 3] = {}
    BY DEF NotNearer, End
  <2>1. PICK k \in 0..Far : k = Len(p) - 3 /\ k = l - 2
    BY <1>5, <1>6, FarIsNat
  <2> SUFFICES ASSUME Beside(End) \cap Within[k] # {} PROVE FALSE
    BY <2>1
  <2>2. G[current] <= 10 * k
    BY NoneNearer
  <2>3. G[current] = 10 * (l - 1)
    BY <1>3, <1>5
  <2> QED
    BY <2>1, <2>2, <2>3, <1>5, FarIsNat
<1> QED
  BY <1>7, <1>8, <1>9

\* A place that is not nearer than a way is not nearer than a shorter one.
LEMMA ShorterIsNotNearer ==
  ASSUME SearchInv, NEW p, NEW q, NEW i, NotNearer(p, i),
         Len(p) \in 2..Far + 2, Len(q) \in 2..Far + 2, Len(q) <= Len(p)
  PROVE  NotNearer(q, i)
<1> SUFFICES ASSUME Len(q) > 2 PROVE Beside(ends[i]) \cap Within[Len(q) - 3] = {}
  BY DEF NotNearer
<1>1. PICK a, b : a = Len(q) - 3 /\ b = Len(p) - 3
  OBVIOUS
<1>2. a \in 0..Far /\ b \in 0..Far /\ a <= b /\ Len(p) > 2
  BY <1>1, FarIsNat
<1>3. Beside(ends[i]) \cap Within[b] = {}
  BY <1>1, <1>2 DEF NotNearer
<1>4. Within[a] \subseteq Within[b]
  BY <1>2, BallsGrow, KnownAreCells
<1> QED
  BY <1>1, <1>3, <1>4

\* The shorter of the path of this place and the best of those before.
LEMMA BestOfOneMore ==
  ASSUME SearchInv, RouteInv, BestInv, Reachable, Return, NEW n, n = target
  PROVE  BestOf(n)'
<1>1. phase = "found" /\ n \in Nat \ {0}
  <2>1. phase = "found"
    BY ReachableIsFound DEF Return
  <2>2. n \in Nat \ {0}
    BY DEF SearchInv, TypeOK
  <2> QED
    BY <2>1, <2>2
<1>2. PICK p : p = <<End>> \o Back(current)
  OBVIOUS
<1>3. Len(p) \in 2..Far + 2 /\ IsWay(p) /\ NotNearer(p, n)
  BY <1>1, <1>2, FoundIsWay
<1>4. best' = (IF Better(p) THEN p ELSE best) /\ UNCHANGED world
  BY <1>1, <1>2 DEF Return
<1>5. BestOf(n - 1)
  BY <1>1 DEF BestInv
<1>6. PICK q : q = best'
  OBVIOUS
<1>7. Len(q) \in 2..Far + 2 /\ IsWay(q) /\ \A i \in 1..n : NotNearer(q, i)
  <2>1. CASE best = << >>
    <3>1. q = p
      BY <2>1, <1>4, <1>6 DEF Better
    <3>2. n = 1
      BY <2>1, <1>1, <1>5 DEF BestOf
    <3> QED
      BY <3>1, <3>2, <1>3
  <2>2. CASE best # << >>
    <3>1. /\ Len(best) \in 2..Far + 2 /\ IsWay(best)
          /\ \A i \in 1..n - 1 : NotNearer(best, i)
      BY <2>2, <1>5 DEF BestOf
    <3>2. \/ q = p /\ Len(p) < Len(best)
          \/ q = best /\ Len(best) <= Len(p)
      BY <2>2, <3>1, <1>3, <1>4, <1>6, FarIsNat DEF Better
    <3>3. Len(q) \in 2..Far + 2 /\ IsWay(q) /\ Len(q) <= Len(p) /\ Len(q) <= Len(best)
      BY <3>1, <3>2, <1>3, FarIsNat
    <3>4. NotNearer(q, n)
      BY <3>3, <1>3, ShorterIsNotNearer
    <3>5. ASSUME NEW i \in 1..n, i # n PROVE NotNearer(q, i)
      <4>1. i \in 1..n - 1
        BY <3>5, <1>1
      <4>2. NotNearer(best, i)
        BY <4>1, <3>1
      <4> QED
        BY <4>2, <3>1, <3>3, ShorterIsNotNearer
    <3> QED
      BY <3>3, <3>4, <3>5
  <2> QED
    BY <2>1, <2>2
<1>8. UNCHANGED <<source, blocked, ends>>
  BY <1>4 DEF world
<1>9. Within' = Within
  BY <1>8, WithinStays
<1>10. IsWay(best)'
  BY <1>6, <1>7, <1>8 DEF IsWay, Beside, detectCollision
<1>11. ASSUME NEW i \in 1..n PROVE NotNearer(best, i)'
  BY <1>6, <1>7, <1>8, <1>9 DEF NotNearer, Beside
<1> QED
  BY <1>1, <1>6, <1>7, <1>10, <1>11 DEF BestOf

LEMMA WorldStays ==
  ASSUME UNCHANGED world
  PROVE  Within' = Within /\ (Reachable <=> Reachable')
<1>1. UNCHANGED <<source, blocked, ends>>
  BY DEF world
<1>2. Within' = Within
  BY <1>1, WithinStays
<1> QED
  BY <1>1, <1>2 DEF Reachable, Beside

LEMMA SameIsBest ==
  ASSUME UNCHANGED <<world, best>>, NEW n, BestOf(n)
  PROVE  BestOf(n)'
<1>1. UNCHANGED <<source, blocked, ends>> /\ best' = best /\ Within' = Within
  BY WorldStays DEF world
<1>2. IsWay(best) => IsWay(best)'
  BY <1>1 DEF IsWay, Beside, detectCollision
<1>3. \A i : NotNearer(best, i) => NotNearer(best, i)'
  BY <1>1 DEF NotNearer, Beside
<1> QED
  BY <1>1, <1>2, <1>3 DEF BestOf

LEMMA NextKeepsBest ==
  ASSUME SearchInv, RouteInv, BestInv, [Next]_vars
  PROVE  BestInv'
<1> SUFFICES ASSUME Reachable' PROVE (BestOf(IF phase = "done" THEN Len(ends) ELSE target - 1))'
  BY DEF BestInv
<1>1. CASE Return
  <2>1. UNCHANGED world /\ ends' = ends
    BY <1>1 DEF Return, world
  <2>2. PICK n : n = target
    OBVIOUS
  <2>3. BestOf(n)'
    BY <2>1, <2>2, <1>1, WorldStays, BestOfOneMore
  <2>4. target \in Nat
    BY DEF SearchInv, TypeOK
  <2>5. \/ phase' = "done" /\ Len(ends') = n
        \/ phase' = "searching" /\ target' - 1 = n
    BY <2>1, <2>2, <2>4, <1>1 DEF Return
  <2> QED
    BY <2>3, <2>5
<1>2. CASE ~Return
  <2>1. UNCHANGED <<world, target, best>> /\ (phase' = "done" <=> phase = "done")
    BY <1>2 DEF Next, Arrive, Expand, GiveUp, vars
  <2>2. PICK n : n = IF phase = "done" THEN Len(ends) ELSE target - 1
    OBVIOUS
  <2>3. BestOf(n)
    BY <2>1, <2>2, WorldStays DEF BestInv
  <2>4. BestOf(n)'
    BY <2>1, <2>3, SameIsBest
  <2>5. n = (IF phase = "done" THEN Len(ends) ELSE target - 1)'
    BY <2>1, <2>2 DEF world
  <2> QED
    BY <2>4, <2>5
<1> QED
  BY <1>1, <1>2

LEMMA BestIsBest == SearchInv /\ BestInv => BestIsShortest
<1> SUFFICES ASSUME SearchInv, BestInv, phase = "done", Reachable
             PROVE  /\ IsWay(best)
                    /\ Len(best) > 2 => \A i \in DOMAIN ends : Beside(ends[i]) \cap Within[Len(best) - 3] = {}
  BY DEF BestIsShortest
<1>1. DOMAIN ends = 1..Len(ends) /\ Len(ends) # 0
  BY DEF SearchInv, TypeOK
<1>2. BestOf(Len(ends))
  BY DEF BestInv
<1> QED
  BY <1>1, <1>2 DEF BestOf, NotNearer

(* When every place can be reached, findbestpath returns a way a car can   *)
(* go, and no place has a shorter one, whatever the map: the parents lead  *)
(* from each node to the source in as many steps as its cost says, no      *)
(* shorter way leads beside the place of a search that has arrived, none   *)
(* leads there when the list has run empty, and of two paths the shorter   *)
(* is kept.                                                                *)
THEOREM BestWayIsShortest == Spec => []BestIsShortest
<1> DEFINE Inv == SearchInv /\ RouteInv /\ BestInv
<1>1. Init => Inv
  BY InitHolds, RouteStarts
<1>2. Inv /\ [Next]_vars => Inv'
  BY NextKeeps, NextKeepsRoute, NextKeepsBest
<1>3. Inv => BestIsShortest
  BY BestIsBest
<1> HIDE DEF Inv
<1> QED
  BY <1>1, <1>2, <1>3, PTL DEF Spec

\* What the search does is all that is done to it.
LEMMA PlanRun == ServicesSpec => Spec
<1>1. ServicesInit => Init
  BY DEF ServicesInit
<1>2. [ServicesNext]_allVars => [Next]_vars
  BY DEF ServicesNext, allVars, PlanStep, FilesStep, Go, BufferStep, AccountsStep
<1> QED
  BY <1>1, <1>2, PTL DEF ServicesSpec, Spec

-----------------------------------------------------------------------------
(* The accounts *)

UsersProofs == INSTANCE AccountsProofs WITH calm <- alone

\* The accounts here are those of the module of their proofs.
LEMMA UsersSame ==
  /\ Users!Init <=> UsersProofs!Init
  /\ Users!Next <=> UsersProofs!Next
<1>1. Users!Init <=> UsersProofs!Init
  BY DEF Users!Init, Users!Nothing, Users!Idle, UsersProofs!Init, UsersProofs!Nothing,
      UsersProofs!Idle
<1>2. ASSUME NEW w PROVE Users!Step(w) <=> UsersProofs!Step(w)
  BY DEF Users!At, Users!Req, Users!UserID, Users!Given, Users!Exists, Users!LastRow, Users!Go,
      Users!Respond, Users!Fails, Users!QueryError, Users!DeleteVar, Users!IsExistUser,
      Users!PasswardRightWrong, Users!InsertUserID, Users!JudgeUser, Users!CreateTable,
      Users!UpdateDataSetPath, Users!AfterDataSet, Users!SelectDataSetPath,
      Users!SelectSampleNumber, Users!QueryUserInfo, Users!Delete,
      Users!LogOff, Users!DeleteUser, Users!ErasePath, Users!LogOut,
      Users!Step, Users!database, Users!memory, Users!Nothing, Users!Idle, UsersProofs!At,
      UsersProofs!Req, UsersProofs!UserID, UsersProofs!Given, UsersProofs!Exists,
      UsersProofs!LastRow, UsersProofs!Go, UsersProofs!Respond, UsersProofs!Fails,
      UsersProofs!QueryError, UsersProofs!DeleteVar, UsersProofs!IsExistUser,
      UsersProofs!PasswardRightWrong, UsersProofs!InsertUserID, UsersProofs!JudgeUser,
      UsersProofs!CreateTable, UsersProofs!UpdateDataSetPath, UsersProofs!AfterDataSet,
      UsersProofs!SelectDataSetPath, UsersProofs!SelectSampleNumber, UsersProofs!QueryUserInfo,
      UsersProofs!Delete, UsersProofs!LogOff, UsersProofs!DeleteUser, UsersProofs!ErasePath,
      UsersProofs!LogOut, UsersProofs!Step,
      UsersProofs!database, UsersProofs!memory, UsersProofs!Nothing, UsersProofs!Idle
<1>3. ASSUME NEW w, NEW req, NEW u, NEW p
      PROVE  Users!Request(w, req, u, p) <=> UsersProofs!Request(w, req, u, p)
  BY DEF Users!Request, Users!FirstPlace, Users!At, Users!database, Users!memory,
      UsersProofs!Request, UsersProofs!FirstPlace, UsersProofs!At, UsersProofs!database,
      UsersProofs!memory
<1>4. Users!Next <=> UsersProofs!Next
  BY <1>2, <1>3 DEF Users!Next, Users!Requests, UsersProofs!Next, UsersProofs!Requests
<1> QED
  BY <1>1, <1>4

\* The other parts do nothing to them.
LEMMA UsersRun == ServicesSpec => UsersProofs!Spec
<1>1. ServicesInit => UsersProofs!Init
  BY UsersSame DEF ServicesInit
<1>2. [ServicesNext]_allVars => [UsersProofs!Next]_(UsersProofs!vars)
  <2> SUFFICES ASSUME [ServicesNext]_allVars PROVE [Users!Next]_(Users!vars)
    BY UsersSame DEF Users!vars, Users!database, Users!memory, UsersProofs!vars, UsersProofs!database,
      UsersProofs!memory
  <2>1. CASE AccountsStep
    BY <2>1 DEF AccountsStep
  <2>2. CASE UNCHANGED accountVars
    BY <2>2 DEF accountVars, Users!vars, Users!database, Users!memory
  <2> QED
    BY <2>1, <2>2 DEF ServicesNext, allVars, PlanStep, FilesStep, Go, BufferStep
<1> QED
  BY <1>1, <1>2, PTL DEF ServicesSpec, UsersProofs!Spec

(* Closing leaves nothing of an account in the maps of user_db_handle and  *)
(* PersonaLization (EventHandle.cpp, Close_account_CallBack).              *)
THEOREM ClosedIsGone == ServicesSpec => []NothingOfTheClosed
<1>1. UsersProofs!NothingOfTheClosed <=> NothingOfTheClosed
  BY DEF NothingOfTheClosed, Users!NothingOfTheClosed, Users!Exists, Users!At, UsersProofs!NothingOfTheClosed,
      UsersProofs!Exists, UsersProofs!At
<1> QED
  BY <1>1, UsersRun, UsersProofs!ClosedLeavesNothing, PTL

(* When requests do not overlap, an account goes only when a close gives   *)
(* its password, and a log-on is answered by the account's row; a close is *)
(* refused by that row whatever other requests do meanwhile.               *)
THEOREM OwnPasswordDecides == ServicesSpec => JudgedByAccount
<1>1. UsersProofs!Replies = Users!Replies
  BY DEF UsersProofs!Replies, Users!Replies
<1>2. UsersProofs!Spec => UsersProofs!JudgedByAccount
  BY <1>1, NoneIsApart, UsersProofs!UsersJudgedByAccount
<1>3. UsersProofs!JudgedByAccount => JudgedByAccount
  BY PTL DEF JudgedByAccount, Users!JudgedByAccount, Users!vars, Users!database, Users!memory, Users!At, Users!Right,
      Users!Wrong, Users!Answers, Users!Exists, Users!LastRow, Users!UserID, Users!Given, Users!Req,
      UsersProofs!JudgedByAccount, UsersProofs!vars, UsersProofs!database, UsersProofs!memory,
      UsersProofs!At, UsersProofs!Right, UsersProofs!Wrong, UsersProofs!Answers,
      UsersProofs!Exists, UsersProofs!LastRow, UsersProofs!UserID, UsersProofs!Given, UsersProofs!Req
<1> QED
  BY <1>2, <1>3, UsersRun, PTL

(* An account opened where one with a data set was closed never gets a     *)
(* table (create_table without "if not exists").                           *)
THEOREM OldTableStays == ServicesSpec => DataSetNotInherited
<1>1. UsersProofs!Replies = Users!Replies
  BY DEF UsersProofs!Replies, Users!Replies
<1>2. UsersProofs!Spec => UsersProofs!DataSetNotInherited
  BY <1>1, NoneIsApart, UsersProofs!SpentStaysSpent
<1>3. UsersProofs!DataSetNotInherited => DataSetNotInherited
  BY PTL DEF DataSetNotInherited, Users!DataSetNotInherited, Users!vars, Users!database, Users!memory, Users!At,
      Users!Spent, Users!HasDataSet, Users!Updating, Users!UserID,
      UsersProofs!DataSetNotInherited, UsersProofs!vars, UsersProofs!database,
      UsersProofs!memory, UsersProofs!At, UsersProofs!Spent, UsersProofs!HasDataSet,
      UsersProofs!Updating, UsersProofs!UserID
<1> QED
  BY <1>2, <1>3, UsersRun, PTL

-----------------------------------------------------------------------------
(* The transfers *)

FilesProofs == INSTANCE FtpProofs WITH MaxSize <- MaxFile, phase <- step

\* The transfers here are those of the module of their proofs.
LEMMA FilesSame ==
  /\ Files!Init <=> FilesProofs!Init
  /\ Files!Next <=> FilesProofs!Next
<1>1. Files!Init <=> FilesProofs!Init
  BY DEF Files!Init, Files!Idle, Files!Doing, FilesProofs!Init, FilesProofs!Idle,
      FilesProofs!Doing
<1>2. Files!CloseUnheld <=> FilesProofs!CloseUnheld
  BY DEF Files!CloseUnheld, Files!Held, FilesProofs!CloseUnheld, FilesProofs!Held
<1>3. ASSUME NEW s PROVE Files!ClientStep(s) <=> FilesProofs!ClientStep(s)
  BY DEF Files!ClientStep, Files!Say, Files!Goto, Files!SeeReply, Files!Connect, Files!SendBytes,
      Files!SayAllo, Files!ReceiveBytes, Files!client, Files!wires, Files!dc2s, Files!ds2c,
      Files!event, Files!acceptor, Files!reader, FilesProofs!ClientStep, FilesProofs!Say,
      FilesProofs!Goto, FilesProofs!SeeReply, FilesProofs!Connect, FilesProofs!SendBytes,
      FilesProofs!SayAllo, FilesProofs!ReceiveBytes, FilesProofs!client, FilesProofs!wires,
      FilesProofs!dc2s, FilesProofs!ds2c, FilesProofs!event, FilesProofs!acceptor, FilesProofs!reader
<1>4. ASSUME NEW s PROVE (Files!Ask(s) \/ Files!Abort(s)) <=> (FilesProofs!Ask(s) \/ FilesProofs!Abort(s))
  BY DEF Files!Only, Files!Say, Files!Goto, Files!Ask, Files!Abort, Files!client, Files!wires,
      Files!dc2s, Files!ds2c, Files!event, Files!acceptor, Files!reader, FilesProofs!Only,
      FilesProofs!Say, FilesProofs!Goto, FilesProofs!Ask, FilesProofs!Abort, FilesProofs!client,
      FilesProofs!wires, FilesProofs!dc2s, FilesProofs!ds2c, FilesProofs!event, FilesProofs!acceptor,
      FilesProofs!reader
<1>5. ASSUME NEW s PROVE Files!HandleStor(s) <=> FilesProofs!HandleStor(s)
  BY DEF Files!HandleStor, Files!NextMessage, Files!Reply, Files!Parse, Files!Idle, Files!Doing,
      Files!MayFail, Files!client, Files!wires, Files!dc2s, Files!ds2c, Files!event, Files!acceptor,
      Files!reader, FilesProofs!HandleStor, FilesProofs!NextMessage, FilesProofs!Reply,
      FilesProofs!Parse, FilesProofs!Idle, FilesProofs!Doing, FilesProofs!MayFail, FilesProofs!client,
      FilesProofs!wires, FilesProofs!dc2s, FilesProofs!ds2c, FilesProofs!event, FilesProofs!acceptor,
      FilesProofs!reader
<1>6. ASSUME NEW s PROVE Files!SetFd(s) <=> FilesProofs!SetFd(s)
  BY <1>2 DEF Files!SetFd, Files!Parse, Files!Idle, Files!Doing, Files!client, Files!wires, Files!dc2s,
      Files!ds2c, Files!event, Files!acceptor, Files!reader, FilesProofs!SetFd, FilesProofs!Parse,
      FilesProofs!Idle, FilesProofs!Doing, FilesProofs!client, FilesProofs!wires, FilesProofs!dc2s,
      FilesProofs!ds2c, FilesProofs!event, FilesProofs!acceptor, FilesProofs!reader
<1>7. ASSUME NEW s PROVE Files!HandleRetr(s) <=> FilesProofs!HandleRetr(s)
  BY DEF Files!HandleRetr, Files!NextMessage, Files!Reply, Files!Idle, Files!Doing, Files!Told,
      Files!client, Files!wires, Files!dc2s, Files!ds2c, Files!event, Files!acceptor, Files!reader,
      FilesProofs!HandleRetr, FilesProofs!NextMessage, FilesProofs!Reply, FilesProofs!Idle,
      FilesProofs!Doing, FilesProofs!Told, FilesProofs!client, FilesProofs!wires, FilesProofs!dc2s,
      FilesProofs!ds2c, FilesProofs!event, FilesProofs!acceptor, FilesProofs!reader
<1>8. ASSUME NEW s PROVE Files!HandleAllo(s) <=> FilesProofs!HandleAllo(s)
  BY DEF Files!HandleAllo, Files!NextMessage, Files!Parse, Files!Idle, Files!Doing, Files!client,
      Files!wires, Files!dc2s, Files!ds2c, Files!event, Files!acceptor, Files!reader,
      FilesProofs!HandleAllo, FilesProofs!NextMessage, FilesProofs!Parse, FilesProofs!Idle,
      FilesProofs!Doing, FilesProofs!client, FilesProofs!wires, FilesProofs!dc2s, FilesProofs!ds2c,
      FilesProofs!event, FilesProofs!acceptor, FilesProofs!reader
<1>9. ASSUME NEW s PROVE Files!SendChunk(s) <=> FilesProofs!SendChunk(s)
  BY DEF Files!SendChunk, Files!SeekTo, Files!Parse, Files!Doing, Files!client, Files!wires,
      Files!dc2s, Files!ds2c, Files!event, Files!acceptor, Files!reader, FilesProofs!SendChunk,
      FilesProofs!SeekTo, FilesProofs!Parse, FilesProofs!Doing, FilesProofs!client, FilesProofs!wires,
      FilesProofs!dc2s, FilesProofs!ds2c, FilesProofs!event, FilesProofs!acceptor, FilesProofs!reader
<1>10. ASSUME NEW s PROVE Files!SendDone(s) <=> FilesProofs!SendDone(s)
  BY <1>2 DEF Files!SendDone, Files!MayFail, Files!Parse, Files!Idle, Files!Doing, Files!client,
      Files!wires, Files!dc2s, Files!ds2c, Files!event, Files!acceptor, Files!reader,
      FilesProofs!SendDone, FilesProofs!MayFail, FilesProofs!Parse, FilesProofs!Idle,
      FilesProofs!Doing, FilesProofs!client, FilesProofs!wires, FilesProofs!dc2s, FilesProofs!ds2c,
      FilesProofs!event, FilesProofs!acceptor, FilesProofs!reader
<1>11. ASSUME NEW s PROVE Files!SendFails(s) <=> FilesProofs!SendFails(s)
  BY <1>2 DEF Files!SendFails, Files!Parse, Files!Idle, Files!Doing, Files!client, Files!wires,
      Files!dc2s, Files!ds2c, Files!event, Files!acceptor, Files!reader, FilesProofs!SendFails,
      FilesProofs!Parse, FilesProofs!Idle, FilesProofs!Doing, FilesProofs!client, FilesProofs!wires,
      FilesProofs!dc2s, FilesProofs!ds2c, FilesProofs!event, FilesProofs!acceptor, FilesProofs!reader
<1>12. ASSUME NEW s PROVE Files!HandleEnd(s) <=> FilesProofs!HandleEnd(s)
  BY DEF Files!HandleEnd, Files!NextMessage, Files!EventDel, Files!Parse, Files!Idle, Files!Doing,
      Files!client, Files!wires, Files!dc2s, Files!ds2c, Files!event, Files!acceptor, Files!reader,
      FilesProofs!HandleEnd, FilesProofs!NextMessage, FilesProofs!EventDel, FilesProofs!Parse,
      FilesProofs!Idle, FilesProofs!Doing, FilesProofs!client, FilesProofs!wires, FilesProofs!dc2s,
      FilesProofs!ds2c, FilesProofs!event, FilesProofs!acceptor, FilesProofs!reader
<1>13. ASSUME NEW s PROVE Files!Clear(s) <=> FilesProofs!Clear(s)
  BY <1>2 DEF Files!Clear, Files!ClearSlot, Files!Parse, Files!Idle, Files!Doing, Files!client,
      Files!wires, Files!dc2s, Files!ds2c, Files!event, Files!acceptor, Files!reader,
      FilesProofs!Clear, FilesProofs!ClearSlot, FilesProofs!Parse, FilesProofs!Idle,
      FilesProofs!Doing, FilesProofs!client, FilesProofs!wires, FilesProofs!dc2s, FilesProofs!ds2c,
      FilesProofs!event, FilesProofs!acceptor, FilesProofs!reader
<1>14. ASSUME NEW s PROVE Files!ControlStep(s) <=> FilesProofs!ControlStep(s)
  BY <1>5, <1>6, <1>7, <1>8, <1>9, <1>10, <1>11, <1>12, <1>13
  DEF Files!ControlStep, FilesProofs!ControlStep
<1>15. Files!AcceptStep <=> FilesProofs!AcceptStep
  BY <1>2 DEF Files!AcceptStep, Files!Accept, Files!SetSlot, Files!AddEvent, Files!client, Files!wires,
      Files!dc2s, Files!ds2c, Files!event, Files!acceptor, Files!reader, FilesProofs!AcceptStep,
      FilesProofs!Accept, FilesProofs!SetSlot, FilesProofs!AddEvent, FilesProofs!client,
      FilesProofs!wires, FilesProofs!dc2s, FilesProofs!ds2c, FilesProofs!event, FilesProofs!acceptor,
      FilesProofs!reader
<1>16. Files!RecvFile <=> FilesProofs!RecvFile
  BY DEF Files!RecvFile, Files!Reads, Files!Written, Files!MayFail, Files!Complete,
      Files!CountAfter, Files!Reply, Files!client, Files!wires, Files!dc2s, Files!ds2c, Files!event,
      Files!acceptor, Files!reader, FilesProofs!RecvFile, FilesProofs!Reads, FilesProofs!Written,
      FilesProofs!MayFail, FilesProofs!Complete, FilesProofs!CountAfter, FilesProofs!Reply,
      FilesProofs!client, FilesProofs!wires, FilesProofs!dc2s, FilesProofs!ds2c, FilesProofs!event,
      FilesProofs!acceptor, FilesProofs!reader
<1>17. Files!ReadStep <=> FilesProofs!ReadStep
  BY <1>2, <1>16 DEF Files!ReadStep, Files!ReadAll, Files!ReadEnd, Files!Reads, Files!DeleteAtEnd,
      Files!EventDel, Files!ClearAtEnd, Files!ClearSlot, Files!client, Files!wires, Files!dc2s,
      Files!ds2c, Files!event, Files!acceptor, Files!reader, FilesProofs!ReadStep,
      FilesProofs!ReadAll, FilesProofs!ReadEnd, FilesProofs!Reads, FilesProofs!DeleteAtEnd,
      FilesProofs!EventDel, FilesProofs!ClearAtEnd, FilesProofs!ClearSlot, FilesProofs!client,
      FilesProofs!wires, FilesProofs!dc2s, FilesProofs!ds2c, FilesProofs!event, FilesProofs!acceptor,
      FilesProofs!reader
<1>18. Files!Next <=> FilesProofs!Next
  BY <1>3, <1>4, <1>14, <1>15, <1>17 DEF Files!Next, FilesProofs!Next
<1> QED
  BY <1>1, <1>18

\* The other parts do nothing to them.
LEMMA FilesRun == ServicesSpec => FilesProofs!Spec
<1>1. ServicesInit => FilesProofs!Init
  BY FilesSame DEF ServicesInit
<1>2. [ServicesNext]_allVars => [FilesProofs!Next]_(FilesProofs!vars)
  <2> SUFFICES ASSUME [ServicesNext]_allVars PROVE [Files!Next]_(Files!vars)
    BY FilesSame DEF Files!vars, Files!client, Files!wires, Files!dc2s, Files!ds2c, Files!event, Files!acceptor,
        Files!reader, FilesProofs!vars, FilesProofs!client, FilesProofs!wires, FilesProofs!dc2s,
        FilesProofs!ds2c, FilesProofs!event, FilesProofs!acceptor, FilesProofs!reader
  <2>1. CASE FilesStep
    BY <2>1 DEF FilesStep, Go
  <2>2. CASE UNCHANGED filesVars
    BY <2>2 DEF filesVars, Files!vars, Files!client, Files!wires, Files!dc2s, Files!ds2c, Files!event, Files!acceptor,
        Files!reader
  <2> QED
    BY <2>1, <2>2 DEF ServicesNext, allVars, PlanStep, AccountsStep, BufferStep
<1> QED
  BY <1>1, <1>2, PTL DEF ServicesSpec, FilesProofs!Spec

LEMMA FilesSized == FilesProofs!Sized
BY Sizes, NoneIsApart DEF FilesProofs!Sized

(* An open data connection is in the slot filedata_event, or in the hands  *)
(* of filedata_acceptconnect or of a worker that sends on it, and epoll     *)
(* watches the slot's, but for the moments the property names               *)
(* (filedata_acceptconnect and free_client_resources).                      *)
THEOREM OpenLinkIsServed == ServicesSpec => []SlotIsServed
<1>1. FilesProofs!SlotIsServed <=> SlotIsServed
  BY DEF SlotIsServed, Files!SlotIsServed, Files!Held, FilesProofs!SlotIsServed, FilesProofs!Held
<1> QED
  BY <1>1, FilesRun, FilesSized, FilesProofs!SlotAndLinks, PTL

(* Of one client that gives nothing up, on a disk that does not fail, every *)
(* byte of a file whose size is an int gets into the file, and code 200     *)
(* comes with the last one (client_2_server_recvFile).                      *)
THEOREM UploadsAreExact == ServicesSpec => []CalmUploadsExact
<1>1. FilesProofs!CalmUploadsExact <=> CalmUploadsExact
  BY DEF CalmUploadsExact, Files!CalmUploadsExact, Files!SuccessMeansStored, Files!BytesHaveAFile,
      FilesProofs!CalmUploadsExact, FilesProofs!SuccessMeansStored, FilesProofs!BytesHaveAFile
<1> QED
  BY <1>1, FilesRun, FilesSized, FilesProofs!CalmUploads, PTL

(* ... and a download brings the bytes of the file, no more and no less,    *)
(* each turn reading behind what has been sent (server_2_client_sendFile).  *)
THEOREM DownloadsAreExact == ServicesSpec => []DownloadExact
<1>1. FilesProofs!DownloadExact <=> DownloadExact
  BY DEF DownloadExact, Files!DownloadExact, FilesProofs!DownloadExact
<1> QED
  BY <1>1, FilesRun, FilesSized, FilesProofs!CalmDownloads, PTL

-----------------------------------------------------------------------------
(* Sequences of bytes *)

\* d written over s behind its first p bytes.
Over(s, d, p) ==
  [j \in 1..IF p + Len(d) > Len(s) THEN p + Len(d) ELSE Len(s) |->
     IF p < j /\ j <= p + Len(d) THEN d[j - p] ELSE s[j]]

LEMMA OverIsConcat ==
  ASSUME NEW V, NEW s \in Seq(V), NEW d \in Seq(V), NEW p \in 0..Len(s)
  PROVE  Over(s, d, p) = SubSeq(s, 1, p) \o d \o SubSeq(s, p + Len(d) + 1, Len(s))
<1> PICK k \in Nat, l \in Nat : Len(d) = k /\ Len(s) = l /\ p \in Nat /\ p <= l
  OBVIOUS
<1> PICK n \in Nat : n = IF p + k > l THEN p + k ELSE l
  OBVIOUS
<1> PICK t : t = Over(s, d, p)
  OBVIOUS
<1>1. t = [j \in 1..n |-> IF p < j /\ j <= p + k THEN d[j - p] ELSE s[j]]
  BY DEF Over
<1>2. t \in Seq(V) /\ Len(t) = n /\ \A j \in 1..n : t[j] = IF p < j /\ j <= p + k THEN d[j - p] ELSE s[j]
  <2>1. ASSUME NEW j \in 1..n PROVE (IF p < j /\ j <= p + k THEN d[j - p] ELSE s[j]) \in V
    OBVIOUS
  <2>2. t \in [1..n -> V]
    BY <1>1, <2>1
  <2>3. \A j \in 1..n : t[j] = IF p < j /\ j <= p + k THEN d[j - p] ELSE s[j]
    BY <1>1
  <2> QED
    BY <2>2, <2>3
<1>3. PICK a : a = SubSeq(s, 1, p)
  OBVIOUS
<1>4. a \in Seq(V) /\ Len(a) = p /\ \A j \in 1..p : a[j] = s[j]
  BY <1>3
<1>5. PICK z : z = SubSeq(s, p + k + 1, l)
  OBVIOUS
<1>6. z \in Seq(V) /\ Len(z) = n - (p + k) /\ \A j \in 1..n - (p + k) : z[j] = s[p + k + j]
  <2>1. ASSUME NEW i \in p + k + 1..l PROVE s[i] \in V
    <3>1. i \in 1..Len(s)
      OBVIOUS
    <3> QED
      BY <3>1, ElementOfSeq
  <2>2. /\ z \in Seq(V)
        /\ Len(z) = IF p + k + 1 <= l THEN l - (p + k + 1) + 1 ELSE 0
        /\ \A j \in 1..l - (p + k + 1) + 1 : z[j] = s[p + k + 1 + j - 1]
    BY <2>1, <1>5, SubSeqProperties
  <2>3. Len(z) = n - (p + k)
    BY <2>2
  <2>4. ASSUME NEW j \in 1..n - (p + k) PROVE z[j] = s[p + k + j]
    <3>1. p + k + 1 + j - 1 = p + k + j /\ j \in 1..l - (p + k + 1) + 1
      OBVIOUS
    <3> QED
      BY <3>1, <2>2
  <2> QED
    BY <2>2, <2>3, <2>4
<1>7. PICK f : f = a \o d
  OBVIOUS
<1>8. /\ f \in Seq(V) /\ Len(f) = p + k
      /\ \A j \in 1..p + k : f[j] = IF j <= p THEN a[j] ELSE d[j - p]
  <2>1. /\ f \in Seq(V) /\ Len(f) = Len(a) + Len(d)
        /\ \A j \in 1..Len(a) + Len(d) : f[j] = IF j <= Len(a) THEN a[j] ELSE d[j - Len(a)]
    <3>1. a \in Seq(V) /\ d \in Seq(V)
      BY <1>4
    <3> QED
      BY ONLY <3>1, <1>7, ConcatProperties
  <2> QED
    BY <2>1, <1>4
<1>9. PICK g : g = f \o z
  OBVIOUS
<1>10. /\ g \in Seq(V) /\ Len(g) = n
      /\ \A j \in 1..n : g[j] = IF j <= p + k THEN f[j] ELSE z[j - (p + k)]
  <2>1. /\ g \in Seq(V) /\ Len(g) = Len(f) + Len(z)
        /\ \A j \in 1..Len(f) + Len(z) : g[j] = IF j <= Len(f) THEN f[j] ELSE z[j - Len(f)]
    <3>1. f \in Seq(V) /\ z \in Seq(V)
      BY <1>6, <1>8
    <3> QED
      BY ONLY <3>1, <1>9, ConcatProperties
  <2>2. Len(f) + Len(z) = n
    BY <1>6, <1>8
  <2> QED
    BY <2>1, <2>2, <1>8
<1>11. ASSUME NEW j \in 1..n PROVE t[j] = g[j]
  <2>1. CASE j <= p
    <3>1. j \in 1..p /\ j \in 1..p + k /\ j <= p + k
      BY <2>1
    <3>2. t[j] = s[j] /\ a[j] = s[j] /\ f[j] = a[j]
      BY <2>1, <3>1, <1>4, <1>8, <1>2
    <3>3. g[j] = f[j]
      BY <3>1, <1>10
    <3> QED
      BY <3>2, <3>3
  <2>2. CASE p < j /\ j <= p + k
    <3>1. t[j] = d[j - p]
      BY <2>2, <1>2
    <3>2. j \in 1..p + k /\ ~(j <= p)
      BY <2>2
    <3>3. f[j] = d[j - p]
      BY <3>2, <1>8
    <3> QED
      BY <3>1, <3>3, <2>2, <1>10
  <2>3. CASE j > p + k
    <3>1. j - (p + k) \in 1..n - (p + k) /\ j = p + k + (j - (p + k)) /\ ~(j <= p + k)
      BY <2>3
    <3>2. z[j - (p + k)] = s[j]
      BY <3>1, <1>6
    <3>3. t[j] = s[j] /\ g[j] = z[j - (p + k)]
      BY <3>1, <1>10, <1>2
    <3> QED
      BY <3>2, <3>3
  <2> QED
    BY <2>1, <2>2, <2>3
<1>12. t = g
  BY <1>10, <1>11, <1>2, SeqEqual
<1>13. t = SubSeq(s, 1, p) \o d \o SubSeq(s, p + k + 1, l)
  BY <1>3, <1>5, <1>7, <1>9, <1>12
<1> QED
  BY <1>13

-----------------------------------------------------------------------------
(* The buffer of the streams. *)

Node == [0..m_baseSize - 1 -> Byte \cup {Raw}]
BufferInv ==
  /\ nodes \in Seq(Node) /\ Len(nodes) >= 1 /\ m_cur \in 0..Len(nodes)
  /\ m_position \in Nat /\ m_size \in Nat /\ passed \in Seq(Byte \cup {Raw})
  /\ Buffer!PointerFits

\* The i-th byte of a chain.
ByteAt(chain, i) == chain[(i - 1) \div m_baseSize + 1][(i - 1) % m_baseSize]

LEMMA Division ==
  ASSUME NEW a \in Nat
  PROVE  /\ a \div m_baseSize \in Nat /\ (a % m_baseSize) \in 0..m_baseSize - 1
         /\ a = m_baseSize * (a \div m_baseSize) + (a % m_baseSize)
BY Sizes

\* Division is the only one that leaves so little.
LEMMA DivisionIsUnique ==
  ASSUME NEW q \in Nat, NEW r \in 0..m_baseSize - 1, NEW a \in Nat, a = m_baseSize * q + r
  PROVE  a \div m_baseSize = q /\ (a % m_baseSize) = r
BY Sizes

LEMMA DivisionIsLess ==
  ASSUME NEW a \in Nat, NEW l \in Nat
  PROVE  a \div m_baseSize < l <=> a < l * m_baseSize
<1>1. PICK q \in Nat, r \in 0..m_baseSize - 1 : a = m_baseSize * q + r /\ q = a \div m_baseSize
  BY Division
<1> QED
  BY <1>1, Sizes

\* Going on from an offset in a node is going on from the position.
LEMMA DivisionOfSum ==
  ASSUME NEW a \in Nat, NEW i \in Nat
  PROVE  /\ a \div m_baseSize + ((a % m_baseSize) + i) \div m_baseSize = (a + i) \div m_baseSize
         /\ ((a % m_baseSize) + i) % m_baseSize = (a + i) % m_baseSize
<1>1. PICK q \in Nat, r \in 0..m_baseSize - 1 :
        a = m_baseSize * q + r /\ q = a \div m_baseSize /\ r = (a % m_baseSize)
  BY Division
<1>2. r + i \in Nat
  BY Sizes
<1>3. PICK t \in Nat, u \in 0..m_baseSize - 1 :
        r + i = m_baseSize * t + u /\ t = (r + i) \div m_baseSize /\ u = ((r + i) % m_baseSize)
  BY <1>2, Division
<1>4. a + i = m_baseSize * (q + t) + u
  <2>1. m_baseSize * (q + t) = m_baseSize * q + m_baseSize * t
    BY Sizes
  <2> QED
    BY <2>1, <1>1, <1>3, Sizes
<1>5. q + t \in Nat /\ a + i \in Nat
  OBVIOUS
<1>6. (a + i) \div m_baseSize = q + t /\ ((a + i) % m_baseSize) = u
  BY <1>4, <1>5, DivisionIsUnique
<1> QED
  BY <1>1, <1>3, <1>6

\* A byte is in one place of the chain.
LEMMA PlaceIsUnique ==
  ASSUME NEW i \in Nat, NEW j \in Nat,
         i \div m_baseSize = j \div m_baseSize, i % m_baseSize = j % m_baseSize
  PROVE  i = j
BY Division

\* What addCapacity does: there is room, what was there stays, and m_cur is the
\* node of the position, which is in the chain now.
LEMMA Room ==
  ASSUME BufferInv, NEW n \in Nat
  PROVE  /\ Buffer!Added(n) \in Nat
         /\ Buffer!Grown(n) \in Seq(Node) /\ Len(Buffer!Grown(n)) = Len(nodes) + Buffer!Added(n)
         /\ \A k \in 1..Len(nodes) : Buffer!Grown(n)[k] = nodes[k]
         /\ m_position + n <= Len(Buffer!Grown(n)) * m_baseSize
         /\ n > 0 => Buffer!CurAfter(m_cur, n) = m_position \div m_baseSize + 1
<1>1. /\ nodes \in Seq(Node) /\ Len(nodes) \in Nat /\ m_position \in Nat /\ m_size \in Nat
      /\ m_position <= m_size /\ m_size <= Len(nodes) * m_baseSize
      /\ Buffer!m_capacity = Len(nodes) * m_baseSize
      /\ m_cur = IF m_position \div m_baseSize < Len(nodes) THEN m_position \div m_baseSize + 1 ELSE 0
  BY DEF BufferInv, Buffer!PointerFits, Node, Buffer!m_capacity, Buffer!NodeOf, Buffer!NULL
<1>2. PICK c \in Nat : c = Len(nodes) * m_baseSize
  BY <1>1, Sizes
<1>3. Buffer!getCapacity = c - m_position /\ m_position <= c /\ m_baseSize \in Nat \ {0}
  BY <1>1, <1>2, Sizes DEF Buffer!getCapacity
<1>4. Buffer!Added(n) \in Nat /\ c + Buffer!Added(n) * m_baseSize >= m_position + n
      /\ (n > 0 /\ c = m_position => Buffer!Added(n) > 0)
  <2>1. CASE c - m_position >= n
    BY <2>1, <1>1, <1>2, <1>3 DEF Buffer!Added
  <2>2. CASE c - m_position < n
    <3> PICK p \in Nat : p = m_position
      BY <1>1
    <3>0. p <= c /\ c - p < n /\ m_baseSize \in Nat \ {0}
      BY <2>2, <1>3
    <3>1. PICK a \in Nat : a = n - (c - p) + m_baseSize - 1
      BY <3>0
    <3>2. Buffer!Added(n) = a \div m_baseSize
      BY <3>0, <3>1, <1>3 DEF Buffer!Added
    <3>3. PICK q \in Nat, r \in 0..m_baseSize - 1 : a = m_baseSize * q + r /\ q = a \div m_baseSize
      BY Division
    <3>4. PICK e \in Nat : e = m_baseSize * q
      BY <1>3
    <3>5. e >= n - (c - p)
      BY <3>0, <3>1, <3>3, <3>4
    <3>6. q * m_baseSize = e
      BY <3>0, <3>4
    <3>7. q # 0
      BY <3>0, <3>4, <3>5
    <3>8. c + e >= p + n
      BY <3>0, <3>5
    <3> QED
      BY <3>2, <3>3, <3>6, <3>7, <3>8
  <2> QED
    BY <2>1, <2>2, <1>1, <1>2, <1>3
<1>5. PICK fresh : fresh = [i \in 1..Buffer!Added(n) |-> Buffer!Fresh]
  OBVIOUS
<1>6. Buffer!Fresh \in Node
  BY DEF Buffer!Fresh, Node
<1>7. fresh \in Seq(Node) /\ Len(fresh) = Buffer!Added(n)
  BY <1>4, <1>5, <1>6
<1>8. Buffer!Grown(n) = nodes \o fresh
  BY <1>5 DEF Buffer!Grown
<1>9. /\ Buffer!Grown(n) \in Seq(Node) /\ Len(Buffer!Grown(n)) = Len(nodes) + Buffer!Added(n)
      /\ \A k \in 1..Len(nodes) : Buffer!Grown(n)[k] = nodes[k]
  <2>1. PICK g : g = nodes \o fresh
    OBVIOUS
  <2>2. /\ g \in Seq(Node) /\ Len(g) = Len(nodes) + Len(fresh)
        /\ \A k \in 1..Len(nodes) + Len(fresh) : g[k] = IF k <= Len(nodes) THEN nodes[k] ELSE fresh[k - Len(nodes)]
    BY <2>1, <1>1, <1>7, ConcatProperties
  <2>3. \A k \in 1..Len(nodes) : g[k] = nodes[k]
    BY <2>2, <1>1, <1>4, <1>7
  <2> QED
    BY <2>1, <2>2, <2>3, <1>7, <1>8
<1>10. (Len(nodes) + Buffer!Added(n)) * m_baseSize = c + Buffer!Added(n) * m_baseSize
  BY <1>1, <1>2, <1>3, <1>4
<1>11. m_position + n <= Len(Buffer!Grown(n)) * m_baseSize
  BY <1>4, <1>9, <1>10
<1>12. ASSUME n > 0 PROVE Buffer!CurAfter(m_cur, n) = m_position \div m_baseSize + 1
  <2>1. m_position \div m_baseSize < Len(nodes) <=> m_position < c
    BY <1>1, <1>2, DivisionIsLess
  <2>2. CASE m_position < c
    BY <2>1, <2>2, <1>1, <1>2, <1>3 DEF Buffer!CurAfter
  <2>3. CASE m_position = c
    <3>1. Buffer!CurAfter(m_cur, n) = Len(nodes) + 1
      BY <2>3, <1>2, <1>3, <1>4, <1>12 DEF Buffer!CurAfter
    <3>2. m_position = m_baseSize * Len(nodes) + 0 /\ 0 \in 0..m_baseSize - 1
      BY <2>3, <1>1, <1>2, <1>3
    <3>3. m_position \div m_baseSize = Len(nodes)
      BY <3>2, <1>1, DivisionIsUnique
    <3> QED
      BY <3>1, <3>3
  <2> QED
    BY <2>2, <2>3, <1>1, <1>2, <1>3
<1> QED
  BY <1>4, <1>9, <1>11, <1>12

\* The pointer behind n bytes is the one of the position behind them.
LEMMA PointerBehind ==
  ASSUME m_position \in Nat, NEW n \in Nat, NEW chain, Len(chain) \in Nat
  PROVE  Buffer!CurBehind(m_position \div m_baseSize + 1, n, chain) = Buffer!NodeOf(m_position + n, chain)
<1>1. PICK q \in Nat : q = m_position \div m_baseSize
  BY Division
<1>2. PICK t \in Nat : t = (m_position + n) \div m_baseSize
  <2>1. m_position + n \in Nat
    OBVIOUS
  <2> QED
    BY <2>1, Division
<1>3. PICK u \in Nat : u = ((m_position % m_baseSize) + n) \div m_baseSize
  <2>1. (m_position % m_baseSize) + n \in Nat
    BY Division, Sizes
  <2> QED
    BY <2>1, Division
<1>4. q + u = t
  BY <1>1, <1>2, <1>3, DivisionOfSum
<1>5. (m_position % m_baseSize) + (n + 1) - 1 = (m_position % m_baseSize) + n
  BY Division, Sizes
<1>6. Buffer!Walk(q + 1, n + 1)[1] = q + 1 + u
  BY <1>3, <1>5 DEF Buffer!Walk, Buffer!npos
<1>7. Buffer!CurBehind(q + 1, n, chain) = IF t + 1 > Len(chain) THEN Buffer!NULL ELSE t + 1
  BY <1>4, <1>6 DEF Buffer!CurBehind
<1>8. Buffer!NodeOf(m_position + n, chain) = IF t < Len(chain) THEN t + 1 ELSE Buffer!NULL
  BY <1>2 DEF Buffer!NodeOf
<1> QED
  BY <1>1, <1>2, <1>7, <1>8

\* Where the bytes of a call go, or come from: behind the position, one by one.
LEMMA WalkOn ==
  ASSUME m_position \in Nat, NEW i \in Nat \ {0}
  PROVE  Buffer!Walk(m_position \div m_baseSize + 1, i)
           = <<(m_position + i - 1) \div m_baseSize + 1, (m_position + i - 1) % m_baseSize>>
<1>1. PICK j \in Nat : j = i - 1
  OBVIOUS
<1>2. PICK q \in Nat, r \in 0..m_baseSize - 1 :
        q = m_position \div m_baseSize /\ r = (m_position % m_baseSize)
  BY Division
<1>3. PICK t \in Nat : t = (r + j) \div m_baseSize
  <2>1. r + j \in Nat
    BY Sizes
  <2> QED
    BY <2>1, Division
<1>4. q + t = (m_position + j) \div m_baseSize /\ ((r + j) % m_baseSize) = (m_position + j) % m_baseSize
  BY <1>1, <1>2, <1>3, DivisionOfSum
<1>5. r + i - 1 = r + j /\ m_position + i - 1 = m_position + j
  BY <1>1, Sizes
<1>6. Buffer!Walk(q + 1, i) = <<q + 1 + t, (r + j) % m_baseSize>>
  BY <1>2, <1>3, <1>5 DEF Buffer!Walk, Buffer!npos
<1>7. q + 1 + t = q + t + 1
  OBVIOUS
<1> QED
  BY <1>2, <1>4, <1>5, <1>6, <1>7

\* The place of a byte of the chain.
LEMMA PlaceInChain ==
  ASSUME NEW l \in Nat, NEW j \in 1..l * m_baseSize
  PROVE  /\ j - 1 \in Nat /\ (j - 1) \div m_baseSize + 1 \in 1..l
         /\ ((j - 1) % m_baseSize) \in 0..m_baseSize - 1
<1>1. PICK i \in Nat : i = j - 1
  OBVIOUS
<1>2. i < l * m_baseSize
  BY <1>1, Sizes
<1>3. i \div m_baseSize < l /\ i \div m_baseSize \in Nat /\ (i % m_baseSize) \in 0..m_baseSize - 1
  BY <1>2, Division, DivisionIsLess
<1> QED
  BY <1>1, <1>3

LEMMA StoredAt ==
  ASSUME m_position \in Nat, NEW chain \in Seq(Node), NEW data \in Seq(Byte),
         NEW s, s = Buffer!Stored(chain, m_position \div m_baseSize + 1, data)
  PROVE  /\ s \in Seq(Node) /\ Len(s) = Len(chain)
         /\ \A j \in 1..Len(chain) * m_baseSize :
              ByteAt(s, j) = IF m_position < j /\ j <= m_position + Len(data)
                             THEN data[j - m_position] ELSE ByteAt(chain, j)
<1> DEFINE cur == m_position \div m_baseSize + 1
           Here(i, k, o) == Buffer!Walk(cur, i) = <<k, o>>
<1>1. DOMAIN chain = 1..Len(chain) /\ Len(chain) \in Nat /\ DOMAIN data = 1..Len(data) /\ Len(data) \in Nat
  OBVIOUS
<1>2. s = [k \in 1..Len(chain) |-> [o \in 0..m_baseSize - 1 |->
            IF \E i \in 1..Len(data) : Here(i, k, o)
            THEN data[CHOOSE i \in 1..Len(data) : Here(i, k, o)] ELSE chain[k][o]]]
  BY <1>1 DEF Buffer!Stored
<1> HIDE DEF Here, cur
<1>3. ASSUME NEW k \in 1..Len(chain), NEW o \in 0..m_baseSize - 1
      PROVE  s[k][o] \in Byte \cup {Raw}
  <2>1. s[k][o] = IF \E i \in 1..Len(data) : Here(i, k, o)
                  THEN data[CHOOSE i \in 1..Len(data) : Here(i, k, o)] ELSE chain[k][o]
    BY <1>2
  <2>2. CASE \E i \in 1..Len(data) : Here(i, k, o)
    <3>1. PICK i \in 1..Len(data) : i = CHOOSE j \in 1..Len(data) : Here(j, k, o)
      BY <2>2
    <3>2. data[i] \in Byte
      OBVIOUS
    <3> QED
      BY <2>1, <2>2, <3>1, <3>2
  <2>3. CASE ~(\E i \in 1..Len(data) : Here(i, k, o))
    <3>1. chain[k] \in Node
      OBVIOUS
    <3>2. chain[k][o] \in Byte \cup {Raw}
      BY <3>1 DEF Node
    <3> QED
      BY <2>1, <2>3, <3>2
  <2> QED
    BY <2>2, <2>3
<1>4. s \in Seq(Node) /\ Len(s) = Len(chain)
  <2>1. s \in [1..Len(chain) -> Node]
    BY <1>2, <1>3 DEF Node
  <2> QED
    BY <2>1, <1>1
<1>5. ASSUME NEW j \in 1..Len(chain) * m_baseSize
      PROVE  ByteAt(s, j) = IF m_position < j /\ j <= m_position + Len(data)
                            THEN data[j - m_position] ELSE ByteAt(chain, j)
  <2>1. PICK k \in 1..Len(chain), o \in 0..m_baseSize - 1 :
          k = (j - 1) \div m_baseSize + 1 /\ o = ((j - 1) % m_baseSize)
    BY <1>1, PlaceInChain
  <2>2. ByteAt(s, j) = s[k][o] /\ ByteAt(chain, j) = chain[k][o]
    BY <2>1 DEF ByteAt
  <2>3. ASSUME NEW i \in 1..Len(data) PROVE Here(i, k, o) <=> i = j - m_position
    <3>1. PICK a \in Nat : a = m_position + i - 1
      OBVIOUS
    <3>2. PICK c \in Nat : c = j - 1
      OBVIOUS
    <3>3. i \in Nat \ {0}
      BY <1>1
    <3>4. Buffer!Walk(cur, i) = <<a \div m_baseSize + 1, a % m_baseSize>>
      BY <3>1, <3>3, WalkOn DEF cur
    <3>5. PICK x, y, z, u : /\ x = a \div m_baseSize /\ y = (a % m_baseSize)
                            /\ z = c \div m_baseSize /\ u = (c % m_baseSize)
      OBVIOUS
    <3>6. Here(i, k, o) <=> x = z /\ y = u
      <4>1. x \in Nat /\ z \in Nat
        BY <3>5, Division
      <4>2. Buffer!Walk(cur, i) = <<x + 1, y>> /\ k = z + 1 /\ o = u
        BY <2>1, <3>2, <3>4, <3>5
      <4>3. <<x + 1, y>> = <<k, o>> <=> x = z /\ y = u
        BY <4>1, <4>2
      <4> QED
        BY <4>2, <4>3 DEF Here
    <3>7. Here(i, k, o) <=> a = c
      BY <3>5, <3>6, PlaceIsUnique
    <3> QED
      BY <3>1, <3>2, <3>7, <1>1
  <2>4. s[k][o] = IF \E i \in 1..Len(data) : Here(i, k, o)
                  THEN data[CHOOSE i \in 1..Len(data) : Here(i, k, o)] ELSE chain[k][o]
    BY <1>2
  <2>5. CASE m_position < j /\ j <= m_position + Len(data)
    <3>1. j - m_position \in 1..Len(data)
      BY <2>5, <1>1
    <3>2. Here(j - m_position, k, o)
      BY <3>1, <2>3
    <3>3. (CHOOSE i \in 1..Len(data) : Here(i, k, o)) = j - m_position
      BY <3>1, <3>2, <2>3
    <3> QED
      BY <2>2, <2>4, <2>5, <3>1, <3>2, <3>3
  <2>6. CASE ~(m_position < j /\ j <= m_position + Len(data))
    <3>1. j - m_position \notin 1..Len(data)
      BY <2>6, <1>1
    <3>2. ~(\E i \in 1..Len(data) : Here(i, k, o))
      BY <3>1, <2>3
    <3> QED
      BY <2>2, <2>4, <2>6, <3>2
  <2> QED
    BY <2>5, <2>6
<1> QED
  BY <1>4, <1>5

\* What read, toString and the socket get.
LEMMA BytesAt ==
  ASSUME BufferInv, NEW n \in Nat, n > 0, m_position + n <= m_size
  PROVE  /\ Buffer!Bytes(n) = [i \in 1..n |-> ByteAt(nodes, m_position + i)]
         /\ \A i \in 1..n : ByteAt(nodes, m_position + i) \in Byte \cup {Raw}
<1>1. /\ nodes \in Seq(Node) /\ Len(nodes) \in Nat /\ m_position \in Nat /\ m_size \in Nat
      /\ m_size <= Len(nodes) * m_baseSize
      /\ m_cur = IF m_position \div m_baseSize < Len(nodes) THEN m_position \div m_baseSize + 1 ELSE 0
  BY DEF BufferInv, Buffer!PointerFits, Node, Buffer!m_capacity, Buffer!NodeOf, Buffer!NULL
<1>2. PICK c \in Nat : c = Len(nodes) * m_baseSize
  BY <1>1, Sizes
<1>3. m_position < c
  BY <1>1, <1>2
<1>4. m_cur = m_position \div m_baseSize + 1
  BY <1>1, <1>2, <1>3, DivisionIsLess
<1>5. ASSUME NEW i \in 1..n
      PROVE  /\ nodes[Buffer!Walk(m_cur, i)[1]][Buffer!Walk(m_cur, i)[2]] = ByteAt(nodes, m_position + i)
             /\ ByteAt(nodes, m_position + i) \in Byte \cup {Raw}
  <2>1. Buffer!Walk(m_cur, i) = <<(m_position + i - 1) \div m_baseSize + 1, (m_position + i - 1) % m_baseSize>>
    BY <1>1, <1>4, WalkOn
  <2>2. m_position + i \in 1..Len(nodes) * m_baseSize
    BY <1>1, <1>2
  <2>3. PICK k \in 1..Len(nodes), o \in 0..m_baseSize - 1 :
          k = (m_position + i - 1) \div m_baseSize + 1 /\ o = ((m_position + i - 1) % m_baseSize)
    BY <2>2, <1>1, PlaceInChain
  <2>4. nodes[k] \in Node
    BY <1>1
  <2>5. nodes[k][o] \in Byte \cup {Raw}
    BY <2>4 DEF Node
  <2>6. Buffer!Walk(m_cur, i)[1] = k /\ Buffer!Walk(m_cur, i)[2] = o
    BY <2>1, <2>3
  <2>7. ByteAt(nodes, m_position + i) = nodes[k][o]
    BY <1>1, <2>3 DEF ByteAt
  <2> QED
    BY <2>5, <2>6, <2>7
<1> QED
  BY <1>5 DEF Buffer!Bytes

Content == [i \in 1..m_size |-> ByteAt(nodes, i)]

\* The content of a chain, before or after a step.
LEMMA ContentOf ==
  ASSUME NEW chain \in Seq(Node), NEW n \in Nat, n <= Len(chain) * m_baseSize,
         NEW t, t = [i \in 1..n |-> ByteAt(chain, i)]
  PROVE  /\ t \in Seq(Byte \cup {Raw}) /\ Len(t) = n
         /\ \A i \in 1..n : t[i] = ByteAt(chain, i)
<1>1. ASSUME NEW i \in 1..n PROVE ByteAt(chain, i) \in Byte \cup {Raw}
  <2>1. PICK l \in Nat : l = Len(chain)
    OBVIOUS
  <2>2. i \in 1..l * m_baseSize
    <3>1. PICK c \in Nat : c = l * m_baseSize
      BY Sizes
    <3> QED
      BY <2>1, <3>1
  <2>3. PICK k \in 1..l, o \in 0..m_baseSize - 1 :
          k = (i - 1) \div m_baseSize + 1 /\ o = ((i - 1) % m_baseSize)
    BY <2>2, PlaceInChain
  <2>4. chain[k] \in Node
    BY <2>1
  <2>5. chain[k][o] \in Byte \cup {Raw}
    BY <2>4 DEF Node
  <2> QED
    BY <2>3, <2>5 DEF ByteAt
<1> QED
  BY <1>1

LEMMA StateFacts ==
  ASSUME BufferInv
  PROVE  /\ nodes \in Seq(Node) /\ Len(nodes) \in Nat /\ Len(nodes) >= 1
         /\ m_position \in Nat /\ m_size \in Nat /\ passed \in Seq(Byte \cup {Raw})
         /\ m_position <= m_size /\ m_size <= Len(nodes) * m_baseSize
         /\ m_cur = Buffer!NodeOf(m_position, nodes)
         /\ Content \in Seq(Byte \cup {Raw}) /\ Len(Content) = m_size
         /\ \A i \in 1..m_size : Content[i] = ByteAt(nodes, i)
<1>1. /\ nodes \in Seq(Node) /\ Len(nodes) \in Nat /\ Len(nodes) >= 1
      /\ m_position \in Nat /\ m_size \in Nat /\ passed \in Seq(Byte \cup {Raw})
      /\ m_position <= m_size /\ m_size <= Len(nodes) * m_baseSize
      /\ m_cur = Buffer!NodeOf(m_position, nodes)
  BY DEF BufferInv, Buffer!PointerFits, Node, Buffer!m_capacity
<1> QED
  BY <1>1, ContentOf DEF Content

\* What a step has to leave.
LEMMA InvAfter ==
  ASSUME nodes' \in Seq(Node), Len(nodes') \in Nat, Len(nodes') >= 1, m_position' \in Nat, m_size' \in Nat,
         m_position' <= m_size', m_size' <= Len(nodes') * m_baseSize,
         m_cur' = Buffer!NodeOf(m_position', nodes'), passed' \in Seq(Byte \cup {Raw})
  PROVE  BufferInv'
<1>1. m_position' \div m_baseSize \in Nat
  BY Division
<1>2. m_cur' \in 0..Len(nodes')
  BY <1>1 DEF Buffer!NodeOf, Buffer!NULL
<1> QED
  BY <1>2 DEF BufferInv, Buffer!PointerFits, Node, Buffer!m_capacity, Buffer!NodeOf, Buffer!NULL

\* What a call, or a socket, fills in.
LEMMA Filled ==
  ASSUME BufferInv, NEW data \in Seq(Byte), NEW n \in Nat \ {0}, Len(data) <= n,
         nodes' = Buffer!Stored(Buffer!Grown(n), Buffer!CurAfter(m_cur, n), data)
  PROVE  /\ nodes' \in Seq(Node) /\ Len(nodes') = Len(Buffer!Grown(n)) /\ Len(nodes') >= 1
         /\ Len(nodes') \in Nat
         /\ m_position + n <= Len(nodes') * m_baseSize
         /\ m_size <= Len(nodes') * m_baseSize
         /\ \A j \in 1..Len(nodes') * m_baseSize :
              /\ m_position < j /\ j <= m_position + Len(data) => ByteAt(nodes', j) = data[j - m_position]
              /\ ~(m_position < j /\ j <= m_position + Len(data)) /\ j <= m_size =>
                   ByteAt(nodes', j) = ByteAt(nodes, j)
<1>1. PICK chain : chain = Buffer!Grown(n)
  OBVIOUS
<1>2. /\ chain \in Seq(Node) /\ Len(chain) = Len(nodes) + Buffer!Added(n) /\ Buffer!Added(n) \in Nat
      /\ \A k \in 1..Len(nodes) : chain[k] = nodes[k]
      /\ m_position + n <= Len(chain) * m_baseSize
      /\ Buffer!CurAfter(m_cur, n) = m_position \div m_baseSize + 1
  <2>1. n \in Nat /\ n > 0
    OBVIOUS
  <2>2. /\ Buffer!Added(n) \in Nat
        /\ Buffer!Grown(n) \in Seq(Node) /\ Len(Buffer!Grown(n)) = Len(nodes) + Buffer!Added(n)
        /\ \A k \in 1..Len(nodes) : Buffer!Grown(n)[k] = nodes[k]
        /\ m_position + n <= Len(Buffer!Grown(n)) * m_baseSize
        /\ Buffer!CurAfter(m_cur, n) = m_position \div m_baseSize + 1
    BY ONLY <2>1, BufferInv, Room
  <2> QED
    BY <1>1, <2>2
<1>3. /\ Len(nodes) \in Nat /\ Len(nodes) >= 1 /\ m_position \in Nat /\ m_size \in Nat
      /\ m_size <= Len(nodes) * m_baseSize
  BY StateFacts
<1>4. /\ nodes' \in Seq(Node) /\ Len(nodes') = Len(chain)
      /\ \A j \in 1..Len(chain) * m_baseSize :
           ByteAt(nodes', j) = IF m_position < j /\ j <= m_position + Len(data)
                               THEN data[j - m_position] ELSE ByteAt(chain, j)
  BY <1>1, <1>2, <1>3, StoredAt
<1>5. PICK l \in Nat, a \in Nat : l = Len(nodes) /\ a = Buffer!Added(n)
  BY <1>2, <1>3
<1>6. PICK c \in Nat, e \in Nat : c = l * m_baseSize /\ e = a * m_baseSize
  BY Sizes
<1>7. Len(chain) * m_baseSize = c + e
  BY <1>2, <1>5, <1>6, Sizes
<1>8. m_size <= Len(chain) * m_baseSize
  BY <1>3, <1>5, <1>6, <1>7
<1>9. ASSUME NEW j \in 1..m_size PROVE ByteAt(chain, j) = ByteAt(nodes, j)
  <2>1. j \in 1..l * m_baseSize
    BY <1>3, <1>5, <1>6
  <2>2. (j - 1) \div m_baseSize + 1 \in 1..l
    BY <2>1, PlaceInChain
  <2> QED
    BY <2>2, <1>2, <1>5 DEF ByteAt
<1>10. ASSUME NEW j \in 1..Len(nodes') * m_baseSize
       PROVE  /\ m_position < j /\ j <= m_position + Len(data) => ByteAt(nodes', j) = data[j - m_position]
              /\ ~(m_position < j /\ j <= m_position + Len(data)) /\ j <= m_size =>
                   ByteAt(nodes', j) = ByteAt(nodes, j)
  <2>1. j \in 1..Len(chain) * m_baseSize
    BY <1>4
  <2>2. j <= m_size => j \in 1..m_size
    BY <1>3, <1>7, <2>1
  <2> QED
    BY <2>1, <2>2, <1>4, <1>9
<1> QED
  BY <1>1, <1>2, <1>3, <1>4, <1>8, <1>10

\* ... is put at the position.
LEMMA FilledIsPut ==
  ASSUME BufferInv, NEW data \in Seq(Byte), NEW n \in Nat \ {0}, Len(data) <= n,
         nodes' = Buffer!Stored(Buffer!Grown(n), Buffer!CurAfter(m_cur, n), data),
         m_position' = m_position + Len(data),
         m_size' = Buffer!Larger(m_size, m_position + Len(data)),
         m_cur' = Buffer!NodeOf(m_position + Len(data), Buffer!Grown(n)),
         passed' = data
  PROVE  BufferInv' /\ Buffer!Flat!Put
<1>1. /\ nodes' \in Seq(Node) /\ Len(nodes') = Len(Buffer!Grown(n)) /\ Len(nodes') >= 1 /\ Len(nodes') \in Nat
      /\ m_position + n <= Len(nodes') * m_baseSize
      /\ m_size <= Len(nodes') * m_baseSize
      /\ \A j \in 1..Len(nodes') * m_baseSize :
              /\ m_position < j /\ j <= m_position + Len(data) => ByteAt(nodes', j) = data[j - m_position]
              /\ ~(m_position < j /\ j <= m_position + Len(data)) /\ j <= m_size =>
                   ByteAt(nodes', j) = ByteAt(nodes, j)
  BY Filled
<1>2. PICK c \in Nat : c = Len(nodes') * m_baseSize
  BY <1>1, Sizes
<1>3. PICK p \in Nat, k \in Nat, l \in Nat : p = m_position /\ k = Len(data) /\ l = m_size
  BY StateFacts
<1>4. p <= l /\ k <= n /\ p + n <= c /\ l <= c
  BY <1>1, <1>2, <1>3, StateFacts
<1>5. PICK z \in Nat : z = IF p + k > l THEN p + k ELSE l
  OBVIOUS
<1>6. m_size' = z
  BY <1>3, <1>5 DEF Buffer!Larger
<1>7. m_position' \in Nat /\ m_size' \in Nat /\ m_position' <= m_size' /\ m_size' <= c
  BY <1>3, <1>4, <1>5, <1>6
<1>8. m_cur' = Buffer!NodeOf(m_position', nodes')
  BY <1>1 DEF Buffer!NodeOf
<1>9. passed' \in Seq(Byte \cup {Raw})
  OBVIOUS
<1>10. BufferInv'
  BY <1>1, <1>2, <1>7, <1>8, <1>9, InvAfter
<1>11. /\ Content' \in Seq(Byte \cup {Raw}) /\ Len(Content') = z
       /\ \A i \in 1..z : Content'[i] = ByteAt(nodes', i)
  <2>1. Content' = [i \in 1..z |-> ByteAt(nodes', i)]
    BY <1>6 DEF Content, ByteAt
  <2>2. z <= Len(nodes') * m_baseSize
    BY <1>2, <1>6, <1>7
  <2> QED
    BY <2>1, <2>2, <1>1, ContentOf
<1>12. ASSUME NEW j \in 1..z PROVE Content'[j] = IF p < j /\ j <= p + k THEN data[j - p] ELSE Content[j]
  <2>1. j \in 1..Len(nodes') * m_baseSize /\ Content'[j] = ByteAt(nodes', j)
    BY <1>2, <1>6, <1>7, <1>11
  <2>2. CASE p < j /\ j <= p + k
    BY <2>1, <2>2, <1>1, <1>3
  <2>3. CASE ~(p < j /\ j <= p + k)
    <3>1. j \in 1..l
      BY <2>3, <1>4, <1>5
    <3>2. ByteAt(nodes', j) = ByteAt(nodes, j)
      BY <2>1, <2>3, <3>1, <1>1, <1>3
    <3>3. Content[j] = ByteAt(nodes, j)
      BY <3>1, <1>3, StateFacts
    <3> QED
      BY <2>1, <2>3, <3>2, <3>3
  <2> QED
    BY <2>2, <2>3
<1>13. Content \in Seq(Byte \cup {Raw}) /\ Len(Content) = l /\ data \in Seq(Byte \cup {Raw})
  BY <1>3, StateFacts
<1>14. Content' = SubSeq(Content, 1, p) \o data \o SubSeq(Content, p + k + 1, l)
  <2>1. p \in 0..Len(Content)
    BY <1>4, <1>13
  <2>2. Over(Content, data, p) = SubSeq(Content, 1, p) \o data \o SubSeq(Content, p + Len(data) + 1, Len(Content))
    BY ONLY <2>1, <1>13, OverIsConcat
  <2>3. Over(Content, data, p) = [j \in 1..z |-> IF p < j /\ j <= p + k THEN data[j - p] ELSE Content[j]]
    BY <1>3, <1>5, <1>13 DEF Over
  <2>4. Content' = [j \in 1..z |-> Content'[j]]
    BY <1>11
  <2>5. Content' = Over(Content, data, p)
    BY <2>3, <2>4, <1>12
  <2> QED
    BY <2>2, <2>5, <1>3, <1>13
<1>15. Buffer!Flat!Put
  BY <1>3, <1>13, <1>14 DEF Buffer!Flat!Put, Content, ByteAt
<1> QED
  BY <1>10, <1>15

LEMMA DataIsSeq == ASSUME NEW data \in Buffer!Data PROVE data \in Seq(Byte) /\ Len(data) \in Nat \ {0}
<1>1. PICK n \in 1..MaxBytes : data \in [1..n -> Byte]
  BY DEF Buffer!Data
<1>2. n \in Nat \ {0}
  BY <1>1, Sizes
<1> QED
  BY <1>1, <1>2

LEMMA NodeOfStart == Buffer!NodeOf(0, nodes) = IF 0 < Len(nodes) THEN 1 ELSE 0
<1>1. 0 = m_baseSize * 0 + 0 /\ 0 \in 0..m_baseSize - 1 /\ 0 \in Nat
  BY Sizes
<1>2. 0 \div m_baseSize = 0
  BY <1>1, DivisionIsUnique
<1> QED
  BY <1>2 DEF Buffer!NodeOf, Buffer!NULL

LEMMA BufferStarts == ASSUME Buffer!Init PROVE BufferInv /\ Buffer!Flat!Init
<1>1. Buffer!Fresh \in Node
  BY DEF Buffer!Fresh, Node
<1>2. nodes \in Seq(Node) /\ Len(nodes) = 1 /\ passed \in Seq(Byte \cup {Raw}) /\ m_position = 0 /\ m_size = 0
  BY <1>1 DEF Buffer!Init
<1>3. m_cur = Buffer!NodeOf(m_position, nodes)
  BY <1>2, NodeOfStart DEF Buffer!Init
<1>4. m_size <= Len(nodes) * m_baseSize
  BY <1>2, Sizes
<1>5. BufferInv
  BY <1>2, <1>3, <1>4 DEF BufferInv, Buffer!PointerFits, Node, Buffer!m_capacity, Buffer!Init
<1>6. Buffer!Flat!Init
  BY <1>2 DEF Buffer!Flat!Init, Buffer!Init
<1> QED
  BY <1>5, <1>6

\* Moving in a chain that stays.
LEMMA MovedIn ==
  ASSUME BufferInv, NEW v \in Nat, v <= Len(nodes) * m_baseSize, nodes' = nodes,
         m_position' = v, m_size' = Buffer!Larger(m_size, v), m_cur' = Buffer!NodeOf(v, nodes),
         passed' \in Seq(Byte \cup {Raw})
  PROVE  BufferInv'
<1>1. /\ nodes \in Seq(Node) /\ Len(nodes) \in Nat /\ Len(nodes) >= 1 /\ m_size \in Nat
      /\ m_size <= Len(nodes) * m_baseSize
  BY StateFacts
<1>2. PICK c \in Nat : c = Len(nodes) * m_baseSize
  BY <1>1, Sizes
<1>3. m_position' <= m_size' /\ m_size' <= c /\ m_size' \in Nat /\ m_position' \in Nat
  BY <1>1, <1>2 DEF Buffer!Larger
<1> QED
  BY <1>1, <1>2, <1>3, InvAfter

\* What is returned is what the content has at the position.
LEMMA BytesAreContent ==
  ASSUME BufferInv, NEW n \in Nat, n > 0, m_position + n <= m_size
  PROVE  /\ Buffer!Bytes(n) = SubSeq(Content, m_position + 1, m_position + n)
         /\ Buffer!Bytes(n) \in Seq(Byte \cup {Raw}) /\ Len(Buffer!Bytes(n)) = n
<1> PICK V : V = Byte \cup {Raw}
  OBVIOUS
<1>1. PICK p \in Nat, l \in Nat, s \in Seq(V) :
        /\ p = m_position /\ l = m_size /\ s = Content /\ V = Byte \cup {Raw}
        /\ Len(s) = l /\ \A i \in 1..l : s[i] = ByteAt(nodes, i)
  BY StateFacts
<1>2. PICK b : b = Buffer!Bytes(n)
  OBVIOUS
<1>3. b = [i \in 1..n |-> ByteAt(nodes, m_position + i)] /\ \A i \in 1..n : ByteAt(nodes, m_position + i) \in V
  BY <1>1, <1>2, BytesAt
<1>4. \A i \in 1..n : p + i \in 1..l /\ b[i] = s[p + i] /\ s[p + i] \in V
  BY <1>1, <1>3
<1>5. b \in [1..n -> V]
  BY <1>1, <1>3, <1>4
<1>6. b \in Seq(V) /\ Len(b) = n
  BY <1>5
<1>7. PICK t : t = SubSeq(s, p + 1, p + n)
  OBVIOUS
<1>8. t \in Seq(V) /\ Len(t) = n /\ \A i \in 1..n : t[i] = s[p + i]
  <2>1. ASSUME NEW i \in p + 1..p + n PROVE s[i] \in V
    <3>1. i \in 1..Len(s)
      BY <1>1
    <3> QED
      BY <3>1, <1>1, ElementOfSeq
  <2>2. p + 1 \in Int /\ p + n \in Int
    OBVIOUS
  <2>3. /\ t \in Seq(V)
        /\ Len(t) = IF p + 1 <= p + n THEN p + n - (p + 1) + 1 ELSE 0
        /\ \A i \in 1..p + n - (p + 1) + 1 : t[i] = s[p + 1 + i - 1]
    <3>1. PICK i \in Int, j \in Int : i = p + 1 /\ j = p + n
      OBVIOUS
    <3>2. \A e \in i..j : s[e] \in V
      BY <2>1, <3>1
    <3>3. /\ SubSeq(s, i, j) \in Seq(V)
          /\ Len(SubSeq(s, i, j)) = IF i <= j THEN j - i + 1 ELSE 0
          /\ \A e \in 1..j - i + 1 : SubSeq(s, i, j)[e] = s[i + e - 1]
      BY ONLY <3>2, SubSeqProperties
    <3> QED
      BY <3>1, <3>3, <1>7
  <2>4. p + n - (p + 1) + 1 = n
    OBVIOUS
  <2>5. ASSUME NEW i \in 1..n PROVE t[i] = s[p + i]
    <3>1. p + 1 + i - 1 = p + i
      OBVIOUS
    <3> QED
      BY <3>1, <2>3, <2>4
  <2> QED
    BY <2>3, <2>4, <2>5
<1>9. b = t
  BY <1>4, <1>6, <1>8, SeqEqual
<1> QED
  BY <1>1, <1>2, <1>6, <1>7, <1>9

BufferMoves == BufferInv' /\ [Buffer!Flat!Next]_(Buffer!Flat!vars)

LEMMA WriteMoves == ASSUME BufferInv, NEW data \in Buffer!Data, Buffer!write(data) PROVE BufferMoves
<1>1. data \in Seq(Byte) /\ Len(data) \in Nat \ {0} /\ Len(data) <= Len(data)
  BY DataIsSeq
<1>2. PICK n \in Nat \ {0} : n = Len(data)
  BY <1>1
<1>3. n \in Nat /\ n > 0
  BY <1>2
<1>4. /\ nodes' = Buffer!Stored(Buffer!Grown(n), Buffer!CurAfter(m_cur, n), data)
      /\ m_position' = m_position + Len(data)
      /\ m_size' = Buffer!Larger(m_size, m_position + Len(data)) /\ passed' = data
      /\ m_cur' = Buffer!CurBehind(Buffer!CurAfter(m_cur, n), n, Buffer!Grown(n))
  BY <1>2 DEF Buffer!write
<1>5. /\ Buffer!CurAfter(m_cur, n) = m_position \div m_baseSize + 1
      /\ Len(Buffer!Grown(n)) \in Nat
  BY <1>3, Room
<1>6. m_cur' = Buffer!NodeOf(m_position + Len(data), Buffer!Grown(n))
  BY <1>2, <1>3, <1>4, <1>5, StateFacts, PointerBehind
<1>7. BufferInv' /\ Buffer!Flat!Put
  BY <1>1, <1>2, <1>4, <1>6, FilledIsPut
<1> QED
  BY <1>7 DEF BufferMoves, Buffer!Flat!Next

LEMMA ReceiveMoves ==
  ASSUME BufferInv, NEW n \in 1..MaxBytes, NEW data \in Buffer!Data \cup {<< >>}, Buffer!Receive(n, data)
  PROVE  BufferMoves
<1>1. n \in Nat \ {0} /\ n > 0 /\ n \in Nat
  BY Sizes
<1>2. data \in Seq(Byte) /\ Len(data) \in Nat /\ (data # << >> => Len(data) # 0)
  <2>1. CASE data \in Buffer!Data
    BY <2>1, DataIsSeq
  <2>2. CASE data = << >>
    BY <2>2
  <2> QED
    BY <2>1, <2>2
<1>3. /\ Len(data) <= n
      /\ nodes' = Buffer!Stored(Buffer!Grown(n), Buffer!CurAfter(m_cur, n), data)
  BY DEF Buffer!Receive
<1>4. CASE data = << >>
  <2>1. m_cur' = Buffer!CurAfter(m_cur, n) /\ UNCHANGED <<m_position, m_size, passed>>
    BY <1>4 DEF Buffer!Receive
  <2>2. /\ nodes' \in Seq(Node) /\ Len(nodes') >= 1 /\ Len(nodes') \in Nat
        /\ m_position + n <= Len(nodes') * m_baseSize
        /\ m_size <= Len(nodes') * m_baseSize
        /\ \A j \in 1..Len(nodes') * m_baseSize :
             ~(m_position < j /\ j <= m_position + Len(data)) /\ j <= m_size =>
                   ByteAt(nodes', j) = ByteAt(nodes, j)
    BY <1>1, <1>2, <1>3, Filled
  <2>3. PICK c \in Nat, l \in Nat, p \in Nat :
          c = Len(nodes') * m_baseSize /\ l = m_size /\ p = m_position
    BY <2>2, Sizes, StateFacts
  <2>4. p + n <= c /\ l <= c /\ Len(data) = 0
    BY <2>2, <2>3, <1>4
  <2>5. m_cur' = Buffer!NodeOf(m_position', nodes')
    <3>1. m_cur' = p \div m_baseSize + 1
      BY <2>1, <2>3, <1>1, Room
    <3>2. p \div m_baseSize < Len(nodes')
      BY <2>2, <2>3, <2>4, <1>1, DivisionIsLess
    <3> QED
      BY <3>1, <3>2, <2>1, <2>3 DEF Buffer!NodeOf
  <2>6. BufferInv'
    BY <2>1, <2>2, <2>5, StateFacts, InvAfter
  <2>7. ASSUME NEW j \in 1..l PROVE ByteAt(nodes', j) = ByteAt(nodes, j)
    <3>1. j \in 1..Len(nodes') * m_baseSize /\ ~(p < j /\ j <= p + Len(data)) /\ j <= l
      BY <2>3, <2>4
    <3> QED
      BY <3>1, <2>2, <2>3
  <2>8. Content' = Content
    BY <2>1, <2>3, <2>7 DEF Content, ByteAt
  <2>9. UNCHANGED Buffer!Flat!vars
    BY <2>1, <2>8 DEF Buffer!Flat!vars, Content, ByteAt
  <2> QED
    BY <2>6, <2>9 DEF BufferMoves
<1>5. CASE data # << >>
  <2>1. /\ m_position' = m_position + Len(data) /\ passed' = data
        /\ m_size' = Buffer!Larger(m_size, m_position + Len(data))
        /\ m_cur' = Buffer!NodeOf(m_position + Len(data), Buffer!Grown(n))
    BY <1>5 DEF Buffer!Receive, Buffer!MoveTo
  <2>2. BufferInv' /\ Buffer!Flat!Put
    BY <2>1, <1>1, <1>2, <1>3, FilledIsPut
  <2> QED
    BY <2>2 DEF BufferMoves, Buffer!Flat!Next
<1> QED
  BY <1>4, <1>5

\* A read, and a write to the socket.
LEMMA TakenMoves ==
  ASSUME BufferInv, NEW n \in Nat, m_position + n <= m_size, nodes' = nodes, m_size' = m_size,
         m_position' = m_position + n, m_cur' = Buffer!NodeOf(m_position + n, nodes),
         passed' = IF n = 0 THEN << >> ELSE Buffer!Bytes(n)
  PROVE  BufferMoves
<1>1. PICK p \in Nat, l \in Nat, c \in Nat :
        /\ p = m_position /\ l = m_size /\ c = Len(nodes) * m_baseSize /\ p <= l /\ l <= c
        /\ p + n <= l
  BY StateFacts, Sizes
<1>2. p + n \in Nat /\ p + n <= c /\ m_size' = Buffer!Larger(m_size, p + n)
  BY <1>1 DEF Buffer!Larger
<1>3. passed' \in Seq(Byte \cup {Raw})
  <2>1. CASE n = 0
    BY <2>1
  <2>2. CASE n # 0
    BY <2>2, BytesAreContent
  <2> QED
    BY <2>1, <2>2
<1>4. BufferInv'
  BY <1>1, <1>2, <1>3, MovedIn
<1>5. passed' = SubSeq(Content, m_position + 1, m_position')
  <2>1. CASE n = 0
    <3>1. m_position' = p /\ p < p + 1
      BY <2>1, <1>1
    <3>2. SubSeq(Content, p + 1, p) = << >>
      BY <3>1, SubSeqEmpty
    <3> QED
      BY <3>1, <3>2, <2>1, <1>1
  <2>2. CASE n # 0
    BY <2>2, BytesAreContent
  <2> QED
    BY <2>1, <2>2
<1>6. m_position' \in m_position..Len(Content) /\ Content' = Content
  BY <1>1, StateFacts DEF Content, ByteAt
<1>7. Buffer!Flat!Get
  BY <1>5, <1>6 DEF Buffer!Flat!Get, Content, ByteAt
<1> QED
  BY <1>4, <1>7 DEF BufferMoves, Buffer!Flat!Next

LEMMA ReadMoves == ASSUME BufferInv, NEW n \in 0..MaxBytes, Buffer!read(n) PROVE BufferMoves
<1>1. PICK p \in Nat, l \in Nat : p = m_position /\ l = m_size
  BY StateFacts
<1>2. n \in Nat /\ m_position + n <= m_size /\ nodes' = nodes /\ m_size' = m_size /\ m_position' = m_position + n
      /\ m_cur # Buffer!NULL /\ m_cur' = Buffer!CurBehind(m_cur, n, nodes) /\ passed' = Buffer!Bytes(n)
  BY <1>1, Sizes DEF Buffer!read, Buffer!getReadSize
<1>3. m_cur = m_position \div m_baseSize + 1
  BY <1>2, StateFacts DEF Buffer!NodeOf
<1>4. m_cur' = Buffer!NodeOf(m_position + n, nodes)
  BY <1>2, <1>3, StateFacts, PointerBehind
<1>5. passed' = IF n = 0 THEN << >> ELSE Buffer!Bytes(n)
  BY <1>2 DEF Buffer!Bytes
<1> QED
  BY <1>2, <1>4, <1>5, TakenMoves

LEMMA CrashMoves == ASSUME BufferInv, NEW n \in 0..MaxBytes, Buffer!readBehindNull(n) PROVE BufferMoves
<1>1. UNCHANGED <<nodes, m_cur, m_position, m_size, passed>>
  BY DEF Buffer!readBehindNull
<1>2. BufferInv'
  BY <1>1, StateFacts, InvAfter
<1>3. UNCHANGED Buffer!Flat!vars
  BY <1>1 DEF Buffer!Flat!vars
<1> QED
  BY <1>2, <1>3 DEF BufferMoves

LEMMA SendMoves == ASSUME BufferInv, NEW n \in 0..MaxBytes, Buffer!Send(n) PROVE BufferMoves
<1>1. PICK p \in Nat, l \in Nat : p = m_position /\ l = m_size
  BY StateFacts
<1>2. n \in Nat /\ n # 0 /\ p + n <= l
  BY <1>1 DEF Buffer!Send, Buffer!getReadSize
<1>3. /\ nodes' = nodes /\ m_position' = m_position + n /\ passed' = Buffer!Bytes(n)
      /\ m_cur' = Buffer!NodeOf(m_position + n, nodes)
      /\ m_size' = Buffer!Larger(m_size, m_position + n)
  BY DEF Buffer!Send, Buffer!MoveTo
<1>4. m_size' = m_size
  BY <1>1, <1>2, <1>3 DEF Buffer!Larger
<1> QED
  BY <1>1, <1>2, <1>3, <1>4, TakenMoves

LEMMA ToStringMoves == ASSUME BufferInv, Buffer!toString PROVE BufferMoves
<1>1. PICK p \in Nat, l \in Nat : p = m_position /\ l = m_size
  BY StateFacts
<1>2. PICK n \in Nat : n = l - p /\ n > 0 /\ p + n = l
  BY <1>1 DEF Buffer!toString, Buffer!getReadSize
<1>3. UNCHANGED <<nodes, m_cur, m_position, m_size>> /\ passed' = Buffer!Bytes(n)
  BY <1>1, <1>2 DEF Buffer!toString, Buffer!getReadSize
<1>4. passed' = SubSeq(Content, p + 1, l) /\ passed' \in Seq(Byte \cup {Raw})
  BY <1>1, <1>2, <1>3, BytesAreContent
<1>5. BufferInv'
  BY <1>3, <1>4, StateFacts, InvAfter
<1>6. Content' = Content /\ Len(Content) = l
  BY <1>1, <1>3, StateFacts DEF Content, ByteAt
<1>7. Buffer!Flat!Peek
  BY <1>1, <1>3, <1>4, <1>6 DEF Buffer!Flat!Peek, Content, ByteAt
<1> QED
  BY <1>5, <1>7 DEF BufferMoves, Buffer!Flat!Next

LEMMA SetPositionMoves ==
  ASSUME BufferInv, NEW v \in 0..Buffer!m_capacity, Buffer!setPosition(v) PROVE BufferMoves
<1>1. PICK p \in Nat, l \in Nat, c \in Nat :
        p = m_position /\ l = m_size /\ c = Len(nodes) * m_baseSize /\ l <= c
  <2>1. PICK k \in Nat : k = Len(nodes)
    BY StateFacts
  <2>2. PICK c \in Nat : c = k * m_baseSize
    BY Sizes
  <2>3. m_position \in Nat /\ m_size \in Nat /\ m_size <= c
    BY <2>1, <2>2, StateFacts
  <2> QED
    BY <2>1, <2>2, <2>3
<1>2. v \in Nat /\ v <= c
  BY <1>1 DEF Buffer!m_capacity
<1>3. /\ UNCHANGED <<nodes, passed>> /\ m_position' = v
      /\ m_cur' = Buffer!NodeOf(v, nodes) /\ m_size' = Buffer!Larger(m_size, v)
  BY DEF Buffer!setPosition, Buffer!MoveTo
<1>4. BufferInv'
  BY <1>1, <1>2, <1>3, StateFacts, MovedIn
<1>5. PICK z \in Nat : z = IF v > l THEN v ELSE l
  BY <1>2
<1>6. m_size' = z /\ l <= z /\ z <= c
  BY <1>1, <1>2, <1>3, <1>5 DEF Buffer!Larger
<1>7. PICK s, t, V :
        /\ V = Byte \cup {Raw} /\ s = Content /\ t = Content'
        /\ s \in Seq(V) /\ Len(s) = l /\ \A i \in 1..l : s[i] = ByteAt(nodes, i)
  BY <1>1, StateFacts
<1>8. t \in Seq(V) /\ Len(t) = z /\ \A i \in 1..z : t[i] = ByteAt(nodes, i)
  <2>1. t = [i \in 1..z |-> ByteAt(nodes, i)]
    BY <1>3, <1>6, <1>7 DEF Content, ByteAt
  <2>2. z <= Len(nodes) * m_baseSize /\ nodes \in Seq(Node)
    BY <1>1, <1>6, StateFacts
  <2> QED
    BY <2>1, <2>2, <1>7, ContentOf
<1>9. SubSeq(t, 1, l) = s
  <2>1. PICK u : u = SubSeq(t, 1, l)
    OBVIOUS
  <2>2. u \in Seq(V) /\ Len(u) = l /\ \A i \in 1..l : u[i] = t[i]
    BY <2>1, <1>6, <1>8
  <2>3. \A i \in 1..l : u[i] = s[i]
    BY <2>2, <1>6, <1>7, <1>8
  <2>4. u = s
    BY <2>2, <2>3, <1>7, SeqEqual
  <2> QED
    BY <2>1, <2>4
<1>10. Buffer!Flat!Seek
  <2>1. Len(Content') = IF m_position' > Len(Content) THEN m_position' ELSE Len(Content)
    BY <1>3, <1>5, <1>7, <1>8
  <2>2. SubSeq(Content', 1, Len(Content)) = Content
    BY <1>7, <1>9
  <2>3. m_position' \in Nat /\ passed' = passed
    BY <1>2, <1>3
  <2> QED
    BY <2>1, <2>2, <2>3 DEF Buffer!Flat!Seek, Content, ByteAt
<1> QED
  BY <1>4, <1>10 DEF BufferMoves, Buffer!Flat!Next

LEMMA ClearMoves == ASSUME BufferInv, Buffer!clear PROVE BufferMoves
<1>1. m_position' = 0 /\ m_size' = 0 /\ m_cur' = 1 /\ nodes' = <<nodes[1]>> /\ passed' = passed
  BY DEF Buffer!clear
<1>2. nodes[1] \in Node
  BY StateFacts
<1>3. nodes' \in Seq(Node) /\ Len(nodes') = 1
  BY <1>1, <1>2
<1>4. Buffer!NodeOf(0, nodes') = 1
  <2>1. 0 = m_baseSize * 0 + 0 /\ 0 \in 0..m_baseSize - 1 /\ 0 \in Nat
    BY Sizes
  <2>2. 0 \div m_baseSize = 0
    BY <2>1, DivisionIsUnique
  <2> QED
    BY <2>2, <1>3 DEF Buffer!NodeOf
<1>5. 0 <= Len(nodes') * m_baseSize
  BY <1>3, Sizes
<1>6. BufferInv'
  BY <1>1, <1>3, <1>4, <1>5, StateFacts, InvAfter
<1>7. Buffer!Flat!Clear
  BY <1>1 DEF Buffer!Flat!Clear
<1> QED
  BY <1>6, <1>7 DEF BufferMoves, Buffer!Flat!Next

LEMMA BufferKeeps == ASSUME BufferInv, [Buffer!Next]_(Buffer!vars) PROVE BufferMoves
<1>1. CASE UNCHANGED Buffer!vars
  <2>1. UNCHANGED <<nodes, m_cur, m_position, m_size, passed>>
    BY <1>1 DEF Buffer!vars
  <2>2. BufferInv'
    BY <2>1, StateFacts, InvAfter
  <2>3. UNCHANGED Buffer!Flat!vars
    BY <2>1 DEF Buffer!Flat!vars
  <2> QED
    BY <2>2, <2>3 DEF BufferMoves
<1> QED
  BY <1>1, WriteMoves, ReceiveMoves, ReadMoves, CrashMoves, SendMoves, ToStringMoves, SetPositionMoves,
     ClearMoves
  DEF Buffer!Next

\* The other parts do nothing to the buffer.
LEMMA BufferGoesOn == ASSUME BufferInv, [ServicesNext]_allVars PROVE BufferMoves
<1>1. CASE BufferStep
  BY <1>1, BufferKeeps DEF BufferStep
<1>2. CASE UNCHANGED bufferVars
  BY <1>2, BufferKeeps DEF bufferVars, Buffer!vars
<1> QED
  BY <1>1, <1>2 DEF ServicesNext, allVars, PlanStep, FilesStep, Go, AccountsStep

LEMMA BufferRun == ServicesSpec => []BufferInv
<1>1. ServicesInit => BufferInv
  BY BufferStarts DEF ServicesInit
<1>2. BufferInv /\ [ServicesNext]_allVars => BufferInv'
  BY BufferGoesOn DEF BufferMoves
<1> QED
  BY <1>1, <1>2, PTL DEF ServicesSpec

(* ByteArray's m_cur is the node of the position, NULL just when no node   *)
(* has it, whatever the calls (bytearray.cpp: write, read, setPosition,    *)
(* addCapacity, getReadBuffers, getWriteBuffers).                          *)
THEOREM PointerAlwaysFits == ServicesSpec => []PointerFits
<1>1. BufferInv => PointerFits
  BY DEF BufferInv, PointerFits
<1> QED
  BY <1>1, BufferRun, PTL

(* The chain of nodes is a string of bytes with a position: what write     *)
(* puts there, read, toString and the socket get back, byte for byte, in   *)
(* any sequence of calls up to one that ends the process.                  *)
THEOREM ChainIsFlat == ServicesSpec => FlatSpec
<1>1. ServicesInit => Buffer!Flat!Init
  BY BufferStarts DEF ServicesInit
<1>2. BufferInv /\ [ServicesNext]_allVars => [Buffer!Flat!Next]_(Buffer!Flat!vars)
  BY BufferGoesOn DEF BufferMoves
<1> QED
  BY <1>1, <1>2, BufferRun, PTL DEF ServicesSpec, FlatSpec, Buffer!FlatSpec, Buffer!Flat!Spec

-----------------------------------------------------------------------------
(* Integers of varying length. *)

LEMMA Quotient ==
  ASSUME NEW b \in Nat \ {0}, NEW a \in Nat
  PROVE  a \div b \in Nat /\ (a % b) \in 0..b - 1 /\ a = b * (a \div b) + (a % b)
OBVIOUS

LEMMA QuotientIsUnique ==
  ASSUME NEW b \in Nat \ {0}, NEW q \in Nat, NEW r \in 0..b - 1, NEW a, a = b * q + r
  PROVE  a \div b = q /\ (a % b) = r
OBVIOUS

LEMMA SmallRest ==
  ASSUME NEW b \in Nat \ {0}, NEW a \in 0..b - 1
  PROVE  (a % b) = a
<1>1. b * 0 = 0 /\ a = 0 + a /\ 0 \in Nat /\ a \in Nat
  OBVIOUS
<1> QED
  BY <1>1, QuotientIsUnique

Top == Width + Group

LEMMA Powers ==
  /\ \A n \in 0..Top : Pow2[n] \in Nat \ {0}
  /\ Pow2[0] = 1 /\ \A n \in 1..Top : Pow2[n] = 2 * Pow2[n - 1]
<1>1. Top \in Nat
  BY Bits DEF Top
<1> DEFINE IsPow(f) == f = [n \in 0..Top |-> IF n = 0 THEN 1 ELSE 2 * f[n - 1]]
<1>2. PICK S, h : S = Nat \ {0} /\ h = [x \in S |-> 2 * x]
  OBVIOUS
<1>3. h \in [S -> S] /\ 1 \in S
  BY <1>2
<1>4. PICK f : Iterates(f, S, 1, h, Top)
  BY ONLY <1>1, <1>3, Recursion
<1>5. ASSUME NEW n \in 0..Top PROVE f[n] = IF n = 0 THEN 1 ELSE 2 * f[n - 1]
  <2>1. CASE n = 0
    BY <2>1, <1>4 DEF Iterates
  <2>2. CASE n # 0
    <3>1. n \in 1..Top /\ n - 1 \in 0..Top
      BY <2>2, <1>1
    <3>2. f[n - 1] \in S /\ f[n] = h[f[n - 1]]
      BY <3>1, <1>4 DEF Iterates
    <3> QED
      BY <3>2, <2>2, <1>2
  <2> QED
    BY <2>1, <2>2
<1>6. f = [n \in 0..Top |-> f[n]]
  BY <1>4 DEF Iterates
<1>7. IsPow(f)
  BY <1>5, <1>6
<1>8. Pow2 = CHOOSE g : IsPow(g)
  BY DEF Pow2, Top
<1> HIDE DEF IsPow
<1>9. PICK p : p = Pow2 /\ IsPow(p)
  BY <1>7, <1>8
<1>10. p = [n \in 0..Top |-> IF n = 0 THEN 1 ELSE 2 * p[n - 1]]
  BY <1>9 DEF IsPow
<1>11. p[0] = 1
  BY <1>1, <1>10
<1>12. ASSUME NEW n \in 1..Top PROVE p[n] = 2 * p[n - 1]
  <2>1. n \in 0..Top /\ n # 0
    BY <1>1
  <2> QED
    BY <2>1, <1>10
<1> DEFINE T == {n \in Nat : n <= Top => p[n] \in Nat \ {0}}
<1>13. 0 \in T
  BY <1>11
<1>14. ASSUME NEW n \in Nat, n \in T PROVE n + 1 \in T
  <2> SUFFICES ASSUME n + 1 <= Top PROVE p[n + 1] \in Nat \ {0}
    OBVIOUS
  <2>1. n + 1 \in 1..Top /\ n + 1 - 1 = n /\ n <= Top
    BY <1>1
  <2>2. p[n] \in Nat \ {0}
    BY <2>1, <1>14
  <2> QED
    BY <2>1, <2>2, <1>12
<1> HIDE DEF T
<1>15. Nat \subseteq T
  BY <1>13, <1>14, Induction
<1>16. \A n \in 0..Top : p[n] \in Nat \ {0}
  BY <1>15, <1>1 DEF T
<1> QED
  BY <1>9, <1>11, <1>12, <1>16

LEMMA PowersMultiply ==
  ASSUME NEW a \in Nat, NEW b \in Nat, a + b <= Top
  PROVE  Pow2[a + b] = Pow2[a] * Pow2[b]
<1>1. Top \in Nat
  BY Bits DEF Top
<1> DEFINE T == {n \in Nat : a + n <= Top => Pow2[a + n] = Pow2[a] * Pow2[n]}
<1>2. a \in 0..Top /\ Pow2[a] \in Nat
  BY <1>1, Powers
<1>3. 0 \in T
  BY <1>2, Powers
<1>4. ASSUME NEW n \in Nat, n \in T PROVE n + 1 \in T
  <2> SUFFICES ASSUME a + (n + 1) <= Top PROVE Pow2[a + (n + 1)] = Pow2[a] * Pow2[n + 1]
    OBVIOUS
  <2>1. a + (n + 1) \in 1..Top /\ a + (n + 1) - 1 = a + n /\ n + 1 \in 1..Top /\ n + 1 - 1 = n
        /\ a + n <= Top /\ n \in 0..Top
    BY <1>1
  <2>2. Pow2[a + (n + 1)] = 2 * Pow2[a + n] /\ Pow2[n + 1] = 2 * Pow2[n]
    BY <2>1, Powers
  <2>3. Pow2[a + n] = Pow2[a] * Pow2[n]
    BY <2>1, <1>4
  <2>4. PICK x, y : x = Pow2[a] /\ y = Pow2[n]
    OBVIOUS
  <2>5. x \in Nat /\ y \in Nat
    BY <2>1, <2>4, <1>2, Powers
  <2>6. 2 * (x * y) = x * (2 * y)
    BY <2>5
  <2> QED
    BY <2>2, <2>3, <2>4, <2>6
<1> HIDE DEF T
<1>5. b \in T
  BY <1>3, <1>4, Induction
<1> QED
  BY <1>5 DEF T

LEMMA PowersGrow ==
  ASSUME NEW a \in Nat, NEW b \in Nat, a <= b, b <= Top
  PROVE  Pow2[a] <= Pow2[b]
<1>1. Top \in Nat /\ b - a \in Nat /\ a + (b - a) = b
  BY Bits DEF Top
<1>2. a \in 0..Top /\ b - a \in 0..Top
  BY <1>1
<1>3. PICK x, y : x = Pow2[a] /\ y = Pow2[b - a]
  OBVIOUS
<1>4. x \in Nat \ {0} /\ y \in Nat \ {0}
  BY <1>2, <1>3, Powers
<1>5. Pow2[b] = x * y
  BY <1>1, <1>3, PowersMultiply
<1>6. x <= x * y
  BY <1>4
<1> QED
  BY <1>3, <1>5, <1>6

LEMMA GroupsCover ==
  /\ Groups \in Nat \ {0}
  /\ Group * Groups \in Nat /\ Width <= Group * Groups /\ Group * Groups <= Top
<1>1. PICK q, r : q = Groups /\ r = (Width + Group - 1) % Group
  OBVIOUS
<1>2. Width + Group - 1 \in Nat /\ Group \in Nat \ {0} /\ Width \in Nat \ {0}
  BY Bits
<1>3. q \in Nat /\ r \in 0..Group - 1 /\ Width + Group - 1 = Group * q + r
  BY <1>1, <1>2, Quotient DEF Groups
<1>4. q # 0
  <2> SUFFICES ASSUME q = 0 PROVE FALSE
    OBVIOUS
  <2>1. Group * q = 0
    BY <1>2
  <2> QED
    BY <2>1, <1>2, <1>3
<1>5. Group * q \in Nat
  BY <1>2, <1>3
<1> QED
  BY <1>1, <1>2, <1>3, <1>4, <1>5 DEF Top

\* What a bit of each group is worth.
LEMMA Places ==
  /\ Mark \in Nat \ {0} /\ Weight(1) = 1 /\ Pow2[Width] <= Weight(Groups + 1)
  /\ \A i \in 1..Groups + 1 : Weight(i) \in Nat \ {0}
  /\ \A i \in 1..Groups : Weight(i + 1) = Weight(i) * Mark
<1>1. /\ Top \in Nat /\ Group \in Nat \ {0} /\ Width \in Nat \ {0} /\ Group \in 0..Top
      /\ Groups \in Nat \ {0}
      /\ Group * Groups \in Nat /\ Width <= Group * Groups /\ Group * Groups <= Top
  BY Bits, GroupsCover DEF Top
<1>2. Mark \in Nat \ {0}
  BY <1>1, Powers DEF Mark
<1>3. Weight(1) = 1
  <2>1. Group * (1 - 1) = 0
    BY <1>1
  <2> QED
    BY <2>1, Powers DEF Weight
<1>4. Pow2[Width] <= Weight(Groups + 1)
  <2>1. Group * (Groups + 1 - 1) = Group * Groups
    BY <1>1
  <2> QED
    BY <2>1, <1>1, PowersGrow DEF Weight
<1>5. ASSUME NEW i \in 1..Groups + 1 PROVE Group * (i - 1) \in Nat /\ Group * (i - 1) <= Group * Groups
  <2>1. i - 1 \in Nat /\ i - 1 <= Groups
    BY <1>1
  <2> QED
    BY <2>1, <1>1
<1>6. ASSUME NEW i \in 1..Groups + 1 PROVE Weight(i) \in Nat \ {0}
  <2>1. Group * (i - 1) \in 0..Top
    BY <1>1, <1>5
  <2> QED
    BY <2>1, Powers DEF Weight
<1>7. ASSUME NEW i \in 1..Groups PROVE Weight(i + 1) = Weight(i) * Mark
  <2>1. i \in 1..Groups + 1 /\ i + 1 \in 1..Groups + 1 /\ i \in Nat
    BY <1>1
  <2>2. Group * (i + 1 - 1) = Group * (i - 1) + Group
    BY <2>1, <1>1
  <2>3. Group * (i - 1) \in Nat /\ Group * (i - 1) + Group <= Top
    BY <2>1, <2>2, <1>1, <1>5
  <2> QED
    BY <2>2, <2>3, <1>1, PowersMultiply DEF Weight, Mark
<1> QED
  BY <1>2, <1>3, <1>4, <1>6, <1>7

\* The lower groups of a number, with one group more.
LEMMA OneMoreGroup ==
  ASSUME NEW v \in Nat, NEW p \in Nat \ {0}, NEW k \in Nat \ {0}
  PROVE  /\ (v % (p * k)) = (v % p) + ((v \div p) % k) * p
         /\ v < p * k <=> v \div p < k
<1>1. PICK q, r : q = v \div p /\ r = (v % p)
  OBVIOUS
<1>2. q \in Nat /\ r \in 0..p - 1 /\ v = p * q + r
  BY <1>1, Quotient
<1>3. PICK t, d : t = q \div k /\ d = (q % k)
  OBVIOUS
<1>4. t \in Nat /\ d \in 0..k - 1 /\ q = k * t + d
  BY <1>2, <1>3, Quotient
<1>5. PICK b : b = p * k
  OBVIOUS
<1>6. b \in Nat \ {0}
  BY <1>5
<1>7. v = b * t + (p * d + r)
  <2>1. p * (k * t + d) = (p * k) * t + p * d
    BY <1>4
  <2>2. p * d \in Nat /\ b * t \in Nat
    BY <1>4, <1>6
  <2> QED
    BY <2>1, <2>2, <1>2, <1>4, <1>5
<1>8. p * d + r \in 0..b - 1
  <2>1. p * d \in Nat /\ p * (k - 1) \in Nat /\ p * d <= p * (k - 1) /\ p * (k - 1) = p * k - p
    BY <1>4
  <2>2. p * k \in Nat
    OBVIOUS
  <2> QED
    BY <2>1, <2>2, <1>2, <1>5
<1>9. (v % b) = p * d + r
  <2>1. PICK e : e = p * d + r
    OBVIOUS
  <2>2. e \in 0..b - 1 /\ v = b * t + e
    BY <2>1, <1>7, <1>8
  <2>3. (v % b) = e
    BY ONLY <2>2, <1>4, <1>6, QuotientIsUnique
  <2> QED
    BY <2>1, <2>3
<1>10. p * d = d * p
  BY <1>4
<1>11. v < p * k <=> q < k
  <2>1. ASSUME q < k PROVE v < p * k
    <3>1. p * q \in Nat /\ p * (k - 1) \in Nat /\ p * q <= p * (k - 1) /\ p * (k - 1) = p * k - p
      BY <1>2, <2>1
    <3> QED
      BY <3>1, <1>2
  <2>2. ASSUME k <= q PROVE ~(v < p * k)
    <3>1. p * k <= p * q /\ p * k \in Nat /\ p * q \in Nat
      BY <1>2, <2>2
    <3> QED
      BY <3>1, <1>2
  <2> QED
    BY <2>1, <2>2, <1>2
<1> QED
  BY <1>1, <1>2, <1>3, <1>5, <1>9, <1>10, <1>11

\* What writeUint makes of v: n groups, all but the last with a mark.
IsWritten(w, v, n) ==
  /\ w \in Seq(Nat) /\ Len(w) = n
  /\ \A i \in 1..n - 1 : w[i] = Mark + ((v \div Weight(i)) % Mark)
  /\ w[n] = v \div Weight(n) /\ w[n] < Mark

LEMMA WriteDoes ==
  ASSUME NEW v \in Unsigned
  PROVE  \E n \in 1..Groups : IsWritten(writeUint(v), v, n)
<1>1. /\ Groups \in Nat \ {0} /\ Mark \in Nat \ {0} /\ Width \in 0..Top
      /\ \A i \in 1..Groups + 1 : Weight(i) \in Nat \ {0}
  BY GroupsCover, Places, Bits DEF Top
<1>2. v \in Nat /\ v < Pow2[Width] /\ Pow2[Width] \in Nat \ {0}
  BY <1>1, Powers DEF Unsigned
<1> DEFINE rest == [i \in 1..Groups |-> v \div Weight(i)]
           Last(i) == IsLast(rest[i]) /\ \A j \in 1..i - 1 : ~IsLast(rest[j])
           n == CHOOSE i \in 1..Groups : Last(i)
           w == [i \in 1..n |-> IF i = n THEN rest[i] ELSE Mark + (rest[i] % Mark)]
<1>3. writeUint(v) = w
  BY DEF writeUint
<1>4. ASSUME NEW i \in 1..Groups PROVE rest[i] \in Nat /\ rest[i] = v \div Weight(i)
  <2>1. i \in 1..Groups + 1
    BY <1>1
  <2>2. Weight(i) \in Nat \ {0}
    BY <2>1, <1>1
  <2>3. v \div Weight(i) \in Nat
    BY <2>2, <1>2, Quotient
  <2> QED
    BY <2>3
<1> HIDE DEF rest
<1>5. rest[Groups] < Mark
  <2>1. Groups \in 1..Groups /\ Groups \in 1..Groups + 1 /\ Groups + 1 \in 1..Groups + 1
    BY <1>1
  <2>2. Weight(Groups + 1) = Weight(Groups) * Mark /\ Pow2[Width] <= Weight(Groups + 1)
    BY <2>1, Places
  <2>3. PICK p, z : p = Weight(Groups) /\ z = Weight(Groups + 1)
    OBVIOUS
  <2>4. p \in Nat \ {0} /\ z \in Nat \ {0}
    BY <2>1, <2>3, <1>1
  <2>5. v < p * Mark
    BY <2>2, <2>3, <2>4, <1>2
  <2>6. v \div p < Mark
    BY <2>4, <2>5, <1>1, <1>2, OneMoreGroup
  <2> QED
    BY <2>1, <2>3, <2>6, <1>4
<1>6. \E i \in 1..Groups : Last(i)
  <2>1. PICK T : T = {i \in 1..Groups : rest[i] < Mark}
    OBVIOUS
  <2>2. T \in SUBSET Nat /\ T # {}
    BY <2>1, <1>1, <1>5
  <2>3. PICK i \in T : \A k \in T : i <= k
    BY <2>2, LeastExists
  <2>4. i \in 1..Groups /\ rest[i] < Mark
    BY <2>1, <2>3
  <2>5. ASSUME NEW j \in 1..i - 1 PROVE ~(rest[j] < Mark)
    <3>1. j \in 1..Groups /\ ~(i <= j)
      BY <2>4, <1>1
    <3> QED
      BY <3>1, <2>1, <2>3
  <2> QED
    BY <2>4, <2>5 DEF IsLast
<1>7. n \in 1..Groups /\ Last(n)
  BY <1>6
<1> HIDE DEF n
<1>8. w = [i \in 1..n |-> IF i = n THEN rest[i] ELSE Mark + (rest[i] % Mark)]
  OBVIOUS
<1> HIDE DEF w
<1>9. n \in Nat \ {0} /\ n \in 1..n /\ \A i \in 1..n : i \in 1..Groups
  BY <1>1, <1>7
<1>10. ASSUME NEW i \in 1..n PROVE w[i] \in Nat
  <2>1. rest[i] \in Nat
    BY <1>4, <1>9
  <2>2. (rest[i] % Mark) \in Nat
    BY <2>1, <1>1, Quotient
  <2> QED
    BY <2>1, <2>2, <1>1, <1>8
<1>11. w \in Seq(Nat) /\ Len(w) = n
  <2>1. w \in [1..n -> Nat]
    BY <1>8, <1>10
  <2> QED
    BY <2>1, <1>9
<1>12. w[n] = v \div Weight(n) /\ w[n] < Mark
  BY <1>4, <1>7, <1>8, <1>9 DEF IsLast
<1>13. ASSUME NEW i \in 1..n - 1 PROVE w[i] = Mark + ((v \div Weight(i)) % Mark)
  <2>1. i \in 1..n /\ i # n
    BY <1>9
  <2> QED
    BY <2>1, <1>4, <1>8, <1>9
<1>14. IsWritten(w, v, n)
  BY <1>11, <1>12, <1>13 DEF IsWritten
<1> QED
  BY <1>3, <1>7, <1>14

\* A sequence that begins with what was written is read as it was written.
Begins(s, w, n) == \A i \in 1..n : s[i] = w[i]
Reads(s, i, x) == IF \E j \in 1..i - 1 : s[j] < Mark THEN x ELSE Wrap(x + (s[i] % Mark) * Weight(i))

LEMMA ReadDoes ==
  ASSUME NEW v \in Unsigned, NEW n \in 1..Groups, NEW w, IsWritten(w, v, n),
         NEW s, Begins(s, w, n)
  PROVE  readUint(s) = v /\ TakenBy(s) = n
<1>1. /\ Groups \in Nat \ {0} /\ Mark \in Nat \ {0} /\ Width \in 0..Top
      /\ \A i \in 1..Groups + 1 : Weight(i) \in Nat \ {0}
      /\ n \in Nat \ {0} /\ n \in 1..n
  BY GroupsCover, Places, Bits DEF Top
<1>2. v \in Nat /\ v < Pow2[Width] /\ Pow2[Width] \in Nat \ {0}
  BY <1>1, Powers DEF Unsigned
<1>3. ASSUME NEW i \in 1..n PROVE /\ Weight(i) \in Nat \ {0} /\ v \div Weight(i) \in Nat
                                  /\ Weight(i + 1) \in Nat \ {0} /\ Weight(i + 1) = Weight(i) * Mark
  <2>1. i \in 1..Groups /\ i \in 1..Groups + 1 /\ i + 1 \in 1..Groups + 1
    BY <1>1
  <2>2. Weight(i) \in Nat \ {0}
    BY <2>1, <1>1
  <2> QED
    BY <2>1, <2>2, <1>1, <1>2, Places, Quotient
<1>4. s[n] = v \div Weight(n) /\ s[n] < Mark
  BY <1>1 DEF IsWritten, Begins
<1>5. ASSUME NEW i \in 1..n - 1
      PROVE  s[i] = Mark + ((v \div Weight(i)) % Mark) /\ ((v \div Weight(i)) % Mark) \in 0..Mark - 1
  <2>1. i \in 1..n
    BY <1>1
  <2>2. v \div Weight(i) \in Nat
    BY <2>1, <1>3
  <2>3. ((v \div Weight(i)) % Mark) \in 0..Mark - 1
    BY <2>2, <1>1, Quotient
  <2>4. s[i] = Mark + ((v \div Weight(i)) % Mark)
    BY <2>1 DEF IsWritten, Begins
  <2> QED
    BY <2>3, <2>4
<1>6. ASSUME NEW i \in 1..n - 1 PROVE ~(s[i] < Mark) /\ (s[i] % Mark) = ((v \div Weight(i)) % Mark)
  <2>1. PICK d : d = ((v \div Weight(i)) % Mark)
    OBVIOUS
  <2>2. s[i] = Mark + d /\ d \in 0..Mark - 1
    BY <2>1, <1>5
  <2>3. s[i] = Mark * 1 + d
    BY <2>2, <1>1
  <2>4. (s[i] % Mark) = d
    BY <2>2, <2>3, <1>1, QuotientIsUnique
  <2> QED
    BY <2>1, <2>2, <2>4, <1>1
<1>7. (s[n] % Mark) = ((v \div Weight(n)) % Mark)
  BY <1>4
<1>8. \A i \in 1..n : (s[i] % Mark) = ((v \div Weight(i)) % Mark)
  <2>1. \A i \in 1..n : i = n \/ i \in 1..n - 1
    BY <1>1
  <2> QED
    BY <2>1, <1>6, <1>7
\* After i groups: what i groups can hold of v, and after the last all of it.
<1> DEFINE Held(i) == IF i < n THEN v % Weight(i + 1) ELSE v
<1>9. v % Weight(n + 1) = v
  <2>1. PICK p, z : p = Weight(n) /\ z = Weight(n + 1)
    OBVIOUS
  <2>2. p \in Nat \ {0} /\ z \in Nat \ {0} /\ z = p * Mark /\ v \div p < Mark
    BY <2>1, <1>1, <1>3, <1>4
  <2>3. v < z
    BY <2>2, <1>1, <1>2, OneMoreGroup
  <2>4. v \in 0..z - 1
    BY <2>2, <2>3, <1>2
  <2> QED
    BY <2>1, <2>2, <2>4, SmallRest
<1>10. \A i \in 0..n : Held(i) = v % Weight(i + 1)
  <2>1. \A i \in 0..n : i < n \/ i = n
    BY <1>1
  <2> QED
    BY <2>1, <1>9
<1>11. Held(0) = 0
  <2>1. (v % 1) = 0
    <3>1. v = 1 * v + 0 /\ 0 \in 0..1 - 1 /\ 1 \in Nat \ {0}
      BY <1>2
    <3> QED
      BY <3>1, <1>2, QuotientIsUnique
  <2> QED
    BY <2>1, <1>1, Places
<1>12. ASSUME NEW i \in 1..Groups PROVE Held(i) = Reads(s, i, Held(i - 1))
  <2>1. CASE i > n
    <3>1. n \in 1..i - 1 /\ ~(i < n) /\ ~(i - 1 < n)
      BY <2>1, <1>1
    <3>2. \E j \in 1..i - 1 : s[j] < Mark
      BY <3>1, <1>4
    <3> QED
      BY <3>1, <3>2 DEF Reads
  <2>2. CASE i <= n
    <3>1. i \in 1..n /\ i - 1 \in 0..n /\ i \in 0..n /\ i - 1 + 1 = i /\ \A j \in 1..i - 1 : j \in 1..n - 1
      BY <2>2, <1>1
    <3>2. ~\E j \in 1..i - 1 : s[j] < Mark
      BY <3>1, <1>6
    <3>3. PICK p, z : p = Weight(i) /\ z = Weight(i + 1)
      OBVIOUS
    <3>4. p \in Nat \ {0} /\ z \in Nat \ {0} /\ z = p * Mark
      BY <3>1, <3>3, <1>3
    <3>5. (v % z) = (v % p) + ((v \div p) % Mark) * p
      BY <3>4, <1>1, <1>2, OneMoreGroup
    <3>6. Held(i) = v % z /\ Held(i - 1) = v % p
      BY <3>1, <3>3, <1>10
    <3>7. (v % z) \in Nat /\ (v % z) <= v
      <4>1. PICK q, r : q = v \div z /\ r = (v % z)
        OBVIOUS
      <4>2. q \in Nat /\ r \in 0..z - 1 /\ v = z * q + r
        BY ONLY <4>1, <3>4, <1>2, Quotient
      <4>3. z * q \in Nat
        BY <4>2, <3>4
      <4> QED
        BY <4>1, <4>2, <4>3
    <3>8. (v % z) \in 0..Pow2[Width] - 1
      BY <3>7, <1>2
    <3>9. Wrap(v % z) = v % z
      BY <3>8, <1>2, SmallRest DEF Wrap
    <3>10. (s[i] % Mark) = ((v \div p) % Mark)
      BY <3>1, <3>3, <1>8
    <3>11. Reads(s, i, Held(i - 1)) = Wrap(Held(i - 1) + (s[i] % Mark) * Weight(i))
      BY <3>2 DEF Reads
    <3> HIDE DEF Held
    <3>12. Held(i - 1) + (s[i] % Mark) * Weight(i) = v % z
      BY <3>3, <3>5, <3>6, <3>10
    <3> QED
      BY <3>6, <3>9, <3>11, <3>12
  <2> QED
    BY <2>1, <2>2, <1>1
<1> HIDE DEF Held
<1> DEFINE IsValue(f) == f = [i \in 0..Groups |-> IF i = 0 THEN 0 ELSE Reads(s, i, f[i - 1])]
<1>13. PICK f : f = [i \in 0..Groups |-> Held(i)]
  OBVIOUS
<1>14. ASSUME NEW i \in 0..Groups PROVE f[i] = IF i = 0 THEN 0 ELSE Reads(s, i, f[i - 1])
  <2>1. CASE i = 0
    BY <2>1, <1>11, <1>13
  <2>2. CASE i # 0
    <3>1. i \in 1..Groups /\ i - 1 \in 0..Groups
      BY <2>2, <1>1
    <3>2. f[i] = Held(i) /\ f[i - 1] = Held(i - 1)
      BY <3>1, <1>13
    <3> QED
      BY <3>1, <3>2, <2>2, <1>12
  <2> QED
    BY <2>1, <2>2
<1>15. IsValue(f)
  <2>1. f = [i \in 0..Groups |-> f[i]]
    BY <1>13
  <2> QED
    BY <2>1, <1>14
<1>16. readUint(s) = (CHOOSE g : IsValue(g))[Groups]
  BY DEF readUint, Reads
<1> HIDE DEF IsValue
<1>17. PICK g : IsValue(g) /\ readUint(s) = g[Groups]
  BY <1>15, <1>16
<1>18. g = [i \in 0..Groups |-> IF i = 0 THEN 0 ELSE Reads(s, i, g[i - 1])]
  BY <1>17 DEF IsValue
<1> DEFINE T == {i \in Nat : i <= Groups => g[i] = Held(i)}
<1>19. 0 \in T
  BY <1>1, <1>11, <1>18
<1>20. ASSUME NEW i \in Nat, i \in T PROVE i + 1 \in T
  <2> SUFFICES ASSUME i + 1 <= Groups PROVE g[i + 1] = Held(i + 1)
    OBVIOUS
  <2>1. i + 1 \in 0..Groups /\ i + 1 \in 1..Groups /\ i + 1 # 0 /\ i + 1 - 1 = i /\ i <= Groups
    BY <1>1
  <2>2. g[i + 1] = Reads(s, i + 1, g[i])
    BY <2>1, <1>18
  <2>3. Held(i + 1) = Reads(s, i + 1, Held(i))
    BY <2>1, <1>12
  <2> QED
    BY <2>1, <2>2, <2>3, <1>20
<1> HIDE DEF T
<1>21. Groups \in T
  BY <1>1, <1>19, <1>20, Induction
<1>22. g[Groups] = Held(Groups)
  BY <1>21, <1>1 DEF T
<1>23. readUint(s) = v
  BY <1>17, <1>22, <1>1 DEF Held
<1>24. TakenBy(s) = n
  <2>1. s[n] < Mark /\ n \in 1..Groups /\ \A j \in 1..n - 1 : s[j] >= Mark
    <3>1. \A j \in 1..n - 1 : s[j] >= Mark
      BY <1>1, <1>5
    <3> QED
      BY <3>1, <1>4
  <2>2. ASSUME NEW i \in 1..Groups, s[i] < Mark, \A j \in 1..i - 1 : s[j] >= Mark PROVE i = n
    <3>1. CASE i < n
      <4>1. i \in 1..n - 1
        BY <3>1, <1>1
      <4> QED
        BY <4>1, <2>2, <1>6
    <3>2. CASE n < i
      <4>1. n \in 1..i - 1
        BY <3>2, <1>1
      <4>2. s[n] >= Mark /\ s[n] \in Nat
        BY <4>1, <2>2, <1>1, <1>3, <1>4
      <4> QED
        BY <4>2, <1>1, <1>4
    <3> QED
      BY <3>1, <3>2, <1>1
  <2> QED
    BY <2>1, <2>2 DEF TakenBy
<1> QED
  BY <1>23, <1>24

LEMMA ZigzagComesBack ==
  ASSUME NEW v \in Signed
  PROVE  EncodeZigzag(v) \in Unsigned /\ DecodeZigzag(EncodeZigzag(v)) = v
<1>1. Width \in 1..Top /\ Width \in 0..Top /\ Width - 1 \in 0..Top
  BY Bits DEF Top
<1>2. PICK h, w : h = Pow2[Width - 1] /\ w = Pow2[Width]
  OBVIOUS
<1>3. h \in Nat \ {0} /\ w \in Nat \ {0} /\ w = 2 * h
  BY <1>1, <1>2, Powers
<1>4. v \in Int /\ -h <= v /\ v < h
  BY <1>2, <1>3 DEF Signed
<1>5. \A a \in 0..w - 1 : Wrap(a) = a
  BY <1>2, <1>3, SmallRest DEF Wrap
<1>6. CASE v < 0
  <2>1. -v \in 0..w - 1 /\ 2 * (-v) - 1 \in 0..w - 1
    BY <1>3, <1>4, <1>6
  <2>2. EncodeZigzag(v) = 2 * (-v) - 1
    BY <2>1, <1>5, <1>6 DEF EncodeZigzag
  <2>3. PICK u : u = 2 * (-v) - 1
    OBVIOUS
  <2>4. u \in Unsigned
    BY <2>1, <2>3, <1>2 DEF Unsigned
  <2>5. u = 2 * (-v - 1) + 1 /\ -v - 1 \in Nat
    BY <2>3, <1>4, <1>6
  <2>6. u \div 2 = -v - 1 /\ (u % 2) = 1
    BY <2>5
  <2>7. DecodeZigzag(u) = Sign(w - 1 - (-v - 1))
    BY <2>6, <1>2 DEF DecodeZigzag
  <2>8. w - 1 - (-v - 1) = w + v /\ ~(w + v < h) /\ w + v - w = v
    BY <1>3, <1>4
  <2>9. Sign(w + v) = v
    <3>1. PICK z : z = w + v
      OBVIOUS
    <3>2. ~(z < h) /\ z - w = v
      BY <2>8, <3>1, <1>3, <1>4
    <3>3. Sign(z) = z - w
      BY <3>2, <1>2 DEF Sign
    <3> QED
      BY <3>1, <3>2, <3>3
  <2> QED
    BY <2>2, <2>3, <2>4, <2>7, <2>8, <2>9
<1>7. CASE ~(v < 0)
  <2>1. 2 * v \in 0..w - 1 /\ v \in Nat
    BY <1>3, <1>4, <1>7
  <2>2. EncodeZigzag(v) = 2 * v
    BY <2>1, <1>5, <1>7 DEF EncodeZigzag
  <2>3. PICK u : u = 2 * v
    OBVIOUS
  <2>4. u \in Unsigned
    BY <2>1, <2>3, <1>2 DEF Unsigned
  <2>5. u \div 2 = v /\ (u % 2) = 0
    BY <2>1, <2>3
  <2>6. DecodeZigzag(u) = Sign(v)
    BY <2>5 DEF DecodeZigzag
  <2>7. Sign(v) = v
    BY <1>2, <1>4 DEF Sign
  <2> QED
    BY <2>2, <2>3, <2>4, <2>6, <2>7
<1> QED
  BY <1>6, <1>7

LEMMA AllComeBack == ComeBack
<1> SUFFICES ASSUME NEW v \in Signed, NEW follow \in {0, 2 * Mark - 1},
                    NEW written, written = writeUint(EncodeZigzag(v)),
                    NEW s, s = written \o [i \in 1..Groups |-> follow]
             PROVE  DecodeZigzag(readUint(s)) = v /\ TakenBy(s) = Len(written)
  BY DEF ComeBack
<1>1. PICK u \in Unsigned : u = EncodeZigzag(v) /\ DecodeZigzag(u) = v
  BY ZigzagComesBack
<1>2. PICK n \in 1..Groups : IsWritten(written, u, n)
  BY <1>1, WriteDoes
<1>3. written \in Seq(Nat) /\ Len(written) = n /\ n \in Nat /\ Groups \in Nat /\ Mark \in Nat \ {0}
  BY <1>2, GroupsCover, Places DEF IsWritten
<1>4. PICK t : t = [i \in 1..Groups |-> follow]
  OBVIOUS
<1>5. t \in Seq(Nat) /\ Len(t) = Groups
  <2>1. follow \in Nat
    BY <1>3
  <2>2. t \in [1..Groups -> Nat]
    BY <2>1, <1>4
  <2> QED
    BY <2>2, <1>3, <1>4
<1>6. Begins(s, written, n)
  <2>1. \A i \in 1..Len(written) + Len(t) :
          (written \o t)[i] = IF i <= Len(written) THEN written[i] ELSE t[i - Len(written)]
    BY ONLY <1>3, <1>5, ConcatProperties
  <2>2. \A i \in 1..n : i \in 1..Len(written) + Len(t) /\ i <= Len(written)
    BY <1>3, <1>5
  <2>3. s = written \o t
    BY <1>4
  <2> QED
    BY <2>1, <2>2, <2>3 DEF Begins
<1>7. readUint(s) = u /\ TakenBy(s) = n
  BY <1>2, <1>6, ReadDoes
<1> QED
  BY <1>1, <1>3, <1>7

(* Every integer, of any width and in groups of any size, is read as it    *)
(* was written, the least and the greatest too, and reading stops where    *)
(* writing did (writeInt32, readInt32 and their 64-bit likes).             *)
THEOREM IntsAreKept == ServicesSpec => []IntsComeBack
<1>1. IntsComeBack
  BY AllComeBack DEF IntsComeBack
<1> QED
  BY <1>1, PTL
=============================================================================
