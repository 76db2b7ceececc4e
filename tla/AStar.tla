------------------------------- MODULE AStar -------------------------------
(***************************************************************************)
(* Path planning in the car park (src/other/Path_Planning/AStar.cpp):      *)
(* Generator::findPath for each of the places in turn, and findbestpath,   *)
(* which takes the shortest of the paths.  A place is reached from the     *)
(* cell above or below it.                                                 *)
(*                                                                         *)
(* Diagonal moves are switched off by the constructor.  Of several open    *)
(* nodes with the least score the code takes the last in the list; here it *)
(* is any of them.                                                         *)
(***************************************************************************)
EXTENDS Integers, Sequences, FiniteSets

CONSTANTS
  Rows, Columns,   \* worldSize
  Source,          \* where a car may start
  Place,           \* where it may be sent
  MaxBlocked,      \* bound: walls, stalls and charging piles
  MaxEnds,         \* bound: places asked for
  Nowhere          \* an endpoint nobody has set, the parent of the source

ASSUME WorldSize == Rows \in Nat \ {0} /\ Columns \in Nat \ {0}
Cell == (0..Rows - 1) \X (0..Columns - 1)
ASSUME SourcesInside == Source \subseteq Cell /\ Place \subseteq Cell /\ Nowhere \notin Cell
ASSUME Bounds == MaxBlocked \in Nat /\ MaxEnds \in Nat \ {0}

VARIABLES
  blocked,         \* walls, stall and charging_pile
  source, ends,    \* startpoint and endpointarray
  target,          \* the place findPath looks for
  openSet, closedSet,
  G, parent,       \* of the nodes in the two sets
  current,
  phase,           \* "searching", "found", "unreachable" or "done"
  best             \* the first of score_pathlist

world == <<blocked, source, ends>>
search == <<openSet, closedSet, G, parent, current>>
vars == <<world, target, search, phase, best>>

\* init_map: the cells of the world that are not 0; findbestpath of some places.
Maps == {b \in SUBSET Cell : Cardinality(b) <= MaxBlocked}
Init ==
  /\ blocked \in Maps
  /\ source \in Source
  /\ \E n \in 1..MaxEnds : ends \in [1..n -> Place]
  /\ target = 1 /\ best = << >>
  /\ openSet = {source} /\ closedSet = {}
  /\ G = [c \in Cell |-> 0] /\ parent = [c \in Cell |-> Nowhere]
  /\ current = source /\ phase = "searching"

-----------------------------------------------------------------------------
Distance(a, b) == IF a < b THEN b - a ELSE a - b
manhattan(c, d) == 10 * (Distance(c[1], d[1]) + Distance(c[2], d[2]))

Neighbours(c) == {<<c[1], c[2] + 1>>, <<c[1] + 1, c[2]>>, <<c[1], c[2] - 1>>, <<c[1] - 1, c[2]>>}
detectCollision(c) == c \notin Cell \/ c \in blocked

End == ends[target]
AtEnd(c) == c = <<End[1] - 1, End[2]>> \/ c = <<End[1] + 1, End[2]>>

\* The source is the one node whose H stays 0.
H(c) == IF c = source THEN 0 ELSE manhattan(c, End)
getScore(c) == G[c] + H(c)

\* Mutant: the node nearest to the target is taken, whatever its cost.
Greedy(c) == \A d \in openSet : H(c) <= H(d)
Cheapest(c) == \A d \in openSet : getScore(c) <= getScore(d)

\* Mutant: a node that is in the list keeps its first parent.
Unknown(c, cost) == c \notin openSet
Improves(c, cost) == c \in openSet => cost < G[c]

\* One turn of findPath: the cheapest open node is at the target ...
Arrive(n) ==
  /\ phase = "searching" /\ n \in openSet /\ Cheapest(n)
  /\ AtEnd(n)
  /\ current' = n /\ phase' = "found"
  /\ UNCHANGED <<world, target, openSet, closedSet, G, parent, best>>

\* ... or is closed and its neighbours are looked at.
Expand(n) ==
  LET cost == G[n] + 10
      free == {m \in Neighbours(n) : ~detectCollision(m) /\ m \notin closedSet \cup {n}}
      better == {m \in free : Improves(m, cost)}
  IN
  /\ phase = "searching" /\ n \in openSet /\ Cheapest(n)
  /\ ~AtEnd(n)
  /\ current' = n
  /\ closedSet' = closedSet \cup {n}
  /\ openSet' = (openSet \ {n}) \cup free
  /\ G' = [c \in Cell |-> IF c \in better THEN cost ELSE G[c]]
  /\ parent' = [c \in Cell |-> IF c \in better THEN n ELSE parent[c]]
  /\ UNCHANGED <<world, target, phase, best>>

GiveUp ==
  /\ phase = "searching" /\ openSet = {}
  /\ phase' = "unreachable"
  /\ UNCHANGED <<world, target, search, best>>

\* From a node back to the source, by parent.
Back(n) ==
  LET trace[k \in 0..Rows * Columns] ==
        IF k = 0 THEN <<n>>
        ELSE LET t == trace[k - 1] IN
             IF parent[t[Len(t)]] = Nowhere THEN t ELSE Append(t, parent[t[Len(t)]])
  IN trace[Rows * Columns]

\* Mutant: a later path of the same length, or longer, takes the place.
LastOne(p) == TRUE
Better(p) == best = << >> \/ Len(p) < Len(best)

\* findPath returns, with an endpoint that has no value when nothing was found,
\* and findbestpath goes on to the next place.
Return ==
  \E endpoint \in {End, Nowhere} :
    LET path == <<endpoint>> \o Back(current) IN
    /\ \/ phase = "found" /\ endpoint = End
       \/ phase = "unreachable"
    /\ best' = IF Better(path) THEN path ELSE best
    /\ IF target = Len(ends) THEN phase' = "done" /\ UNCHANGED <<target, search>>
       ELSE /\ target' = target + 1 /\ phase' = "searching"
            /\ openSet' = {source} /\ closedSet' = {}
            /\ G' = [c \in Cell |-> 0] /\ parent' = [c \in Cell |-> Nowhere]
            /\ current' = source
    /\ UNCHANGED world

Next ==
  \/ \E n \in Cell : Arrive(n) \/ Expand(n)
  \/ GiveUp \/ Return

Spec == Init /\ [][Next]_vars

-----------------------------------------------------------------------------
Free == (Cell \ blocked) \cup {source}

TypeOK ==
  /\ blocked \subseteq Cell /\ source \in Cell
  /\ Len(ends) > 0 /\ ends \in [1..Len(ends) -> Cell] /\ target \in 1..Len(ends)
  /\ openSet \subseteq Free /\ closedSet \subseteq Free
  /\ G \in [Cell -> Nat] /\ parent \in [Cell -> Cell \cup {Nowhere}]
  /\ current \in Free
  /\ phase \in {"searching", "found", "unreachable", "done"}

\* What no way to c can be shorter than: its cost where the search has closed it,
\* elsewhere what the estimate leaves of the cost of the path found.
AtLeast(c) ==
  IF c \in closedSet THEN G[c] ELSE G[current] + manhattan(current, End) - manhattan(c, End)

\* The path found is a shortest one, although nodes are never looked at again
\* once they are closed and the source has no estimate: AtLeast is 0 at the
\* source, grows by no more than 10 with each step a car can make, and is the
\* cost of the path where it ends.
NoShorterWay ==
  phase = "found" =>
    /\ AtLeast(source) = 0 /\ AtLeast(current) = G[current]
    /\ \A c \in Free : \A d \in Neighbours(c) \cap Free : AtLeast(d) <= AtLeast(c) + 10

\* The reference: the cells a car can get to in k moves.
Within ==
  LET ball[k \in 0..Rows * Columns] ==
        IF k = 0 THEN {source}
        ELSE LET near == ball[k - 1] IN
             near \cup {d \in Cell \ blocked : Neighbours(d) \cap near # {}}
  IN ball
Beside(e) == {<<e[1] - 1, e[2]>>, <<e[1] + 1, e[2]>>}

\* When every place can be reached, findbestpath returns a way a car can go, to
\* one of the places, and no place is nearer.
IsWay(p) ==
  /\ \E i \in DOMAIN ends : p[1] = ends[i] /\ p[2] \in Beside(ends[i])
  /\ p[Len(p)] = source
  /\ \A i \in 2..Len(p) - 1 : p[i] \in Neighbours(p[i + 1]) /\ ~detectCollision(p[i])
Reachable == \A i \in DOMAIN ends : Beside(ends[i]) \cap Within[Rows * Columns] # {}
BestIsShortest ==
  phase = "done" /\ Reachable =>
    /\ IsWay(best)
    /\ Len(best) > 2 => \A i \in DOMAIN ends : Beside(ends[i]) \cap Within[Len(best) - 3] = {}
=============================================================================
