-------------------------- MODULE DependencyOrder --------------------------
(***************************************************************************)
(* The order Graph.Resolve promises: among the modules whose dependencies  *)
(* are all placed, the lowest ID comes first.  IDs are naturals, compared  *)
(* as the code compares strings.                                           *)
(***************************************************************************)
EXTENDS Integers, Sequences, FiniteSets

Elements(s) == {s[i] : i \in 1 .. Len(s)}

Lowest(S) == CHOOSE x \in S : \A y \in S : x <= y

\* The modules of E not yet placed whose dependencies are all placed.
Placeable(E, D, placed) == {m \in E \ placed : D[m] \subseteq placed}

\* LowestFirst(E, D)[n]: the first n modules of the order, fewer if a cycle blocks it.
LowestFirst(E, D) ==
  LET order[n \in 0 .. Cardinality(E)] ==
        IF n = 0 THEN <<>>
        ELSE LET P == Placeable(E, D, Elements(order[n - 1]))
             IN IF P = {} THEN order[n - 1] ELSE Append(order[n - 1], Lowest(P))
  IN order[Cardinality(E)]

\* The position of each module in that order, 0 for a module it does not place.
PositionIn(s, m) ==
  IF m \in Elements(s) THEN CHOOSE i \in 1 .. Len(s) : s[i] = m ELSE 0

=============================================================================
