-------------------------- MODULE DependencyGraph --------------------------
(***************************************************************************)
(* internal/supervisor/graph.go: Resolve, as the algorithm it is.          *)
(*                                                                         *)
(* The manifests are read in ascending ID order and turned into dependency *)
(* and indegree tables; Kahn's algorithm then drains a ready list, always  *)
(* taking its lowest ID; what cannot be drained is searched for a cycle,   *)
(* depth first.  One action per iteration of the loops.  IDs are naturals, *)
(* compared as the code compares strings.                                  *)
(***************************************************************************)
EXTENDS DependencyOrder, SequencesExt

CONSTANTS
  Id,      \* every module ID a manifest may name
  Lists    \* bound: the dependency lists a manifest may have

ASSUME IdAssumption == Id \subseteq Nat /\ IsFiniteSet(Id) /\ Lists \subseteq Seq(Id)

VARIABLES
  manifests,  \* the dependency list of each manifest, possibly with repetitions
  pc,         \* the loop being run
  unread,     \* manifests not read yet
  deps,       \* Graph.deps
  indegree,   \* dependencies of each module not placed yet
  order,      \* Graph.order so far
  stack,      \* findCycle: the path being explored
  verdict     \* what Resolve returns

graphVars == <<manifests, pc, unread, deps, indegree, order, stack, verdict>>

Ids == DOMAIN manifests
Dependents(d) == {m \in Ids : d \in deps[m]}
\* Kahn's ready list: drained of nothing pending, not placed yet.
Ready == {m \in Ids \ Elements(order) : indegree[m] = 0}
Remaining == {m \in Ids : indegree[m] > 0}

GraphInit ==
  /\ \E E \in SUBSET Id : manifests \in [E -> Lists]
  /\ pc = "read"
  /\ unread = Ids
  /\ deps = [m \in Ids |-> {}]
  /\ indegree = [m \in Ids |-> 0]
  /\ order = <<>>
  /\ stack = <<>>
  /\ verdict = [kind |-> "none"]

-----------------------------------------------------------------------------
(* Reading the manifests. *)

\* Entry i of m's list cannot be honoured.
Offends(m, i) == manifests[m][i] = m \/ manifests[m][i] \notin Ids

Refused(m, i) ==
  /\ Offends(m, i) /\ \A j \in 1 .. i - 1 : ~Offends(m, j)
  /\ verdict' = [kind |-> IF manifests[m][i] = m THEN "self" ELSE "missing",
                 id |-> m, dependency |-> manifests[m][i]]
  /\ pc' = "done"
  /\ UNCHANGED <<deps, indegree, unread>>

\* A repeated entry counts once.
Distinct(m) == Cardinality(Elements(manifests[m]))

ReadManifest ==
  /\ pc = "read" /\ unread # {}
  /\ LET m == Lowest(unread) IN
     \/ \E i \in 1 .. Len(manifests[m]) : Refused(m, i)
     \/ /\ \A i \in 1 .. Len(manifests[m]) : ~Offends(m, i)
        /\ deps' = [deps EXCEPT ![m] = Elements(manifests[m])]
        /\ indegree' = [indegree EXCEPT ![m] = Distinct(m)]
        /\ unread' = unread \ {m}
        /\ UNCHANGED <<pc, verdict>>
  /\ UNCHANGED <<manifests, order, stack>>

-----------------------------------------------------------------------------
(* Kahn's algorithm. *)

\* Bug: the highest ID is taken.
PopHighest(S) == CHOOSE x \in S : \A y \in S : y <= x

\* The head of the sorted ready list.
Pop(S) == Lowest(S)

Decrement(d, m) == IF d \in Dependents(m) THEN indegree[d] - 1 ELSE indegree[d]

PlaceLowest ==
  /\ pc = "read" /\ unread = {} /\ Ready # {}
  /\ LET m == Pop(Ready) IN
       /\ order' = Append(order, m)
       /\ indegree' = [d \in Ids |-> Decrement(d, m)]
  /\ UNCHANGED <<manifests, pc, unread, deps, stack, verdict>>

FinishPlacing ==
  /\ pc = "read" /\ unread = {} /\ Ready = {}
  /\ IF Len(order) = Cardinality(Ids)
       THEN pc' = "done" /\ verdict' = [kind |-> "order"]
       ELSE pc' = "search" /\ UNCHANGED verdict
  /\ UNCHANGED <<manifests, unread, deps, indegree, order, stack>>

-----------------------------------------------------------------------------
(* findCycle.  Every unresolved module has an unresolved dependency, so that  *)
(* the search always has a neighbour to visit and never backtracks: the       *)
(* code's black nodes are left out, and SearchAdvances says why they may be.  *)

\* The unresolved dependencies of the module on top of the stack.
Neighbours == deps[stack[Len(stack)]] \cap Remaining

SearchFrom ==
  /\ pc = "search" /\ stack = <<>>
  /\ stack' = <<Lowest(Remaining)>>
  /\ UNCHANGED <<manifests, pc, unread, deps, indegree, order, verdict>>

PathFrom(n) == SubSeq(stack, PositionIn(stack, n), Len(stack))

\* A neighbour on the stack closes a cycle; another one is visited.
Visit ==
  /\ pc = "search" /\ stack # <<>>
  /\ LET n == Lowest(Neighbours) IN
     \/ /\ n \in Elements(stack)
        /\ verdict' = [kind |-> "cycle", path |-> PathFrom(n)]
        /\ pc' = "done"
        /\ UNCHANGED stack
     \/ /\ n \notin Elements(stack)
        /\ stack' = Append(stack, n)
        /\ UNCHANGED <<pc, verdict>>
  /\ UNCHANGED <<manifests, unread, deps, indegree, order>>

-----------------------------------------------------------------------------
(* The queries of a resolved graph. *)

StopOrder == [i \in 1 .. Len(order) |-> order[Len(order) + 1 - i]]

\* The walk over dependents that TransitiveDependents starts from f.
Affected(f) ==
  LET walk[n \in 0 .. Cardinality(Ids)] ==
        IF n = 0 THEN Dependents(f)
        ELSE walk[n - 1] \cup UNION {Dependents(d) : d \in walk[n - 1]}
  IN walk[Cardinality(Ids)]

\* ... and those of its modules that are affected, in the stop order.
TransitiveDependents(f) ==
  FoldLeft(LAMBDA out, m : IF m \in Affected(f) THEN Append(out, m) ELSE out, <<>>, StopOrder)

-----------------------------------------------------------------------------

Resolved == pc = "done" /\ UNCHANGED graphVars

GraphNext == ReadManifest \/ PlaceLowest \/ FinishPlacing \/ SearchFrom \/ Visit \/ Resolved

-----------------------------------------------------------------------------
(* Properties. *)

\* The finished order is the lowest-ID-first one, whatever order the maps were
\* iterated in: determinism.
OrderIsLowestFirst ==
  verdict.kind = "order" => order = LowestFirst(Ids, deps)

\* What m's manifest asks for, before Resolve has read it.
Asked(m) == Elements(manifests[m])

\* A cycle is reported as a real one: every module of the path depends on the next,
\* the last on the first.
CycleIsReal(path) ==
  /\ path # <<>>
  /\ \A i \in 1 .. Len(path) : path[(i % Len(path)) + 1] \in Asked(path[i])

\* The error names the first offender: the lowest module with an entry that cannot
\* be honoured, and that entry; an order is returned only if there is none.
VerdictIsRight ==
  LET bad == {m \in Ids : m \in Asked(m) \/ ~(Asked(m) \subseteq Ids)} IN
  pc = "done" =>
    CASE verdict.kind = "order" -> bad = {} /\ deps = [m \in Ids |-> Asked(m)]
      [] verdict.kind = "cycle" -> bad = {} /\ CycleIsReal(verdict.path)
      [] verdict.kind = "self" -> verdict.id = Lowest(bad) /\ verdict.id \in Asked(verdict.id)
      [] verdict.kind = "missing" -> verdict.id = Lowest(bad)
                                     /\ verdict.dependency \in Asked(verdict.id) \ Ids

\* findCycle never gets stuck: its backtracking and its fallback are unreachable.
SearchAdvances == pc = "search" => Remaining # {} /\ (stack # <<>> => Neighbours # {})

\* When f fails, the cascade reaches exactly the modules that depend on it through any
\* chain, and stops each of them before the modules it depends on.
CascadeIsRight ==
  verdict.kind = "order" =>
    \A f \in Ids :
      LET cascade == TransitiveDependents(f)
          Closed(S) == \A m \in Ids : deps[m] \cap (S \cup {f}) # {} => m \in S
      IN /\ Elements(cascade) = {m \in Ids : \A S \in SUBSET Ids : Closed(S) => m \in S}
         /\ \A i, j \in 1 .. Len(cascade) : cascade[j] \in deps[cascade[i]] => i < j

\* Resolve returns the one order or the one error its manifests call for, whatever order
\* the maps are iterated in; its search for a cycle always finds one; and the order serves
\* the cascades.
ResolveIsRight == OrderIsLowestFirst /\ VerdictIsRight /\ SearchAdvances /\ CascadeIsRight

=============================================================================
