---------------------------- MODULE MCSupervisor ----------------------------
(* Instances of Supervisor for TLC: module IDs are naturals. *)
EXTENDS Supervisor, DependencyOrder, TLC

\* Module 2 depends on module 1.
PairDeps == (1 :> {}) @@ (2 :> {1})

\* Module 3 depends on 2, which depends on 1.
ChainDeps == (1 :> {}) @@ (2 :> {1}) @@ (3 :> {2})

\* Modules are registered dependencies first, or in the opposite order.
Ascending == [m \in Module |-> m]
Descending == [m \in Module |-> 10 - m]

ResolvedRank ==
  [E \in SUBSET Module |-> [m \in Module |-> PositionIn(LowestFirst(E, Deps), m)]]
=============================================================================
