---------------------------- MODULE ProcessWatch ----------------------------
(***************************************************************************)
(* What the process module promises of its table: it watches instances of  *)
(* processes, never more than Limit; a sample drops none it still sees and *)
(* keeps none it does not, and passes over an instance only when those it  *)
(* watches before and after fill the table.                                *)
(***************************************************************************)
EXTENDS Naturals, FiniteSets

CONSTANT Limit
VARIABLES alive, watched

Init == watched = {}

HostChanges == UNCHANGED watched

Sample ==
  /\ UNCHANGED alive
  /\ \E seen \in SUBSET alive :
       /\ watched \cap seen \subseteq watched' /\ watched' \subseteq seen
       /\ Cardinality(watched') <= Limit
       /\ watched' # seen => Cardinality(watched \cup watched') >= Limit

Spec == Init /\ [][HostChanges \/ Sample]_<<alive, watched>>

=============================================================================
