---------------------------- MODULE MCInventory -----------------------------
(* An instance of Inventory for TLC. *)
EXTENDS Inventory

\* Capacity prefers the entities that the snapshot sends last.
Backwards == [e \in Entity |-> 10 - e]

\* The relationships link the first entity with the last one.
FirstToLast == [r \in Relation |-> {CHOOSE e \in Entity : \A d \in Entity : e <= d,
                                    CHOOSE e \in Entity : \A d \in Entity : d <= e}]
=============================================================================
