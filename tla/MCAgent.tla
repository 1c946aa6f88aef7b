-------------------------------- MODULE MCAgent --------------------------------
(***************************************************************************)
(* Three parts of the agent side by side: who it finds out it is (imds),   *)
(* its OTLP exporter, and the inventory's way from discovery to the fleet  *)
(* view.  They share nothing, so a behaviour is about one of them: `part'. *)
(***************************************************************************)
EXTENDS InstanceMetadata, OtlpExporter, MCInventory

\* Applications that say which service they are; one that sends JSON and says its host is a
\* number; one that says nothing.
MCPayloads ==
  {[signal |-> "traces", json |-> FALSE, attrs |-> [a \in {"service"} |-> "app"]],
   [signal |-> "traces", json |-> TRUE, attrs |-> [a \in {"host"} |-> "number"]],
   [signal |-> "logs", json |-> TRUE, attrs |-> [a \in {} |-> "app"]],
   [signal |-> "metrics", json |-> FALSE, attrs |-> [a \in {"service"} |-> "app"]]}
MCAttrs == [a \in {"service", "host"} |-> "agent"]

VARIABLE part

AgentInit ==
  /\ part \in {"identity", "otlp", "inventory"}
  /\ MetadataInit /\ OtlpInit /\ InventoryInit
  /\ part # "identity" => explicit = "none"
  /\ part # "inventory" => \A e \in Entity : host.ent[e] = 0

AgentNext ==
  \/ part = "identity" /\ MetadataNext /\ UNCHANGED <<otlpVars, inventoryVars>>
  \/ part = "otlp" /\ OtlpNext /\ UNCHANGED <<metadataVars, inventoryVars>>
  \/ part = "inventory" /\ InventoryNext /\ UNCHANGED <<metadataVars, otlpVars>>

\* The fairness is the inventory's: the behaviours of the other parts do not go on for ever.
AgentSpec ==
  /\ AgentInit /\ [][AgentNext /\ UNCHANGED part]_<<part, metadataVars, otlpVars, inventoryVars>>
  /\ InventoryFairness

=============================================================================
