--------------------------- MODULE InstanceMetadata ---------------------------
(***************************************************************************)
(* imds.Resolve (internal/imds): who this machine is, asked of the EC2     *)
(* metadata service one request after the other at start.  Any request may *)
(* fail, answer another status, or answer something that is not an         *)
(* identity; "it never invents an identifier".                             *)
(*                                                                         *)
(* The service's answer is the field's value or junk: an answer that       *)
(* validIMDSValue refuses, or none.  Two zones are told apart:             *)
(* one that a region can be read from and one that is malformed.  The      *)
(* identity document is one request for several fields.  "none" is the     *)
(* empty string.                                                           *)
(***************************************************************************)
EXTENDS Naturals, Sequences

VARIABLES
  explicit,  \* the host id an operator set, or "none"
  step,      \* the request to make next
  asserted,  \* what the service has answered to each path asked: field -> answer
  document,  \* what the identity document has answered
  identity   \* the Identity, "none" where it is not resolved

metadataVars == <<explicit, step, asserted, document, identity>>

\* The paths fill asks, in order, and at last the document.
Paths == <<"az", "region", "type", "ami", "name", "localHost", "publicHost", "localIP", "publicIP">>
Documented == {"account", "region", "ami", "type"}
Fields == {"id", "account"} \cup {Paths[i] : i \in DOMAIN Paths}

Silent == [f \in Fields |-> "none"]

ValuesOf(f) == IF f = "az" THEN {"zone", "malformed"} ELSE {f}
AnswersTo(f) == ValuesOf(f) \cup {"junk"}

MetadataInit ==
  /\ explicit \in {"none", "operator"}
  /\ step = 0
  /\ asserted = Silent /\ document = Silent /\ identity = Silent

\* Bug: an answer is taken as it comes.
BelievedAlways(a) == a # "none"

\* get: there is an answer, and it has the shape of an identity.
Believed(a) == a \notin {"none", "junk"}

Settled == step = Len(Paths) + 2

\* Without an explicit id the instance id is asked for, with a session token or, if putToken
\* got none, without one (IMDSv1): nothing is resolved without it.
Lookup ==
  /\ step = 0
  /\ \E a \in AnswersTo("id") :
       /\ asserted' = [asserted EXCEPT !.id = IF explicit = "none" THEN a ELSE "none"]
       /\ identity' = [identity EXCEPT !.id = IF explicit # "none" THEN explicit ELSE IF Believed(a) THEN a ELSE "none"]
       /\ step' = IF explicit = "none" /\ ~Believed(a) THEN Len(Paths) + 2 ELSE 1
  /\ UNCHANGED <<explicit, document>>

\* regionFromAZ: nothing is read from a malformed zone.
RegionFromAZ(az) == IF az = "zone" THEN "region" ELSE "none"

\* fill: a path that does not answer leaves its field, but for a region its zone tells.
Fill ==
  /\ step \in DOMAIN Paths
  /\ LET f == Paths[step] IN
     \E a \in AnswersTo(f) :
       /\ asserted' = [asserted EXCEPT ![f] = a]
       /\ identity' = [identity EXCEPT ![f] = IF Believed(a) THEN a
                                                ELSE IF f = "region" THEN RegionFromAZ(identity.az)
                                                ELSE "none"]
  /\ step' = step + 1
  /\ UNCHANGED <<explicit, document>>

\* identityDocument: it is used only with an account, and only for what is still missing.
ReadDocument ==
  /\ step = Len(Paths) + 1
  /\ \E doc \in [Documented -> {"value", "junk"}] :
       LET said(f) == IF doc[f] = "value" THEN f ELSE "junk" IN
       /\ document' = [f \in Fields |-> IF f \in Documented THEN said(f) ELSE "none"]
       /\ identity' = IF ~Believed(said("account")) THEN identity
                      ELSE [f \in Fields |-> IF f \in Documented /\ identity[f] = "none" /\ Believed(said(f))
                                             THEN said(f) ELSE identity[f]]
  /\ step' = step + 1
  /\ UNCHANGED <<explicit, asserted>>

MetadataNext == Lookup \/ Fill \/ ReadDocument

\* "It never invents an identifier": what is in the identity the operator set or the
\* service asserted, the region perhaps by its zone; what the service asserted is there; and
\* without an instance id there is nothing at all.
NothingIsInvented ==
  /\ \A f \in Fields :
       identity[f] # "none" =>
         \/ identity[f] \in ValuesOf(f) /\ identity[f] \in {asserted[f], document[f]}
         \/ f = "id" /\ identity.id = explicit
         \/ f = "region" /\ asserted.az = "zone"
  /\ Settled => /\ \A f \in Fields : asserted[f] \in ValuesOf(f) => identity[f] = asserted[f] \/ f = "id"
                /\ identity.id = "none" => identity = Silent

=============================================================================
