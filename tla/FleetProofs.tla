---------------------------- MODULE FleetProofs -----------------------------
(***************************************************************************)
(* A host and the intake.  What the agent finds out it is, for every       *)
(* answer of the metadata service (NothingIsInvented); what the OTLP       *)
(* exporter makes of every item it is handed, for every batch size, number *)
(* of attempts and choice of payloads (ItemsArriveOrAreCounted); and what  *)
(* the intake's table and rings keep of what arrives, for every limit      *)
(* (RingsCounted, PlacesGoToTheLive); and what is shown of it, for every   *)
(* host (RowsAreThings, CostAddsUp), and the prices it is                  *)
(* costed with (PriceColumnIsTrue).                                        *)
(***************************************************************************)
EXTENDS InstanceMetadata, OtlpExporter, FleetStore, FleetView, Prices, NumberSets, SequenceTheorems

-----------------------------------------------------------------------------
(* The identity. *)

\* What an answer may be.
Answer == {"id", "account", "zone", "malformed", "region", "type", "ami", "name", "localHost",
           "publicHost", "localIP", "publicIP", "operator", "junk", "none"}

LEMMA PathsAre ==
  /\ Fields = {"id", "account", "az", "region", "type", "ami", "name", "localHost", "publicHost",
               "localIP", "publicIP"}
  /\ DOMAIN Paths = 1 .. 9 /\ Len(Paths) = 9
  /\ Paths[1] = "az" /\ Paths[2] = "region"
  /\ \A i, j \in 1 .. 9 : Paths[i] = Paths[j] => i = j
  /\ \A i \in 1 .. 9 : Paths[i] \in Fields \ {"id", "account", "none", "junk"}
  /\ Documented \subseteq Fields
  /\ "none" \notin Fields /\ "junk" \notin Fields
<1>1. DOMAIN Paths = 1 .. 9 /\ 1 .. 9 = {1, 2, 3, 4, 5, 6, 7, 8, 9}
  BY DEF Paths
<1>2. /\ Paths[1] = "az" /\ Paths[2] = "region" /\ Paths[3] = "type" /\ Paths[4] = "ami"
      /\ Paths[5] = "name" /\ Paths[6] = "localHost" /\ Paths[7] = "publicHost"
      /\ Paths[8] = "localIP" /\ Paths[9] = "publicIP" /\ Len(Paths) = 9
  BY DEF Paths
<1>3. Fields = {"id", "account", "az", "region", "type", "ami", "name", "localHost", "publicHost",
                "localIP", "publicIP"}
  BY <1>1, <1>2 DEF Fields
<1> QED
  BY <1>1, <1>2, <1>3 DEF Documented

\* The path of a field that fill has still to ask.
Ahead(f) == \E i \in DOMAIN Paths : i >= step /\ Paths[i] = f

\* An answer is recorded with the field it gives, a field that is still to be asked is empty,
\* and so is the document until it is read: NothingIsInvented as an inductive invariant.
IdentityInv ==
  /\ step \in 0 .. 11 /\ explicit \in {"none", "operator"}
  /\ asserted \in [Fields -> Answer] /\ document \in [Fields -> Answer]
  /\ identity \in [Fields -> Answer]
  /\ step <= 10 => document = Silent
  /\ step = 0 => asserted = Silent /\ identity = Silent
  /\ \A f \in Fields : Ahead(f) => asserted[f] = "none" /\ identity[f] = "none"
  /\ document["az"] = "none"
  /\ \A f \in Fields :
       identity[f] # "none" =>
         \/ identity[f] \in ValuesOf(f) /\ identity[f] \in {asserted[f], document[f]}
         \/ f = "id" /\ identity.id = explicit
         \/ f = "region" /\ asserted.az = "zone"
  /\ \A f \in Fields : asserted[f] \in ValuesOf(f) => identity[f] = asserted[f] \/ f = "id"
  /\ identity.id = "none" => identity = Silent /\ step \in {0, 11}

LEMMA LookupKeepsIdentity == ASSUME IdentityInv, Lookup PROVE IdentityInv'
<1>1. step = 0 /\ document = Silent /\ asserted = Silent /\ identity = Silent
  BY DEF IdentityInv, Lookup
<1>2. PICK a \in AnswersTo("id") :
        /\ asserted' = [asserted EXCEPT !.id = IF explicit = "none" THEN a ELSE "none"]
        /\ identity' = [identity EXCEPT !.id = IF explicit # "none" THEN explicit
                                               ELSE IF Believed(a) THEN a ELSE "none"]
        /\ step' = IF explicit = "none" /\ ~Believed(a) THEN 11 ELSE 1
        /\ explicit' = explicit /\ document' = document
  BY PathsAre DEF Lookup
<1>3. /\ "id" \in Fields /\ "az" \in Fields /\ "region" \in Fields
      /\ \A f \in Fields : Silent[f] = "none"
      /\ Silent \in [Fields -> Answer]
  BY PathsAre DEF Silent, Answer
<1>4. a \in {"id", "junk"} /\ ValuesOf("id") = {"id"} /\ explicit \in {"none", "operator"}
  BY <1>2 DEF AnswersTo, ValuesOf, IdentityInv
<1>5. /\ asserted' \in [Fields -> Answer] /\ identity' \in [Fields -> Answer]
      /\ \A f \in Fields \ {"id"} : asserted'[f] = "none" /\ identity'[f] = "none"
      /\ asserted'["id"] = (IF explicit = "none" THEN a ELSE "none")
      /\ identity'["id"] = (IF explicit # "none" THEN explicit ELSE IF Believed(a) THEN a ELSE "none")
  <2> DEFINE e == IF explicit = "none" THEN a ELSE "none"
             d == IF explicit # "none" THEN explicit ELSE IF Believed(a) THEN a ELSE "none"
  <2>1. e \in Answer /\ d \in Answer
    BY <1>4 DEF Answer
  <2>2. asserted' = [Silent EXCEPT !["id"] = e] /\ identity' = [Silent EXCEPT !["id"] = d]
    BY <1>1, <1>2
  <2> HIDE DEF e, d
  <2>3. /\ asserted' \in [Fields -> Answer] /\ identity' \in [Fields -> Answer]
        /\ \A f \in Fields \ {"id"} : asserted'[f] = "none" /\ identity'[f] = "none"
        /\ asserted'["id"] = e /\ identity'["id"] = d
    BY <1>3, <2>1, <2>2
  <2> QED
    BY <2>3 DEF e, d
<1>6. identity'["id"] = "none" => identity' = Silent /\ step' = 11
  BY <1>1, <1>2, <1>3, <1>4, <1>5 DEF Silent
<1>7. \A f \in Fields : Ahead(f)' => f # "id"
  BY PathsAre DEF Ahead
<1>8. \A f \in Fields : ValuesOf(f) \cap {"none"} = {}
  BY PathsAre DEF ValuesOf
<1>9. \A f \in Fields :
       identity'[f] # "none" =>
         \/ identity'[f] \in ValuesOf(f) /\ identity'[f] \in {asserted'[f], document'[f]}
         \/ f = "id" /\ identity'["id"] = explicit'
  BY <1>2, <1>4, <1>5 DEF Believed
<1>10. step' \in 0 .. 11 /\ step' # 0
  BY <1>2
<1> QED
  BY <1>1, <1>2, <1>3, <1>4, <1>5, <1>6, <1>7, <1>8, <1>9, <1>10, PathsAre DEF IdentityInv

LEMMA FillKeepsIdentity == ASSUME IdentityInv, Fill PROVE IdentityInv'
<1> DEFINE f == Paths[step]
<1>1. PICK a \in AnswersTo(f) :
        /\ asserted' = [asserted EXCEPT ![f] = a]
        /\ identity' = [identity EXCEPT ![f] = IF Believed(a) THEN a
                                                 ELSE IF f = "region" THEN RegionFromAZ(identity.az)
                                                 ELSE "none"]
  BY DEF Fill
<1> DEFINE told == IF Believed(a) THEN a
                   ELSE IF f = "region" THEN RegionFromAZ(identity.az) ELSE "none"
<1>2. step \in 1 .. 9 /\ step' = step + 1 /\ explicit' = explicit /\ document' = document
  BY PathsAre DEF Fill
<1>3. f \in Fields /\ f \notin {"id", "account", "none", "junk"} /\ Ahead(f)
  BY <1>2, PathsAre DEF Ahead
<1> HIDE DEF f
<1>4. a \in ValuesOf(f) \cup {"junk"} /\ a \in Answer /\ "junk" \notin ValuesOf(f) /\ "none" \notin ValuesOf(f)
  <2>1. a \in ValuesOf(f) \cup {"junk"}
    BY <1>1 DEF AnswersTo
  <2>2. ValuesOf(f) \subseteq {"zone", "malformed", f} /\ (f # "az" => ValuesOf(f) = {f})
        /\ (f = "az" => ValuesOf(f) = {"zone", "malformed"})
    BY DEF ValuesOf
  <2>3. f \in Answer \/ f = "az"
    BY <1>3, PathsAre DEF Answer
  <2> QED
    BY <1>3, <2>1, <2>2, <2>3 DEF Answer
<1>5. document = Silent /\ asserted[f] = "none" /\ identity[f] = "none"
  BY <1>2, <1>3 DEF IdentityInv
<1>15. told \in Answer
  BY <1>4 DEF Answer, RegionFromAZ
<1>16. /\ Believed(a) => told = a
       /\ ~Believed(a) /\ f # "region" => told = "none"
       /\ ~Believed(a) /\ f = "region" => told = RegionFromAZ(identity["az"])
  OBVIOUS
<1>17. identity' = [identity EXCEPT ![f] = told]
  BY <1>1
<1> HIDE DEF told
<1>6. /\ asserted' \in [Fields -> Answer] /\ identity' \in [Fields -> Answer]
      /\ \A g \in Fields \ {f} : asserted'[g] = asserted[g] /\ identity'[g] = identity[g]
      /\ asserted'[f] = a
      /\ Believed(a) => identity'[f] = a
      /\ ~Believed(a) /\ f # "region" => identity'[f] = "none"
      /\ ~Believed(a) /\ f = "region" => identity'[f] = RegionFromAZ(identity["az"])
  BY <1>1, <1>3, <1>4, <1>15, <1>16, <1>17 DEF IdentityInv
<1>7. Believed(a) <=> a \in ValuesOf(f)
  BY <1>4 DEF Believed
<1>8. \A g \in Fields : Ahead(g)' => Ahead(g) /\ g # f
  BY <1>2, PathsAre DEF Ahead, f
<1>9. f # "az" => asserted'["az"] = asserted["az"] /\ identity'["az"] = identity["az"]
  BY <1>6, PathsAre
<1>10. identity["az"] = "zone" => asserted["az"] = "zone"
  BY <1>5, PathsAre DEF IdentityInv, ValuesOf
<1>11. \A g \in Fields :
       identity'[g] # "none" =>
         \/ identity'[g] \in ValuesOf(g) /\ identity'[g] \in {asserted'[g], document'[g]}
         \/ g = "id" /\ identity'["id"] = explicit'
         \/ g = "region" /\ asserted'["az"] = "zone"
  <2> SUFFICES ASSUME NEW g \in Fields, identity'[g] # "none"
               PROVE  \/ identity'[g] \in ValuesOf(g) /\ identity'[g] \in {asserted'[g], document'[g]}
                      \/ g = "id" /\ identity'["id"] = explicit'
                      \/ g = "region" /\ asserted'["az"] = "zone"
    OBVIOUS
  <2>1. CASE g = f
    BY <1>6, <1>7, <1>9, <1>10, <2>1 DEF RegionFromAZ
  <2>2. CASE g # f /\ g # "region"
    BY <1>2, <1>6, <2>2 DEF IdentityInv
  <2>3. CASE g # f /\ g = "region"
    <3>1. identity[g] # "none" /\ asserted'[g] = asserted[g] /\ identity'[g] = identity[g]
      BY <1>6, <2>3
    <3>2. f = "az" => Ahead("region")
      BY <1>2, PathsAre DEF Ahead, f
    <3>3. f # "az"
      BY <2>3, <3>1, <3>2 DEF IdentityInv
    <3> QED
      BY <1>2, <1>9, <2>3, <3>1, <3>3 DEF IdentityInv
  <2> QED
    BY <2>1, <2>2, <2>3
<1>12. \A g \in Fields : asserted'[g] \in ValuesOf(g) => identity'[g] = asserted'[g] \/ g = "id"
  <2> SUFFICES ASSUME NEW g \in Fields, asserted'[g] \in ValuesOf(g), g # "id"
               PROVE  identity'[g] = asserted'[g]
    OBVIOUS
  <2>1. CASE g = f
    BY <1>6, <1>7, <2>1
  <2>2. CASE g # f
    BY <1>6, <2>2 DEF IdentityInv
  <2> QED
    BY <2>1, <2>2
<1>13. identity'["id"] = identity["id"] /\ identity["id"] # "none"
  BY <1>2, <1>3, <1>6, PathsAre DEF IdentityInv
<1>14. \A g \in Fields : Ahead(g)' => asserted'[g] = "none" /\ identity'[g] = "none"
  BY <1>6, <1>8 DEF IdentityInv
<1>18. step' \in 1 .. 10 /\ document' = Silent /\ document'["az"] = "none"
  BY <1>2, <1>5 DEF IdentityInv
<1> QED
  BY <1>2, <1>6, <1>11, <1>12, <1>13, <1>14, <1>18 DEF IdentityInv

LEMMA DocumentKeepsIdentity == ASSUME IdentityInv, ReadDocument PROVE IdentityInv'
<1> DEFINE Said(doc, f) == IF doc[f] = "value" THEN f ELSE "junk"
<1>1. PICK doc \in [Documented -> {"value", "junk"}] :
        /\ document' = [f \in Fields |-> IF f \in Documented THEN Said(doc, f) ELSE "none"]
        /\ identity' = IF ~Believed(Said(doc, "account")) THEN identity
                       ELSE [f \in Fields |-> IF f \in Documented /\ identity[f] = "none" /\ Believed(Said(doc, f))
                                              THEN Said(doc, f) ELSE identity[f]]
  BY DEF ReadDocument
<1>2. step = 10 /\ step' = 11 /\ explicit' = explicit /\ asserted' = asserted
  BY PathsAre DEF ReadDocument
<1>3. document = Silent /\ document' \in [Fields -> Answer] /\ document'["az"] = "none"
  <2>1. document = Silent
    BY <1>2 DEF IdentityInv
  <2>2. \A f \in Documented : Said(doc, f) \in Answer
    BY DEF Documented, Answer
  <2>3. \A f \in Fields : (IF f \in Documented THEN Said(doc, f) ELSE "none") \in Answer
    BY <2>2 DEF Answer
  <2>4. "az" \in Fields /\ "az" \notin Documented
    BY PathsAre DEF Documented
  <2> QED
    BY <1>1, <2>1, <2>3, <2>4
<1>4. /\ identity' \in [Fields -> Answer]
      /\ \A f \in Fields : \/ identity'[f] = identity[f]
                           \/ /\ f \in Documented /\ identity[f] = "none"
                              /\ identity'[f] = document'[f] /\ identity'[f] = f
  <2>1. CASE ~Believed(Said(doc, "account"))
    BY <1>1, <2>1 DEF IdentityInv
  <2>2. CASE Believed(Said(doc, "account"))
    <3>1. identity' = [f \in Fields |-> IF f \in Documented /\ identity[f] = "none" /\ Believed(Said(doc, f))
                                        THEN Said(doc, f) ELSE identity[f]]
      BY <1>1, <2>2
    <3>2. identity \in [Fields -> Answer]
      BY DEF IdentityInv
    <3>3. \A f \in Documented : f \in Answer
      BY DEF Documented, Answer
    <3>4. \A f \in Documented : Believed(Said(doc, f)) => Said(doc, f) = f
      BY DEF Believed
    <3>5. \A f \in Documented : f \in Fields => document'[f] = Said(doc, f)
      BY <1>1
    <3> QED
      BY <3>1, <3>2, <3>3, <3>4, <3>5
  <2> QED
    BY <2>1, <2>2
<1>5. \A f \in Documented : ValuesOf(f) = {f}
  BY DEF Documented, ValuesOf
<1>6. \A f \in Fields : "none" \notin ValuesOf(f) /\ Silent[f] = "none"
  BY PathsAre DEF ValuesOf, Silent
<1>7. \A f \in Fields :
       identity'[f] # "none" =>
         \/ identity'[f] \in ValuesOf(f) /\ identity'[f] \in {asserted'[f], document'[f]}
         \/ f = "id" /\ identity'["id"] = explicit'
         \/ f = "region" /\ asserted'["az"] = "zone"
  <2> SUFFICES ASSUME NEW f \in Fields, identity'[f] # "none"
               PROVE  \/ identity'[f] \in ValuesOf(f) /\ identity'[f] \in {asserted'[f], document'[f]}
                      \/ f = "id" /\ identity'["id"] = explicit'
                      \/ f = "region" /\ asserted'["az"] = "zone"
    OBVIOUS
  <2>1. CASE identity'[f] = identity[f]
    <3>1. \/ identity[f] \in ValuesOf(f) /\ identity[f] = asserted[f]
          \/ f = "id" /\ identity["id"] = explicit
          \/ f = "region" /\ asserted["az"] = "zone"
      BY <1>3, <1>6, <2>1 DEF IdentityInv
    <3> QED
      BY <1>2, <2>1, <3>1
  <2>2. CASE identity'[f] = f /\ identity'[f] = document'[f] /\ f \in Documented
    BY <1>5, <2>2
  <2> QED
    BY <1>4, <2>1, <2>2
<1>8. \A f \in Fields : asserted'[f] \in ValuesOf(f) => identity'[f] = asserted'[f] \/ f = "id"
  BY <1>2, <1>4, <1>6 DEF IdentityInv
<1>9. identity'["id"] = identity["id"] /\ identity["id"] # "none"
  BY <1>2, <1>4, PathsAre DEF IdentityInv, Documented
<1>10. \A f \in Fields : ~Ahead(f)'
  BY <1>2, PathsAre DEF Ahead
<1> QED
  BY <1>2, <1>3, <1>4, <1>7, <1>8, <1>9, <1>10 DEF IdentityInv

\* An identity is never invented, whatever the metadata service answers and fails to answer:
\* imds.Resolve gives what was said, and all that was said (NothingIsInvented).
THEOREM IdentityIsAsserted == MetadataInit /\ [][MetadataNext]_metadataVars => []NothingIsInvented
<1>1. MetadataInit => IdentityInv
  <2> SUFFICES ASSUME MetadataInit PROVE IdentityInv
    OBVIOUS
  <2>1. Silent \in [Fields -> Answer] /\ \A f \in Fields : Silent[f] = "none"
    BY DEF Silent, Answer
  <2>2. \A f \in Fields : "none" \notin ValuesOf(f)
    BY PathsAre DEF ValuesOf
  <2>3. "az" \in Fields
    BY PathsAre
  <2> QED
    BY <2>1, <2>2, <2>3 DEF MetadataInit, IdentityInv
<1>2. IdentityInv /\ [MetadataNext]_metadataVars => IdentityInv'
  <2>1. ASSUME IdentityInv, UNCHANGED metadataVars PROVE IdentityInv'
    BY <2>1 DEF IdentityInv, metadataVars, Ahead
  <2> QED
    BY <2>1, LookupKeepsIdentity, FillKeepsIdentity, DocumentKeepsIdentity DEF MetadataNext
<1>3. IdentityInv => NothingIsInvented
  BY DEF IdentityInv, NothingIsInvented
<1> QED
  BY <1>1, <1>2, <1>3, PTL

-----------------------------------------------------------------------------
(* The OTLP exporter. *)

Agendas == {<<"metrics", "logs", "traces">>, <<"logs", "traces">>, <<"traces">>, <<>>}

OtlpType ==
  /\ items \in Seq(Payloads \cup {LogRecord})
  /\ logs \in Seq(Nat) /\ traces \in Seq(Nat)
  /\ dropped \in [logs : Nat, traces : Nat]
  /\ loop \in {"waiting", "flushing", "last", "ended"} /\ agenda \in Agendas
  /\ posts \subseteq SUBSET Nat /\ post \in [body : SUBSET Nat, attempt : Nat]
  /\ stopping \in 0 .. 2 /\ before \in Nat /\ before <= Len(items)
  /\ given \in [failed : SUBSET Nat, shed : SUBSET Nat] /\ IsFiniteSet(given.shed)

\* The items, those in the two queues, in the post, still to be posted, received, given up and
\* shed: a record is queued until it is taken, and nothing that was shed is anywhere else.
Books(N, L, T, B, P, R, F, S) ==
  /\ N = L \cup T \cup B \cup P \cup R \cup F \cup S
  /\ S \cap (L \cup T \cup B \cup P \cup R) = {}
  /\ L \cap (T \cup B \cup P \cup R) = {}

ItemBooks ==
  Books(DOMAIN items, ToSet(logs), ToSet(traces), post.body, UNION posts, DOMAIN received,
        given.failed, given.shed)

\* Between flushes nothing is being posted; and the flush of the shutdown leaves in a queue it
\* has taken only what came later.
FlushPlace ==
  /\ loop \in {"waiting", "ended"} => agenda = <<>> /\ posts = {} /\ post = NoPost
  /\ loop \in {"last", "ended"} =>
       /\ stopping > 0
       /\ agenda \in {<<"traces">>, <<>>} => ToSet(logs) \cap (1 .. before) = {}
       /\ agenda = <<>> => ToSet(traces) \cap (1 .. before) = {}

\* ItemsArriveOrAreCounted as an inductive invariant.
OtlpInv ==
  /\ OtlpType /\ ItemBooks /\ FlushPlace
  /\ dropped.logs + dropped.traces = Cardinality(given.shed)
  /\ \A i \in ToSet(traces) : items[i].signal \in {"traces", "logs", "metrics"}
  /\ \A i \in DOMAIN received : received[i] = Enriched(i)


LEMMA OtlpParameters ==
  /\ MaxBatch \in Nat /\ MaxBatch > 0 /\ MaxItems \in Nat
  /\ \A p \in Payloads \cup {LogRecord} :
       p.signal \in {"record", "traces", "logs", "metrics"} /\ p.json \in BOOLEAN
  /\ \A p \in Payloads : p.signal \in {"traces", "logs", "metrics"}
<1>1. LogRecord.signal = "record" /\ LogRecord.json \in BOOLEAN
  BY DEF LogRecord
<1> QED
  BY <1>1, OtlpAssumption

LEMMA OtlpUnchanged == ASSUME OtlpInv, UNCHANGED otlpVars PROVE OtlpInv'
<1>1. \A i : Enriched(i)' = Enriched(i)
  BY DEF otlpVars, Enriched
<1> QED
  BY <1>1 DEF OtlpInv, OtlpType, ItemBooks, FlushPlace, Books, otlpVars

\* A queue, and one item more.
LEMMA Queued ==
  ASSUME NEW q \in Seq(Nat), NEW n \in Nat
  PROVE  /\ Append(q, n) \in Seq(Nat) /\ ToSet(Append(q, n)) = ToSet(q) \cup {n}
         /\ ToSet(q) \subseteq Nat /\ ToSet(<<>>) = {} /\ <<>> \in Seq(Nat)
<1> DEFINE r == Append(q, n)
<1>1. /\ r \in Seq(Nat) /\ Len(r) = Len(q) + 1 /\ Len(q) \in Nat
      /\ \A i \in 1 .. Len(q) : r[i] = q[i]
      /\ r[Len(q) + 1] = n
  BY AppendProperties
<1>2. DOMAIN r = 1 .. Len(q) + 1 /\ DOMAIN q = 1 .. Len(q)
  BY <1>1
<1>3. /\ \A i \in 1 .. Len(q) + 1 : i \in 1 .. Len(q) \/ i = Len(q) + 1
      /\ 1 .. Len(q) \subseteq 1 .. Len(q) + 1 /\ Len(q) + 1 \in 1 .. Len(q) + 1
  BY <1>1
<1> HIDE DEF r
<1>4. ToSet(r) = ToSet(q) \cup {n}
  BY <1>1, <1>2, <1>3 DEF ToSet
<1>5. ToSet(q) \subseteq Nat
  BY <1>2, ElementOfSeq DEF ToSet
<1>6. ToSet(<<>>) = {}
  BY DEF ToSet
<1> QED
  BY <1>1, <1>4, <1>5, <1>6 DEF r

-----------------------------------------------------------------------------
(* The producers. *)

\* A new item has the next number, and nothing is changed of the others.
LEMMA ItemEmitted ==
  ASSUME OtlpInv, NEW p \in Payloads \cup {LogRecord}, items' = Append(items, p),
         received' = received
  PROVE  LET n == Len(items) + 1 IN
         /\ items' \in Seq(Payloads \cup {LogRecord}) /\ Len(items') = n
         /\ DOMAIN items' = DOMAIN items \cup {n} /\ n \notin DOMAIN items
         /\ n \in Nat /\ before <= Len(items') /\ n \notin 1 .. before
         /\ items'[n] = p /\ \A i \in DOMAIN items : items'[i] = items[i]
         /\ \A i \in DOMAIN received : received'[i] = Enriched(i)'
<1> DEFINE n == Len(items) + 1
<1>1. items \in Seq(Payloads \cup {LogRecord}) /\ before \in Nat /\ before <= Len(items)
  BY DEF OtlpInv, OtlpType
<1>2. /\ items' \in Seq(Payloads \cup {LogRecord}) /\ Len(items') = n /\ Len(items) \in Nat
      /\ \A i \in 1 .. Len(items) : items'[i] = items[i]
      /\ items'[n] = p
  BY <1>1, AppendProperties
<1>3. DOMAIN items = 1 .. Len(items) /\ DOMAIN items' = 1 .. Len(items')
  BY <1>1, <1>2
<1>4. /\ DOMAIN items' = DOMAIN items \cup {n} /\ n \notin DOMAIN items
      /\ n \in Nat /\ before <= Len(items') /\ n \notin 1 .. before
  BY <1>1, <1>2, <1>3
<1>5. DOMAIN received \subseteq DOMAIN items
  BY DEF OtlpInv, ItemBooks, Books
<1>6. \A i \in DOMAIN items : Enriched(i)' = Enriched(i)
  BY <1>2, <1>3 DEF Enriched
<1> QED
  BY <1>2, <1>3, <1>4, <1>5, <1>6 DEF OtlpInv

\* An item that is shed is counted.
LEMMA ItemShed ==
  ASSUME OtlpInv, NEW n \in Nat, n \notin DOMAIN items,
         given' = [given EXCEPT !.shed = @ \cup {n}],
         \/ dropped' = [dropped EXCEPT !.logs = @ + 1]
         \/ dropped' = [dropped EXCEPT !.traces = @ + 1]
  PROVE  /\ given' \in [failed : SUBSET Nat, shed : SUBSET Nat] /\ IsFiniteSet(given'.shed)
         /\ given'.shed = given.shed \cup {n} /\ given'.failed = given.failed
         /\ dropped' \in [logs : Nat, traces : Nat]
         /\ dropped'.logs + dropped'.traces = Cardinality(given'.shed)
<1>1. /\ given \in [failed : SUBSET Nat, shed : SUBSET Nat] /\ IsFiniteSet(given.shed)
      /\ dropped \in [logs : Nat, traces : Nat]
      /\ dropped.logs + dropped.traces = Cardinality(given.shed)
  BY DEF OtlpInv, OtlpType
<1>2. n \notin given.shed
  BY DEF OtlpInv, ItemBooks, Books
<1>3. /\ IsFiniteSet(given.shed \cup {n})
      /\ Cardinality(given.shed \cup {n}) = Cardinality(given.shed) + 1
      /\ Cardinality(given.shed) \in Nat
  BY <1>1, <1>2, FS_AddElement, FS_CardinalityType
<1>4. /\ given' \in [failed : SUBSET Nat, shed : SUBSET Nat]
      /\ given'.shed = given.shed \cup {n} /\ given'.failed = given.failed
  BY <1>1
<1>5. /\ dropped' \in [logs : Nat, traces : Nat]
      /\ dropped'.logs + dropped'.traces = dropped.logs + dropped.traces + 1
  <2>1. CASE dropped' = [dropped EXCEPT !.logs = @ + 1]
    BY <1>1, <2>1
  <2>2. CASE dropped' = [dropped EXCEPT !.traces = @ + 1]
    BY <1>1, <2>2
  <2> QED
    BY <2>1, <2>2
<1> QED
  BY <1>1, <1>3, <1>4, <1>5

LEMMA EmitLogKeeps == ASSUME OtlpInv, EmitLog PROVE OtlpInv'
<1> DEFINE n == Len(items) + 1
<1>1. /\ items' = Append(items, LogRecord) /\ received' = received
      /\ UNCHANGED <<traces, loop, agenda, posts, post, stopping, before>>
  BY DEF EmitLog
<1>2. /\ items' \in Seq(Payloads \cup {LogRecord})
      /\ DOMAIN items' = DOMAIN items \cup {n} /\ n \notin DOMAIN items
      /\ n \in Nat /\ before <= Len(items') /\ n \notin 1 .. before
      /\ \A i \in DOMAIN items : items'[i] = items[i]
      /\ \A i \in DOMAIN received : received'[i] = Enriched(i)'
  BY <1>1, ItemEmitted
<1>3. ToSet(traces) \subseteq DOMAIN items /\ ToSet(traces)' = ToSet(traces)
  BY <1>1 DEF OtlpInv, ItemBooks, Books
<1>4. \A i \in ToSet(traces)' : items'[i].signal \in {"traces", "logs", "metrics"}
  BY <1>2, <1>3 DEF OtlpInv
<1>5. CASE Len(logs) >= MaxBatch * 2
  <2>1. /\ dropped' = [dropped EXCEPT !.logs = @ + 1] /\ logs' = logs
        /\ given' = [given EXCEPT !.shed = @ \cup {n}]
    BY <1>5 DEF EmitLog, Shed
  <2> HIDE DEF n
  <2>2. /\ given' \in [failed : SUBSET Nat, shed : SUBSET Nat] /\ IsFiniteSet(given'.shed)
        /\ given'.shed = given.shed \cup {n} /\ given'.failed = given.failed
        /\ dropped' \in [logs : Nat, traces : Nat]
        /\ dropped'.logs + dropped'.traces = Cardinality(given'.shed)
    BY <1>2, <2>1, ItemShed
  <2>3. ItemBooks'
    BY <1>1, <1>2, <1>3, <2>1, <2>2 DEF OtlpInv, ItemBooks, Books
  <2>4. OtlpType' /\ FlushPlace'
    BY <1>1, <1>2, <2>1, <2>2 DEF OtlpInv, OtlpType, FlushPlace
  <2> QED
    BY <1>1, <1>2, <1>4, <2>2, <2>3, <2>4 DEF OtlpInv
<1>6. CASE ~(Len(logs) >= MaxBatch * 2)
  <2>1. logs' = Append(logs, n) /\ dropped' = dropped /\ given' = given
    BY <1>6 DEF EmitLog
  <2> HIDE DEF n
  <2>2. logs' \in Seq(Nat) /\ ToSet(logs') = ToSet(logs) \cup {n}
    BY <1>2, <2>1, Queued DEF OtlpInv, OtlpType
  <2>3. ItemBooks'
    BY <1>1, <1>2, <1>3, <2>1, <2>2 DEF OtlpInv, ItemBooks, Books
  <2>4. OtlpType' /\ FlushPlace'
    BY <1>1, <1>2, <2>1, <2>2 DEF OtlpInv, OtlpType, FlushPlace
  <2> QED
    BY <1>1, <1>2, <1>4, <2>1, <2>3, <2>4 DEF OtlpInv
<1> QED
  BY <1>5, <1>6

LEMMA IngestTracesKeeps == ASSUME OtlpInv, IngestTraces PROVE OtlpInv'
<1> DEFINE n == Len(items) + 1
<1>1. /\ received' = received
      /\ UNCHANGED <<logs, loop, agenda, posts, post, stopping, before>>
  BY DEF IngestTraces
<1>2. PICK p \in Payloads : items' = Append(items, p)
  BY DEF IngestTraces
<1>3. /\ items' \in Seq(Payloads \cup {LogRecord})
      /\ DOMAIN items' = DOMAIN items \cup {n} /\ n \notin DOMAIN items
      /\ n \in Nat /\ before <= Len(items') /\ n \notin 1 .. before
      /\ items'[n] = p /\ \A i \in DOMAIN items : items'[i] = items[i]
      /\ \A i \in DOMAIN received : received'[i] = Enriched(i)'
  BY <1>1, <1>2, ItemEmitted
<1>4. /\ ToSet(traces) \subseteq DOMAIN items /\ ToSet(logs)' = ToSet(logs)
      /\ ToSet(logs) \subseteq DOMAIN items
  BY <1>1 DEF OtlpInv, ItemBooks, Books
<1>5. CASE Len(traces) >= MaxBatch
  <2>1. /\ dropped' = [dropped EXCEPT !.traces = @ + 1] /\ traces' = traces
        /\ given' = [given EXCEPT !.shed = @ \cup {n}]
    BY <1>5 DEF IngestTraces, Shed
  <2> HIDE DEF n
  <2>2. /\ given' \in [failed : SUBSET Nat, shed : SUBSET Nat] /\ IsFiniteSet(given'.shed)
        /\ given'.shed = given.shed \cup {n} /\ given'.failed = given.failed
        /\ dropped' \in [logs : Nat, traces : Nat]
        /\ dropped'.logs + dropped'.traces = Cardinality(given'.shed)
    BY <1>3, <2>1, ItemShed
  <2>3. ItemBooks'
    BY <1>1, <1>3, <1>4, <2>1, <2>2 DEF OtlpInv, ItemBooks, Books
  <2>4. OtlpType' /\ FlushPlace'
    BY <1>1, <1>3, <2>1, <2>2 DEF OtlpInv, OtlpType, FlushPlace
  <2>5. \A i \in ToSet(traces)' : items'[i].signal \in {"traces", "logs", "metrics"}
    BY <1>3, <1>4, <2>1 DEF OtlpInv
  <2> QED
    BY <1>1, <1>3, <2>2, <2>3, <2>4, <2>5 DEF OtlpInv
<1>6. CASE ~(Len(traces) >= MaxBatch)
  <2>1. traces' = Append(traces, n) /\ dropped' = dropped /\ given' = given
    BY <1>6 DEF IngestTraces
  <2> HIDE DEF n
  <2>2. traces' \in Seq(Nat) /\ ToSet(traces') = ToSet(traces) \cup {n}
    BY <1>3, <2>1, Queued DEF OtlpInv, OtlpType
  <2>3. ItemBooks'
    BY <1>1, <1>3, <1>4, <2>1, <2>2 DEF OtlpInv, ItemBooks, Books
  <2>4. OtlpType' /\ FlushPlace'
    BY <1>1, <1>3, <2>1, <2>2 DEF OtlpInv, OtlpType, FlushPlace
  <2>5. \A i \in ToSet(traces)' : items'[i].signal \in {"traces", "logs", "metrics"}
    BY <1>3, <1>4, <2>2, OtlpParameters DEF OtlpInv
  <2> QED
    BY <1>1, <1>3, <2>1, <2>3, <2>4, <2>5 DEF OtlpInv
<1> QED
  BY <1>5, <1>6

-----------------------------------------------------------------------------
(* The flush. *)

LEMMA AgendaSteps ==
  /\ \A a \in Agendas : a # <<>> => Tail(a) \in Agendas
  /\ \A a \in Agendas : a # <<>> /\ Head(a) = "metrics" => Tail(a) = <<"logs", "traces">>
  /\ \A a \in Agendas : a # <<>> /\ Head(a) = "logs" => a = <<"logs", "traces">> /\ Tail(a) = <<"traces">>
  /\ \A a \in Agendas : a # <<>> /\ Head(a) = "traces" => a = <<"traces">> /\ Tail(a) = <<>>
  /\ <<"metrics", "logs", "traces">> \in Agendas
  /\ <<"metrics", "logs", "traces">> \notin {<<"traces">>, <<>>}
  /\ <<"logs", "traces">> \notin {<<"traces">>, <<>>} /\ <<"traces">> # <<>>
  BY DEF Agendas

LEMMA FlushStartsKeeps == ASSUME OtlpInv, FlushStarts PROVE OtlpInv'
<1>1. /\ loop = "waiting" /\ (loop' = "flushing" \/ (stopping > 0 /\ loop' = "last"))
      /\ agenda' = <<"metrics", "logs", "traces">>
      /\ UNCHANGED <<items, logs, traces, dropped, posts, post, stopping, before, received, given>>
  BY DEF FlushStarts
<1>2. \A i : Enriched(i)' = Enriched(i)
  BY <1>1 DEF Enriched
<1>3. FlushPlace'
  BY <1>1, AgendaSteps DEF FlushPlace
<1>4. OtlpType' /\ ItemBooks'
  BY <1>1, AgendaSteps DEF OtlpInv, OtlpType, ItemBooks
<1> QED
  BY <1>1, <1>2, <1>3, <1>4 DEF OtlpInv

LEMMA ExportMetricsKeeps == ASSUME OtlpInv, ExportMetrics PROVE OtlpInv'
<1>1. /\ loop \in {"flushing", "last"} /\ posts = {} /\ posts' = {{}}
      /\ agenda' = <<"logs", "traces">>
      /\ UNCHANGED <<items, logs, traces, dropped, loop, post, stopping, before, received, given>>
  BY AgendaSteps DEF ExportMetrics, Between, OtlpInv, OtlpType
<1>2. \A i : Enriched(i)' = Enriched(i)
  BY <1>1 DEF Enriched
<1>3. FlushPlace'
  BY <1>1, AgendaSteps DEF OtlpInv, FlushPlace
<1>4. UNION posts = {} /\ UNION posts' = {}
  BY <1>1
<1>5. OtlpType' /\ ItemBooks'
  BY <1>1, <1>4 DEF OtlpInv, OtlpType, ItemBooks, Agendas
<1> QED
  BY <1>1, <1>2, <1>3, <1>5 DEF OtlpInv

LEMMA ExportLogsKeeps == ASSUME OtlpInv, ExportLogs PROVE OtlpInv'
<1> DEFINE batch == {logs[n] : n \in DOMAIN logs \cap (1 .. MaxBatch)}
           cut == ToSet(logs) \ batch
<1>1. /\ loop \in {"flushing", "last"} /\ posts = {} /\ post = NoPost
      /\ agenda' = <<"traces">> /\ logs' = <<>> /\ posts' = {batch} \ {{}}
      /\ dropped' = [dropped EXCEPT !.logs = @ + Cardinality(cut)]
      /\ given' = [given EXCEPT !.shed = @ \cup cut]
      /\ UNCHANGED <<items, traces, loop, post, stopping, before, received>>
  BY AgendaSteps DEF ExportLogs, Between, OtlpInv, OtlpType, CutCounted, Shed
<1>2. logs \in Seq(Nat) /\ ToSet(logs) \subseteq Nat /\ ToSet(logs') = {} /\ logs' \in Seq(Nat)
  <2>1. logs \in Seq(Nat)
    BY DEF OtlpInv, OtlpType
  <2> QED
    BY <1>1, <2>1, Queued
<1>3. batch \subseteq ToSet(logs)
  BY DEF ToSet
<1>4. IsFiniteSet(ToSet(logs))
  <2>1. ToSet(logs) = {logs[i] : i \in DOMAIN logs} /\ DOMAIN logs = 1 .. Len(logs) /\ Len(logs) \in Nat
    BY <1>2 DEF ToSet
  <2>2. ToSet(logs) = Range(logs) /\ IsFiniteSet(DOMAIN logs)
    BY <2>1, FS_Interval DEF Range
  <2> DEFINE D == DOMAIN logs
  <2>3. logs \in Surjection(D, ToSet(logs))
    <3>1. logs \in [D -> ToSet(logs)]
      <4>1. logs = [n \in D |-> logs[n]]
        BY <1>2
      <4>2. \A n \in D : logs[n] \in ToSet(logs)
        BY <2>1
      <4> QED
        BY <4>1, <4>2
    <3>2. \A t \in ToSet(logs) : \E n \in D : logs[n] = t
      BY <2>1
    <3> QED
      BY <3>1, <3>2 DEF Surjection
  <2> QED
    BY <2>2, <2>3, FS_Surjection DEF ExistsSurjection
<1>5. cut \subseteq ToSet(logs) /\ batch \cup cut = ToSet(logs) /\ batch \cap cut = {}
  BY <1>3
<1> HIDE DEF batch, cut
<1>6. IsFiniteSet(cut) /\ Cardinality(cut) \in Nat
  BY <1>4, <1>5, FS_Subset, FS_CardinalityType
<1>7. /\ given \in [failed : SUBSET Nat, shed : SUBSET Nat] /\ IsFiniteSet(given.shed)
      /\ dropped \in [logs : Nat, traces : Nat] /\ given.shed \cap cut = {}
      /\ dropped.logs + dropped.traces = Cardinality(given.shed)
  BY <1>5 DEF OtlpInv, OtlpType, ItemBooks, Books
<1>8. /\ IsFiniteSet(given.shed \cup cut)
      /\ Cardinality(given.shed \cup cut) = Cardinality(given.shed) + Cardinality(cut)
  <2>1. /\ IsFiniteSet(given.shed \cup cut)
        /\ Cardinality(given.shed \cup cut) =
             Cardinality(given.shed) + Cardinality(cut) - Cardinality(given.shed \cap cut)
    BY <1>6, <1>7, FS_Union
  <2>2. Cardinality(given.shed \cap cut) = 0 /\ Cardinality(given.shed) \in Nat
    <3>1. given.shed \cap cut = {}
      BY <1>7
    <3>2. Cardinality({}) = 0
      BY FS_EmptySet
    <3>3. Cardinality(given.shed) \in Nat
      BY <1>7, FS_CardinalityType
    <3> QED
      BY <3>1, <3>2, <3>3
  <2> QED
    BY <1>6, <1>7, <2>1, <2>2
<1>9. /\ given' \in [failed : SUBSET Nat, shed : SUBSET Nat]
      /\ given'.shed = given.shed \cup cut /\ given'.failed = given.failed
  BY <1>1, <1>2, <1>5, <1>7
<1>10. /\ dropped' \in [logs : Nat, traces : Nat]
       /\ dropped'.logs + dropped'.traces = dropped.logs + dropped.traces + Cardinality(cut)
  <2> DEFINE c == Cardinality(cut)
  <2>1. c \in Nat /\ dropped' = [dropped EXCEPT !.logs = @ + c]
    BY <1>1, <1>6
  <2> HIDE DEF c
  <2>2. /\ dropped' \in [logs : Nat, traces : Nat]
        /\ dropped'.logs + dropped'.traces = dropped.logs + dropped.traces + c
    BY <1>7, <2>1
  <2> QED
    BY <2>2 DEF c
<1>11. dropped'.logs + dropped'.traces = Cardinality(given'.shed)
  BY <1>7, <1>8, <1>9, <1>10
<1>12. UNION posts = {} /\ UNION posts' = batch /\ post.body = {} /\ batch \subseteq Nat
  BY <1>1, <1>2, <1>5 DEF NoPost
<1>13. ItemBooks'
  BY <1>1, <1>2, <1>5, <1>9, <1>12 DEF OtlpInv, ItemBooks, Books
<1>14. OtlpType'
  BY <1>1, <1>2, <1>8, <1>9, <1>10, <1>12 DEF OtlpInv, OtlpType, Agendas
<1>15. FlushPlace'
  BY <1>1, <1>2, AgendaSteps DEF OtlpInv, FlushPlace
<1>16. \A i : Enriched(i)' = Enriched(i)
  BY <1>1 DEF Enriched
<1> QED
  BY <1>1, <1>11, <1>13, <1>14, <1>15, <1>16 DEF OtlpInv

LEMMA ExportTracesKeeps == ASSUME OtlpInv, ExportTraces PROVE OtlpInv'
<1> DEFINE Signal(signal) == {i \in ToSet(traces) : items[i].signal = signal}
<1>1. /\ loop \in {"flushing", "last"} /\ posts = {} /\ post = NoPost
      /\ agenda = <<"traces">> /\ agenda' = <<>> /\ traces' = <<>>
      /\ posts' = ({Signal("traces")} \ {{}}) \cup {{i} : i \in Signal("logs") \cup Signal("metrics")}
      /\ UNCHANGED <<items, logs, dropped, loop, post, stopping, before, received, given>>
  BY AgendaSteps DEF ExportTraces, Between, OtlpInv, OtlpType
<1>2. ToSet(traces) \subseteq Nat /\ ToSet(traces') = {} /\ traces' \in Seq(Nat)
  <2>1. traces \in Seq(Nat)
    BY DEF OtlpInv, OtlpType
  <2> QED
    BY <1>1, <2>1, Queued
<1>3. ToSet(traces) = Signal("traces") \cup Signal("logs") \cup Signal("metrics")
  BY DEF OtlpInv
<1> HIDE DEF Signal
<1>4. UNION posts = {} /\ UNION posts' = ToSet(traces) /\ post.body = {}
  BY <1>1, <1>3 DEF NoPost
<1>5. posts' \subseteq SUBSET Nat
  BY <1>2, <1>4
<1>6. ItemBooks'
  BY <1>1, <1>2, <1>4 DEF OtlpInv, ItemBooks, Books
<1>7. OtlpType'
  BY <1>1, <1>2, <1>5 DEF OtlpInv, OtlpType, Agendas
<1>8. FlushPlace'
  BY <1>1, <1>2, AgendaSteps DEF OtlpInv, FlushPlace
<1>9. \A i : Enriched(i)' = Enriched(i)
  BY <1>1 DEF Enriched
<1> QED
  BY <1>1, <1>2, <1>6, <1>7, <1>8, <1>9 DEF OtlpInv

LEMMA FlushEndsKeeps == ASSUME OtlpInv, FlushEnds PROVE OtlpInv'
<1>1. /\ loop \in {"flushing", "last"} /\ posts = {} /\ post = NoPost /\ agenda = <<>>
      /\ loop' = (IF loop = "last" THEN "ended" ELSE "waiting")
      /\ UNCHANGED <<items, logs, traces, dropped, agenda, posts, post, stopping, before, received, given>>
  BY DEF FlushEnds, Between, AfterFlush
<1>2. \A i : Enriched(i)' = Enriched(i)
  BY <1>1 DEF Enriched
<1>3. FlushPlace'
  BY <1>1 DEF OtlpInv, FlushPlace
<1>4. OtlpType' /\ ItemBooks'
  BY <1>1 DEF OtlpInv, OtlpType, ItemBooks
<1> QED
  BY <1>1, <1>2, <1>3, <1>4 DEF OtlpInv

-----------------------------------------------------------------------------
(* The post, and Shutdown. *)

LEMMA PostStartsKeeps == ASSUME OtlpInv, PostStarts PROVE OtlpInv'
<1>1. PICK b \in posts : post' = [body |-> b, attempt |-> 1] /\ posts' = posts \ {b}
  BY DEF PostStarts
<1>2. /\ post = NoPost
      /\ UNCHANGED <<items, logs, traces, dropped, loop, agenda, stopping, before, received, given>>
  BY DEF PostStarts
<1>3. /\ post'.body = b /\ post.body = {} /\ UNION posts = b \cup UNION posts'
      /\ b \subseteq Nat /\ post' \in [body : SUBSET Nat, attempt : Nat]
  BY <1>1, <1>2 DEF NoPost, OtlpInv, OtlpType
<1>4. ItemBooks'
  BY <1>2, <1>3 DEF OtlpInv, ItemBooks, Books
<1>5. OtlpType'
  BY <1>1, <1>2, <1>3 DEF OtlpInv, OtlpType
<1>6. FlushPlace'
  BY <1>1, <1>2 DEF OtlpInv, FlushPlace
<1>7. \A i : Enriched(i)' = Enriched(i)
  BY <1>2 DEF Enriched
<1> QED
  BY <1>2, <1>4, <1>5, <1>6, <1>7 DEF OtlpInv

\* What an answer does to the books: the collector has the body or not, and it is given up,
\* tried again or done with.
LEMMA PostAnswered ==
  ASSUME OtlpInv, post # NoPost,
         UNCHANGED <<items, logs, traces, dropped, loop, agenda, posts, stopping, before>>,
         Takes(post.body) \/ received' = received,
         \/ post' = NoPost /\ NoteFailure
         \/ post' = NoPost /\ given' = given /\ Takes(post.body)
         \/ post' = [post EXCEPT !.attempt = @ + 1] /\ given' = given
  PROVE  OtlpInv'
<1>1. /\ post \in [body : SUBSET Nat, attempt : Nat]
      /\ given \in [failed : SUBSET Nat, shed : SUBSET Nat] /\ loop \notin {"waiting", "ended"}
  BY DEF OtlpInv, OtlpType, FlushPlace
<1>2. /\ DOMAIN received \subseteq DOMAIN received'
      /\ DOMAIN received' \subseteq DOMAIN received \cup post.body
      /\ \A i \in DOMAIN received' : received'[i] = Enriched(i)
      /\ Takes(post.body) => DOMAIN received' = DOMAIN received \cup post.body
  <2>1. CASE Takes(post.body)
    BY <2>1 DEF Takes, OtlpInv
  <2>2. CASE received' = received /\ ~Takes(post.body)
    BY <2>2 DEF OtlpInv
  <2> QED
    BY <2>1, <2>2
<1>3. /\ post' \in [body : SUBSET Nat, attempt : Nat] /\ given' \in [failed : SUBSET Nat, shed : SUBSET Nat]
      /\ given'.shed = given.shed /\ post'.body \subseteq post.body
      /\ given.failed \subseteq given'.failed /\ given'.failed \subseteq given.failed \cup post.body
      /\ post.body \subseteq post'.body \cup given'.failed \cup DOMAIN received'
  <2>1. CASE post' = NoPost /\ NoteFailure
    BY <1>1, <2>1 DEF NoPost, NoteFailure
  <2>2. CASE post' = NoPost /\ given' = given /\ Takes(post.body)
    BY <1>1, <1>2, <2>2 DEF NoPost
  <2>3. CASE post' = [post EXCEPT !.attempt = @ + 1] /\ given' = given
    BY <1>1, <2>3
  <2> QED
    BY <2>1, <2>2, <2>3
<1>4. ItemBooks'
  BY <1>2, <1>3 DEF OtlpInv, ItemBooks, Books
<1>5. OtlpType'
  BY <1>3 DEF OtlpInv, OtlpType
<1>6. FlushPlace'
  BY <1>1 DEF OtlpInv, FlushPlace
<1>7. \A i : Enriched(i)' = Enriched(i)
  BY DEF Enriched
<1> QED
  BY <1>2, <1>3, <1>4, <1>5, <1>6, <1>7 DEF OtlpInv

LEMMA AnswersKeep == ASSUME OtlpInv, Accepted \/ Rejected \/ FailsOnce PROVE OtlpInv'
<1>1. CASE Accepted
  BY <1>1, PostAnswered DEF Accepted
<1>2. CASE Rejected
  BY <1>2, PostAnswered DEF Rejected, NoteFailure
<1>3. CASE FailsOnce
  <2>1. \/ post' = NoPost /\ NoteFailure
        \/ post' = [post EXCEPT !.attempt = @ + 1] /\ given' = given
    BY <1>3 DEF FailsOnce, NoteFailure
  <2> QED
    BY <1>3, <2>1, PostAnswered DEF FailsOnce
<1> QED
  BY <1>1, <1>2, <1>3

LEMMA ShutdownKeeps == ASSUME OtlpInv, Shutdown \/ ShutdownGivesUp PROVE OtlpInv'
<1>1. UNCHANGED <<items, logs, traces, dropped, loop, agenda, posts, post, received, given>>
  BY DEF Shutdown, ShutdownGivesUp
<1>2. /\ stopping' \in 0 .. 2 /\ stopping' > 0 /\ before' \in Nat /\ before' <= Len(items)
      /\ stopping > 0 => before' = before
  BY DEF Shutdown, ShutdownGivesUp, OtlpInv, OtlpType
<1>3. FlushPlace'
  BY <1>1, <1>2 DEF OtlpInv, OtlpType, FlushPlace
<1>4. OtlpType' /\ ItemBooks'
  BY <1>1, <1>2 DEF OtlpInv, OtlpType, ItemBooks
<1>5. \A i : Enriched(i)' = Enriched(i)
  BY <1>1 DEF Enriched
<1> QED
  BY <1>1, <1>3, <1>4, <1>5 DEF OtlpInv

LEMMA OtlpStarts == OtlpInit => OtlpInv
<1> SUFFICES ASSUME OtlpInit PROVE OtlpInv
  OBVIOUS
<1>1. /\ items = <<>> /\ logs = <<>> /\ traces = <<>> /\ dropped = [logs |-> 0, traces |-> 0]
      /\ loop = "waiting" /\ agenda = <<>> /\ posts = {} /\ post = [body |-> {}, attempt |-> 0]
      /\ stopping = 0 /\ before = 0 /\ received = [i \in {} |-> {}]
      /\ given = [failed |-> {}, shed |-> {}] /\ post = NoPost
  BY DEF OtlpInit, NoPost
<1>2. /\ <<>> \in Seq(Nat) /\ <<>> \in Seq(Payloads \cup {LogRecord}) /\ Len(<<>>) = 0
      /\ ToSet(<<>>) = {} /\ DOMAIN <<>> = {} /\ UNION {} = {}
      /\ IsFiniteSet({}) /\ Cardinality({}) = 0
  BY EmptySeq, FS_EmptySet DEF ToSet
<1>3. OtlpType
  BY <1>1, <1>2 DEF OtlpType, Agendas
<1>4. ItemBooks
  BY <1>1, <1>2 DEF ItemBooks, Books
<1>5. FlushPlace
  BY <1>1 DEF FlushPlace
<1> QED
  BY <1>1, <1>2, <1>3, <1>4, <1>5 DEF OtlpInv

\* What an application says of itself stands, once a post has merged the agent's resource.
LEMMA MergedStands == OtlpInv => SendersStand
<1> SUFFICES ASSUME OtlpInv, NEW i \in DOMAIN received
             PROVE  /\ \A a \in DOMAIN items[i].attrs :
                         \/ items[i].json /\ items[i].attrs[a] = "number"
                         \/ received[i][a] = items[i].attrs[a]
                    /\ items[i].signal = "traces" => Attribute \subseteq DOMAIN received[i]
  BY DEF SendersStand
<1> DEFINE p == items[i]
           text == TracesJSONToProto(p.attrs)
<1>1. received[i] = Enriched(i)
  BY DEF OtlpInv
<1>2. \A f : /\ DOMAIN Merged(f) = Attribute \cup DOMAIN f
             /\ \A a \in DOMAIN f : Merged(f)[a] = f[a]
  BY DEF Merged
<1>3. /\ DOMAIN text = {a \in DOMAIN p.attrs : p.attrs[a] # "number"}
      /\ \A a \in DOMAIN text : text[a] = p.attrs[a]
  BY DEF TracesJSONToProto, Restrict
<1> HIDE DEF text
<1>4. CASE p.signal = "traces"
  <2>1. received[i] = Merged(IF p.json THEN text ELSE p.attrs)
    BY <1>1, <1>4 DEF Enriched, text
  <2>2. CASE p.json
    <3>1. received[i] = Merged(text)
      BY <2>1, <2>2
    <3>2. /\ DOMAIN received[i] = Attribute \cup DOMAIN text
          /\ \A a \in DOMAIN text : received[i][a] = text[a]
      BY <1>2, <3>1
    <3> QED
      BY <1>3, <2>2, <3>2
  <2>3. CASE ~p.json
    BY <1>2, <2>1, <2>3
  <2> QED
    BY <2>2, <2>3
<1>5. CASE p.signal # "traces"
  <2>1. received[i] = Merged(p.attrs) \/ received[i] = p.attrs
    BY <1>1, <1>5 DEF Enriched
  <2> QED
    BY <1>2, <1>5, <2>1
<1> QED
  BY <1>4, <1>5

\* Whatever a module or an application hands to the OTLP exporter waits, arrives as its sender
\* said it, or is counted as shed or given up; and the flush of a shutdown leaves nothing of
\* what came before it: for every batch size, number of attempts and choice of payloads.
THEOREM NothingIsLostUncounted == OtlpInit /\ [][OtlpNext]_otlpVars => []ItemsArriveOrAreCounted
<1>1. OtlpInv /\ [OtlpNext]_otlpVars => OtlpInv'
  BY OtlpUnchanged, EmitLogKeeps, IngestTracesKeeps, FlushStartsKeeps, ExportMetricsKeeps,
     ExportLogsKeeps, ExportTracesKeeps, FlushEndsKeeps, PostStartsKeeps, AnswersKeep, ShutdownKeeps
     DEF OtlpNext
<1>2. OtlpInv => ItemsArriveOrAreCounted
  <2> SUFFICES ASSUME OtlpInv PROVE NothingIsForgotten
    BY MergedStands DEF ItemsArriveOrAreCounted
  <2>1. loop = "ended" => UNION posts = {} /\ post.body = {} /\ agenda = <<>>
    BY DEF OtlpInv, FlushPlace, NoPost
  <2>2. loop = "ended" => Waiting \cap (1 .. before) = {}
    BY <2>1 DEF OtlpInv, FlushPlace, Waiting
  <2> QED
    BY <2>2 DEF OtlpInv, ItemBooks, Books, NothingIsForgotten, Waiting
<1> QED
  BY <1>1, <1>2, OtlpStarts, PTL

-----------------------------------------------------------------------------
(* The intake. *)

\* A host's row: counted, and what has a ring is held, and of a class that has a budget.
RowInv(h) ==
  /\ h \in HostRecord
  /\ \A k \in Key : h.series[k].history # <<>> => h.series[k].seen # 0 /\ Kind[k] # "unchartable"
  /\ h.core = Cardinality(OfClass(Charted(h), "core")) /\ h.core <= HistorySeries
  /\ h.extra = Cardinality(OfClass(Charted(h), "extra")) /\ h.extra <= HistorySeriesExtra
  /\ h.known \/ Charted(h) = {}

\* A batch is folded into a host that has a row.
FoldingInv ==
  Free \/ /\ folding \in [batch : Batches, todo : SUBSET Key]
          /\ hosts[folding.batch.host].known

StoreInv ==
  /\ now \in Nat
  /\ sent \subseteq Batches
  /\ handlers \subseteq [batch : Batches, at : Nat]
  /\ FoldingInv
  /\ hosts \in [Host -> HostRecord]
  /\ \A h \in Host : RowInv(hosts[h])

\* The limits of the store as the provers need them, taken from StoreAssumption.
LEMMA LimitsPositive ==
  /\ Hosts \in Nat /\ SeriesPerHost \in Nat /\ HistoryPoints \in Nat /\ HistoryPoints > 0
  /\ HistorySeries \in Nat /\ HistorySeriesExtra \in Nat /\ SeriesStaleAfter \in Nat
BY StoreAssumption DEF Limits

\* The classes part the series: what is not in the one budget is in the other.
LEMMA ClassOfKind ==
  ASSUME NEW k \in Key, Kind[k] # "unchartable"
  PROVE  /\ ChartClassOf(k) \in {"core", "extra"}
         /\ ChartClassOf(k) = "extra" <=> Kind[k] = "extra"
BY StoreAssumption DEF ChartClassOf

\* The sets of series of a row are finite.
LEMMA RowFinite ==
  ASSUME NEW S \in SUBSET Key
  PROVE  IsFiniteSet(S) /\ Cardinality(S) \in Nat
BY StoreAssumption, FS_Subset, FS_CardinalityType

\* An empty row is counted.
LEMMA NoHostRow ==
  /\ RowInv(NoHost) /\ RowInv(NewHost)
  /\ NewHost.known /\ Charted(NewHost) = {}
<1>1. NoSeries \in SeriesRecord
  BY DEF NoSeries, SeriesRecord
<1>2. NoHost \in HostRecord
  BY <1>1 DEF NoHost, HostRecord
<1>3. /\ NewHost \in HostRecord /\ NewHost.known
      /\ NewHost.core = NoHost.core /\ NewHost.extra = NoHost.extra /\ NewHost.series = NoHost.series
  BY <1>2 DEF NewHost, HostRecord
<1>4. ASSUME NEW h \in {NoHost, NewHost}
      PROVE  RowInv(h) /\ Charted(h) = {}
  <2>1. h.core = 0 /\ h.extra = 0 /\ h.series = [k \in Key |-> NoSeries]
    BY <1>3 DEF NoHost
  <2>2. \A k \in Key : h.series[k].history = <<>>
    BY <2>1 DEF NoSeries
  <2>3. Charted(h) = {} /\ OfClass(Charted(h), "core") = {} /\ OfClass(Charted(h), "extra") = {}
    BY <2>2 DEF Charted, OfClass
  <2>4. /\ Cardinality(OfClass(Charted(h), "core")) = 0
        /\ Cardinality(OfClass(Charted(h), "extra")) = 0
    BY <2>3, FS_EmptySet
  <2>5. h \in HostRecord
    BY <1>2, <1>3
  <2> QED
    BY <2>1, <2>2, <2>3, <2>4, <2>5, LimitsPositive DEF RowInv
<1> QED
  BY <1>3, <1>4

\* pruneSeriesLocked gives each ring back to the budget it came from.
LEMMA PruneRow ==
  ASSUME NEW h, RowInv(h), NEW ts \in Nat
  PROVE  /\ RowInv(Prune(h, ts)) /\ Prune(h, ts).known = h.known
         /\ Held(Prune(h, ts)) = Held(h) \ Prunable(h, ts)
         /\ Charted(Prune(h, ts)) = Charted(h) \ Prunable(h, ts)
<1> DEFINE gone == Prunable(h, ts)
           curves == gone \cap Charted(h)
           row == Prune(h, ts)
<1>1. /\ h \in HostRecord /\ h.series \in [Key -> SeriesRecord]
      /\ gone \in SUBSET Key /\ Charted(h) \in SUBSET Key /\ Held(h) \in SUBSET Key
  BY DEF RowInv, HostRecord, Prunable, Held, Charted
<1>2. row = [h EXCEPT !.series = [k \in Key |-> IF k \in gone THEN NoSeries ELSE h.series[k]],
                      !.core = h.core - Cardinality(curves \ OfClass(curves, "extra")),
                      !.extra = h.extra - Cardinality(OfClass(curves, "extra"))]
  BY DEF Prune
<1>3. NoSeries \in SeriesRecord
  BY DEF NoSeries, SeriesRecord
<1>4. /\ Held(row) = Held(h) \ gone
      /\ Charted(row) = Charted(h) \ gone
  <2> HIDE DEF gone
  <2> QED
    BY <1>1, <1>2 DEF Held, Charted, NoSeries, HostRecord
<1>5. \A k \in Charted(h) : ChartClassOf(k) \in {"core", "extra"}
  BY ClassOfKind DEF RowInv, Charted
<1>6. /\ curves \ OfClass(curves, "extra") = OfClass(Charted(h), "core") \cap gone
      /\ OfClass(curves, "extra") = OfClass(Charted(h), "extra") \cap gone
      /\ OfClass(Charted(row), "core") = OfClass(Charted(h), "core") \ gone
      /\ OfClass(Charted(row), "extra") = OfClass(Charted(h), "extra") \ gone
  <2> HIDE DEF gone, row
  <2> QED
    BY <1>4, <1>5 DEF OfClass
<1>7. ASSUME NEW c
      PROVE  /\ Cardinality(OfClass(Charted(h), c) \ gone)
                  = Cardinality(OfClass(Charted(h), c)) - Cardinality(OfClass(Charted(h), c) \cap gone)
             /\ Cardinality(OfClass(Charted(h), c)) \in Nat
             /\ Cardinality(OfClass(Charted(h), c) \cap gone) \in Nat
             /\ Cardinality(OfClass(Charted(h), c) \ gone) \in Nat
  <2>1. /\ OfClass(Charted(h), c) \in SUBSET Key
        /\ OfClass(Charted(h), c) \cap gone \in SUBSET Key
        /\ OfClass(Charted(h), c) \ gone \in SUBSET Key
    BY <1>1 DEF OfClass
  <2> QED
    BY <2>1, RowFinite, FS_Difference
<1>8. /\ row.core = Cardinality(OfClass(Charted(row), "core")) /\ row.core <= HistorySeries
      /\ row.extra = Cardinality(OfClass(Charted(row), "extra")) /\ row.extra <= HistorySeriesExtra
      /\ row.core \in Int /\ row.extra \in Int
  <2>1. /\ h.core = Cardinality(OfClass(Charted(h), "core")) /\ h.core <= HistorySeries
        /\ h.extra = Cardinality(OfClass(Charted(h), "extra")) /\ h.extra <= HistorySeriesExtra
    BY DEF RowInv
  <2>2. /\ row.core = h.core - Cardinality(OfClass(Charted(h), "core") \cap gone)
        /\ row.extra = h.extra - Cardinality(OfClass(Charted(h), "extra") \cap gone)
    <3> HIDE DEF gone
    <3> QED
      BY <1>1, <1>2, <1>6 DEF HostRecord
  <2> HIDE DEF row, gone, curves
  <2> QED
    BY <2>1, <2>2, <1>6, <1>7, LimitsPositive
<1>9. row \in HostRecord /\ row.known = h.known
  <2> HIDE DEF gone, curves
  <2>2. row.series \in [Key -> SeriesRecord]
    BY <1>1, <1>2, <1>3 DEF HostRecord
  <2> QED
    BY <1>1, <1>2, <1>8, <2>2 DEF HostRecord
<1>10. \A k \in Key : row.series[k].history # <<>> => row.series[k].seen # 0 /\ Kind[k] # "unchartable"
  <2> HIDE DEF row, gone, curves
  <2> QED
    BY <1>4 DEF Charted, Held, RowInv
<1>11. row.known \/ Charted(row) = {}
  BY <1>4, <1>9 DEF RowInv
<1> QED
  BY <1>4, <1>8, <1>9, <1>10, <1>11 DEF RowInv

\* A ring that has a sample keeps one.
LEMMA TrimmedKeeps ==
  ASSUME NEW s \in Seq(Nat), Len(s) > 0
  PROVE  Trimmed(s) \in Seq(Nat) /\ Trimmed(s) # <<>>
<1>1. CASE Len(s) > HistoryPoints
  <2>1. s # <<>> /\ Len(s) \in Nat
    OBVIOUS
  <2>2. Tail(s) \in Seq(Nat) /\ Len(Tail(s)) = Len(s) - 1
    BY <2>1
  <2>3. Len(Tail(s)) > 0
    BY <1>1, <2>1, <2>2, LimitsPositive
  <2>4. Tail(s) # <<>>
    <3> DEFINE rest == Tail(s)
    <3>1. Len(rest) > 0
      BY <2>3
    <3> HIDE DEF rest
    <3>2. rest # <<>>
      BY <3>1
    <3> QED
      BY <3>2 DEF rest
  <2> QED
    BY <1>1, <2>2, <2>4, Zenon DEF Trimmed
<1>2. CASE ~(Len(s) > HistoryPoints)
  BY <1>2 DEF Trimmed
<1> QED
  BY <1>1, <1>2

\* What one report does to a row: the series gets its place, and its ring a charge.
LEMMA ReportedRow ==
  ASSUME NEW h, RowInv(h), h.known, NEW k \in Key, NEW ts \in Nat
  PROVE  /\ RowInv(Reported(h, k, ts)) /\ Reported(h, k, ts).known
         /\ k \in Held(Reported(h, k, ts))
         /\ Charted(h) \subseteq Charted(Reported(h, k, ts))
<1> DEFINE row == Reported(h, k, ts)
           sample == EarnsSample(h, k)
           fresh == IF sample /\ k \notin Charted(h) THEN 1 ELSE 0
           old == h.series[k]
           ring == IF sample THEN Trimmed(Append(old.history, ts)) ELSE old.history
           place == [seen |-> IF old.seen = 0 THEN 1 ELSE 2, updated |-> ts, history |-> ring]
<1>1. /\ h \in HostRecord /\ h.series \in [Key -> SeriesRecord] /\ old \in SeriesRecord
      /\ Charted(h) \in SUBSET Key
  BY DEF RowInv, HostRecord, Charted
<1>2. /\ sample \in BOOLEAN
      /\ sample => Kind[k] # "unchartable"
      /\ sample /\ k \notin Charted(h) /\ ChartClassOf(k) = "core" => h.core < HistorySeries
      /\ sample /\ k \notin Charted(h) /\ ChartClassOf(k) = "extra" => h.extra < HistorySeriesExtra
  BY StoreAssumption DEF EarnsSample, ChartClassOf
<1>3. /\ ring \in Seq(Nat)
      /\ sample => ring # <<>>
      /\ ~sample => ring = old.history
  <2>1. old.history \in Seq(Nat)
    BY <1>1 DEF SeriesRecord
  <2>2. Append(old.history, ts) \in Seq(Nat) /\ Len(Append(old.history, ts)) > 0
    BY <2>1
  <2>3. Trimmed(Append(old.history, ts)) \in Seq(Nat) /\ Trimmed(Append(old.history, ts)) # <<>>
    BY <2>2, TrimmedKeeps, Zenon
  <2> QED
    BY <2>1, <2>3
<1>4. place \in SeriesRecord /\ place.seen # 0
  BY <1>1, <1>3 DEF SeriesRecord
<1>5. row = [h EXCEPT !.series[k] = place,
                      !.core = IF ChartClassOf(k) = "core" THEN h.core + fresh ELSE h.core,
                      !.extra = IF ChartClassOf(k) = "extra" THEN h.extra + fresh ELSE h.extra]
  BY DEF Reported
<1>6. /\ row.series = [h.series EXCEPT ![k] = place]
      /\ row.core = IF ChartClassOf(k) = "core" THEN h.core + fresh ELSE h.core
      /\ row.extra = IF ChartClassOf(k) = "extra" THEN h.extra + fresh ELSE h.extra
      /\ row.known = h.known /\ row.lastSeen = h.lastSeen
  <2> HIDE DEF place, fresh, row
  <2> QED
    BY <1>1, <1>5 DEF HostRecord
<1>7. Charted(row) = IF sample THEN Charted(h) \cup {k} ELSE Charted(h)
  <2>1. /\ row.series[k].history = ring
        /\ \A l \in Key \ {k} : row.series[l] = h.series[l]
    BY <1>1, <1>6
  <2> HIDE DEF row, sample, ring
  <2> QED
    BY <2>1, <1>3 DEF Charted
<1>8. k \in Held(row)
  <2>1. row.series[k].seen # 0
    BY <1>1, <1>4, <1>6
  <2> QED
    BY <2>1 DEF Held
\* The class of the series is charged if it got a ring, and no other.
<1>9. ASSUME NEW c \in {"core", "extra"}
      PROVE  /\ Cardinality(OfClass(Charted(row), c))
                  = Cardinality(OfClass(Charted(h), c)) + (IF ChartClassOf(k) = c THEN fresh ELSE 0)
             /\ Cardinality(OfClass(Charted(h), c)) \in Nat
  <2>1. OfClass(Charted(h), c) \in SUBSET Key
    BY <1>1 DEF OfClass
  <2>2. IsFiniteSet(OfClass(Charted(h), c)) /\ Cardinality(OfClass(Charted(h), c)) \in Nat
    BY <2>1, RowFinite
  <2>3. CASE fresh = 1 /\ ChartClassOf(k) = c
    <3>1. sample /\ k \notin Charted(h)
      BY <2>3
    <3> HIDE DEF sample
    <3>2. OfClass(Charted(row), c) = OfClass(Charted(h), c) \cup {k} /\ k \notin OfClass(Charted(h), c)
      BY <3>1, <2>3, <1>7 DEF OfClass
    <3>3. Cardinality(OfClass(Charted(h), c) \cup {k}) = Cardinality(OfClass(Charted(h), c)) + 1
      BY <2>2, <3>2, FS_AddElement
    <3> QED
      BY <2>2, <2>3, <3>2, <3>3
  <2>4. CASE ~(fresh = 1 /\ ChartClassOf(k) = c)
    <3>1. OfClass(Charted(row), c) = OfClass(Charted(h), c)
      <4> HIDE DEF sample
      <4> QED
        BY <2>4, <1>7 DEF OfClass
    <3>2. (IF ChartClassOf(k) = c THEN fresh ELSE 0) = 0
      BY <2>4
    <3> QED
      BY <2>2, <3>1, <3>2
  <2> QED
    BY <2>3, <2>4
<1>10. /\ row.core = Cardinality(OfClass(Charted(row), "core")) /\ row.core <= HistorySeries
       /\ row.extra = Cardinality(OfClass(Charted(row), "extra")) /\ row.extra <= HistorySeriesExtra
       /\ row.core \in Int /\ row.extra \in Int
  <2>1. /\ h.core = Cardinality(OfClass(Charted(h), "core")) /\ h.core <= HistorySeries
        /\ h.extra = Cardinality(OfClass(Charted(h), "extra")) /\ h.extra <= HistorySeriesExtra
    BY DEF RowInv
  <2>2. /\ fresh \in {0, 1}
        /\ fresh = 1 /\ ChartClassOf(k) = "core" => h.core < HistorySeries
        /\ fresh = 1 /\ ChartClassOf(k) = "extra" => h.extra < HistorySeriesExtra
    BY <1>2
  <2> HIDE DEF row, fresh
  <2> QED
    BY <2>1, <2>2, <1>6, <1>9, LimitsPositive
<1>11. row \in HostRecord
  <2>1. row.series \in [Key -> SeriesRecord]
    BY <1>1, <1>4, <1>6
  <2>2. (IF ChartClassOf(k) = "core" THEN h.core + fresh ELSE h.core) \in Int
    BY <1>1 DEF HostRecord
  <2>3. (IF ChartClassOf(k) = "extra" THEN h.extra + fresh ELSE h.extra) \in Int
    BY <1>1 DEF HostRecord
  <2> HIDE DEF place, fresh
  <2>4. [h.series EXCEPT ![k] = place] \in [Key -> SeriesRecord]
    BY <1>1, <1>4
  <2> QED
    BY <1>1, <1>5, <2>2, <2>3, <2>4 DEF HostRecord
<1>12. \A l \in Key : row.series[l].history # <<>> => row.series[l].seen # 0 /\ Kind[l] # "unchartable"
  <2>1. /\ row.series[k] = place
        /\ \A l \in Key \ {k} : row.series[l] = h.series[l]
    BY <1>1, <1>6
  <2>2. \A l \in Key : h.series[l].history # <<>> => h.series[l].seen # 0 /\ Kind[l] # "unchartable"
    BY DEF RowInv
  <2>3. place.history # <<>> => Kind[k] # "unchartable"
    BY <1>2, <1>3, <2>2
  <2> HIDE DEF row, place
  <2> QED
    BY <2>1, <2>2, <2>3, <1>4
<1> QED
  BY <1>6, <1>7, <1>8, <1>10, <1>11, <1>12 DEF RowInv

\* observeLocked, of a known host: the row stays counted; a point is refused only when the
\* table, pruned, is full; and no chart of the overview is given up.
LEMMA ObservedRow ==
  ASSUME NEW h, RowInv(h), h.known, NEW k \in Key, NEW ts \in Nat
  PROVE  LET after == ObserveLocked(h, k, ts)
         IN /\ RowInv(after) /\ after.known
            /\ k \notin Held(after) =>
                 \A l \in Held(after) : \/ Kind[l] = "host" /\ l \in Charted(after)
                                        \/ after.series[l].updated >= ts - SeriesStaleAfter
            /\ \A l \in Charted(h) : Kind[l] = "host" => l \in Charted(after)
<1> DEFINE room == MadeRoom(h, k, ts)
<1>1. RowInv(room) /\ room.known
  BY PruneRow DEF MadeRoom
<1>2. \A l \in Charted(h) : Kind[l] = "host" => l \in Charted(room)
  <2>1. \A l \in Charted(h) : Kind[l] = "host" => l \notin Prunable(h, ts)
    BY DEF Prunable
  <2> QED
    BY <2>1, PruneRow DEF MadeRoom
<1>3. CASE ~Refused(room, k)
  <2>1. ObserveLocked(h, k, ts) = Reported(room, k, ts)
    BY <1>3 DEF ObserveLocked
  <2> HIDE DEF room
  <2>2. LET row == Reported(room, k, ts)
        IN RowInv(row) /\ row.known /\ k \in Held(row) /\ Charted(room) \subseteq Charted(row)
    BY <1>1, ReportedRow
  <2> QED
    BY <1>2, <2>1, <2>2
<1>4. CASE Refused(room, k)
  <2>1. ObserveLocked(h, k, ts) = room
    BY <1>4 DEF ObserveLocked
  <2>2. room = Prune(h, ts)
    BY <1>4 DEF MadeRoom, Refused
  <2>3. ASSUME NEW l \in Held(room), ~(Kind[l] = "host" /\ l \in Charted(room))
        PROVE  room.series[l].updated >= ts - SeriesStaleAfter
    <3>1. /\ l \in Held(h) /\ l \notin Prunable(h, ts) /\ l \in Key
          /\ ~(Kind[l] = "host" /\ l \in Charted(h))
      BY <2>2, <2>3, PruneRow DEF Held
    <3>2. ~(h.series[l].updated < ts - SeriesStaleAfter)
      BY <3>1 DEF Prunable
    <3>3. h.series[l].updated \in Nat
      BY <3>1 DEF RowInv, HostRecord, SeriesRecord
    <3>4. room.series[l] = h.series[l]
      BY <3>1, <2>2 DEF Prune, RowInv, HostRecord
    <3> QED
      BY <3>2, <3>3, <3>4, LimitsPositive
  <2> HIDE DEF room
  <2> QED
    BY <1>1, <1>2, <2>1, <2>3
<1> QED
  BY <1>3, <1>4

\* A report gives its series a place, and takes none away.
LEMMA ReportedHeld ==
  ASSUME NEW h, RowInv(h), NEW k \in Key, NEW ts \in Nat
  PROVE  Held(Reported(h, k, ts)) = Held(h) \cup {k}
<1> DEFINE row == Reported(h, k, ts)
<1>1. h \in HostRecord /\ h.series \in [Key -> SeriesRecord]
  BY DEF RowInv, HostRecord
<1>2. PICK place : row.series = [h.series EXCEPT ![k] = place] /\ place.seen # 0
  <2> DEFINE place == [seen |-> IF h.series[k].seen = 0 THEN 1 ELSE 2, updated |-> ts,
                       history |-> IF EarnsSample(h, k) THEN Trimmed(Append(h.series[k].history, ts))
                                   ELSE h.series[k].history]
  <2>1. place.seen # 0
    OBVIOUS
  <2>2. row.series = [h.series EXCEPT ![k] = place]
    BY <1>1 DEF Reported, HostRecord
  <2> QED
    BY <2>1, <2>2
<1> HIDE DEF row
<1>3. row.series[k].seen # 0 /\ \A l \in Key \ {k} : row.series[l] = h.series[l]
  BY <1>1, <1>2
<1>4. Held(row) = Held(h) \cup {k}
  BY <1>3 DEF Held
<1> QED
  BY <1>4 DEF row

\* A table that is within its bound stays so, and what it gives up is old and goes to a new one.
LEMMA ObservedHeld ==
  ASSUME NEW h, RowInv(h), h.known, NEW k \in Key, NEW ts \in Nat,
         Cardinality(Held(h)) <= SeriesPerHost
  PROVE  LET after == ObserveLocked(h, k, ts)
         IN /\ Cardinality(Held(after)) <= SeriesPerHost
            /\ \A l \in Held(h) \ Held(after) :
                 /\ h.series[l].updated + SeriesStaleAfter < ts
                 /\ Cardinality(Held(h)) >= SeriesPerHost
                 /\ k \in Held(after) \ Held(h)
<1> DEFINE room == MadeRoom(h, k, ts)
           after == ObserveLocked(h, k, ts)
           full == k \notin Held(h) /\ Cardinality(Held(h)) >= SeriesPerHost
<1>1. /\ Held(h) \in SUBSET Key /\ IsFiniteSet(Held(h)) /\ Cardinality(Held(h)) \in Nat
      /\ SeriesPerHost \in Nat
  <2>1. Held(h) \in SUBSET Key
    BY DEF Held
  <2> QED
    BY <2>1, RowFinite, LimitsPositive
<1>2. CASE full
  <2> DEFINE gone == Prunable(h, ts)
  <2>1. room = Prune(h, ts) /\ RowInv(room) /\ room.known /\ Held(room) = Held(h) \ gone
    BY <1>2, PruneRow DEF MadeRoom
  <2>2. \A l \in gone : l \in Held(h) /\ h.series[l].updated + SeriesStaleAfter < ts
    <3> SUFFICES ASSUME NEW l \in gone
                 PROVE  l \in Held(h) /\ h.series[l].updated + SeriesStaleAfter < ts
      OBVIOUS
    <3>1. l \in Held(h) /\ h.series[l].updated < ts - SeriesStaleAfter
      BY DEF Prunable
    <3>2. h.series[l].updated \in Nat
      BY <1>1, <3>1 DEF RowInv, HostRecord, SeriesRecord
    <3> QED
      BY <3>1, <3>2, LimitsPositive
  <2> HIDE DEF gone, room
  <2>3. /\ IsFiniteSet(Held(room)) /\ Cardinality(Held(room)) \in Nat
        /\ Cardinality(Held(room)) <= Cardinality(Held(h))
        /\ Cardinality(Held(room)) = Cardinality(Held(h)) => Held(room) = Held(h)
    <3>1. Held(room) \subseteq Held(h)
      BY <2>1
    <3> QED
      BY <1>1, <3>1, FS_Subset, FS_CardinalityType
  <2>4. k \notin Held(room)
    BY <1>2, <2>1
  <2>5. CASE Cardinality(Held(room)) >= SeriesPerHost
    <3>1. after = room
      BY <2>4, <2>5 DEF ObserveLocked, Refused, room
    <3>2. Held(room) = Held(h)
      BY <1>1, <2>3, <2>5
    <3> HIDE DEF after
    <3> QED
      BY <1>1, <2>3, <3>1, <3>2 DEF after
  <2>6. CASE ~(Cardinality(Held(room)) >= SeriesPerHost)
    <3>1. after = Reported(room, k, ts)
      BY <2>6 DEF ObserveLocked, Refused, room
    <3>2. Held(after) = Held(room) \cup {k}
      BY <2>1, <3>1, ReportedHeld
    <3>3. Cardinality(Held(after)) = Cardinality(Held(room)) + 1
      BY <2>3, <2>4, <3>2, FS_AddElement
    <3>4. Cardinality(Held(after)) <= SeriesPerHost
      BY <1>1, <2>3, <2>6, <3>3
    <3>5. ASSUME NEW l \in Held(h) \ Held(after)
          PROVE  /\ h.series[l].updated + SeriesStaleAfter < ts
                 /\ Cardinality(Held(h)) >= SeriesPerHost
                 /\ k \in Held(after) \ Held(h)
      BY <1>2, <2>1, <2>2, <3>2, <3>5
    <3> HIDE DEF after
    <3> QED
      BY <3>4, <3>5 DEF after
  <2> QED
    BY <2>5, <2>6
<1>3. CASE ~full
  <2>1. room = h
    BY <1>3 DEF MadeRoom
  <2>2. after = Reported(h, k, ts)
    BY <1>3, <2>1 DEF ObserveLocked, Refused
  <2>3. Held(after) = Held(h) \cup {k}
    BY <2>2, ReportedHeld
  <2>4. Cardinality(Held(after)) <= SeriesPerHost
    <3>1. CASE k \in Held(h)
      <4>1. Held(after) = Held(h)
        BY <2>3, <3>1
      <4> QED
        BY <4>1
    <3>2. CASE k \notin Held(h)
      <4>1. Cardinality(Held(after)) = Cardinality(Held(h)) + 1
        BY <1>1, <2>3, <3>2, FS_AddElement
      <4> QED
        BY <1>1, <1>3, <3>2, <4>1
    <3> QED
      BY <3>1, <3>2
  <2>5. Held(h) \ Held(after) = {}
    BY <2>3
  <2> HIDE DEF after
  <2> QED
    BY <2>4, <2>5 DEF after
<1> QED
  BY <1>2, <1>3

\* A store that has just been started knows no host.
LEMMA StoreInit == Init => StoreInv
<1> SUFFICES ASSUME Init PROVE StoreInv
  OBVIOUS
<1>1. \A h \in Host : hosts[h] = NoHost
  BY DEF Init
<1>2. NoHost \in HostRecord
  BY NoHostRow DEF RowInv
<1> QED
  BY <1>1, <1>2, NoHostRow DEF Init, StoreInv, FoldingInv, Free

\* What the invariant says of the batch that is folded.
LEMMA FoldedBatch ==
  ASSUME StoreInv, ~Free
  PROVE  /\ folding.batch.host \in Host /\ folding.batch.ts \in Nat /\ folding.todo \in SUBSET Key
         /\ hosts[folding.batch.host].known
BY DEF StoreInv, FoldingInv, Batches

\* Every critical section of the store, and time, keep the rows counted.
LEMMA StoreNext == StoreInv /\ [Next]_vars => StoreInv'
<1> SUFFICES ASSUME StoreInv, [Next]_vars PROVE StoreInv'
  OBVIOUS
<1>1. CASE Tick
  <2>1. now' \in Nat
    BY <1>1 DEF StoreInv, Tick
  <2> QED
    BY <1>1, <2>1 DEF StoreInv, Tick, FoldingInv, Free
<1>2. CASE Send
  <2>1. sent' \subseteq Batches
    BY <1>2, StoreAssumption DEF StoreInv, Send, Batches
  <2> QED
    BY <1>2, <2>1 DEF StoreInv, Send, FoldingInv, Free
<1>3. CASE Receive
  <2>1. handlers' \subseteq [batch : Batches, at : Nat]
    BY <1>3 DEF StoreInv, Receive
  <2> QED
    BY <1>3, <2>1 DEF StoreInv, Receive, FoldingInv, Free
<1>4. CASE TakesLock
  <2>1. PICK r \in handlers, victim \in SUBSET Host :
          LET h == r.batch.host
              row == IF hosts[h].known THEN hosts[h] ELSE NewHost
          IN /\ IF hosts[h].known THEN victim = {} ELSE Evicted(victim)
             /\ hosts' = [g \in Host |-> CASE g = h -> [row EXCEPT !.lastSeen = r.at]
                                           [] g \in victim -> NoHost
                                           [] OTHER -> hosts[g]]
             /\ handlers' = handlers \ {r}
             /\ folding' = [batch |-> r.batch, todo |-> r.batch.keys]
    BY <1>4 DEF TakesLock
  <2> DEFINE h == r.batch.host
             row == IF hosts[h].known THEN hosts[h] ELSE NewHost
             taken == [row EXCEPT !.lastSeen = r.at]
  <2>2. r.batch \in Batches /\ r.at \in Nat /\ h \in Host /\ r.batch.keys \in SUBSET Key
    BY DEF StoreInv, Batches
  <2>3. RowInv(row) /\ row.known
    BY <2>2, NoHostRow DEF StoreInv
  <2>4. RowInv(taken) /\ taken.known
    <3> HIDE DEF row
    <3>1. taken \in HostRecord
      BY <2>2, <2>3 DEF RowInv, HostRecord
    <3>2. /\ taken.series = row.series /\ taken.core = row.core /\ taken.extra = row.extra
          /\ taken.known = row.known
      BY <2>3 DEF RowInv, HostRecord
    <3>3. Charted(taken) = Charted(row)
      BY <3>2 DEF Charted
    <3> HIDE DEF taken
    <3> QED
      BY <3>1, <3>2, <3>3, <2>3 DEF RowInv
  <2>5. /\ hosts'[h] = taken
        /\ \A g \in Host \ {h} : hosts'[g] \in {NoHost, hosts[g]}
        /\ DOMAIN hosts' = Host
    <3> HIDE DEF taken
    <3>1. hosts' = [g \in Host |-> CASE g = h -> taken [] g \in victim -> NoHost [] OTHER -> hosts[g]]
      BY <2>1 DEF taken
    <3>2. h \in Host /\ h \notin victim
      BY <2>1, <2>2 DEF Evicted, Known
    <3> HIDE DEF h
    <3>3. \A g \in Host : hosts'[g] = CASE g = h -> taken [] g \in victim -> NoHost [] OTHER -> hosts[g]
      BY <3>1
    <3> QED
      BY <3>1, <3>2, <3>3
  <2>6. \A g \in Host : RowInv(hosts'[g]) /\ hosts'[g] \in HostRecord
    <3> HIDE DEF taken
    <3> QED
      BY <2>4, <2>5, NoHostRow DEF StoreInv, RowInv
  <2>7. hosts' \in [Host -> HostRecord]
    <3>1. hosts' = [g \in Host |-> hosts'[g]]
      BY <2>1
    <3> QED
      BY <2>6, <3>1
  <2>8. FoldingInv'
    <3>1. folding' \in [batch : Batches, todo : SUBSET Key] /\ folding'.batch.host = h
      BY <2>1, <2>2
    <3> QED
      BY <3>1, <2>4, <2>5 DEF FoldingInv
  <2> QED
    BY <1>4, <2>1, <2>6, <2>7, <2>8 DEF StoreInv, TakesLock
<1>5. CASE Observe
  <2> DEFINE h == folding.batch.host
  <2>1. PICK k \in folding.todo :
          /\ hosts' = [hosts EXCEPT ![h] = ObserveLocked(hosts[h], k, folding.batch.ts)]
          /\ folding' = [folding EXCEPT !.todo = @ \ {k}]
    BY <1>5 DEF Observe
  <2>2. h \in Host /\ folding.batch.ts \in Nat /\ k \in Key /\ hosts[h].known
    BY <1>5, <2>1, FoldedBatch DEF Observe
  <2>3. LET after == ObserveLocked(hosts[h], k, folding.batch.ts) IN RowInv(after) /\ after.known
    BY <2>2, ObservedRow DEF StoreInv
  <2>4. \A g \in Host : RowInv(hosts'[g]) /\ (hosts[g].known => hosts'[g].known)
    BY <2>1, <2>2, <2>3 DEF StoreInv
  <2>5. hosts' \in [Host -> HostRecord]
    BY <2>1, <2>2, <2>3 DEF StoreInv, RowInv
  <2>6. FoldingInv'
    <3>1. folding \in [batch : Batches, todo : SUBSET Key]
      BY <1>5 DEF StoreInv, FoldingInv, Observe
    <3>2. folding' \in [batch : Batches, todo : SUBSET Key] /\ folding'.batch = folding.batch
      BY <2>1, <3>1
    <3> QED
      BY <3>2, <2>2, <2>4 DEF FoldingInv
  <2> QED
    BY <1>5, <2>4, <2>5, <2>6 DEF StoreInv, Observe
<1>6. CASE Answers
  <2>1. sent' \subseteq Batches
    BY <1>6 DEF Answers, StoreInv
  <2>2. FoldingInv'
    BY <1>6 DEF Answers, FoldingInv, Free
  <2> QED
    BY <1>6, <2>1, <2>2 DEF Answers, StoreInv
<1>7. CASE UNCHANGED vars
  BY <1>7 DEF vars, StoreInv, FoldingInv, Free
<1> QED
  BY <1>1, <1>2, <1>3, <1>4, <1>5, <1>6, <1>7 DEF Next

\* The store's rows are counted, and a batch is folded into a host it knows, whatever arrives
\* in whatever order: what RingsCounted and PlacesGoToTheLive rest on.
THEOREM StoreInvariant == Spec => []StoreInv
<1> QED
  BY StoreInit, StoreNext, PTL DEF Spec

\* RingsCounted: however series come, go silent, are reclaimed and come back, each budget is
\* charged for the rings there are and never exceeded.
THEOREM StoreRingsCounted == Spec => []RingsCounted
<1>1. StoreInv => RingsCounted
  BY DEF StoreInv, RowInv, RingsCounted
<1> QED
  BY <1>1, StoreInvariant, PTL

\* Every table is within its bound.
TablesInv == \A h \in Host : Cardinality(Held(hosts[h])) <= SeriesPerHost

LEMMA TablesInit == Init => TablesInv
<1> SUFFICES ASSUME Init, NEW h \in Host PROVE Cardinality(Held(hosts[h])) <= SeriesPerHost
  BY DEF TablesInv
<1>1. Held(hosts[h]) = {}
  BY DEF Init, Held, NoHost, NoSeries
<1>2. Cardinality(Held(hosts[h])) = 0
  BY <1>1, FS_EmptySet
<1> QED
  BY <1>2, LimitsPositive

\* A request that takes the lock keeps, evicts or creates a host, and changes no series.
LEMMA LockKeepsSeries ==
  ASSUME StoreInv, TakesLock
  PROVE  \A g \in Host : /\ hosts'[g].series \in {hosts[g].series, NoHost.series}
                         /\ hosts[g].known /\ hosts'[g].known => hosts'[g].series = hosts[g].series
<1>1. PICK r \in handlers, victim \in SUBSET Host :
        LET h == r.batch.host
            row == IF hosts[h].known THEN hosts[h] ELSE NewHost
        IN /\ IF hosts[h].known THEN victim = {} ELSE Evicted(victim)
           /\ hosts' = [g \in Host |-> CASE g = h -> [row EXCEPT !.lastSeen = r.at]
                                         [] g \in victim -> NoHost
                                         [] OTHER -> hosts[g]]
  BY DEF TakesLock
<1> DEFINE h == r.batch.host
           row == IF hosts[h].known THEN hosts[h] ELSE NewHost
           taken == [row EXCEPT !.lastSeen = r.at]
<1>2. hosts' = [g \in Host |-> CASE g = h -> taken [] g \in victim -> NoHost [] OTHER -> hosts[g]]
  BY <1>1
<1>3. h \notin victim /\ h \in Host
  BY <1>1 DEF Evicted, Known, StoreInv, Batches
<1>4. /\ taken.series \in {hosts[h].series, NoHost.series}
      /\ hosts[h].known => taken.series = hosts[h].series
  <2>1. NewHost.series = NoHost.series /\ NewHost \in HostRecord
    BY NoHostRow DEF NewHost, NoHost, RowInv
  <2>2. row \in HostRecord /\ taken.series = row.series
    BY <1>3, <2>1 DEF StoreInv, HostRecord
  <2> QED
    BY <2>1, <2>2
<1>5. ~NoHost.known
  BY DEF NoHost
<1> HIDE DEF h, row, taken
<1> SUFFICES ASSUME NEW g \in Host
             PROVE  /\ hosts'[g].series \in {hosts[g].series, NoHost.series}
                    /\ hosts[g].known /\ hosts'[g].known => hosts'[g].series = hosts[g].series
  OBVIOUS
<1>6. CASE g = h
  BY <1>2, <1>3, <1>4, <1>6
<1>7. CASE g # h /\ g \in victim
  BY <1>2, <1>5, <1>7
<1>8. CASE g # h /\ g \notin victim
  BY <1>2, <1>8
<1> QED
  BY <1>6, <1>7, <1>8

LEMMA TablesNext == StoreInv /\ TablesInv /\ [Next]_vars => TablesInv'
<1> SUFFICES ASSUME StoreInv, TablesInv, [Next]_vars, NEW g \in Host
             PROVE  Cardinality(Held(hosts'[g])) <= SeriesPerHost
  BY DEF TablesInv, Held
<1>1. CASE Tick \/ Send \/ Receive \/ Answers \/ UNCHANGED vars
  <2>1. hosts' = hosts
    BY <1>1 DEF Tick, Send, Receive, Answers, vars
  <2> QED
    BY <2>1 DEF TablesInv
<1>2. CASE TakesLock
  <2>1. hosts'[g].series \in {hosts[g].series, NoHost.series}
    BY <1>2, LockKeepsSeries
  <2>2. CASE hosts'[g].series = hosts[g].series
    <3>1. Held(hosts'[g]) = Held(hosts[g])
      BY <2>2 DEF Held
    <3> QED
      BY <3>1 DEF TablesInv
  <2>3. CASE hosts'[g].series = NoHost.series
    <3>1. Held(hosts'[g]) = {}
      BY <2>3 DEF Held, NoHost, NoSeries
    <3>2. Cardinality(Held(hosts'[g])) = 0
      BY <3>1, FS_EmptySet
    <3> QED
      BY <3>2, LimitsPositive
  <2> QED
    BY <2>1, <2>2, <2>3
<1>3. CASE Observe
  <2> DEFINE h == folding.batch.host
  <2>1. PICK k \in folding.todo :
          hosts' = [hosts EXCEPT ![h] = ObserveLocked(hosts[h], k, folding.batch.ts)]
    BY <1>3 DEF Observe
  <2>2. h \in Host /\ folding.batch.ts \in Nat /\ k \in Key /\ hosts[h].known /\ RowInv(hosts[h])
    BY <1>3, <2>1, FoldedBatch DEF Observe, StoreInv
  <2>3. Cardinality(Held(ObserveLocked(hosts[h], k, folding.batch.ts))) <= SeriesPerHost
    BY <2>2, ObservedHeld DEF TablesInv
  <2>4. hosts'[g] = IF g = h THEN ObserveLocked(hosts[h], k, folding.batch.ts) ELSE hosts[g]
    BY <2>1, <2>2 DEF StoreInv
  <2> QED
    BY <2>3, <2>4 DEF TablesInv
<1> QED
  BY <1>1, <1>2, <1>3 DEF Next

\* PlacesGoToTheLive: only what is live or an overview's chart keeps a new series out, what is
\* given up for one has been silent for the window, and the charts stay as long as their host.
THEOREM StorePlacesGoToTheLive == Spec => PlacesGoToTheLive
<1>1. StoreInv /\ TablesInv /\ [Next]_vars => [RefusedOnlyByLive /\ ChartsStay /\ GivenUpIsSilent]_vars
  <2> SUFFICES ASSUME StoreInv, TablesInv, Next
               PROVE  RefusedOnlyByLive /\ ChartsStay /\ GivenUpIsSilent
    OBVIOUS
  <2>1. CASE Tick \/ Send \/ Receive \/ Answers
    <3>1. folding.todo \ folding'.todo = {} /\ hosts' = hosts
      BY <2>1 DEF Tick, Send, Receive, Answers
    <3> QED
      BY <3>1 DEF RefusedOnlyByLive, ChartsStay, GivenUpIsSilent
  <2>2. CASE TakesLock
    <3>1. folding.todo = {}
      BY <2>2 DEF TakesLock, Free, Idle
    <3>2. \A g \in Host : hosts[g].known /\ hosts'[g].known => hosts'[g].series = hosts[g].series
      BY <2>2, LockKeepsSeries
    <3>3. ChartsStay
      <4>1. \A g \in Host : ~hosts[g].known => Charted(hosts[g]) = {}
        BY DEF StoreInv, RowInv
      <4> QED
        BY <3>2, <4>1 DEF ChartsStay, Charted
    <3>4. GivenUpIsSilent
      BY <3>2 DEF GivenUpIsSilent, Held
    <3> QED
      BY <3>1, <3>3, <3>4 DEF RefusedOnlyByLive
  <2>3. CASE Observe
    <3> DEFINE h == folding.batch.host
    <3>1. PICK k \in folding.todo :
            /\ hosts' = [hosts EXCEPT ![h] = ObserveLocked(hosts[h], k, folding.batch.ts)]
            /\ folding' = [folding EXCEPT !.todo = @ \ {k}]
      BY <2>3 DEF Observe
    <3>2. h \in Host /\ folding.batch.ts \in Nat /\ k \in Key /\ hosts[h].known /\ RowInv(hosts[h])
      BY <2>3, <3>1, FoldedBatch DEF Observe, StoreInv
    <3>3. hosts'[h] = ObserveLocked(hosts[h], k, folding.batch.ts)
      BY <3>1, <3>2 DEF StoreInv
    <3>4. folding.todo \ folding'.todo \subseteq {k}
      <4>1. folding \in [batch : Batches, todo : SUBSET Key]
        BY <2>3 DEF StoreInv, FoldingInv, Observe
      <4> QED
        BY <3>1, <4>1
    <3>5. RefusedOnlyByLive
      BY <3>2, <3>3, <3>4, ObservedRow DEF RefusedOnlyByLive
    <3>6. ASSUME NEW g \in Host, NEW l \in Charted(hosts[g]), Kind[l] = "host"
          PROVE  l \in Charted(hosts'[g])
      <4>1. CASE g = h
        BY <4>1, <3>2, <3>3, <3>6, ObservedRow
      <4>2. CASE g # h
        BY <4>2, <3>1, <3>6 DEF StoreInv
      <4> QED
        BY <4>1, <4>2
    <3>7. ASSUME NEW g \in Host, NEW l \in Held(hosts[g]) \ Held(hosts'[g])
          PROVE  /\ folding.batch.host = g
                 /\ hosts[g].series[l].updated + SeriesStaleAfter < folding.batch.ts
                 /\ Cardinality(Held(hosts[g])) >= SeriesPerHost
                 /\ k \in Held(hosts'[g]) \ Held(hosts[g])
      <4>1. g = h
        BY <3>1, <3>7 DEF StoreInv
      <4> QED
        BY <3>2, <3>3, <3>7, <4>1, ObservedHeld DEF TablesInv
    <3>8. GivenUpIsSilent
      BY <3>7 DEF GivenUpIsSilent
    <3> QED
      BY <3>5, <3>6, <3>8 DEF ChartsStay
  <2> QED
    BY <2>1, <2>2, <2>3 DEF Next
<1> QED
  BY <1>1, TablesInit, TablesNext, StoreInit, StoreNext, PTL DEF Spec, PlacesGoToTheLive

-----------------------------------------------------------------------------
(* The view of a host. *)

LEMMA PairMax ==
  ASSUME NEW a \in Int, NEW b \in Int
  PROVE  /\ Max({a, b}) \in {a, b} /\ Max({a, b}) >= a /\ Max({a, b}) >= b
<1>1. \E x \in {a, b} : \A y \in {a, b} : x >= y
  <2>1. CASE a >= b
    BY <2>1
  <2>2. CASE b >= a
    BY <2>2
  <2> QED
    BY <2>1, <2>2
<1> QED
  BY <1>1 DEF Max

LEMMA PairMin ==
  ASSUME NEW a \in Int, NEW b \in Int
  PROVE  /\ Min({a, b}) \in {a, b} /\ Min({a, b}) <= a /\ Min({a, b}) <= b
<1>1. \E x \in {a, b} : \A y \in {a, b} : x <= y
  <2>1. CASE a <= b
    BY <2>1
  <2>2. CASE b <= a
    BY <2>2
  <2> QED
    BY <2>1, <2>2
<1> QED
  BY <1>1 DEF Min

\* A series: a value, and the time of the point it came with.
Sample == [value : Nat, updated : Int]

ValuesInv ==
  /\ scene \in Scenes /\ clock \in Nat /\ heardAt \in Nat
  /\ values \in [scene.catalog -> Sample]

LEMMA ValuesInit == ViewInit => ValuesInv
BY DEF ViewInit, ValuesInv, Unreported, Sample

LEMMA ValuesNext ==
  ASSUME ValuesInv, [ViewNext]_viewVars
  PROVE  ValuesInv'
<1>1. CASE Measure
  <2>1. PICK s \in scene.catalog, v \in 0 .. MaxValue, t \in {clock, clock - 1} \cap Nat :
          values' = [values EXCEPT ![s] = [value |-> v, updated |-> t]]
    BY <1>1 DEF Measure
  <2> DEFINE new == [value |-> v, updated |-> t]
  <2>2. new \in Sample
    BY LimitsAssumption DEF Sample
  <2> HIDE DEF new
  <2>3. values' \in [scene.catalog -> Sample]
    BY <2>1, <2>2 DEF ValuesInv, new
  <2> QED
    BY <1>1, <2>3 DEF Measure, ValuesInv
<1>2. CASE \/ Announce \/ Withdraw \/ Relate \/ Log \/ ViewTick \/ RateChanges \/ Produce
           \/ RestartCounter \/ SampleUnits \/ ObserveUnits \/ UNCHANGED viewVars
  <2>1. scene' = scene /\ values' = values /\ clock' \in {clock, clock + 1} /\ heardAt' \in {heardAt, clock}
    BY <1>2 DEF Announce, Withdraw, Relate, Log, ViewTick, RateChanges, Produce, RestartCounter,
                SampleUnits, ObserveUnits, viewVars
  <2> QED
    BY <2>1 DEF ValuesInv
<1> QED
  BY <1>1, <1>2 DEF ViewNext

\* A row is a thing that was announced, under its key.
RowsInv ==
  /\ IsFiniteSet(DOMAIN rows)
  /\ \A k \in DOMAIN rows : \E a \in scene.things :
       k = RowKey(a) /\ rows[k] \in {RowOf(a), [RowOf(a) EXCEPT !.gone = TRUE]}

LEMMA RowsInit == ViewInit => RowsInv
<1> SUFFICES ASSUME ViewInit PROVE RowsInv
  OBVIOUS
<1>1. DOMAIN rows = {}
  BY DEF ViewInit
<1> QED
  BY <1>1, FS_EmptySet DEF RowsInv

LEMMA RowsNext ==
  ASSUME RowsInv, [ViewNext]_viewVars
  PROVE  RowsInv'
<1>1. CASE Announce
  <2>1. PICK a \in scene.things :
          rows' = [k \in DOMAIN rows \cup {RowKey(a)} |-> IF k = RowKey(a) THEN RowOf(a) ELSE rows[k]]
    BY <1>1 DEF Announce
  <2>2. scene' = scene
    BY <1>1 DEF Announce
  <2>3. IsFiniteSet(DOMAIN rows')
    BY <2>1, FS_AddElement DEF RowsInv
  <2>4. ASSUME NEW k \in DOMAIN rows'
        PROVE  \E b \in scene'.things :
                 k = RowKey(b) /\ rows'[k] \in {RowOf(b), [RowOf(b) EXCEPT !.gone = TRUE]}
    <3>1. CASE k = RowKey(a)
      <4>1. rows'[k] = RowOf(a)
        BY <2>1, <3>1
      <4> QED
        BY <2>2, <3>1, <4>1
    <3>2. CASE k # RowKey(a)
      <4>1. k \in DOMAIN rows /\ rows'[k] = rows[k]
        BY <2>1, <3>2
      <4> QED
        BY <2>2, <4>1 DEF RowsInv
    <3> QED
      BY <3>1, <3>2
  <2> QED
    BY <2>3, <2>4 DEF RowsInv
<1>2. CASE Withdraw
  <2>1. PICK a \in scene.things :
          /\ RowKey(a) \in DOMAIN rows
          /\ rows' = [rows EXCEPT ![RowKey(a)].gone = TRUE]
    BY <1>2 DEF Withdraw
  <2>2. scene' = scene /\ DOMAIN rows' = DOMAIN rows
    BY <1>2, <2>1 DEF Withdraw
  <2>3. ASSUME NEW k \in DOMAIN rows'
        PROVE  \E b \in scene'.things :
                 k = RowKey(b) /\ rows'[k] \in {RowOf(b), [RowOf(b) EXCEPT !.gone = TRUE]}
    <3>1. PICK b \in scene.things :
            k = RowKey(b) /\ rows[k] \in {RowOf(b), [RowOf(b) EXCEPT !.gone = TRUE]}
      BY <2>2 DEF RowsInv
    <3>2. rows'[k] = rows[k] \/ rows'[k] = [rows[k] EXCEPT !.gone = TRUE]
      BY <2>1, <2>2
    <3>3. [[RowOf(b) EXCEPT !.gone = TRUE] EXCEPT !.gone = TRUE] = [RowOf(b) EXCEPT !.gone = TRUE]
      BY DEF RowOf
    <3> QED
      BY <2>2, <3>1, <3>2, <3>3
  <2> QED
    BY <2>2, <2>3 DEF RowsInv
<1>3. CASE \/ Measure \/ Relate \/ Log \/ ViewTick \/ RateChanges \/ Produce
           \/ RestartCounter \/ SampleUnits \/ ObserveUnits \/ UNCHANGED viewVars
  <2>1. scene' = scene /\ rows' = rows
    BY <1>3 DEF Measure, Relate, Log, ViewTick, RateChanges, Produce, RestartCounter,
                SampleUnits, ObserveUnits, viewVars
  <2> QED
    BY <2>1 DEF RowsInv
<1> QED
  BY <1>1, <1>2, <1>3 DEF ViewNext

\* The sum of a set of numbers, whichever is taken first.
LEMMA SumSetInt ==
  ASSUME NEW S, IsFiniteSet(S), S \subseteq Int
  PROVE  \E it : SumsOf(S, [x \in S |-> x], it) /\ SumSet(S) = it[S]
<1> DEFINE P(it) == it = [s \in SUBSET S |-> IF s = {} THEN 0 ELSE
                       (CHOOSE x \in s : TRUE) + it[s \ {CHOOSE x \in s : TRUE}]]
<1>1. SumSet(S) = (CHOOSE it : P(it))[S]
  BY DEF SumSet, FoldSet, MapThenFoldSet
<1>2. ASSUME NEW it
      PROVE  P(it) <=> SumsOf(S, [x \in S |-> x], it)
  <2>1. ASSUME NEW s \in SUBSET S, s # {}
        PROVE  [x \in S |-> x][CHOOSE x \in s : TRUE] = CHOOSE x \in s : TRUE
    <3>1. (CHOOSE x \in s : TRUE) \in S
      BY <2>1
    <3> QED
      BY <3>1
  <2> QED
    BY <2>1 DEF SumsOf
<1>3. \E it : P(it)
  <2>1. [x \in S |-> x] \in [S -> Int]
    OBVIOUS
  <2>2. \E it : SumsOf(S, [x \in S |-> x], it)
    BY <2>1, SumsExist
  <2> QED
    <3> HIDE DEF P
    <3> QED
      BY <1>2, <2>2
<1>4. P(CHOOSE it : P(it))
  <2> HIDE DEF P
  <2> QED
    BY <1>3
<1>5. SumsOf(S, [x \in S |-> x], CHOOSE it : P(it))
  <2> HIDE DEF P
  <2> QED
    BY <1>2, <1>4
<1> HIDE DEF P
<1> QED
  BY <1>1, <1>5

-----------------------------------------------------------------------------
(* What a host costs, and the units it makes. *)

\* What a sample leaves out: the units its program made before it restarted.
Lost(p) == p.made - p.value
SampleOfUnits == [at : Nat, value : Nat, made : Nat]

\* Restarts only ever take units out of the counter: of two samples, the later one has lost
\* no fewer of them.
UnitsInv ==
  /\ rate \in Nat /\ clock \in Nat
  /\ units \in [count : Nat, made : Nat] /\ units.count <= units.made
  /\ points \subseteq SampleOfUnits
  /\ \A p \in points : p.at <= clock /\ Lost(p) <= units.made - units.count
  /\ \A p, q \in points : p.at < q.at => Lost(p) <= Lost(q)
  /\ history \in Seq(points)

LEMMA UnitsInit == ViewInit => UnitsInv
BY DEF ViewInit, UnitsInv

LEMMA UnitsNext ==
  ASSUME UnitsInv, [ViewNext]_viewVars
  PROVE  UnitsInv'
<1> USE DEF Lost, SampleOfUnits
<1>1. CASE SampleUnits
  <2> DEFINE new == [at |-> clock, value |-> units.count, made |-> units.made]
  <2>1. points' = points \cup {new} /\ clock' = clock /\ units' = units /\ history' = history /\ rate' = rate
    BY <1>1 DEF SampleUnits
  <2>2. new \in SampleOfUnits /\ new.at = clock /\ Lost(new) = units.made - units.count
    BY DEF UnitsInv
  <2> HIDE DEF new
  <2>3. history' \in Seq(points')
    BY <2>1 DEF UnitsInv
  <2>4. \A p \in points' : p.at <= clock /\ Lost(p) <= units.made - units.count
    BY <2>1, <2>2 DEF UnitsInv
  <2>5. \A p, q \in points' : p.at < q.at => Lost(p) <= Lost(q)
    BY <2>1, <2>2 DEF UnitsInv
  <2> QED
    BY <2>1, <2>2, <2>3, <2>4, <2>5 DEF UnitsInv
<1>2. CASE ObserveUnits
  <2>1. PICK p \in points :
          history' = IF Len(history) = UnitPoints THEN Append(Tail(history), p) ELSE Append(history, p)
    BY <1>2 DEF ObserveUnits
  <2>2. points' = points /\ clock' = clock /\ units' = units /\ rate' = rate
    BY <1>2 DEF ObserveUnits
  <2>3. history' \in Seq(points)
    <3>1. history \in Seq(points) /\ UnitPoints \in Nat \ {0}
      BY LimitsAssumption DEF UnitsInv
    <3>2. Len(history) = UnitPoints => history # <<>>
      BY <3>1
    <3>3. history # <<>> => Tail(history) \in Seq(points)
      BY <3>1
    <3> QED
      BY <2>1, <3>1, <3>2, <3>3
  <2> QED
    BY <2>2, <2>3 DEF UnitsInv
<1>3. CASE Produce
  <2>1. /\ units'.count = units.count + 1 /\ units'.made = units.made + 1
        /\ units' \in [count : Nat, made : Nat]
    BY <1>3 DEF Produce, UnitsInv
  <2>2. points' = points /\ clock' = clock /\ history' = history /\ rate' = rate
    BY <1>3 DEF Produce
  <2> QED
    BY <2>1, <2>2 DEF UnitsInv
<1>4. CASE RestartCounter
  <2>1. units'.count = 0 /\ units'.made = units.made /\ units' \in [count : Nat, made : Nat]
    BY <1>4 DEF RestartCounter, UnitsInv
  <2>2. points' = points /\ clock' = clock /\ history' = history /\ rate' = rate
    BY <1>4 DEF RestartCounter
  <2> QED
    BY <2>1, <2>2 DEF UnitsInv
<1>5. CASE RateChanges
  <2>1. rate' \in Nat
    BY <1>5, LimitsAssumption DEF RateChanges
  <2>2. points' = points /\ clock' = clock /\ history' = history /\ units' = units
    BY <1>5 DEF RateChanges
  <2> QED
    BY <2>1, <2>2 DEF UnitsInv
<1>6. CASE ViewTick
  <2>1. clock' = clock + 1 /\ points' = points /\ history' = history /\ units' = units /\ rate' = rate
    BY <1>6 DEF ViewTick
  <2> QED
    BY <2>1 DEF UnitsInv
<1>7. CASE Measure \/ Announce \/ Withdraw \/ Relate \/ Log \/ UNCHANGED viewVars
  <2>1. clock' = clock /\ points' = points /\ history' = history /\ units' = units /\ rate' = rate
    BY <1>7 DEF Measure, Announce, Withdraw, Relate, Log, viewVars
  <2> QED
    BY <2>1 DEF UnitsInv
<1> QED
  BY <1>1, <1>2, <1>3, <1>4, <1>5, <1>6, <1>7 DEF ViewNext

\* What a container uses of the host is a number, and so is what it is charged.
LEMMA SharesAreNumbers ==
  ASSUME ValuesInv, NEW cores \in Nat, NEW mem \in Nat, NEW id
  PROVE  /\ Share(id, cores, mem) \in Int
         /\ Share(id, cores, mem) <= WholeOf(cores, mem)
         /\ WholeOf(cores, mem) \in Nat
<1>1. ASSUME NEW metric PROVE Of(metric, id) \in Int
  <2> DEFINE found == {s \in scene.catalog : s.metric = metric /\ s.label = id /\ values[s].updated >= 0}
             V == {values[s].value : s \in found}
  <2>1. IsFiniteSet(V)
    <3>1. IsFiniteSet(found)
      <4>1. IsFiniteSet(scene.catalog)
        BY SceneAssumption DEF ValuesInv
      <4>2. found \subseteq scene.catalog
        OBVIOUS
      <4> HIDE DEF found
      <4> QED
        BY <4>1, <4>2, FS_Subset
    <3> HIDE DEF found
    <3> DEFINE f == [s \in found |-> values[s].value]
    <3>2. V = {f[s] : s \in found}
      OBVIOUS
    <3> HIDE DEF f
    <3>3. IsFiniteSet({f[s] : s \in found})
      BY <3>1, ImageIsFinite
    <3> QED
      BY <3>2, <3>3
  <2>2. V \subseteq Int
    BY DEF ValuesInv, Sample
  <2>3. Of(metric, id) = SumSet(V)
    BY DEF Of
  <2> HIDE DEF V
  <2>4. PICK it : SumsOf(V, [x \in V |-> x], it) /\ SumSet(V) = it[V]
    BY <2>1, <2>2, SumSetInt
  <2>5. AddsUp(V, [x \in V |-> x], it)
    BY <2>1, <2>2, <2>4, SumsAdd
  <2> QED
    BY <2>3, <2>4, <2>5 DEF AddsUp
<1> DEFINE cpu == Of("container.instance.cpu_utilization", id)
           memory == Of("container.instance.memory_bytes", id)
<1>2. cpu \in Int /\ memory \in Int
  BY <1>1
<1> HIDE DEF cpu, memory
<1>3. WholeOf(cores, mem) \in Nat
  BY DEF WholeOf, CpuCostWeight, MemoryCostWeight
<1> DEFINE used == 6 * cpu * mem + 4 * memory * cores
<1>4. used \in Int
  BY <1>2
<1>5. Share(id, cores, mem) = Min({WholeOf(cores, mem), used})
  BY DEF Share, cpu, memory, CpuCostWeight, MemoryCostWeight
<1> HIDE DEF used
<1> DEFINE whole == WholeOf(cores, mem)
<1>6. /\ Min({whole, used}) \in {whole, used}
      /\ Min({whole, used}) <= whole
  <2>1. whole \in Int
    BY <1>3
  <2> HIDE DEF whole
  <2> QED
    BY <1>4, <2>1, PairMin
<1> QED
  BY <1>3, <1>4, <1>5, <1>6

\* However many containers are charged, they are charged no more than there is.
LEMMA SharesAddUp ==
  ASSUME NEW S, IsFiniteSet(S), NEW cores, NEW mem, WholeOf(cores, mem) \in Int,
         \A id \in S : Share(id, cores, mem) \in Int
  PROVE  Allocated(S, cores, mem) \in Int /\ Allocated(S, cores, mem) <= WholeOf(cores, mem)
<1> DEFINE w == [id \in S |-> Share(id, cores, mem)]
           P(it) == it = [s \in SUBSET S |-> IF s = {} THEN 0 ELSE
                       Share(CHOOSE x \in s : TRUE, cores, mem) + it[s \ {CHOOSE x \in s : TRUE}]]
           sum == (CHOOSE it : P(it))[S]
<1>1. Allocated(S, cores, mem) = Min({WholeOf(cores, mem), sum})
  BY DEF Allocated, MapThenSumSet, MapThenFoldSet
<1>2. ASSUME NEW it
      PROVE  P(it) <=> SumsOf(S, w, it)
  <2>1. ASSUME NEW s \in SUBSET S, s # {}
        PROVE  w[CHOOSE x \in s : TRUE] = Share(CHOOSE x \in s : TRUE, cores, mem)
    <3>1. (CHOOSE x \in s : TRUE) \in S
      BY <2>1
    <3> QED
      BY <3>1
  <2> HIDE DEF w
  <2> QED
    BY <2>1 DEF SumsOf
<1>3. \E it : P(it)
  <2>1. w \in [S -> Int]
    OBVIOUS
  <2> HIDE DEF w
  <2>2. \E it : SumsOf(S, w, it)
    BY <2>1, SumsExist
  <2> HIDE DEF P
  <2> QED
    BY <1>2, <2>2
<1>4. P(CHOOSE it : P(it))
  <2> HIDE DEF P
  <2> QED
    BY <1>3
<1>5. AddsUp(S, w, CHOOSE it : P(it))
  <2>1. w \in [S -> Int]
    OBVIOUS
  <2> HIDE DEF P, w
  <2>2. SumsOf(S, w, CHOOSE it : P(it))
    BY <1>2, <1>4
  <2> QED
    BY <2>1, <2>2, SumsAdd
<1>6. sum \in Int
  <2> HIDE DEF P, w
  <2> QED
    BY <1>5 DEF AddsUp
<1> DEFINE whole == WholeOf(cores, mem)
<1>7. whole \in Int
  OBVIOUS
<1> HIDE DEF sum, whole
<1>8. Min({whole, sum}) \in {whole, sum} /\ Min({whole, sum}) <= whole
  BY <1>6, <1>7, PairMin
<1> QED
  BY <1>1, <1>6, <1>7, <1>8 DEF whole

\* CostAddsUp: what is allocated and what is idle are the host's price, and samples that come
\* late, again or from both sides of a restart do not overstate the units.
THEOREM CostsAddUp == ViewSpec => []CostAddsUp
<1>1. ValuesInv /\ UnitsInv => CostAddsUp
  <2> SUFFICES ASSUME ValuesInv, UnitsInv PROVE CostAddsUp
    OBVIOUS
  <2>1. ASSUME NEW cores \in FindSeries("host.cpu.count"),
               NEW mem \in FindSeries("host.memory.total_bytes"), NEW C \in Costed
        PROVE  LET cost == Cost(C, cores, mem) IN
               /\ cost.allocated + cost.idle = cost.total
               /\ \A id \in DOMAIN cost.shares : cost.shares[id] <= WholeOf(cores, mem)
    <3>1. cores \in Nat /\ mem \in Nat
      BY DEF FindSeries, ValuesInv, Sample
    <3>2. IsFiniteSet(C)
      <4> DEFINE seen == {c \in scene.catalog : c.metric \in ContainerMetrics /\ values[c].updated >= 0}
                 ids == {s.label : s \in seen}
      <4>1. IsFiniteSet(seen)
        <5>1. IsFiniteSet(scene.catalog)
          BY SceneAssumption DEF ValuesInv
        <5>2. seen \subseteq scene.catalog
          OBVIOUS
        <5> HIDE DEF seen
        <5> QED
          BY <5>1, <5>2, FS_Subset
      <4>2. C \subseteq ids
        BY DEF Costed
      <4> HIDE DEF seen
      <4>3. IsFiniteSet(ids)
        <5> DEFINE f == [s \in seen |-> s.label]
        <5>1. ids = {f[s] : s \in seen}
          OBVIOUS
        <5> HIDE DEF f
        <5>2. IsFiniteSet({f[s] : s \in seen})
          BY <4>1, ImageIsFinite
        <5> QED
          BY <5>1, <5>2
      <4> HIDE DEF ids
      <4> QED
        BY <4>2, <4>3, FS_Subset
    <3> DEFINE whole == WholeOf(cores, mem)
               A == Allocated(C, cores, mem)
               total == Cost(C, cores, mem).total
               allocated == Cost(C, cores, mem).allocated
               idle == Cost(C, cores, mem).idle
    <3>3. whole \in Nat
      BY <3>1, SharesAreNumbers
    <3>4. \A id \in C : Share(id, cores, mem) \in Int /\ Share(id, cores, mem) <= whole
      BY <3>1, SharesAreNumbers
    <3>5. A \in Int /\ A <= whole
      <4>1. WholeOf(cores, mem) \in Int
        BY <3>3
      <4>2. \A id \in C : Share(id, cores, mem) \in Int
        BY <3>4
      <4> QED
        BY <3>2, <4>1, <4>2, SharesAddUp
    <3>6. /\ total = IF cores > 0 /\ mem > 0 THEN rate * whole ELSE rate
          /\ allocated = IF cores > 0 /\ mem > 0 THEN rate * A ELSE 0
          /\ idle = Max({0, total - allocated})
      BY DEF Cost
    <3>7. \A id \in DOMAIN Cost(C, cores, mem).shares :
            id \in C /\ Cost(C, cores, mem).shares[id] = Share(id, cores, mem)
      BY DEF Cost
    <3>8. allocated + idle = total
      <4> HIDE DEF whole, A, total, allocated, idle
      <4>1. rate \in Nat
        BY DEF UnitsInv
      <4>2. rate * A <= rate * whole /\ rate * A \in Int /\ rate * whole \in Int
        <5>1. whole - A \in Nat
          BY <3>3, <3>5
        <5>2. rate * (whole - A) \in Nat /\ rate * (whole - A) = rate * whole - rate * A
          BY <3>3, <3>5, <4>1, <5>1
        <5>3. rate * A \in Int /\ rate * whole \in Int
          BY <3>3, <3>5, <4>1
        <5> DEFINE x == rate * A
                   y == rate * whole
                   z == rate * (whole - A)
        <5>4. z \in Nat /\ z = y - x /\ x \in Int /\ y \in Int
          BY <5>2, <5>3
        <5> HIDE DEF x, y, z
        <5>5. x <= y
          BY <5>4
        <5> QED
          BY <5>3, <5>5 DEF x, y
      <4>3. total \in Int /\ allocated \in Int /\ allocated <= total
        BY <3>6, <4>1, <4>2
      <4>4. idle = total - allocated
        <5>1. total - allocated \in Int /\ 0 \in Int
          BY <4>3
        <5>2. /\ Max({0, total - allocated}) \in {0, total - allocated}
              /\ Max({0, total - allocated}) >= total - allocated
              /\ Max({0, total - allocated}) >= 0
          BY <5>1, PairMax
        <5> QED
          BY <3>6, <4>3, <5>2
      <4> QED
        BY <4>3, <4>4
    <3>9. \A id \in DOMAIN Cost(C, cores, mem).shares : Cost(C, cores, mem).shares[id] <= whole
      BY <3>4, <3>7
    <3> QED
      BY <3>8, <3>9
  <2>2. ASSUME CounterRate(history).ok
        PROVE  CounterRate(history).delta <= history[Len(history)].made - history[1].made
    <3> DEFINE first == history[1]
               last == history[Len(history)]
    <3>1. /\ Len(history) >= 2 /\ last.at > first.at
          /\ CounterRate(history).delta = last.value - first.value
      <4>1. Len(history) \in Nat
        BY DEF UnitsInv
      <4>2. ~(Len(history) < 2)
        BY <2>2 DEF CounterRate
      <4> DEFINE delta == last.value - first.value
                 good == last.at > first.at /\ delta >= 0
      <4>3. CounterRate(history) = [ok |-> good, delta |-> delta]
        BY <4>2 DEF CounterRate
      <4> HIDE DEF good, delta
      <4>4. CounterRate(history).ok = good /\ CounterRate(history).delta = delta
        BY <4>3
      <4>5. good
        BY <2>2, <4>4
      <4>6. last.at > first.at
        BY <4>5 DEF good
      <4> HIDE DEF first, last
      <4> QED
        BY <4>1, <4>2, <4>4, <4>6 DEF delta
    <3>2. first \in points /\ last \in points
      <4>1. history \in Seq(points)
        BY DEF UnitsInv
      <4> QED
        BY <3>1, <4>1
    <3> HIDE DEF first, last
    <3>3. /\ first \in SampleOfUnits /\ last \in SampleOfUnits
          /\ first.made - first.value <= last.made - last.value
      BY <3>1, <3>2 DEF UnitsInv, Lost, SampleOfUnits
    <3> QED
      BY <3>1, <3>3 DEF SampleOfUnits, first, last
  <2> QED
    BY <2>1, <2>2 DEF CostAddsUp
<1> QED
  BY <1>1, ValuesInit, ValuesNext, UnitsInit, UnitsNext, PTL DEF ViewSpec

-----------------------------------------------------------------------------
(* The chips count what the tables show. *)

Hidden(k) == GroupOf(k) = "processes" /\ Covers(rows[k].name)
InGroup(s, g) == {k \in s : GroupOf(k) = g /\ ~Hidden(k)}
ChipBase == [g \in GroupNames |-> IF g = "processes" THEN Cardinality(Applications) ELSE 0]
ChipsOf(s) == [g \in GroupNames |-> ChipBase[g] + Cardinality(InGroup(s, g))]

LEMMA GroupsAreNamed == \A k : GroupOf(k) \in GroupNames
<1> SUFFICES ASSUME NEW k PROVE GroupOf(k) \in GroupNames
  OBVIOUS
<1> DEFINE kind == rows[k].kind
<1>1. CASE kind \in {"container", "service", "network_endpoint", "filesystem", "process"}
  BY <1>1 DEF GroupOf, Groups, GroupNames
<1>2. CASE kind \notin {"container", "service", "network_endpoint", "filesystem", "process"}
  BY <1>2 DEF GroupOf, Groups, GroupNames
<1> QED
  BY <1>1, <1>2

LEMMA ApplicationsAreFinite ==
  ASSUME ValuesInv
  PROVE  IsFiniteSet(Applications) /\ Cardinality(Applications) \in Nat
<1> DEFINE f == [s \in scene.catalog |-> s.label]
           L == {f[s] : s \in scene.catalog}
<1>1. Applications \subseteq L
  BY DEF Applications, Reporting
<1> HIDE DEF f
<1>2. IsFiniteSet(L)
  <2>1. IsFiniteSet(scene.catalog)
    BY SceneAssumption DEF ValuesInv
  <2> QED
    BY <2>1, ImageIsFinite
<1> HIDE DEF L
<1> QED
  BY <1>1, <1>2, FS_Subset, FS_CardinalityType

\* One row more: its chip shows one more, unless a program's row stands for it.
LEMMA ChipsGrow ==
  ASSUME IsFiniteSet(Standing), Cardinality(Applications) \in Nat,
         NEW s \in SUBSET Standing, NEW k \in s
  PROVE  ChipsOf(s) = IF Hidden(k) THEN ChipsOf(s \ {k})
                      ELSE [ChipsOf(s \ {k}) EXCEPT ![GroupOf(k)] = @ + 1]
<1> DEFINE t == s \ {k}
<1>1. \A g \in GroupNames : IsFiniteSet(InGroup(t, g)) /\ Cardinality(InGroup(t, g)) \in Nat
  <2> SUFFICES ASSUME NEW g \in GroupNames PROVE IsFiniteSet(InGroup(t, g)) /\ Cardinality(InGroup(t, g)) \in Nat
    OBVIOUS
  <2>1. InGroup(t, g) \subseteq Standing
    BY DEF InGroup
  <2> HIDE DEF t
  <2> QED
    BY <2>1, FS_Subset, FS_CardinalityType
<1>2. ChipBase \in [GroupNames -> Nat]
  BY DEF ChipBase
<1>3. CASE Hidden(k)
  <2>1. \A g : InGroup(s, g) = InGroup(t, g)
    BY <1>3 DEF InGroup
  <2> QED
    BY <1>3, <2>1 DEF ChipsOf
<1>4. CASE ~Hidden(k)
  <2> DEFINE h == GroupOf(k)
  <2>1. h \in GroupNames
    BY GroupsAreNamed
  <2>2. \A g \in GroupNames : g # h => InGroup(s, g) = InGroup(t, g)
    BY DEF InGroup
  <2>3. InGroup(s, h) = InGroup(t, h) \cup {k} /\ k \notin InGroup(t, h)
    BY <1>4 DEF InGroup
  <2> HIDE DEF h, t
  <2>4. Cardinality(InGroup(s, h)) = Cardinality(InGroup(t, h)) + 1
    BY <1>1, <2>1, <2>3, FS_AddElement
  <2>5. \A g \in GroupNames : ChipsOf(s)[g] = ChipBase[g] + Cardinality(InGroup(s, g))
    BY DEF ChipsOf
  <2>6. \A g \in GroupNames : ChipsOf(t)[g] = ChipBase[g] + Cardinality(InGroup(t, g))
    BY DEF ChipsOf
  <2>7. ChipsOf(s)[h] = ChipsOf(t)[h] + 1
    BY <1>1, <1>2, <2>1, <2>4, <2>5, <2>6
  <2>8. \A g \in GroupNames : g # h => ChipsOf(s)[g] = ChipsOf(t)[g]
    BY <2>2, <2>5, <2>6
  <2> DEFINE new == [ChipsOf(t) EXCEPT ![h] = @ + 1]
  <2>9. DOMAIN ChipsOf(s) = GroupNames /\ DOMAIN ChipsOf(t) = GroupNames
    BY DEF ChipsOf
  <2>10. new = [g \in GroupNames |-> IF g = h THEN ChipsOf(t)[h] + 1 ELSE ChipsOf(t)[g]]
    BY <2>9
  <2>11. ChipsOf(s) = [g \in GroupNames |-> ChipsOf(s)[g]]
    BY DEF ChipsOf
  <2>12. ChipsOf(s) = new
    BY <2>7, <2>8, <2>10, <2>11
  <2> QED
    BY <1>4, <2>12 DEF h, t
<1> QED
  BY <1>3, <1>4

LEMMA ChipsCount ==
  ASSUME IsFiniteSet(Standing), Cardinality(Applications) \in Nat
  PROVE  \A g \in GroupNames : InventoryCounts[g] = ChipsOf(Standing)[g]
<1> DEFINE Tally(k, c) == IF GroupOf(k) = "processes" /\ Covers(rows[k].name) THEN c
                         ELSE [c EXCEPT ![GroupOf(k)] = @ + 1]
           P(it) == it = [s \in SUBSET Standing |-> IF s = {} THEN ChipBase ELSE
                       Tally(CHOOSE x \in s : TRUE, it[s \ {CHOOSE x \in s : TRUE}])]
           F == [s \in SUBSET Standing |-> ChipsOf(s)]
           it0 == CHOOSE it : P(it)
<1>1. \A g \in GroupNames : InventoryCounts[g] = it0[Standing][g]
  <2>1. "topology" \notin GroupNames
    BY DEF GroupNames
  <2>2. ASSUME NEW g \in GroupNames PROVE InventoryCounts[g] = it0[Standing][g]
    BY <2>1 DEF InventoryCounts, FoldSet, MapThenFoldSet, ChipBase
  <2> QED
    BY <2>2
<1>2. ASSUME NEW s \in SUBSET Standing, NEW k \in s PROVE ChipsOf(s) = Tally(k, ChipsOf(s \ {k}))
  BY ChipsGrow DEF Hidden
<1>3. ChipsOf({}) = ChipBase
  <2>1. \A g : InGroup({}, g) = {}
    BY DEF InGroup
  <2>2. Cardinality({}) = 0
    BY FS_EmptySet
  <2>3. \A g \in GroupNames : ChipsOf({})[g] = ChipBase[g]
    BY <2>1, <2>2 DEF ChipsOf, ChipBase
  <2> QED
    BY <2>3 DEF ChipsOf, ChipBase
<1> HIDE DEF Tally
<1>4. P(F)
  <2>1. ASSUME NEW s \in SUBSET Standing
        PROVE  ChipsOf(s) = IF s = {} THEN ChipBase ELSE
                 Tally(CHOOSE x \in s : TRUE, F[s \ {CHOOSE x \in s : TRUE}])
    <3>1. CASE s = {}
      BY <1>3, <3>1
    <3>2. CASE s # {}
      <4> DEFINE c == CHOOSE x \in s : TRUE
      <4>1. c \in s
        BY <3>2
      <4> HIDE DEF c
      <4>2. ChipsOf(s) = Tally(c, ChipsOf(s \ {c}))
        BY <1>2, <4>1
      <4>3. F[s \ {c}] = ChipsOf(s \ {c})
        BY <4>1
      <4> QED
        BY <3>2, <4>2, <4>3 DEF c
    <3> QED
      BY <3>1, <3>2
  <2> QED
    BY <2>1
<1>5. P(it0)
  <2> HIDE DEF P, F
  <2> QED
    BY <1>4
<1> HIDE DEF it0, F
<1> DEFINE G == {s \in SUBSET Standing : it0[s] = ChipsOf(s)}
<1>6. ASSUME NEW s \in SUBSET Standing, \A x \in s : s \ {x} \in G PROVE s \in G
  <2>1. CASE s = {}
    BY <1>3, <1>5, <2>1
  <2>2. CASE s # {}
    <3> DEFINE c == CHOOSE x \in s : TRUE
    <3>1. c \in s
      BY <2>2
    <3>2. it0[s] = Tally(c, it0[s \ {c}])
      BY <1>5, <2>2
    <3> HIDE DEF c
    <3>3. it0[s \ {c}] = ChipsOf(s \ {c})
      BY <1>6, <3>1
    <3>4. ChipsOf(s) = Tally(c, ChipsOf(s \ {c}))
      BY <1>2, <3>1
    <3> QED
      BY <3>2, <3>3, <3>4
  <2> QED
    BY <2>1, <2>2
<1>7. SUBSET Standing \subseteq G
  <2> HIDE DEF G
  <2> QED
    BY <1>6, SetInduction
<1> QED
  BY <1>1, <1>7

\* The chips and the tables group alike, and no program's row is a process entity's.
LEMMA ChipsAreTables ==
  ASSUME ValuesInv, RowsInv
  PROVE  \A g \in GroupNames \cup {"topology"} : InventoryCounts[g] = Cardinality(InventoryView[g])
<1>1. IsFiniteSet(Standing)
  BY FS_Subset DEF RowsInv, Standing
<1>2. IsFiniteSet(Applications) /\ Cardinality(Applications) \in Nat
  BY ApplicationsAreFinite
<1>3. InventoryCounts["topology"] = Cardinality(InventoryView["topology"])
  BY DEF InventoryCounts, InventoryView
<1>4. ASSUME NEW g \in GroupNames PROVE InventoryCounts[g] = Cardinality(InventoryView[g])
  <2>1. InventoryCounts[g] = ChipBase[g] + Cardinality(InGroup(Standing, g))
    BY <1>1, <1>2, ChipsCount DEF ChipsOf
  <2>2. IsFiniteSet(InGroup(Standing, g)) /\ Cardinality(InGroup(Standing, g)) \in Nat
    <3>1. InGroup(Standing, g) \subseteq Standing
      BY DEF InGroup
    <3> QED
      BY <1>1, <3>1, FS_Subset, FS_CardinalityType
  <2>3. CASE g # "processes"
    <3>1. InventoryView[g] = InGroup(Standing, g)
      <4>1. g # "topology"
        BY DEF GroupNames
      <4>2. InventoryView[g] = {k \in Standing : GroupOf(k) = g}
        BY <2>3, <4>1 DEF InventoryView
      <4>3. {k \in Standing : GroupOf(k) = g} = InGroup(Standing, g)
        BY <2>3 DEF InGroup, Hidden
      <4> QED
        BY <4>2, <4>3
    <3>2. ChipBase[g] = 0
      BY <2>3 DEF ChipBase
    <3> QED
      BY <2>1, <2>2, <3>1, <3>2
  <2>4. CASE g = "processes"
    <3> DEFINE own == InGroup(Standing, g)
               f == [x \in Applications |-> <<"application", x>>]
               T == {f[x] : x \in Applications}
    <3>1. InventoryView[g] = own \cup T
      <4>1. InventoryView[g] = {k \in Standing : GroupOf(k) = g /\ ~Covers(rows[k].name)}
                                \cup {<<"application", x>> : x \in Applications}
        BY <2>4 DEF InventoryView, GroupNames
      <4>2. {k \in Standing : GroupOf(k) = g /\ ~Covers(rows[k].name)} = own
        BY <2>4 DEF InGroup, Hidden
      <4>3. {<<"application", x>> : x \in Applications} = T
        OBVIOUS
      <4> QED
        BY <4>1, <4>2, <4>3
    <3>2. IsFiniteSet(T) /\ Cardinality(T) = Cardinality(Applications)
      <4>1. f \in Surjection(Applications, T)
        BY DEF Surjection
      <4>2. \A x, y \in Applications : f[x] = f[y] => x = y
        OBVIOUS
      <4> HIDE DEF f
      <4>3. f \in Injection(Applications, T)
        BY <4>1, <4>2 DEF Injection, IsInjective, Surjection
      <4> HIDE DEF T
      <4> QED
        BY <1>2, <4>1, <4>3, FS_Surjection
    <3>3. own \cap T = {}
      <4> SUFFICES ASSUME NEW k \in own, k \in T PROVE FALSE
        OBVIOUS
      <4>1. k[1] = "application"
        OBVIOUS
      <4>2. k \in Standing /\ GroupOf(k) = "processes"
        BY <2>4 DEF InGroup
      <4>3. rows[k].kind = "process"
        <5> DEFINE kind == rows[k].kind
        <5>1. CASE kind \in {"container", "service", "network_endpoint", "filesystem", "process"}
          BY <4>2, <5>1 DEF GroupOf, Groups
        <5>2. CASE kind \notin {"container", "service", "network_endpoint", "filesystem", "process"}
          BY <4>2, <5>2 DEF GroupOf, Groups
        <5> QED
          BY <5>1, <5>2
      <4>4. PICK a \in scene.things : k = RowKey(a) /\ rows[k] \in {RowOf(a), [RowOf(a) EXCEPT !.gone = TRUE]}
        BY <4>2 DEF RowsInv, Standing
      <4>5. rows[k].kind = a.kind
        BY <4>4 DEF RowOf
      <4> QED
        BY <4>1, <4>3, <4>4, <4>5 DEF RowKey
    <3> HIDE DEF own, T
    <3>4. IsFiniteSet(own) /\ Cardinality(own) \in Nat
      BY <2>2 DEF own
    <3>5. Cardinality(own \cup T) = Cardinality(own) + Cardinality(T)
      <4>1. Cardinality(own \cup T) = Cardinality(own) + Cardinality(T) - Cardinality(own \cap T)
        BY <3>2, <3>4, FS_Union
      <4>2. Cardinality(own \cap T) = 0
        BY <3>3, FS_EmptySet
      <4> QED
        BY <1>2, <3>2, <3>4, <4>1, <4>2
    <3>6. ChipBase[g] = Cardinality(Applications)
      BY <2>4 DEF ChipBase
    <3> QED
      BY <1>2, <2>1, <3>1, <3>2, <3>4, <3>5, <3>6 DEF own
  <2> QED
    BY <2>3, <2>4
<1> QED
  BY <1>3, <1>4

-----------------------------------------------------------------------------
(* A ring's snapshot. *)

\* Where the i-th newest entry of a ring of n is, when the next one goes to `next'.
PlaceOf(next, n, i) == IF i <= next THEN next - i ELSE next - i + n

LEMMA ModOnce ==
  ASSUME NEW n \in Nat \ {0}, NEW a \in 0 .. n - 1
  PROVE  a % n = a /\ (a + n) % n = a /\ (a + 2 * n) % n = a /\ n % n = 0
OBVIOUS

\* A ring r of n that was given p entries.
RingHolds(r, n, p) ==
  /\ n = 0 => r = EmptyRing
  /\ n > 0 =>
       /\ r.next \in 0 .. n - 1 /\ r.full \in BOOLEAN
       /\ IF r.full THEN p >= n ELSE r.next = p
       /\ IF p = 0 THEN r.buf = <<>> ELSE DOMAIN r.buf = 0 .. n - 1
       /\ \A i \in 1 .. n : i <= p => r.buf[PlaceOf(r.next, n, i)] = p + 1 - i

LEMMA PushKeeps ==
  ASSUME NEW n \in Nat, NEW p \in Nat, NEW r, RingHolds(r, n, p)
  PROVE  RingHolds(Pushed(r, n, p + 1), n, p + 1)
<1>1. CASE n = 0
  BY <1>1 DEF RingHolds, Pushed
<1>2. CASE n > 0
  <2> DEFINE new == Pushed(r, n, p + 1)
             next == r.next
             full == r.full
             buf == r.buf
  <2>1. /\ next \in 0 .. n - 1 /\ full \in BOOLEAN
        /\ IF full THEN p >= n ELSE next = p
        /\ IF p = 0 THEN buf = <<>> ELSE DOMAIN buf = 0 .. n - 1
        /\ \A i \in 1 .. n : i <= p => buf[PlaceOf(next, n, i)] = p + 1 - i
    BY <1>2 DEF RingHolds
  <2>2. /\ new.buf = [i \in 0 .. n - 1 |-> IF i = next THEN p + 1 ELSE IF i \in DOMAIN buf THEN buf[i] ELSE 0]
        /\ new.next = (next + 1) % n
        /\ new.full = (full \/ next + 1 = n)
    BY <1>2 DEF Pushed
  <2> HIDE DEF new, next, full, buf
  <2>3. new.next = IF next + 1 = n THEN 0 ELSE next + 1
    <3>1. CASE next + 1 = n
      <4>1. n % n = 0
        BY <1>2, ModOnce
      <4> QED
        BY <2>2, <3>1, <4>1
    <3>2. CASE next + 1 # n
      <4>1. next + 1 \in 0 .. n - 1
        BY <1>2, <2>1, <3>2
      <4>2. (next + 1) % n = next + 1
        BY <1>2, <4>1, ModOnce
      <4> QED
        BY <2>2, <3>2, <4>2
    <3> QED
      BY <3>1, <3>2
  <2>4. new.next \in 0 .. n - 1 /\ new.full \in BOOLEAN
    BY <1>2, <2>1, <2>2, <2>3
  <2>5. IF new.full THEN p + 1 >= n ELSE new.next = p + 1
    <3>1. ((full \/ next + 1 = n) => new.full) /\ (~(full \/ next + 1 = n) => ~new.full)
      BY <2>2, Zenon
    <3>2. CASE full \/ next + 1 = n
      BY <1>2, <2>1, <3>1, <3>2
    <3>3. CASE ~(full \/ next + 1 = n)
      BY <1>2, <2>1, <2>3, <3>1, <3>3
    <3> QED
      BY <3>2, <3>3
  <2>6. DOMAIN new.buf = 0 .. n - 1
    BY <2>2
  <2>7. ASSUME NEW i \in 1 .. n, i <= p + 1
        PROVE  new.buf[PlaceOf(new.next, n, i)] = p + 1 + 1 - i
    <3>1. CASE i = 1
      <4>1. PlaceOf(new.next, n, i) = next
        BY <1>2, <2>1, <2>3, <3>1 DEF PlaceOf
      <4>2. new.buf[next] = p + 1
        BY <2>1, <2>2
      <4> QED
        BY <3>1, <4>1, <4>2
    <3>2. CASE i # 1
      <4> DEFINE j == i - 1
                 at == PlaceOf(next, n, j)
      <4>1. j \in 1 .. n /\ j <= p /\ j < n /\ p # 0
        BY <2>7, <3>2
      <4>2. PlaceOf(new.next, n, i) = at /\ at \in 0 .. n - 1 /\ at # next
        BY <1>2, <2>1, <2>3, <4>1 DEF PlaceOf
      <4> HIDE DEF at
      <4>3. new.buf[at] = buf[at]
        BY <2>1, <2>2, <4>1, <4>2
      <4>4. buf[at] = p + 1 - j
        BY <2>1, <4>1 DEF at
      <4> QED
        BY <4>2, <4>3, <4>4
    <3> QED
      BY <3>1, <3>2
  <2>8. RingHolds(new, n, p + 1)
    <3>1. p + 1 # 0
      OBVIOUS
    <3> QED
      BY <1>2, <2>4, <2>5, <2>6, <2>7, <3>1 DEF RingHolds
  <2> QED
    BY <2>8 DEF new
<1> QED
  BY <1>1, <1>2

\* The snapshot of a ring is its most recent entries, newest first.
LEMMA SnapshotIsRecent ==
  ASSUME NEW n \in Nat, NEW p \in Nat, NEW r, RingHolds(r, n, p)
  PROVE  Snapshot(r) = [i \in 1 .. Min({p, n}) |-> p + 1 - i]
<1> DEFINE size == Cardinality(DOMAIN r.buf)
           m == IF r.full THEN size ELSE r.next
<1>1. Min({p, n}) \in {p, n} /\ Min({p, n}) <= p /\ Min({p, n}) <= n
  BY PairMin
<1>2. Snapshot(r) = [i \in 1 .. m |-> r.buf[(r.next - i + size * 2) % size]]
  BY DEF Snapshot
<1>3. CASE n = 0
  <2>1. m = 0
    BY <1>3 DEF RingHolds, EmptyRing
  <2>2. Min({p, n}) = 0
    BY <1>1, <1>3
  <2> HIDE DEF m, size
  <2>3. 1 .. m = {} /\ 1 .. Min({p, n}) = {}
    BY <2>1, <2>2
  <2> QED
    BY <1>2, <2>3
<1>4. CASE n > 0 /\ p = 0
  <2>1. m = 0
    BY <1>4 DEF RingHolds
  <2>2. Min({p, n}) = 0
    BY <1>1, <1>4
  <2> HIDE DEF m, size
  <2>3. 1 .. m = {} /\ 1 .. Min({p, n}) = {}
    BY <2>1, <2>2
  <2> QED
    BY <1>2, <2>3
<1>5. CASE n > 0 /\ p > 0
  <2>1. size = n
    <3>1. DOMAIN r.buf = 0 .. n - 1
      BY <1>5 DEF RingHolds
    <3>2. Cardinality(0 .. n - 1) = n
      <4>1. 0 \in Int /\ n - 1 \in Int
        OBVIOUS
      <4>2. Cardinality(0 .. n - 1) = IF 0 > n - 1 THEN 0 ELSE n - 1 - 0 + 1
        BY <4>1, FS_Interval
      <4> QED
        BY <1>5, <4>2
    <3> QED
      BY <3>1, <3>2
  <2> DEFINE next == r.next
  <2>2. /\ next \in 0 .. n - 1 /\ r.full \in BOOLEAN
        /\ IF r.full THEN p >= n ELSE next = p
        /\ \A i \in 1 .. n : i <= p => r.buf[PlaceOf(next, n, i)] = p + 1 - i
    BY <1>5 DEF RingHolds
  <2>3. m = Min({p, n})
    <3>1. CASE r.full
      BY <1>1, <2>1, <2>2, <3>1
    <3>2. CASE ~r.full
      BY <1>1, <2>1, <2>2, <3>2
    <3> QED
      BY <3>1, <3>2
  <2>4. m \in Nat /\ m <= p /\ m <= n
    BY <1>1, <2>3
  <2> HIDE DEF size, m, next
  <2>5. ASSUME NEW i \in 1 .. m
        PROVE  r.buf[(next - i + size * 2) % size] = p + 1 - i
    <3> DEFINE at == PlaceOf(next, n, i)
    <3>1. i \in 1 .. n /\ i <= p
      BY <2>4
    <3>2. at \in 0 .. n - 1 /\ (next - i + n * 2 = at + n \/ next - i + n * 2 = at + 2 * n)
      BY <2>2, <3>1 DEF PlaceOf
    <3> HIDE DEF at
    <3>3. (at + n) % n = at /\ (at + 2 * n) % n = at
      <4>1. n \in Nat \ {0} /\ at \in 0 .. n - 1
        BY <1>5, <3>2
      <4> QED
        BY <4>1, ModOnce
    <3>4. (next - i + size * 2) % size = at
      BY <2>1, <3>2, <3>3
    <3>5. r.buf[at] = p + 1 - i
      BY <2>2, <3>1 DEF at
    <3> QED
      BY <3>4, <3>5
  <2> QED
    BY <1>2, <2>3, <2>5 DEF next
<1> HIDE DEF m, size
<1>6. n = 0 \/ (n > 0 /\ p = 0) \/ (n > 0 /\ p > 0)
  OBVIOUS
<1> QED
  BY <1>3, <1>4, <1>5, <1>6

RingsInv ==
  /\ scene \in Scenes
  /\ DOMAIN rings = {"logs", "spans"}
  /\ pushed \in [{"logs", "spans"} -> Nat]
  /\ \A w \in {"logs", "spans"} : RingHolds(rings[w], Capacity[w], pushed[w])

LEMMA CapacityIsNat == \A w \in {"logs", "spans"} : Capacity[w] \in Nat
BY LimitsAssumption DEF Capacity

LEMMA RingsInit == ViewInit => RingsInv
<1> SUFFICES ASSUME ViewInit PROVE RingsInv
  OBVIOUS
<1>1. \A n \in Nat : RingHolds(EmptyRing, n, 0)
  BY DEF RingHolds, EmptyRing
<1>2. DOMAIN rings = {"logs", "spans"} /\ pushed \in [{"logs", "spans"} -> Nat]
  BY DEF ViewInit
<1>3. \A w \in {"logs", "spans"} : rings[w] = EmptyRing /\ pushed[w] = 0
  BY DEF ViewInit
<1> QED
  BY <1>1, <1>2, <1>3, CapacityIsNat DEF ViewInit, RingsInv

LEMMA RingsNext ==
  ASSUME RingsInv, [ViewNext]_viewVars
  PROVE  RingsInv'
<1>1. CASE Log
  <2>1. PICK w \in scene.rings :
          /\ pushed' = [pushed EXCEPT ![w] = @ + 1]
          /\ rings' = [rings EXCEPT ![w] = Pushed(@, Capacity[w], pushed[w] + 1)]
    BY <1>1 DEF Log
  <2>2. w \in {"logs", "spans"} /\ scene' = scene
    BY <1>1, SceneAssumption DEF Log, RingsInv
  <2>3. pushed[w] \in Nat /\ Capacity[w] \in Nat
    BY <2>2, CapacityIsNat DEF RingsInv
  <2> DEFINE new == Pushed(rings[w], Capacity[w], pushed[w] + 1)
  <2>4. RingHolds(new, Capacity[w], pushed[w] + 1)
    BY <2>2, <2>3, PushKeeps DEF RingsInv
  <2>5. rings' = [rings EXCEPT ![w] = new]
    BY <2>1, <2>2 DEF RingsInv
  <2> HIDE DEF new
  <2>6. /\ DOMAIN rings' = {"logs", "spans"}
        /\ \A v \in {"logs", "spans"} : rings'[v] = IF v = w THEN new ELSE rings[v]
    BY <2>2, <2>5 DEF RingsInv
  <2>7. /\ pushed' \in [{"logs", "spans"} -> Nat]
        /\ \A v \in {"logs", "spans"} : pushed'[v] = IF v = w THEN pushed[w] + 1 ELSE pushed[v]
    BY <2>1, <2>2, <2>3 DEF RingsInv
  <2>8. \A v \in {"logs", "spans"} : RingHolds(rings'[v], Capacity[v], pushed'[v])
    BY <2>4, <2>6, <2>7 DEF RingsInv
  <2> QED
    BY <2>2, <2>6, <2>7, <2>8 DEF RingsInv
<1>2. CASE \/ Measure \/ Announce \/ Withdraw \/ Relate \/ ViewTick \/ RateChanges \/ Produce
           \/ RestartCounter \/ SampleUnits \/ ObserveUnits \/ UNCHANGED viewVars
  <2>1. scene' = scene /\ rings' = rings /\ pushed' = pushed
    BY <1>2 DEF Measure, Announce, Withdraw, Relate, ViewTick, RateChanges, Produce,
                RestartCounter, SampleUnits, ObserveUnits, viewVars
  <2> QED
    BY <2>1 DEF RingsInv
<1> QED
  BY <1>1, <1>2 DEF ViewNext

\* A container announces itself by its identifier: whatever renames it, it is one row.
ContainersHaveIDs ==
  \A sc \in Scenes : \A a \in sc.things : a.kind = "container" => Text(a, "container_id") # <<>>

\* A process under the name that comm leaves of an application is covered by it.
LEMMA CommIsCovered ==
  ASSUME ValuesInv, NEW x \in Applications
  PROVE  Covers(Comm(x))
<1>1. PICK s \in scene.catalog : x = s.label
  BY DEF Applications, Reporting
<1>2. IsText(x)
  BY <1>1, SceneAssumption DEF ValuesInv
<1>3. Len(x) \in Nat /\ x \in Seq({x[i] : i \in DOMAIN x}) /\ CommLen \in Nat
  BY <1>2, LimitsAssumption DEF IsText
<1>4. Min({Len(x), CommLen}) = IF Len(x) <= CommLen THEN Len(x) ELSE CommLen
  <2> DEFINE n == Len(x)
             m == Min({n, CommLen})
  <2>1. n \in Int /\ CommLen \in Int
    BY <1>3
  <2> HIDE DEF n
  <2>2. m \in {n, CommLen} /\ m <= n /\ m <= CommLen
    BY <2>1, PairMin
  <2> HIDE DEF m
  <2>3. m = IF n <= CommLen THEN n ELSE CommLen
    BY <2>1, <2>2
  <2> QED
    BY <2>3 DEF n, m
<1>5. CASE Len(x) <= CommLen
  <2>1. Comm(x) = x
    BY <1>3, <1>4, <1>5 DEF Comm
  <2> QED
    BY <2>1 DEF Covers
<1>6. CASE ~(Len(x) <= CommLen)
  <2>1. Comm(x) = SubSeq(x, 1, CommLen)
    BY <1>4, <1>6 DEF Comm
  <2>2. Len(Comm(x)) = CommLen
    BY <1>3, <1>6, <2>1
  <2>3. Len(x) > CommLen
    BY <1>3, <1>6
  <2> QED
    BY <2>1, <2>2, <2>3 DEF Covers
<1> QED
  BY <1>5, <1>6

\* RowsAreThings: a chip shows the number of rows under it, a program has no second row under
\* what comm leaves of its name, a container has one row, and a ring's snapshot is its most
\* recent entries, newest first.
THEOREM ViewRowsAreThings ==
  ASSUME ContainersHaveIDs
  PROVE  ViewSpec => []RowsAreThings
<1>1. ASSUME ValuesInv, RowsInv, RingsInv PROVE RowsAreThings
  <2>1. ASSUME NEW k \in Standing
        PROVE  \E a \in scene.things :
                 /\ k = RowKey(a) /\ rows[k].kind = a.kind
                 /\ rows[k].id = Text(a, "container_id")
                 /\ rows[k].entityID = Text(a, "entity.target.id")
    <3>1. PICK a \in scene.things : k = RowKey(a) /\ rows[k] \in {RowOf(a), [RowOf(a) EXCEPT !.gone = TRUE]}
      BY <1>1 DEF RowsInv, Standing
    <3>2. /\ rows[k].kind = a.kind /\ rows[k].id = Text(a, "container_id")
          /\ rows[k].entityID = Text(a, "entity.target.id")
      BY <3>1 DEF RowOf
    <3> QED
      BY <3>1, <3>2
  <2>2. ASSUME NEW k \in Standing, NEW l \in Standing,
               rows[k].kind = "container", rows[l].kind = "container", rows[k].id = rows[l].id
        PROVE  k = l
    <3>1. ASSUME NEW a \in scene.things, a.kind = "container"
          PROVE  RowKey(a) = <<"container", Text(a, "container_id")>>
      <4>1. Text(a, "container_id") # <<>>
        BY <1>1, <3>1 DEF ContainersHaveIDs, ValuesInv
      <4>2. Ident(a) = Text(a, "container_id")
        BY <3>1, <4>1 DEF Ident
      <4> QED
        BY <3>1, <4>2 DEF RowKey
    <3> QED
      BY <2>1, <2>2, <3>1
  <2>3. ASSUME NEW x \in Applications, NEW k \in Standing,
               GroupOf(k) = "processes", k \in InventoryView["processes"]
        PROVE  rows[k].name # Comm(x)
    <3>1. InventoryView["processes"] = {l \in Standing : GroupOf(l) = "processes" /\ ~Covers(rows[l].name)}
                                         \cup {<<"application", y>> : y \in Applications}
      BY DEF InventoryView, GroupNames
    <3>2. CASE k \in {l \in Standing : GroupOf(l) = "processes" /\ ~Covers(rows[l].name)}
      BY <1>1, <3>2, CommIsCovered
    <3>3. CASE k \in {<<"application", y>> : y \in Applications}
      <4>1. k[1] = "application"
        BY <3>3
      <4>2. PICK a \in scene.things : k = RowKey(a) /\ rows[k].kind = a.kind
        BY <2>1
      <4>3. rows[k].kind = "application"
        BY <4>1, <4>2 DEF RowKey
      <4>4. GroupOf(k) = "other"
        BY <4>3 DEF GroupOf, Groups
      <4> QED
        BY <2>3, <4>4
    <3> QED
      BY <2>3, <3>1, <3>2, <3>3
  <2>5. \A w \in {"logs", "spans"} :
          Snapshot(rings[w]) = [i \in 1 .. Min({pushed[w], Capacity[w]}) |-> pushed[w] + 1 - i]
    <3> SUFFICES ASSUME NEW w \in {"logs", "spans"}
                 PROVE  Snapshot(rings[w])
                          = [i \in 1 .. Min({pushed[w], Capacity[w]}) |-> pushed[w] + 1 - i]
      OBVIOUS
    <3> DEFINE n == Capacity[w]
               p == pushed[w]
               r == rings[w]
    <3>1. n \in Nat /\ p \in Nat /\ RingHolds(r, n, p)
      BY <1>1, CapacityIsNat DEF RingsInv
    <3> HIDE DEF n, p, r
    <3>2. Snapshot(r) = [i \in 1 .. Min({p, n}) |-> p + 1 - i]
      BY <3>1, SnapshotIsRecent
    <3> QED
      BY <3>2 DEF n, p, r
  <2>6. \A g \in GroupNames \cup {"topology"} : InventoryCounts[g] = Cardinality(InventoryView[g])
    BY <1>1, ChipsAreTables
  <2> QED
    BY <2>2, <2>3, <2>5, <2>6 DEF RowsAreThings
<1> QED
  BY <1>1, ValuesInit, ValuesNext, RowsInit, RowsNext, RingsInit, RingsNext, PTL DEF ViewSpec

(***************************************************************************)
(* The price lists.  What is in memory, on disk or on its way there is     *)
(* listed; and while nothing is known of a region, the disk has nothing    *)
(* that could put older rates over a download's.                           *)
(***************************************************************************)

\* The rates that n rows of a file may have left in a list.
RatesOf(file, n) ==
  {g \in UNION {[S -> {file[i].cents : i \in 1 .. n}] : S \in SUBSET {file[i].type : i \in 1 .. n}} :
     \A t \in DOMAIN g : \E i \in 1 .. n : /\ file[i].kind # "header" /\ file[i].match = Column
                                           /\ t = file[i].type /\ g[t] = file[i].cents}

Reading(file, n) == [header : BOOLEAN, rates : RatesOf(file, n), duplicates : Nat, full : BOOLEAN]

LEMMA ReadRowKeeps ==
  ASSUME NEW file, NEW n \in Nat, NEW a \in Reading(file, n), NEW i \in 1 .. n
  PROVE  ReadRow(a, file[i]) \in Reading(file, n)
<1> DEFINE row == file[i]
           R == RatesOf(file, n)
           g == [t \in DOMAIN a.rates \cup {row.type} |-> IF t = row.type THEN row.cents ELSE a.rates[t]]
           isHeader == (row.kind = "header")
<1>1. a.header \in BOOLEAN /\ a.rates \in R /\ a.duplicates \in Nat /\ a.full \in BOOLEAN
  BY DEF Reading
<1>2. Wanted(row) /\ ~isHeader => g \in R
  <2> SUFFICES ASSUME Wanted(row), ~isHeader PROVE g \in R
    OBVIOUS
  <2>1. row.match = Column
    BY DEF Wanted
  <2> DEFINE C == {file[k].cents : k \in 1 .. n}
             T == {file[k].type : k \in 1 .. n}
  <2>2. PICK S \in SUBSET T : a.rates \in [S -> C]
    BY <1>1 DEF RatesOf
  <2>3. row.type \in T /\ row.cents \in C
    OBVIOUS
  <2>4. \A t \in S : \E k \in 1 .. n : /\ file[k].kind # "header" /\ file[k].match = Column
                                       /\ t = file[k].type /\ a.rates[t] = file[k].cents
    BY <1>1, <2>2 DEF RatesOf
  <2>5. S \cup {row.type} \in SUBSET T
    BY <2>3
  <2>6. g \in [S \cup {row.type} -> C]
    BY <2>2, <2>3
  <2>7. \A t \in S \cup {row.type} : \E k \in 1 .. n :
            /\ file[k].kind # "header" /\ file[k].match = Column
            /\ t = file[k].type /\ g[t] = file[k].cents
    BY <2>1, <2>2, <2>4
  <2> HIDE DEF g, C, T, row
  <2>8. DOMAIN g = S \cup {row.type} /\ g \in UNION {[U -> C] : U \in SUBSET T}
    BY <2>5, <2>6
  <2> QED
    BY <2>7, <2>8 DEF RatesOf, C, T
<1> HIDE DEF g, R
<1>3. [a EXCEPT !.header = row.kind = "header"] \in Reading(file, n)
  <2> DEFINE b == (row.kind = "header")
  <2>1. b \in BOOLEAN
    OBVIOUS
  <2> HIDE DEF b
  <2>2. [a EXCEPT !.header = b] \in Reading(file, n)
    BY <2>1 DEF Reading
  <2> QED
    BY <2>2 DEF b
<1>4. [a EXCEPT !.duplicates = @ + 1] \in Reading(file, n)
  BY DEF Reading
<1>5. [a EXCEPT !.full = TRUE] \in Reading(file, n)
  BY DEF Reading
<1>6. g \in R => [a EXCEPT !.rates = g] \in Reading(file, n)
  BY DEF Reading, R
<1>7. \/ ReadRow(a, row) = a
      \/ ReadRow(a, row) = [a EXCEPT !.header = row.kind = "header"]
      \/ ReadRow(a, row) = [a EXCEPT !.duplicates = @ + 1]
      \/ ReadRow(a, row) = [a EXCEPT !.full = TRUE]
      \/ Wanted(row) /\ ~isHeader /\ ReadRow(a, row) = [a EXCEPT !.rates = g]
  <2> DEFINE e2 == [a EXCEPT !.header = row.kind = "header"]
             e4 == [a EXCEPT !.duplicates = @ + 1]
             e5 == [a EXCEPT !.full = TRUE]
             e6 == [a EXCEPT !.rates = g]
             p3 == (row.kind = "header" \/ ~Wanted(row))
             p4 == (row.type \in DOMAIN a.rates)
             p5 == (Cardinality(DOMAIN a.rates) >= MaxRates)
             p1 == a.full
             p2 == ~a.header
  <2>1. ReadRow(a, row) = IF p1 THEN a ELSE IF p2 THEN e2 ELSE IF p3 THEN a ELSE IF p4 THEN e4
                              ELSE IF p5 THEN e5 ELSE e6
    BY DEF ReadRow, g
  <2>2. ~p3 => Wanted(row) /\ ~isHeader
    OBVIOUS
  <2> HIDE DEF e2, e4, e5, e6, p1, p2, p3, p4, p5
  <2>3. \/ ReadRow(a, row) = a \/ ReadRow(a, row) = e2 \/ ReadRow(a, row) = e4
        \/ ReadRow(a, row) = e5 \/ (~p3 /\ ReadRow(a, row) = e6)
    BY <2>1
  <2> QED
    BY <2>2, <2>3 DEF e2, e4, e5, e6
<1> QED
  BY <1>2, <1>3, <1>4, <1>5, <1>6, <1>7

\* Whatever a file breaks off after, the rates recovered from it are ones it lists.
LEMMA ParsedIsListed ==
  ASSUME NEW r \in Region, NEW file \in Listings[r], NEW n \in 1 .. Len(file)
  PROVE  LET rates == ParseAWSPriceList(file, n).rates IN
         \A t \in DOMAIN rates : <<t, rates[t]>> \in Listed(r)
<1> DEFINE s == SubSeq(file, 1, n)
           P(it) == it = [x \in SUBSET DOMAIN s |-> IF x = {} THEN Unread ELSE
                                                     ReadRow(it[x \ {Max(x)}], s[Max(x)])]
           it0 == CHOOSE it : P(it)
           V == Reading(file, n)
           h == [p \in (1 .. n) \X V |-> ReadRow(p[2], file[p[1]])]
           top == [x \in SUBSET (1 .. n) |-> Max(x)]
<1>1. ParseAWSPriceList(file, n) = it0[DOMAIN s]
  BY DEF ParseAWSPriceList, FoldLeft, MapThenFoldSet
<1>2. /\ file \in Seq(Rows) /\ Len(file) \in Nat /\ n \in Nat /\ 1 .. n \subseteq DOMAIN file
      /\ \A i \in 1 .. n : file[i].kind \in {"row", "header"}
  <2>1. file \in Seq(Rows)
    BY PricesAssumption
  <2>2. \A i \in 1 .. Len(file) : file[i].kind \in {"row", "header"}
    <3>1. \A i \in 1 .. Len(file) : file[i] \in Rows
      BY <2>1
    <3> QED
      BY <3>1 DEF Rows
  <2> QED
    BY <2>1, <2>2
<1>4. DOMAIN s = 1 .. n /\ \A i \in 1 .. n : s[i] = file[i]
  BY <1>2
<1> HIDE DEF s
<1>5. \A x \in SUBSET (1 .. n) : x # {} => TopOf(x, Max(x))
  <2> SUFFICES ASSUME NEW x \in SUBSET (1 .. n), x # {} PROVE TopOf(x, Max(x))
    OBVIOUS
  <2>1. x \subseteq Nat /\ \A k \in x : k <= n
    BY <1>2
  <2>2. \E k \in x : \A j \in x : j <= k
    <3>1. IsFiniteSet(x)
      <4>1. IsFiniteSet(1 .. n) /\ x \subseteq 1 .. n
        BY <1>2, FS_Interval
      <4> QED
        BY <4>1, FS_Subset
    <3> QED
      BY <2>1, <3>1, GreatestIn
  <2>3. \E k \in x : \A j \in x : k >= j
    BY <2>1, <2>2
  <2>4. Max(x) \in x /\ \A j \in x : Max(x) >= j
    BY <2>3 DEF Max
  <2> QED
    BY <2>1, <2>4 DEF TopOf
<1>6. \A x \in SUBSET (1 .. n) : x # {} => TopOf(x, top[x])
  BY <1>5
<1>7. h \in [(1 .. n) \X V -> V]
  BY <1>2, ReadRowKeeps
<1>8. Unread \in V
  <2> DEFINE none == [t \in {} |-> 0]
  <2>1. none \in RatesOf(file, n)
    <3> DEFINE C == {file[i].cents : i \in 1 .. n}
    <3>1. none \in [{} -> C] /\ DOMAIN none = {}
      OBVIOUS
    <3> HIDE DEF none
    <3> QED
      BY <3>1 DEF RatesOf
  <2>2. Unread = [header |-> FALSE, rates |-> none, duplicates |-> 0, full |-> FALSE]
    BY DEF Unread
  <2> HIDE DEF none
  <2> QED
    BY <2>1, <2>2 DEF Reading
<1>9. top = [x \in SUBSET (1 .. n) |-> Max(x)]
  OBVIOUS
<1> HIDE DEF h, top, V
<1>10. PICK it \in [SUBSET (1 .. n) -> V] : RunOf(n, top, Unread, h, it)
  BY <1>2, <1>6, <1>7, <1>8, RunExists
<1>11. P(it)
  <2>1. ASSUME NEW x \in SUBSET (1 .. n), x # {}
        PROVE  h[<<top[x], it[x \ {top[x]}]>>] = ReadRow(it[x \ {Max(x)}], s[Max(x)])
    <3>1. top[x] = Max(x) /\ Max(x) \in 1 .. n
      BY <1>5, <1>9, <2>1 DEF TopOf
    <3> DEFINE y == x \ {Max(x)}
    <3>2. y \in SUBSET (1 .. n)
      BY <2>1
    <3> HIDE DEF y
    <3>3. it[y] \in V
      BY <1>10, <3>2
    <3>4. h[<<Max(x), it[y]>>] = ReadRow(it[y], file[Max(x)])
      BY <3>1, <3>3 DEF h
    <3> QED
      BY <1>4, <3>1, <3>4 DEF y
  <2> QED
    BY <1>4, <1>10, <2>1 DEF RunOf
<1>12. P(it0)
  <2> HIDE DEF P
  <2> QED
    BY <1>11
<1> HIDE DEF it0
<1> DEFINE G == {x \in SUBSET (1 .. n) : it0[x] \in V}
<1>13. ASSUME NEW x \in SUBSET (1 .. n), \A k \in x : x \ {k} \in G
       PROVE  x \in G
  <2>1. CASE x = {}
    BY <1>4, <1>8, <1>12, <2>1
  <2>2. CASE x # {}
    <3> DEFINE m == Max(x)
    <3>1. m \in x /\ m \in 1 .. n
      BY <1>5, <2>2 DEF TopOf
    <3>2. it0[x] = ReadRow(it0[x \ {m}], s[m])
      BY <1>4, <1>12, <2>2
    <3> HIDE DEF m
    <3>3. it0[x \ {m}] \in V
      BY <1>13, <3>1
    <3>4. ReadRow(it0[x \ {m}], file[m]) \in V
      BY <1>2, <3>1, <3>3, ReadRowKeeps DEF V
    <3> QED
      BY <1>4, <3>1, <3>2, <3>4
  <2> QED
    BY <2>1, <2>2
<1>14. it0[1 .. n] \in V
  <2> DEFINE D == 1 .. n
  <2>1. IsFiniteSet(D)
    BY <1>2, FS_Interval
  <2>2. \A x \in SUBSET D : (\A k \in x : x \ {k} \in G) => x \in G
    BY <1>13
  <2> HIDE DEF D, G
  <2>3. SUBSET D \subseteq G
    BY <2>1, <2>2, SetInduction
  <2>4. 1 .. n \in G
    BY <2>3 DEF D
  <2> QED
    BY <2>4 DEF G
<1> DEFINE rates == ParseAWSPriceList(file, n).rates
<1>15. rates \in RatesOf(file, n)
  BY <1>1, <1>4, <1>14 DEF V, Reading
<1> HIDE DEF rates
<1>16. ASSUME NEW t \in DOMAIN rates PROVE <<t, rates[t]>> \in Listed(r)
  <2>1. PICK i \in 1 .. n : /\ file[i].kind # "header" /\ file[i].match = Column
                            /\ t = file[i].type /\ rates[t] = file[i].cents
    BY <1>15 DEF RatesOf
  <2>2. i \in DOMAIN file /\ file[i].kind = "row"
    BY <1>2, <2>1
  <2>3. <<t, rates[t]>> \in PricesOf(file)
    BY <2>1, <2>2 DEF PricesOf
  <2> QED
    BY <2>3 DEF Listed
<1> QED
  BY <1>16 DEF rates

\* What a catalog says is listed; what is in memory is of its region and has rates.
ListedIn(cat, r) == \A t \in DOMAIN cat.rates : <<t, cat.rates[t]>> \in Listed(r)
Sound(cat, r, today) ==
  cat.region = r /\ cat.rates # Unread.rates /\ cat.fetched \in -1 .. today /\ ListedIn(cat, r)

PricesType ==
  /\ day \in Nat /\ starts \in Nat /\ pending \subseteq Region
  /\ DOMAIN kept = Region /\ DOMAIN onDisk = Region /\ failedAt \in [Region -> Int]
  /\ DOMAIN lookup = {"at", "region", "type", "cat", "answer"}
  /\ lookup.at \in {"idle", "disk", "put", "schedule"}

CatalogsInv ==
  /\ \A r \in Region : kept[r] = NoCatalog \/ Sound(kept[r], r, day)
  /\ \A r \in Region : onDisk[r].fetched \in -1 .. day /\ ListedIn(onDisk[r], onDisk[r].region)
  /\ \A cat \in saving : /\ cat.region \in Region /\ Sound(cat, cat.region, day)
                         /\ cat.fetched = day /\ kept[cat.region] # NoCatalog

\* A region that is fetched while nothing is known of it has nothing on disk either.
PendingInv == \A r \in pending : kept[r] = NoCatalog => ~UsableFile(r)

\* Why a region has no price.
Explained(r) == r \in Status \/ Cardinality({q \in Region : kept[q] # NoCatalog}) >= MaxRegions

\* An answer is listed, and explained if it is none ...
AnswerInv ==
  lookup.at = "idle" =>
    \/ lookup.answer = -1
    \/ /\ lookup.region \in Region /\ Explained(lookup.region)
       /\ lookup.answer = 0 \/ <<lookup.type, lookup.answer>> \in Listed(lookup.region)

\* ... and what a lookup finds on disk is no older than what is put in memory meanwhile.
FoundInv ==
  lookup.at # "idle" => LET r == lookup.region IN
  /\ r \in Region /\ lookup.answer = -1
  /\ lookup.at = "disk" =>
       /\ lookup.cat = NoCatalog
       /\ \/ kept[r] = NoCatalog
          \/ r \notin pending /\ (UsableFile(r) => onDisk[r].fetched >= kept[r].fetched)
  /\ lookup.at = "put" =>
       Sound(lookup.cat, r, day) /\ r \notin pending /\ kept[r].fetched <= lookup.cat.fetched
  /\ lookup.at = "schedule" =>
       /\ lookup.cat = NoCatalog \/ Sound(lookup.cat, r, day)
       /\ kept[r] = NoCatalog => ~UsableFile(r)

PricesInv ==
  PricesType /\ CatalogsInv /\ PendingInv /\ AnswerInv /\ FoundInv

LEMMA NoCatalogFacts ==
  /\ NoCatalog.fetched = -1 /\ NoCatalog.rates = Unread.rates
  /\ \A r : ListedIn(NoCatalog, r)
  /\ \A type : Price(NoCatalog, type) = 0
<1> DEFINE none == [t \in {} |-> 0]
<1>1. NoCatalog.fetched = -1 /\ NoCatalog.rates = none /\ Unread.rates = none /\ DOMAIN none = {}
  BY DEF NoCatalog, Unread
<1> HIDE DEF none
<1> QED
  BY <1>1 DEF ListedIn, Price

\* What a catalog answers is listed, or nothing.
LEMMA PriceIsListed ==
  ASSUME NEW cat, NEW r, ListedIn(cat, r), NEW type
  PROVE  Price(cat, type) = 0 \/ <<type, Price(cat, type)>> \in Listed(r)
BY DEF ListedIn, Price

\* A lookup that is over.
LEMMA AnsweredIs ==
  ASSUME NEW l, DOMAIN l = {"at", "region", "type", "cat", "answer"}, NEW cat
  PROVE  /\ DOMAIN Answered(l, cat) = DOMAIN l
         /\ Answered(l, cat).at = "idle" /\ Answered(l, cat).region = l.region
         /\ Answered(l, cat).type = l.type /\ Answered(l, cat).answer = Price(cat, l.type)
BY DEF Answered

\* A region that is known stays known, and the memory no emptier, as long as nothing is dropped.
LEMMA ExplainedStays ==
  ASSUME PricesType, PricesType', NEW r \in Region, Explained(r),
         \A q \in Region : kept[q] # NoCatalog => kept'[q] # NoCatalog,
         r \in pending => r \in pending' \/ kept'[r] # NoCatalog \/ failedAt'[r] >= 0,
         failedAt[r] >= 0 => failedAt'[r] >= 0 \/ kept'[r] # NoCatalog
  PROVE  Explained(r)'
<1> DEFINE K == {q \in Region : kept[q] # NoCatalog}
           L == {q \in Region : kept'[q] # NoCatalog}
<1>1. IsFiniteSet(L) /\ K \subseteq L
  <2>1. IsFiniteSet(Region) /\ L \subseteq Region
    BY PricesAssumption
  <2>2. IsFiniteSet(L)
    <3> HIDE DEF L
    <3> QED
      BY <2>1, FS_Subset
  <2> QED
    BY <2>2
<1>2. Cardinality(K) \in Nat /\ Cardinality(L) \in Nat /\ Cardinality(K) <= Cardinality(L)
  <2> HIDE DEF K, L
  <2> QED
    BY <1>1, FS_Subset, FS_CardinalityType
<1>3. MaxRegions \in Nat
  BY PricesAssumption
<1>4. CASE r \in Status
  BY <1>4 DEF Explained, Status
<1>5. CASE r \notin Status
  <2>1. Cardinality(K) >= MaxRegions
    BY <1>5 DEF Explained
  <2>2. Cardinality(L) >= MaxRegions
    <3> HIDE DEF K, L
    <3> QED
      BY <1>2, <1>3, <2>1
  <2> QED
    BY <2>2 DEF Explained
<1> QED
  BY <1>4, <1>5

\* What an earlier run has left counts as listed.
LEMMA LeftoversAreListed ==
  ASSUME NEW disk \in Leftovers, NEW q \in Region, NEW t \in DOMAIN disk[q].rates
  PROVE  <<t, disk[q].rates[t]>> \in Listed(disk[q].region)
<1> DEFINE F(p) == {<<u, disk[p].rates[u]>> : u \in DOMAIN disk[p].rates}
           A == {p \in Region : disk[p].region = disk[q].region}
<1>1. <<t, disk[q].rates[t]>> \in F(q) /\ q \in A
  OBVIOUS
<1>2. PricesOn(disk, disk[q].region) = UNION {F(p) : p \in A}
  BY DEF PricesOn
<1> HIDE DEF F, A
<1>3. <<t, disk[q].rates[t]>> \in PricesOn(disk, disk[q].region)
  BY <1>1, <1>2
<1>4. ASSUME NEW r PROVE PricesOn(disk, r) \subseteq Listed(r)
  BY DEF Listed
<1> QED
  BY <1>3, <1>4

LEMMA PricesInitHolds == PricesInit => PricesInv
<1> SUFFICES ASSUME PricesInit PROVE PricesInv
  OBVIOUS
<1>1. /\ day = MaxAge /\ starts = 1 /\ onDisk \in Leftovers /\ pending = {} /\ saving = {}
      /\ kept = [r \in Region |-> NoCatalog] /\ failedAt = [r \in Region |-> -1] /\ lookup = NoLookup
  BY DEF PricesInit
<1>2. MaxAge \in Nat /\ DOMAIN onDisk = Region /\ \A r \in Region : onDisk[r].fetched \in -1 .. MaxAge
  BY <1>1, PricesAssumption
<1>3. /\ DOMAIN lookup = {"at", "region", "type", "cat", "answer"}
      /\ lookup.at = "idle" /\ lookup.answer = -1
  BY <1>1 DEF NoLookup
<1>4. PricesType
  BY <1>1, <1>2, <1>3 DEF PricesType
<1>5. \A r \in Region : ListedIn(onDisk[r], onDisk[r].region)
  BY <1>1, LeftoversAreListed DEF ListedIn
<1>6. CatalogsInv
  BY <1>1, <1>2, <1>5 DEF CatalogsInv
<1>7. PendingInv /\ AnswerInv
  BY <1>1, <1>3 DEF PendingInv, AnswerInv
<1> QED
  BY <1>3, <1>4, <1>6, <1>7 DEF PricesInv, FoundInv

LEMMA LookKeeps == ASSUME PricesInv, Look PROVE PricesInv'
<1>1. /\ lookup.at = "idle" /\ UNCHANGED <<day, starts, kept, onDisk, pending, failedAt, saving>>
      /\ PricesType /\ CatalogsInv /\ PendingInv
  BY DEF Look, PricesInv
<1>2. PICK r \in Region, t \in InstanceType :
        LET asked == [at |-> "disk", region |-> r, type |-> t, cat |-> kept[r], answer |-> -1] IN
        lookup' = IF Fresh(kept[r]) THEN Answered(asked, kept[r])
                  ELSE IF kept[r] # NoCatalog THEN [asked EXCEPT !.at = "schedule"]
                  ELSE asked
  BY DEF Look
<1> DEFINE asked == [at |-> "disk", region |-> r, type |-> t, cat |-> kept[r], answer |-> -1]
<1>3. CatalogsInv' /\ PendingInv'
  BY <1>1 DEF CatalogsInv, PendingInv, UsableFile
<1>4. kept[r] = NoCatalog \/ Sound(kept[r], r, day)
  BY <1>1 DEF CatalogsInv
<1>5. PricesType' <=> /\ DOMAIN lookup' = {"at", "region", "type", "cat", "answer"}
                      /\ lookup'.at \in {"idle", "disk", "put", "schedule"}
  BY <1>1 DEF PricesType
<1>6. CASE Fresh(kept[r])
  <2>1. kept[r] # NoCatalog /\ Sound(kept[r], r, day)
    BY <1>4, <1>6 DEF Fresh
  <2>2. DOMAIN asked = {"at", "region", "type", "cat", "answer"} /\ asked.region = r /\ asked.type = t
    OBVIOUS
  <2>9. lookup' = Answered(asked, kept[r])
    BY <1>2, <1>6
  <2> HIDE DEF asked
  <2>4. /\ DOMAIN lookup' = {"at", "region", "type", "cat", "answer"} /\ lookup'.at = "idle"
        /\ lookup'.region = r /\ lookup'.type = t /\ lookup'.answer = Price(kept[r], t)
    BY <2>2, <2>9, AnsweredIs
  <2>5. lookup'.answer = 0 \/ <<t, lookup'.answer>> \in Listed(r)
    BY <2>1, <2>4, PriceIsListed DEF Sound
  <2>6. Explained(r)'
    BY <1>1, <2>1 DEF Explained, Status
  <2>7. AnswerInv'
    BY <2>4, <2>5, <2>6 DEF AnswerInv
  <2> QED
    BY <1>3, <1>5, <2>4, <2>7 DEF PricesInv, FoundInv
<1>7. CASE ~Fresh(kept[r]) /\ kept[r] # NoCatalog
  <2>1. lookup' = [asked EXCEPT !.at = "schedule"]
    BY <1>2, <1>7
  <2>2. /\ DOMAIN lookup' = {"at", "region", "type", "cat", "answer"} /\ lookup'.at = "schedule"
        /\ lookup'.region = r /\ lookup'.cat = kept[r] /\ lookup'.answer = -1
    BY <2>1
  <2>3. FoundInv'
    BY <1>1, <1>4, <1>7, <2>2 DEF FoundInv
  <2> QED
    BY <1>3, <1>5, <2>2, <2>3 DEF PricesInv, AnswerInv, FoundInv
<1>8. CASE ~Fresh(kept[r]) /\ kept[r] = NoCatalog
  <2>1. lookup' = asked
    BY <1>2, <1>8
  <2>2. /\ DOMAIN lookup' = {"at", "region", "type", "cat", "answer"} /\ lookup'.at = "disk"
        /\ lookup'.region = r /\ lookup'.cat = NoCatalog /\ lookup'.answer = -1
    BY <1>8, <2>1
  <2>3. FoundInv'
    BY <1>1, <1>8, <2>2 DEF FoundInv
  <2> QED
    BY <1>3, <1>5, <2>2, <2>3 DEF PricesInv, AnswerInv, FoundInv
<1> QED
  BY <1>6, <1>7, <1>8

LEMMA ReadFileKeeps == ASSUME PricesInv, ReadFile PROVE PricesInv'
<1> DEFINE r == lookup.region
<1>1. /\ lookup.at = "disk" /\ UNCHANGED <<day, starts, kept, onDisk, pending, failedAt, saving>>
      /\ PricesType /\ CatalogsInv /\ PendingInv /\ FoundInv
  BY DEF ReadFile, PricesInv
<1>2. /\ r \in Region /\ lookup.answer = -1 /\ lookup.cat = NoCatalog
      /\ \/ kept[r] = NoCatalog
         \/ r \notin pending /\ (UsableFile(r) => onDisk[r].fetched >= kept[r].fetched)
  BY <1>1 DEF FoundInv
<1>3. CatalogsInv' /\ PendingInv'
  BY <1>1 DEF CatalogsInv, PendingInv, UsableFile
<1>4. PricesType' <=> /\ DOMAIN lookup' = {"at", "region", "type", "cat", "answer"}
                      /\ lookup'.at \in {"idle", "disk", "put", "schedule"}
  BY <1>1 DEF PricesType
<1>5. DOMAIN lookup = {"at", "region", "type", "cat", "answer"}
  BY <1>1 DEF PricesType
<1>6. CASE UsableFile(r)
  <2>1. lookup' = [lookup EXCEPT !.at = "put", !.cat = onDisk[r]]
    BY <1>6 DEF ReadFile
  <2>2. /\ DOMAIN lookup' = {"at", "region", "type", "cat", "answer"} /\ lookup'.at = "put"
        /\ lookup'.region = r /\ lookup'.cat = onDisk[r] /\ lookup'.answer = -1
    BY <1>2, <1>5, <2>1
  <2>3. r \notin pending /\ kept[r].fetched <= onDisk[r].fetched /\ Sound(onDisk[r], r, day)
    <3>1. Sound(onDisk[r], r, day) /\ onDisk[r].fetched \in -1 .. day
      BY <1>1, <1>2, <1>6 DEF CatalogsInv, Sound, UsableFile
    <3>2. kept[r] = NoCatalog => kept[r].fetched = -1
      BY NoCatalogFacts
    <3>3. kept[r].fetched \in Int /\ day \in Nat
      BY <1>1, <1>2, <3>2 DEF CatalogsInv, Sound, PricesType
    <3>4. kept[r] = NoCatalog => r \notin pending
      BY <1>1, <1>6 DEF PendingInv
    <3> QED
      BY <1>2, <1>6, <3>1, <3>2, <3>3, <3>4
  <2>4. FoundInv'
    BY <1>1, <1>2, <2>2, <2>3 DEF FoundInv
  <2> QED
    BY <1>3, <1>4, <2>2, <2>4 DEF PricesInv, AnswerInv, FoundInv
<1>7. CASE ~UsableFile(r)
  <2>1. lookup' = [lookup EXCEPT !.at = "schedule"]
    BY <1>7 DEF ReadFile
  <2>2. /\ DOMAIN lookup' = {"at", "region", "type", "cat", "answer"} /\ lookup'.at = "schedule"
        /\ lookup'.region = r /\ lookup'.cat = NoCatalog /\ lookup'.answer = -1
    BY <1>2, <1>5, <2>1
  <2>3. \A q \in Region : UsableFile(q)' = UsableFile(q)
    BY <1>1 DEF UsableFile
  <2>4. FoundInv'
    BY <1>1, <1>2, <1>7, <2>2, <2>3 DEF FoundInv
  <2> QED
    BY <1>3, <1>4, <2>2, <2>4 DEF PricesInv, AnswerInv, FoundInv
<1> QED
  BY <1>6, <1>7
LEMMA PutFileKeeps == ASSUME PricesInv, PutFile PROVE PricesInv'
<1> DEFINE r == lookup.region
           c == lookup.cat
<1>1. /\ lookup.at = "put" /\ UNCHANGED <<day, starts, onDisk, pending, failedAt, saving>>
      /\ PricesType /\ CatalogsInv /\ PendingInv /\ FoundInv
  BY DEF PutFile, PricesInv
<1>2. /\ r \in Region /\ lookup.answer = -1 /\ Sound(c, r, day) /\ r \notin pending
      /\ DOMAIN lookup = {"at", "region", "type", "cat", "answer"} /\ DOMAIN kept = Region
  BY <1>1 DEF FoundInv, PricesType
<1>3. kept' = [kept EXCEPT ![r] = c]
  BY <1>2 DEF PutFile, Sound
<1>4. /\ DOMAIN kept' = Region /\ kept'[r] = c /\ \A q \in Region \ {r} : kept'[q] = kept[q]
  BY <1>2, <1>3
<1>5. c # NoCatalog
  BY <1>2, NoCatalogFacts DEF Sound
<1>6. CatalogsInv'
  BY <1>1, <1>2, <1>4, <1>5 DEF CatalogsInv
<1>7. PendingInv'
  BY <1>1, <1>2, <1>4 DEF PendingInv, UsableFile, PricesType
<1>8. PricesType' <=> /\ DOMAIN lookup' = {"at", "region", "type", "cat", "answer"}
                      /\ lookup'.at \in {"idle", "disk", "put", "schedule"}
  BY <1>1, <1>4 DEF PricesType
<1> DEFINE k == kept'[r]
<1>9. lookup' = IF Fresh(k) THEN Answered(lookup, k)
                ELSE [lookup EXCEPT !.at = "schedule", !.cat = k]
  BY DEF PutFile
<1>12. k = c
  BY <1>4
<1> HIDE DEF k
<1>10. CASE lookup' = Answered(lookup, c)
  <2>1. /\ DOMAIN lookup' = {"at", "region", "type", "cat", "answer"} /\ lookup'.at = "idle"
        /\ lookup'.region = r /\ lookup'.type = lookup.type /\ lookup'.answer = Price(c, lookup.type)
    BY <1>2, <1>10, AnsweredIs
  <2>2. lookup'.answer = 0 \/ <<lookup'.type, lookup'.answer>> \in Listed(r)
    BY <1>2, <2>1, PriceIsListed DEF Sound
  <2>3. \A q \in Region : kept'[q] # NoCatalog => Explained(q)'
    BY DEF Explained, Status
  <2>4. AnswerInv'
    BY <1>2, <1>4, <1>5, <2>1, <2>2, <2>3 DEF AnswerInv
  <2> QED
    BY <1>6, <1>7, <1>8, <2>1, <2>4 DEF PricesInv, FoundInv
<1>11. CASE lookup' = [lookup EXCEPT !.at = "schedule", !.cat = c]
  <2>1. /\ DOMAIN lookup' = {"at", "region", "type", "cat", "answer"} /\ lookup'.at = "schedule"
        /\ lookup'.region = r /\ lookup'.cat = c /\ lookup'.answer = -1
    BY <1>2, <1>11
  <2>2. FoundInv'
    BY <1>1, <1>2, <1>4, <1>5, <2>1 DEF FoundInv
  <2> QED
    BY <1>6, <1>7, <1>8, <2>1, <2>2 DEF PricesInv, AnswerInv
<1> QED
  BY <1>9, <1>10, <1>11, <1>12

LEMMA ScheduleKeeps == ASSUME PricesInv, Schedule PROVE PricesInv'
<1> DEFINE r == lookup.region
           c == lookup.cat
<1>1. /\ lookup.at = "schedule" /\ UNCHANGED <<day, starts, kept, onDisk, failedAt, saving>>
      /\ PricesType /\ CatalogsInv /\ PendingInv /\ FoundInv
      /\ pending' = (IF MayFetch(r) THEN pending \cup {r} ELSE pending)
      /\ lookup' = Answered(lookup, c)
  BY DEF Schedule, PricesInv
<1>2. /\ r \in Region /\ (c = NoCatalog \/ Sound(c, r, day))
      /\ kept[r] = NoCatalog => ~UsableFile(r)
      /\ DOMAIN lookup = {"at", "region", "type", "cat", "answer"}
  BY <1>1 DEF FoundInv, PricesType
<1>3. /\ DOMAIN lookup' = {"at", "region", "type", "cat", "answer"} /\ lookup'.at = "idle"
      /\ lookup'.region = r /\ lookup'.type = lookup.type /\ lookup'.answer = Price(c, lookup.type)
  BY <1>1, <1>2, AnsweredIs
<1>4. lookup'.answer = 0 \/ <<lookup'.type, lookup'.answer>> \in Listed(r)
  BY <1>2, <1>3, NoCatalogFacts, PriceIsListed DEF Sound
<1>5. \A q \in Region : UsableFile(q)' = UsableFile(q)
  BY <1>1 DEF UsableFile
<1>6. pending' \subseteq Region /\ PendingInv'
  <2>1. pending' \subseteq pending \cup {r} /\ pending \subseteq Region
    BY <1>1 DEF PricesType
  <2> QED
    BY <1>1, <1>2, <1>5, <2>1 DEF PendingInv
<1>7. CatalogsInv' /\ PricesType'
  BY <1>1, <1>3, <1>6 DEF CatalogsInv, PricesType
<1>8. \A q \in Region : (q \in pending' \/ failedAt[q] >= 0
                        \/ Cardinality({p \in Region : kept[p] # NoCatalog}) >= MaxRegions) => Explained(q)'
  BY <1>1 DEF Explained, Status
<1>9. CASE MayFetch(r)
  <2>1. r \in pending'
    BY <1>1, <1>9
  <2> QED
    BY <1>2, <1>3, <1>4, <1>6, <1>7, <1>8, <2>1 DEF PricesInv, AnswerInv, FoundInv
<1>10. CASE ~MayFetch(r)
  <2> DEFINE N == Cardinality({q \in Region : kept[q] # NoCatalog})
  <2>1. r \in pending \/ failedAt[r] >= 0 \/ ~(N < MaxRegions)
    BY <1>10 DEF MayFetch
  <2>2. N \in Nat /\ MaxRegions \in Nat
    <3> DEFINE K == {q \in Region : kept[q] # NoCatalog}
    <3>1. IsFiniteSet(Region) /\ K \subseteq Region /\ MaxRegions \in Nat
      BY PricesAssumption
    <3> HIDE DEF K
    <3>2. Cardinality(K) \in Nat
      BY <3>1, FS_Subset, FS_CardinalityType
    <3> QED
      BY <3>1, <3>2 DEF K
  <2>3. r \in pending' \/ failedAt[r] >= 0 \/ N >= MaxRegions
    <3> HIDE DEF N
    <3> QED
      BY <1>1, <2>1, <2>2
  <2>4. \A q \in Region : q = r => Explained(q)'
    BY <1>8, <2>3
  <2> QED
    BY <1>2, <1>3, <1>4, <1>6, <1>7, <2>4 DEF PricesInv, AnswerInv, FoundInv
<1> QED
  BY <1>9, <1>10

\* What the goroutines and the world do to a lookup that goes on.
LEMMA FetchFailsKeeps == ASSUME PricesInv, FetchFails PROVE PricesInv'
<1>1. PICK r \in pending :
        /\ pending' = pending \ {r} /\ failedAt' = [failedAt EXCEPT ![r] = day]
        /\ UNCHANGED <<day, starts, kept, onDisk, saving, lookup>>
  BY DEF FetchFails
<1>2. PricesType /\ CatalogsInv /\ PendingInv /\ AnswerInv /\ FoundInv
  BY DEF PricesInv
<1>3. /\ r \in Region /\ day \in Nat /\ failedAt' \in [Region -> Int] /\ failedAt'[r] = day
      /\ \A q \in Region \ {r} : failedAt'[q] = failedAt[q]
  BY <1>1, <1>2 DEF PricesType
<1>4. PricesType' /\ CatalogsInv'
  BY <1>1, <1>2, <1>3 DEF PricesType, CatalogsInv
<1>5. \A q \in Region : UsableFile(q)' = UsableFile(q)
  BY <1>1 DEF UsableFile
<1>6. PendingInv'
  BY <1>1, <1>2, <1>5 DEF PendingInv, PricesType
<1>7. ASSUME NEW q \in Region, Explained(q) PROVE Explained(q)'
  <2>1. q \in pending => q \in pending' \/ kept'[q] # NoCatalog \/ failedAt'[q] >= 0
    BY <1>1, <1>3
  <2>2. failedAt[q] >= 0 => failedAt'[q] >= 0 \/ kept'[q] # NoCatalog
    BY <1>3
  <2>3. \A p \in Region : kept[p] # NoCatalog => kept'[p] # NoCatalog
    BY <1>1
  <2> QED
    BY <1>2, <1>4, <1>7, <2>1, <2>2, <2>3, ExplainedStays
<1>8. AnswerInv'
  BY <1>1, <1>2, <1>7 DEF AnswerInv
<1>9. FoundInv'
  BY <1>1, <1>2, <1>5 DEF FoundInv
<1> QED
  BY <1>4, <1>6, <1>8, <1>9 DEF PricesInv

LEMMA FetchEndsKeeps ==
  ASSUME PricesInv, FetchEnds
  PROVE  PricesInv' /\ \A r \in Region : kept'[r].fetched >= kept[r].fetched
<1>1. PICK r \in pending :
        /\ \E file \in Listings[r] : \E n \in 1 .. Len(file) :
             LET read == ParseAWSPriceList(file, n)
                 cat == [region |-> r, fetched |-> day, rates |-> read.rates]
             IN Usable(read) /\ kept' = [kept EXCEPT ![r] = cat] /\ saving' = saving \cup {cat}
        /\ pending' = pending \ {r} /\ failedAt' = [failedAt EXCEPT ![r] = -1]
        /\ UNCHANGED <<day, starts, onDisk, lookup>>
  BY DEF FetchEnds
<1>0. PICK file \in Listings[r] : \E n \in 1 .. Len(file) :
        LET read == ParseAWSPriceList(file, n)
            cat == [region |-> r, fetched |-> day, rates |-> read.rates]
        IN Usable(read) /\ kept' = [kept EXCEPT ![r] = cat] /\ saving' = saving \cup {cat}
  BY <1>1
<1>2. PICK n \in 1 .. Len(file) :
        LET read == ParseAWSPriceList(file, n)
            cat == [region |-> r, fetched |-> day, rates |-> read.rates]
        IN Usable(read) /\ kept' = [kept EXCEPT ![r] = cat] /\ saving' = saving \cup {cat}
  BY <1>0
<1> DEFINE read == ParseAWSPriceList(file, n)
           c == [region |-> r, fetched |-> day, rates |-> read.rates]
<1>3. PricesType /\ CatalogsInv /\ PendingInv /\ AnswerInv /\ FoundInv
  BY DEF PricesInv
<1>4. r \in Region /\ day \in Nat
  BY <1>3 DEF PricesType
<1>5. \A t \in DOMAIN read.rates : <<t, read.rates[t]>> \in Listed(r)
  BY <1>4, ParsedIsListed
<1>6. Usable(read) /\ kept' = [kept EXCEPT ![r] = c] /\ saving' = saving \cup {c}
  BY <1>2
<1> HIDE DEF read
<1>7. c.region = r /\ c.fetched = day /\ c.rates = read.rates
  OBVIOUS
<1> HIDE DEF c
<1>8. Sound(c, r, day) /\ c # NoCatalog
  <2>1. c.rates # Unread.rates
    BY <1>6, <1>7 DEF Usable
  <2>2. c # NoCatalog
    BY <2>1, NoCatalogFacts
  <2> QED
    BY <1>4, <1>5, <1>7, <2>1, <2>2 DEF Sound, ListedIn
<1>9. /\ DOMAIN kept' = Region /\ kept'[r] = c /\ \A q \in Region \ {r} : kept'[q] = kept[q]
  BY <1>3, <1>4, <1>6 DEF PricesType
<1>10. /\ failedAt' \in [Region -> Int] /\ \A q \in Region \ {r} : failedAt'[q] = failedAt[q]
  BY <1>1, <1>3, <1>4 DEF PricesType
<1>11. PricesType'
  BY <1>1, <1>3, <1>9, <1>10 DEF PricesType
<1>12. CatalogsInv'
  <2>1. \A q \in Region : kept'[q] = NoCatalog \/ Sound(kept'[q], q, day')
    BY <1>1, <1>3, <1>8, <1>9 DEF CatalogsInv
  <2>2. \A q \in Region : onDisk'[q].fetched \in -1 .. day' /\ ListedIn(onDisk'[q], onDisk'[q].region)
    BY <1>1, <1>3 DEF CatalogsInv
  <2>3. \A cat \in saving : /\ cat.region \in Region /\ Sound(cat, cat.region, day)
                            /\ cat.fetched = day /\ kept[cat.region] # NoCatalog
    BY <1>3 DEF CatalogsInv
  <2>4. /\ c.region \in Region /\ Sound(c, c.region, day) /\ c.fetched = day
        /\ kept'[c.region] # NoCatalog
    BY <1>4, <1>7, <1>8, <1>9
  <2>5. \A cat \in saving' : /\ cat.region \in Region /\ Sound(cat, cat.region, day')
                             /\ cat.fetched = day' /\ kept'[cat.region] # NoCatalog
    BY <1>1, <1>6, <1>8, <1>9, <2>3, <2>4
  <2> QED
    BY <2>1, <2>2, <2>5 DEF CatalogsInv
<1>13. \A q \in Region : UsableFile(q)' = UsableFile(q)
  BY <1>1 DEF UsableFile
<1>14. PendingInv'
  BY <1>1, <1>3, <1>8, <1>9, <1>13 DEF PendingInv, PricesType
<1>15. ASSUME NEW q \in Region, Explained(q) PROVE Explained(q)'
  <2>1. q \in pending => q \in pending' \/ kept'[q] # NoCatalog \/ failedAt'[q] >= 0
    BY <1>1, <1>8, <1>9
  <2>2. failedAt[q] >= 0 => failedAt'[q] >= 0 \/ kept'[q] # NoCatalog
    BY <1>8, <1>9, <1>10
  <2>3. \A p \in Region : kept[p] # NoCatalog => kept'[p] # NoCatalog
    BY <1>8, <1>9
  <2> QED
    BY <1>3, <1>11, <1>15, <2>1, <2>2, <2>3, ExplainedStays
<1>16. AnswerInv'
  BY <1>1, <1>3, <1>15 DEF AnswerInv
<1>17. FoundInv'
  <2>1. CASE lookup.at # "idle" /\ lookup.region = r
    <3>1. lookup.at # "put"
      BY <1>3, <2>1 DEF FoundInv
    <3>2. lookup.at = "disk" => ~UsableFile(r)
      BY <1>3, <2>1 DEF FoundInv, PendingInv
    <3> QED
      BY <1>1, <1>3, <1>8, <1>9, <1>13, <2>1, <3>1, <3>2 DEF FoundInv
  <2>2. CASE lookup.at # "idle" /\ lookup.region # r
    BY <1>1, <1>3, <1>9, <1>13, <2>2 DEF FoundInv
  <2>3. CASE lookup.at = "idle"
    BY <1>1, <2>3 DEF FoundInv
  <2> QED
    BY <2>1, <2>2, <2>3
<1>18. ASSUME NEW q \in Region PROVE kept'[q].fetched >= kept[q].fetched
  <2>1. kept[q].fetched \in Int /\ kept[q].fetched <= day
    <3>1. kept[q] = NoCatalog \/ Sound(kept[q], q, day)
      BY <1>3 DEF CatalogsInv
    <3> QED
      BY <1>4, <3>1, NoCatalogFacts DEF Sound
  <2> QED
    BY <1>4, <1>7, <1>9, <2>1
<1> QED
  BY <1>11, <1>12, <1>14, <1>16, <1>17, <1>18 DEF PricesInv

LEMMA SaveToDiskKeeps == ASSUME PricesInv, SaveToDisk PROVE PricesInv'
<1>1. PICK cat \in saving :
        /\ saving' = saving \ {cat}
        /\ onDisk' \in {onDisk} \cup {[onDisk EXCEPT ![cat.region] = cat] : c \in {cat.region} \ UnsafeRegion}
        /\ UNCHANGED <<day, starts, kept, pending, failedAt, lookup>>
  BY DEF SaveToDisk
<1>2. PricesType /\ CatalogsInv /\ PendingInv /\ AnswerInv /\ FoundInv
  BY DEF PricesInv
<1> DEFINE r == cat.region
<1>3. r \in Region /\ Sound(cat, r, day) /\ cat.fetched = day /\ kept[r] # NoCatalog
  BY <1>2 DEF CatalogsInv
<1> HIDE DEF r
<1>4. onDisk' = onDisk \/ onDisk' = [onDisk EXCEPT ![r] = cat]
  BY <1>1 DEF r
<1>5. /\ DOMAIN onDisk' = Region /\ (onDisk'[r] = cat \/ onDisk'[r] = onDisk[r])
      /\ \A q \in Region \ {r} : onDisk'[q] = onDisk[q]
  BY <1>2, <1>3, <1>4 DEF PricesType
<1>6. PricesType'
  BY <1>1, <1>2, <1>5 DEF PricesType
<1>7. \A q \in Region \ {r} : UsableFile(q)' = UsableFile(q)
  BY <1>5 DEF UsableFile
<1>8. CatalogsInv'
  <2>1. \A q \in Region : onDisk'[q].fetched \in -1 .. day' /\ ListedIn(onDisk'[q], onDisk'[q].region)
    BY <1>1, <1>2, <1>3, <1>5 DEF CatalogsInv, Sound, r
  <2> QED
    BY <1>1, <1>2, <2>1 DEF CatalogsInv
<1>9. PendingInv'
  BY <1>1, <1>2, <1>3, <1>7 DEF PendingInv, PricesType
<1>10. AnswerInv'
  BY <1>1, <1>2 DEF AnswerInv, Explained, Status
<1>11. FoundInv'
  <2>1. CASE lookup.at # "idle" /\ lookup.region = r
    <3>1. kept[r].fetched <= day /\ kept[r].fetched \in Int /\ day \in Nat
      BY <1>2, <1>3 DEF CatalogsInv, Sound, PricesType
    <3>2. onDisk'[r].fetched >= kept[r].fetched \/ onDisk'[r] = onDisk[r]
      BY <1>3, <1>5, <3>1
    <3>3. onDisk'[r] = onDisk[r] => UsableFile(r)' = UsableFile(r)
      BY DEF UsableFile
    <3> QED
      BY <1>1, <1>2, <1>3, <2>1, <3>1, <3>2, <3>3 DEF FoundInv
  <2>2. CASE lookup.at # "idle" /\ lookup.region # r
    BY <1>1, <1>2, <1>5, <1>7, <2>2 DEF FoundInv
  <2>3. CASE lookup.at = "idle"
    BY <1>1, <2>3 DEF FoundInv
  <2> QED
    BY <2>1, <2>2, <2>3
<1> QED
  BY <1>6, <1>8, <1>9, <1>10, <1>11 DEF PricesInv

LEMMA PriceTickKeeps == ASSUME PricesInv, PriceTick PROVE PricesInv'
<1>1. saving = {} /\ day' = day + 1 /\ UNCHANGED <<starts, kept, onDisk, pending, failedAt, saving, lookup>>
  BY DEF PriceTick
<1>2. PricesType /\ CatalogsInv /\ PendingInv /\ AnswerInv /\ FoundInv
  BY DEF PricesInv
<1>3. day \in Nat /\ -1 .. day \subseteq -1 .. day'
  BY <1>1, <1>2 DEF PricesType
<1>4. \A cat, r : Sound(cat, r, day) => Sound(cat, r, day')
  BY <1>3 DEF Sound
<1>5. \A q \in Region : UsableFile(q)' = UsableFile(q)
  BY <1>1 DEF UsableFile
<1>6. PricesType'
  BY <1>1, <1>2, <1>3 DEF PricesType
<1>7. CatalogsInv'
  BY <1>1, <1>2, <1>3, <1>4 DEF CatalogsInv
<1>8. PendingInv'
  BY <1>1, <1>2, <1>5 DEF PendingInv, PricesType
<1>9. AnswerInv'
  BY <1>1, <1>2 DEF AnswerInv, Explained, Status
<1>10. FoundInv'
  BY <1>1, <1>2, <1>4, <1>5 DEF FoundInv
<1> QED
  BY <1>6, <1>7, <1>8, <1>9, <1>10 DEF PricesInv

LEMMA RestartKeeps == ASSUME PricesInv, RestartIntake PROVE PricesInv' /\ starts' # starts
<1>1. /\ starts' = starts + 1 /\ kept' = [r \in Region |-> NoCatalog] /\ pending' = {} /\ saving' = {}
      /\ failedAt' = [r \in Region |-> -1] /\ lookup' = NoLookup /\ UNCHANGED <<day, onDisk>>
  BY DEF RestartIntake
<1>2. PricesType /\ CatalogsInv
  BY DEF PricesInv
<1>3. /\ DOMAIN lookup' = {"at", "region", "type", "cat", "answer"}
      /\ lookup'.at = "idle" /\ lookup'.answer = -1
  BY <1>1 DEF NoLookup
<1>4. PricesType'
  BY <1>1, <1>2, <1>3 DEF PricesType
<1>5. CatalogsInv'
  BY <1>1, <1>2 DEF CatalogsInv
<1>6. PendingInv' /\ AnswerInv' /\ FoundInv'
  BY <1>1, <1>3 DEF PendingInv, AnswerInv, FoundInv
<1>7. starts' # starts
  BY <1>1, <1>2 DEF PricesType
<1> QED
  BY <1>4, <1>5, <1>6, <1>7 DEF PricesInv

LEMMA PricesNextKeeps ==
  ASSUME PricesInv, [PricesNext]_priceVars
  PROVE  PricesInv' /\ RefreshIsOrderly
<1> DEFINE older == \A r \in Region : kept'[r].fetched >= kept[r].fetched
           early == \A r \in pending' \ pending : failedAt[r] >= 0 => day - failedAt[r] >= RetryAfter
<1>0. \A r \in Region : kept[r].fetched \in Int
  BY NoCatalogFacts DEF PricesInv, PricesType, CatalogsInv, Sound
<1>1. kept' = kept => older
  BY <1>0
<1>2. pending' \subseteq pending => early
  OBVIOUS
<1>3. early /\ (starts' = starts => older) => RefreshIsOrderly
  BY DEF RefreshIsOrderly
<1> HIDE DEF older, early
<1>4. CASE Look
  BY <1>1, <1>2, <1>3, <1>4, LookKeeps DEF Look
<1>5. CASE ReadFile
  BY <1>1, <1>2, <1>3, <1>5, ReadFileKeeps DEF ReadFile
<1>6. CASE PutFile
  <2>1. /\ lookup.at = "put" /\ pending' = pending
        /\ kept' = [kept EXCEPT ![lookup.cat.region] = lookup.cat]
    BY <1>6 DEF PutFile
  <2>2. /\ lookup.region \in Region /\ lookup.cat.region = lookup.region
        /\ kept[lookup.region].fetched <= lookup.cat.fetched /\ DOMAIN kept = Region
        /\ lookup.cat.fetched \in Int
    BY <2>1 DEF PricesInv, FoundInv, PricesType, Sound
  <2>3. older
    BY <1>0, <2>1, <2>2 DEF older
  <2> QED
    BY <1>2, <1>3, <1>6, <2>1, <2>3, PutFileKeeps
<1>7. CASE Schedule
  <2>1. kept' = kept /\ pending' = (IF MayFetch(lookup.region) THEN pending \cup {lookup.region} ELSE pending)
    BY <1>7 DEF Schedule
  <2>2. ASSUME NEW r \in pending' \ pending, failedAt[r] >= 0
        PROVE  day - failedAt[r] >= RetryAfter
    <3>1. r = lookup.region /\ MayFetch(r)
      BY <2>1
    <3>2. /\ r \in Region /\ day \in Nat /\ failedAt[r] \in Int /\ RetryAfter \in Nat
      <4>1. r \in pending'
        OBVIOUS
      <4> QED
        BY <1>7, <4>1, ScheduleKeeps, PricesAssumption DEF PricesInv, PricesType
    <3>3. ~(day - failedAt[r] < RetryAfter)
      BY <2>2, <3>1 DEF MayFetch
    <3> QED
      BY <3>2, <3>3
  <2>3. early
    BY <2>2 DEF early
  <2> QED
    BY <1>1, <1>3, <1>7, <2>1, <2>3, ScheduleKeeps
<1>8. CASE FetchFails
  BY <1>1, <1>2, <1>3, <1>8, FetchFailsKeeps DEF FetchFails
<1>9. CASE FetchEnds
  <2>1. pending' \subseteq pending
    BY <1>9 DEF FetchEnds
  <2>2. older
    BY <1>9, FetchEndsKeeps DEF older
  <2> QED
    BY <1>2, <1>3, <1>9, <2>1, <2>2, FetchEndsKeeps
<1>10. CASE SaveToDisk
  BY <1>1, <1>2, <1>3, <1>10, SaveToDiskKeeps DEF SaveToDisk
<1>11. CASE PriceTick
  BY <1>1, <1>2, <1>3, <1>11, PriceTickKeeps DEF PriceTick
<1>12. CASE RestartIntake
  BY <1>2, <1>3, <1>12, RestartKeeps DEF RestartIntake
<1>13. CASE UNCHANGED priceVars
  <2>1. UNCHANGED <<day, starts, kept, onDisk, pending, failedAt, saving, lookup>>
    BY <1>13 DEF priceVars
  <2>2. \A q \in Region : UsableFile(q)' = UsableFile(q) /\ Explained(q)' = Explained(q)
    BY <2>1 DEF UsableFile, Explained, Status
  <2>3. PricesType' /\ CatalogsInv' /\ PendingInv'
    BY <2>1, <2>2 DEF PricesInv, PricesType, CatalogsInv, PendingInv
  <2>4. AnswerInv' /\ FoundInv'
    BY <2>1, <2>2 DEF PricesInv, AnswerInv, FoundInv
  <2> QED
    BY <1>1, <1>2, <1>3, <2>1, <2>3, <2>4 DEF PricesInv
<1> QED
  BY <1>4, <1>5, <1>6, <1>7, <1>8, <1>9, <1>10, <1>11, <1>12, <1>13 DEF PricesNext

LEMMA PricesInvIsTrue == PricesInv => AnswersAreListed /\ BlankIsExplained
<1> SUFFICES ASSUME PricesInv PROVE AnswersAreListed /\ BlankIsExplained
  OBVIOUS
<1>1. CASE lookup.answer = -1
  BY <1>1 DEF AnswersAreListed, BlankIsExplained
<1>2. CASE lookup.answer # -1
  <2>1. lookup.at = "idle"
    BY <1>2 DEF PricesInv, FoundInv
  <2> QED
    BY <1>2, <2>1 DEF PricesInv, AnswerInv, Explained, AnswersAreListed, BlankIsExplained
<1> QED
  BY <1>1, <1>2

\* The price column (internal/pricing/resolver.go): for every list the provider may publish,
\* every leftover on disk, download that breaks off or fails and restart, a price that is
\* shown is one listed for that region and type, a blank one is explained, a region that has
\* failed is not asked for again too soon, and no rates give way to older ones.
THEOREM PricesAreTrue == PricesSpec => PriceColumnIsTrue
<1>1. PricesInit => PricesInv
  BY PricesInitHolds
<1>2. PricesInv /\ [PricesNext]_priceVars => PricesInv'
  BY PricesNextKeeps
<1>3. PricesInv /\ [PricesNext]_priceVars => RefreshIsOrderly
  BY PricesNextKeeps
<1>4. PricesInv => AnswersAreListed /\ BlankIsExplained
  BY PricesInvIsTrue
<1> QED
  BY <1>1, <1>2, <1>3, <1>4, PTL DEF PricesSpec, PriceColumnIsTrue

=============================================================================
