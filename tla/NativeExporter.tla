--------------------------- MODULE NativeExporter ---------------------------
(***************************************************************************)
(* The native exporter (internal/platform/native): bounded buffers filled  *)
(* by the modules and by the OTLP receiver, and one goroutine that at each *)
(* tick replays the spool and then posts metrics, logs, what was received, *)
(* and the inventory.  A failed post is tried again a few times, then      *)
(* spooled to disk; failures in a row open a circuit that turns posts into *)
(* spool files until it expires.  Shutdown cancels the loop's context: the *)
(* flush under way gives up its backoff, and a final one follows.  The     *)
(* spool outlives the process, the buffers do not.                         *)
(*                                                                         *)
(* Abstractions.  A log record or a received payload is an item, numbered  *)
(* as accepted; a metrics sample and the inventory are payloads without    *)
(* items (module Inventory says what the inventory holds).  A payload over *)
(* maxBody is one that holds an item of Big.  A spool directory is set and *)
(* writable; writing a file and trimming the directory are one step.       *)
(***************************************************************************)
EXTENDS Integers, Sequences, FiniteSets, SequencesExt

CONSTANTS
  MaxItems,        \* bound: items accepted
  Signals,         \* the signals of received payloads
  Big,             \* the items that make a payload too large for the intake
  MaxBatch,        \* Config.MaxBatch
  MaxRetries,      \* maxRetries: requests per post (3)
  TripsAt,         \* failures in a row that open the circuit (5)
  MaxSpoolFiles,   \* maxSpoolFiles (64)
  MaxRestarts      \* bound: restarts of the agent, orderly or not

ASSUME ExporterAssumption ==
  /\ {MaxItems, MaxRestarts} \subseteq Nat
  /\ Signals \subseteq {"traces", "metrics", "logs", "other"} /\ Big \subseteq 1 .. MaxItems
  /\ {MaxBatch, MaxRetries, TripsAt, MaxSpoolFiles} \subseteq Nat \ {0}

VARIABLES
  accepted,  \* the number of items accepted so far
  logs,      \* Exporter.logs
  traces,    \* Exporter.traces: received items with their signals
  phase,     \* what the loop is doing
  todo,      \* payloads the phase has still to post; the first is being posted
  at,        \* where the post, or the replay of a file, is
  attempt,   \* requests that have failed in this post
  final,     \* is this the flush that ends the loop?
  stopping,  \* has Shutdown cancelled the loop's context?
  open,      \* is the circuit open?
  failures,  \* Exporter.failures
  spool,     \* the files of the spool, oldest first
  healthy,   \* does the intake, from now on, answer every request with success?
  received,  \* how often the intake has received each item (2: more than once)
  unsure,    \* items received by a request of which the exporter knows no success
  shed,      \* items given up by a bound, by decoding, by the intake, by a crash or with a file
             \* of the spool that could not be read
  late,      \* items accepted after Shutdown was called
  restarts   \* restarts so far

exporter == <<logs, traces, phase, todo, at, attempt, final, open, failures>>
books == <<received, unsure, shed>>
vars == <<accepted, exporter, stopping, spool, healthy, books, late, restarts>>

Item == 1 .. MaxItems
Payload(signal, items) == [signal |-> signal, items |-> items]
ItemsOf(payloads) == UNION {payloads[i].items : i \in 1 .. Len(payloads)}

\* What the receiver has handed over, all of it and of one signal.
Ingested == {traces[i].item : i \in 1 .. Len(traces)}
IngestedOf(s) == {traces[i].item : i \in {j \in 1 .. Len(traces) : traces[j].signal = s}}

\* The order of the phases in a flush; "idle" waits for a tick.
PhaseAfter ==
  [replay |-> "metrics", metrics |-> "logs", logs |-> "received", received |-> "inventory",
   inventory |-> IF final THEN "done" ELSE "idle"]

Init ==
  /\ accepted = 0
  /\ logs = <<>> /\ traces = <<>>
  /\ phase = "idle" /\ todo = <<>> /\ at = "begin" /\ attempt = 0 /\ final = FALSE
  /\ stopping = FALSE
  /\ open = FALSE /\ failures = 0
  /\ spool = <<>>
  /\ healthy = FALSE
  /\ received = [i \in Item |-> 0]
  /\ unsure = {} /\ shed = {} /\ late = {}
  /\ restarts = 0

-----------------------------------------------------------------------------
(* The producers. *)

Accepts ==
  /\ accepted < MaxItems
  /\ accepted' = accepted + 1
  /\ late' = IF stopping THEN late \cup {accepted + 1} ELSE late

EmitLog ==
  /\ Accepts
  /\ IF Len(logs) >= 2 * MaxBatch
       THEN shed' = shed \cup {accepted + 1} /\ UNCHANGED logs
       ELSE logs' = Append(logs, accepted + 1) /\ UNCHANGED shed
  /\ UNCHANGED <<traces, phase, todo, at, attempt, final, stopping, open, failures, spool,
                 healthy, received, unsure, restarts>>

IngestTraces ==
  /\ Accepts
  /\ IF Len(traces) >= MaxBatch
       THEN shed' = shed \cup {accepted + 1} /\ UNCHANGED traces
       ELSE \E s \in Signals :
              traces' = Append(traces, [item |-> accepted + 1, signal |-> s]) /\ UNCHANGED shed
  /\ UNCHANGED <<logs, phase, todo, at, attempt, final, stopping, open, failures, spool,
                 healthy, received, unsure, restarts>>

-----------------------------------------------------------------------------
(* The loop: ticks, and the payloads of each phase. *)

Flushes(last) ==
  /\ phase = "idle"
  /\ phase' = "replay" /\ final' = last
  /\ UNCHANGED <<accepted, logs, traces, todo, at, attempt, stopping, open, failures, spool,
                 healthy, books, late, restarts>>

\* A tick may win over the cancelled context.
Tick == Flushes(FALSE)
FinalFlush == stopping /\ Flushes(TRUE)

\* Has the context of this flush been cancelled?  The final flush has one of its own.
Cancelled == stopping /\ ~final

NextPhase == phase' = PhaseAfter[phase] /\ todo' = <<>> /\ at' = "begin" /\ attempt' = 0

Posting(payloads) ==
  IF payloads = <<>> THEN NextPhase
  ELSE todo' = payloads /\ at' = "start" /\ UNCHANGED <<phase, attempt>>

ExportMetrics ==
  /\ phase = "metrics" /\ at = "begin"
  /\ Posting(<<Payload("metrics", {})>>)
  /\ UNCHANGED <<logs, traces, shed>>

\* Of a longer buffer only the first MaxBatch records are posted.
ExportLogs ==
  LET kept == SubSeq(logs, 1, IF Len(logs) < MaxBatch THEN Len(logs) ELSE MaxBatch) IN
  /\ phase = "logs" /\ at = "begin"
  /\ logs' = <<>>
  /\ shed' = shed \cup (ToSet(logs) \ ToSet(kept))
  /\ Posting(IF logs = <<>> THEN <<>> ELSE <<Payload("logs", ToSet(kept))>>)
  /\ UNCHANGED traces

\* Each signal has a payload of its own, if anything of it is decoded and sampled.
ExportReceived ==
  /\ phase = "received" /\ at = "begin"
  /\ \E lost \in SUBSET Ingested :
       LET Payloads(s) == IF IngestedOf(s) \subseteq lost THEN <<>>
                          ELSE <<Payload(s, IngestedOf(s) \ lost)>>
       IN /\ shed' = shed \cup lost \cup IngestedOf("other")
          /\ Posting(Payloads("traces") \o Payloads("metrics") \o Payloads("logs"))
  /\ traces' = <<>>
  /\ UNCHANGED logs

\* Whether the inventory is posted is decided by exportInventory (module Inventory).
ExportInventory ==
  /\ phase = "inventory" /\ at = "begin"
  /\ \E due \in BOOLEAN : Posting(IF due THEN <<Payload("inventory", {})>> ELSE <<>>)
  /\ UNCHANGED <<logs, traces, shed>>

Export ==
  /\ ExportMetrics \/ ExportLogs \/ ExportReceived \/ ExportInventory
  /\ UNCHANGED <<accepted, final, stopping, open, failures, spool, healthy, received, unsure,
                 late, restarts>>

-----------------------------------------------------------------------------
(* The circuit and the spool. *)

\* noteSuccess.
NoteSuccess == open' = FALSE /\ failures' = 0

\* tripCircuit.
TripCircuit ==
  IF failures + 1 >= TripsAt THEN open' = TRUE /\ failures' = 0
  ELSE failures' = failures + 1 /\ UNCHANGED open

\* CircuitOpenFor has passed.
CircuitExpires ==
  /\ open
  /\ open' = FALSE
  /\ UNCHANGED <<accepted, logs, traces, phase, todo, at, attempt, final, stopping, failures,
                 spool, healthy, books, late, restarts>>

\* circuitOpen, as post asks it.
CircuitOpen == open

\* trimSpool: the oldest files go.
TrimSpool(files) ==
  IF Len(files) <= MaxSpoolFiles THEN files
  ELSE SubSeq(files, Len(files) - MaxSpoolFiles + 1, Len(files))

\* Spooling the payload; what the trimmed files held is given up.
Spool(p) ==
  LET files == Append(spool, p) IN
  /\ spool' = TrimSpool(files)
  /\ shed' = shed \cup (ItemsOf(files) \ ItemsOf(TrimSpool(files)))

-----------------------------------------------------------------------------
(* Requests. *)

\* The request for the payload is answered with success, refused for good (a 4xx other
\* than 429), or fails: lost, refused for now, timed out, or with its answer lost.
Receives(items) ==
  received' = [i \in Item |-> IF i \in items /\ received[i] < 2 THEN received[i] + 1
                             ELSE received[i]]

Succeeds(p) == at = "asked" /\ Receives(p.items) /\ UNCHANGED unsure
Refused == at = "asked" /\ ~healthy /\ UNCHANGED <<received, unsure>>
Fails(p) ==
  \/ at = "void" /\ UNCHANGED <<received, unsure>>
  \/ /\ at = "asked" /\ (~healthy \/ Cancelled)
     /\ \/ Receives(p.items) /\ unsure' = unsure \cup p.items
        \/ UNCHANGED <<received, unsure>>

Oversize(p) == p.items \cap Big # {}

\* A request of a cancelled context is not sent.
Ask == at' = IF Cancelled THEN "void" ELSE "asked"

-----------------------------------------------------------------------------
(* post. *)

Current == Head(todo)

\* The post of the current payload is over.
PostOver ==
  IF Len(todo) > 1 THEN todo' = Tail(todo) /\ at' = "start" /\ attempt' = 0 /\ UNCHANGED phase
  ELSE NextPhase

PostBegins ==
  /\ at = "start"
  /\ \/ CircuitOpen /\ Spool(Current) /\ PostOver
     \/ ~CircuitOpen /\ Oversize(Current) /\ PostOver
        /\ shed' = shed \cup Current.items /\ UNCHANGED spool
     \/ ~CircuitOpen /\ ~Oversize(Current) /\ Ask
        /\ UNCHANGED <<phase, todo, attempt, spool, shed>>
  /\ UNCHANGED <<open, failures, received, unsure>>

PostSucceeds ==
  /\ Succeeds(Current)
  /\ NoteSuccess /\ PostOver
  /\ UNCHANGED <<spool, shed>>

\* The last attempt has failed, or the intake refuses the payload for good.
PostFails ==
  /\ Refused \/ (attempt + 1 >= MaxRetries /\ Fails(Current))
  /\ TripCircuit /\ Spool(Current) /\ PostOver

PostBacksOff ==
  /\ attempt + 1 < MaxRetries /\ Fails(Current)
  /\ attempt' = attempt + 1 /\ at' = "backoff"
  /\ UNCHANGED <<phase, todo, open, failures, spool, shed>>

PostRetries ==
  /\ at = "backoff"
  /\ Ask
  /\ UNCHANGED <<phase, todo, attempt, open, failures, spool, books>>

\* Bug: what is posted when the agent stops is dropped.
PostDropped ==
  /\ at = "backoff" /\ Cancelled
  /\ PostOver
  /\ UNCHANGED <<open, failures, spool, books>>

\* The backoff notices the cancelled context.
PostCancelled ==
  /\ at = "backoff" /\ Cancelled
  /\ Spool(Current) /\ PostOver
  /\ UNCHANGED <<open, failures, received, unsure>>

Post ==
  /\ todo # <<>>
  /\ PostBegins \/ PostSucceeds \/ PostFails \/ PostBacksOff \/ PostRetries \/ PostCancelled
  /\ UNCHANGED <<accepted, logs, traces, final, stopping, healthy, late, restarts>>

-----------------------------------------------------------------------------
(* replaySpool: the files in the order of their names, that is by signal and then by  *)
(* time, until one fails.  Nobody else touches the directory meanwhile.               *)

NameOrder == [inventory |-> 1, logs |-> 2, metrics |-> 3, traces |-> 4]
FilesOf(signals) == {i \in 1 .. Len(spool) : spool[i].signal \in signals}
FirstOf(files) ==
  CHOOSE i \in files :
    \A j \in files : LET r(k) == NameOrder[spool[k].signal] IN
      r(i) < r(j) \/ (r(i) = r(j) /\ i <= j)

\* Bug: a file of another signal ends the replay.
ReplayUntilOther ==
  IF FilesOf({"inventory"}) # {} THEN {} ELSE FilesOf({"logs", "metrics", "traces"})

\* Files of other signals are passed over.
Replayable == FilesOf({"logs", "metrics", "traces"})

ReplayEnds == NextPhase /\ UNCHANGED <<open, failures, spool, books>>

\* A file that cannot be read, or is empty, is removed, and its items are counted nowhere.
ReplayUnread ==
  /\ at = "begin" /\ ~open /\ Replayable # {}
  /\ spool' = RemoveAt(spool, FirstOf(Replayable))
  /\ shed' = shed \cup spool[FirstOf(Replayable)].items
  /\ UNCHANGED <<phase, todo, at, attempt, open, failures, received, unsure>>

ReplayNext ==
  /\ at = "begin"
  /\ IF open \/ Replayable = {} THEN ReplayEnds
     ELSE LET file == spool[FirstOf(Replayable)] IN
       /\ IF Oversize(file) THEN at' = "remove" /\ shed' = shed \cup file.items
          ELSE Ask /\ UNCHANGED shed
       /\ UNCHANGED <<phase, todo, attempt, open, failures, spool, received, unsure>>

\* postOnce: a refused payload is dropped like a delivered one, but the failures stay.
ReplayAnswered ==
  /\ at \in {"asked", "void"}
  /\ LET file == spool[FirstOf(Replayable)] IN
     \/ /\ Succeeds(file) /\ NoteSuccess
        /\ at' = "remove" /\ UNCHANGED <<phase, todo, attempt, spool, shed>>
     \/ /\ Refused /\ shed' = shed \cup file.items
        /\ at' = "remove" /\ UNCHANGED <<phase, todo, attempt, open, failures, spool>>
     \/ Fails(file) /\ TripCircuit /\ NextPhase /\ UNCHANGED <<spool, shed>>

\* Bug: a replayed file is left for the next flush.
ReplayKeeps ==
  /\ at = "remove"
  /\ NextPhase
  /\ UNCHANGED <<open, failures, spool, books>>

ReplayRemoves ==
  /\ at = "remove"
  /\ spool' = RemoveAt(spool, FirstOf(Replayable))
  /\ at' = "begin"
  /\ UNCHANGED <<phase, todo, attempt, open, failures, books>>

Replay ==
  /\ phase = "replay"
  /\ ReplayNext \/ ReplayUnread \/ ReplayAnswered \/ ReplayRemoves
  /\ UNCHANGED <<accepted, logs, traces, final, stopping, healthy, late, restarts>>

-----------------------------------------------------------------------------
(* Shutdown, the end of the process, and the intake. *)

Shutdown ==
  /\ ~stopping
  /\ stopping' = TRUE
  /\ UNCHANGED <<accepted, exporter, spool, healthy, books, late, restarts>>

InMemory == ToSet(logs) \cup Ingested \cup ItemsOf(todo)

\* The file whose replay has been answered, or may have been received.
Replaying ==
  IF phase = "replay" /\ at \in {"asked", "remove"} THEN spool[FirstOf(Replayable)].items ELSE {}

\* The process ends, of itself after the final flush, when Shutdown's deadline passes
\* before that, or by a crash; another takes over its spool.
Restart ==
  /\ restarts < MaxRestarts /\ restarts' = restarts + 1
  /\ shed' = shed \cup InMemory
  /\ \/ UNCHANGED received
     \/ at = "asked" /\ Receives(IF phase = "replay" THEN Replaying ELSE Current.items)
  /\ unsure' = unsure \cup Replaying
  /\ logs' = <<>> /\ traces' = <<>>
  /\ phase' = "idle" /\ todo' = <<>> /\ at' = "begin" /\ attempt' = 0 /\ final' = FALSE
  /\ stopping' = FALSE /\ open' = FALSE /\ failures' = 0
  /\ late' = {}
  /\ UNCHANGED <<accepted, spool, healthy>>

IntakeRecovers ==
  /\ ~healthy
  /\ healthy' = TRUE
  /\ UNCHANGED <<accepted, exporter, stopping, spool, books, late, restarts>>

Loop == Tick \/ FinalFlush \/ Export \/ Post \/ Replay

Next ==
  \/ EmitLog \/ IngestTraces \/ Loop \/ CircuitExpires \/ Shutdown \/ Restart
  \/ IntakeRecovers

Spec == Init /\ [][Next]_vars

\* The ticker goes on, every request ends within the client's timeout, and the circuit
\* expires.
FairSpec == Spec /\ WF_vars(Loop) /\ WF_vars(CircuitExpires)

-----------------------------------------------------------------------------
(* Properties. *)

\* Whatever is accepted is in memory, in the spool or with the intake, unless a bound, the
\* decoder, a refusal of the intake or a crash took it, or a replay could not read the file that
\* held it (which the code counts nowhere): no retry, opened circuit, cancelled backoff or replay
\* of a file that can be read loses anything else.  After the final flush nothing is left in
\* memory of what was accepted before Shutdown; and queues and spool keep to their bounds.
Accounted ==
  LET kept == ItemsOf(spool) \cup {i \in Item : received[i] > 0} \cup shed IN
  /\ 1 .. accepted \subseteq InMemory \cup kept
  /\ phase = "done" => 1 .. accepted \subseteq late \cup kept
  /\ Len(logs) <= 2 * MaxBatch /\ Len(traces) <= MaxBatch /\ Len(spool) <= MaxSpoolFiles

\* The intake gets an item twice only if an earlier request's success was lost, with its
\* answer or in a crash before the replayed file was removed.
DuplicatesExplained == \A i \in Item : received[i] > 1 => i \in unsure

\* If the intake is healthy from some time on, and the agent runs, the files of the
\* signals that are replayed leave the spool.
SpoolDrains ==
  <>[](healthy /\ ~stopping) => <>[](\A i \in 1 .. Len(spool) : spool[i].signal = "inventory")

=============================================================================
