----------------------------- MODULE OtlpExporter -----------------------------
(***************************************************************************)
(* The OTLP exporter (internal/platform/otlp): modules' log records and    *)
(* applications' payloads wait in two bounded queues; a loop flushes at a  *)
(* tick, taking each queue when its turn comes, posts with retries, and    *)
(* flushes once more when it is shut down.  The collector may refuse, fail *)
(* or answer too late, and has then perhaps taken what it was sent.        *)
(*                                                                         *)
(* An item is its number, with the signal of its payload and the resource  *)
(* attributes its sender gave, text or numbers.  Metrics are snapshots and *)
(* not queued.  A backoff is a state of the post.  The counter of          *)
(* failed exports, which adds up items and posts, is left out.             *)
(***************************************************************************)
EXTENDS Naturals, Sequences, FiniteSets, SequencesExt

CONSTANTS
  MaxBatch,    \* Config.MaxBatch
  MaxAttempts, \* maxRetries (3)
  Payloads,    \* what applications send: [signal, json, attrs]
  AgentAttrs,  \* Config.Resource: attribute -> value
  MaxItems     \* bound: items emitted

ASSUME OtlpAssumption ==
  /\ {MaxBatch, MaxAttempts} \subseteq Nat \ {0} /\ MaxItems \in Nat
  /\ \A p \in Payloads : p.signal \in {"traces", "logs", "metrics"} /\ p.json \in BOOLEAN

VARIABLES
  items,     \* all that has been emitted: a sequence of payloads
  logs, traces,   \* Exporter.logs and Exporter.traces: numbers of items
  dropped,   \* [logs, traces]: what the counters of Dropped say was shed
  loop,      \* "waiting", "flushing", "last" (the flush of the shutdown) or "ended"
  agenda,    \* the signals this flush still has to take
  posts,     \* the bodies still to post of the queue taken, each a set of items
  post,      \* the post being made: [body, attempt], attempt 0 for none
  stopping,  \* 0: no; 1: Shutdown has cancelled the loop; 2: it gave up waiting
  before,    \* what had been emitted when Shutdown was called
  received,  \* item -> the resource attributes the collector has it with
  given      \* items whose post was given up; and those shed to a bound

otlpVars == <<items, logs, traces, dropped, loop, agenda, posts, post, stopping, before, received, given>>

NoPost == [body |-> {}, attempt |-> 0]
Attribute == DOMAIN AgentAttrs

\* A log record of a module: the exporter gives it the agent's resource.
LogRecord == [signal |-> "record", json |-> FALSE, attrs |-> AgentAttrs]

OtlpInit ==
  /\ items = <<>> /\ logs = <<>> /\ traces = <<>>
  /\ dropped = [logs |-> 0, traces |-> 0]
  /\ loop = "waiting" /\ agenda = <<>> /\ posts = {} /\ post = NoPost
  /\ stopping = 0 /\ before = 0
  /\ received = [i \in {} |-> {}]
  /\ given = [failed |-> {}, shed |-> {}]

-----------------------------------------------------------------------------
(* EmitLog and IngestTraces, of any goroutine. *)

Shed(S) == given' = [given EXCEPT !.shed = @ \cup S]

EmitLog ==
  /\ Len(items) < MaxItems
  /\ items' = Append(items, LogRecord)
  /\ IF Len(logs) >= MaxBatch * 2
     THEN /\ dropped' = [dropped EXCEPT !.logs = @ + 1]
          /\ Shed({Len(items) + 1}) /\ UNCHANGED logs
     ELSE logs' = Append(logs, Len(items) + 1) /\ UNCHANGED <<dropped, given>>
  /\ UNCHANGED <<traces, loop, agenda, posts, post, stopping, before, received>>

IngestTraces ==
  /\ Len(items) < MaxItems
  /\ \E p \in Payloads : items' = Append(items, p)
  /\ IF Len(traces) >= MaxBatch
     THEN /\ dropped' = [dropped EXCEPT !.traces = @ + 1]
          /\ Shed({Len(items) + 1}) /\ UNCHANGED traces
     ELSE traces' = Append(traces, Len(items) + 1) /\ UNCHANGED <<dropped, given>>
  /\ UNCHANGED <<logs, loop, agenda, posts, post, stopping, before, received>>

-----------------------------------------------------------------------------
(* The loop. *)

\* A tick; or the cancellation, after which the loop flushes once more.
FlushStarts ==
  /\ loop = "waiting"
  /\ \/ loop' = "flushing"
     \/ stopping > 0 /\ loop' = "last"
  /\ agenda' = <<"metrics", "logs", "traces">>
  /\ UNCHANGED <<items, logs, traces, dropped, posts, post, stopping, before, received, given>>

Between == loop \in {"flushing", "last"} /\ posts = {} /\ post = NoPost

ExportMetrics ==
  /\ Between /\ agenda # <<>> /\ Head(agenda) = "metrics"
  /\ agenda' = Tail(agenda)
  /\ posts' = {{}}
  /\ UNCHANGED <<items, logs, traces, dropped, loop, post, stopping, before, received, given>>

\* Bug: what does not fit in a batch is cut off and not counted.
CutUncounted(cut) == UNCHANGED dropped

\* What does not fit in a batch is dropped, and counted.
CutCounted(cut) ==
  dropped' = [dropped EXCEPT !.logs = @ + Cardinality(cut)]

\* The queue is emptied, and one batch of it is posted.
ExportLogs ==
  /\ Between /\ agenda # <<>> /\ Head(agenda) = "logs"
  /\ agenda' = Tail(agenda)
  /\ logs' = <<>>
  /\ LET batch == {logs[n] : n \in DOMAIN logs \cap (1 .. MaxBatch)}
         cut == ToSet(logs) \ batch
     IN /\ CutCounted(cut)
        /\ Shed(cut)
        /\ posts' = {batch} \ {{}}
  /\ UNCHANGED <<items, traces, loop, post, stopping, before, received>>

\* Traces go in one body, application logs and metrics in one body each.
ExportTraces ==
  /\ Between /\ agenda # <<>> /\ Head(agenda) = "traces"
  /\ agenda' = Tail(agenda)
  /\ traces' = <<>>
  /\ LET Of(signal) == {i \in ToSet(traces) : items[i].signal = signal}
     IN posts' = ({Of("traces")} \ {{}}) \cup {{i} : i \in Of("logs") \cup Of("metrics")}
  /\ UNCHANGED <<items, logs, dropped, loop, post, stopping, before, received, given>>

AfterFlush(l) == IF l = "last" THEN "ended" ELSE "waiting"

FlushEnds ==
  /\ Between /\ agenda = <<>>
  /\ loop' = AfterFlush(loop)
  /\ UNCHANGED <<items, logs, traces, dropped, agenda, posts, post, stopping, before, received, given>>

-----------------------------------------------------------------------------
(* post: up to maxRetries attempts. *)

\* A flush of the ticker is under the context that Shutdown cancels; the last one is not.
Cancelled == stopping > 0 /\ loop = "flushing"

\* Traces before logs before metrics, and of one signal in the order of their numbers.
Turn == [traces |-> 1, logs |-> 2, metrics |-> 3]
Precedes(b, c) ==
  \A i \in b, j \in c :
    LET t == Turn[items[i].signal]  u == Turn[items[j].signal] IN t < u \/ (t = u /\ i < j)

PostStarts ==
  /\ post = NoPost
  /\ \E b \in posts :
       /\ \A c \in posts \ {b} : Precedes(b, c)
       /\ post' = [body |-> b, attempt |-> 1]
       /\ posts' = posts \ {b}
  /\ UNCHANGED <<items, logs, traces, dropped, loop, agenda, stopping, before, received, given>>

\* mergeResourceAttrs: what the sender says of itself stands.
Merged(attrs) ==
  [a \in Attribute \cup DOMAIN attrs |-> IF a \in DOMAIN attrs THEN attrs[a] ELSE AgentAttrs[a]]

\* tracesJSONToProto: only attributes that are text are carried over.
TracesJSONToProto(attrs) == Restrict(attrs, {a \in DOMAIN attrs : attrs[a] # "number"})

\* injectResourceSpans: traces, and application logs that are not JSON; metrics go as they are.
Enriched(i) ==
  LET p == items[i] IN
  CASE p.signal = "traces" -> Merged(IF p.json THEN TracesJSONToProto(p.attrs) ELSE p.attrs)
    [] p.signal = "logs" /\ ~p.json -> Merged(p.attrs)
    [] OTHER -> p.attrs

Takes(body) ==
  received' = [i \in DOMAIN received \cup body |-> IF i \in body THEN Enriched(i) ELSE received[i]]

\* noteFailure: whatever was in the post is gone.
NoteFailure ==
  /\ given' = [given EXCEPT !.failed = @ \cup post.body]
  /\ post' = NoPost

\* An answer of success.
Accepted ==
  /\ post # NoPost /\ ~Cancelled
  /\ Takes(post.body)
  /\ post' = NoPost
  /\ UNCHANGED <<items, logs, traces, dropped, loop, agenda, posts, stopping, before, given>>

\* A client error, but for 429, is not tried again.
Rejected ==
  /\ post # NoPost
  /\ NoteFailure
  /\ UNCHANGED <<items, logs, traces, dropped, loop, agenda, posts, stopping, before, received>>

\* A server error or no answer: the collector may have the body all the same.
FailsOnce ==
  /\ post # NoPost
  /\ Takes(post.body) \/ UNCHANGED received
  /\ IF post.attempt = MaxAttempts \/ Cancelled THEN NoteFailure
     ELSE post' = [post EXCEPT !.attempt = @ + 1] /\ UNCHANGED given
  /\ UNCHANGED <<items, logs, traces, dropped, loop, agenda, posts, stopping, before>>

-----------------------------------------------------------------------------
(* Shutdown cancels the loop and waits for it, as long as it is given. *)

Shutdown ==
  /\ stopping = 0
  /\ stopping' = 1 /\ before' = Len(items)
  /\ UNCHANGED <<items, logs, traces, dropped, loop, agenda, posts, post, received, given>>

ShutdownGivesUp ==
  /\ stopping = 1 /\ loop # "ended"
  /\ stopping' = 2
  /\ UNCHANGED <<items, logs, traces, dropped, loop, agenda, posts, post, before, received, given>>

OtlpNext ==
  \/ EmitLog \/ IngestTraces
  \/ FlushStarts \/ ExportMetrics \/ ExportLogs \/ ExportTraces \/ FlushEnds
  \/ PostStarts \/ Accepted \/ Rejected \/ FailsOnce
  \/ Shutdown \/ ShutdownGivesUp

-----------------------------------------------------------------------------
(* Properties. *)

Waiting == ToSet(logs) \cup ToSet(traces) \cup post.body \cup UNION posts

\* Every item that was emitted waits, has reached the collector, was in a post that was
\* given up, or was shed to a bound and counted: none is lost between a queue that is taken
\* and a body that is posted.  After the shutdown nothing from before it waits.
NothingIsForgotten ==
  /\ DOMAIN items = Waiting \cup DOMAIN received \cup given.failed \cup given.shed
  /\ dropped.logs + dropped.traces = Cardinality(given.shed)
  /\ given.shed \cap (Waiting \cup DOMAIN received) = {}
  /\ loop = "ended" => Waiting \cap (1 .. before) = {}

\* What an application says of itself reaches the collector as it was said, but for a number
\* in JSON; and traces come with the agent's resource where it said nothing.
SendersStand ==
  \A i \in DOMAIN received :
    /\ \A a \in DOMAIN items[i].attrs :
         (items[i].json /\ items[i].attrs[a] = "number") \/ received[i][a] = items[i].attrs[a]
    /\ items[i].signal = "traces" => Attribute \subseteq DOMAIN received[i]

\* Whatever is emitted arrives as it was, or is known not to have.
ItemsArriveOrAreCounted == NothingIsForgotten /\ SendersStand

=============================================================================
