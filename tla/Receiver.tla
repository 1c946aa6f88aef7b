------------------------------- MODULE Receiver -------------------------------
(***************************************************************************)
(* The OTLP/HTTP receiver (internal/modules/otelengine): a server that     *)
(* listens on several addresses, of which some cannot be bound, and whose  *)
(* handlers are bounded; it is reconfigured and restarted while requests   *)
(* are under way.                                                          *)
(*                                                                         *)
(* The supervisor's calls come one after the other, so that a second Start *)
(* of a started receiver, which only closes what it bound, does not occur. *)
(* net/http is modelled by what the module relies on: Serve closes its     *)
(* listener when it returns, Shutdown closes the listeners and waits for   *)
(* handlers.                                                               *)
(***************************************************************************)
EXTENDS Naturals, FiniteSets, FiniteSetsExt

CONSTANTS
  Address,     \* Settings.Listen
  QueueBound,  \* values of max.queue
  MaxRequests, \* bound: the requests that come
  MaxServers   \* bound: starts that bind something

ASSUME ReceiverAssumption == QueueBound \subseteq Nat \ {0} /\ QueueBound # {} /\ {MaxServers, MaxRequests} \subseteq Nat

VARIABLES
  srv,        \* Module.srv: the number of the server, 0 when stopped
  maxQueue,   \* settings.MaxQueue
  acceptor,   \* acceptor[g][a]: the goroutine that serves address a for server g
  closed,     \* servers told to shut down
  stopping,   \* Stop waits for this server
  reportedBy, \* servers one of whose goroutines has called ReportFailure
  inflight, acceptedTotal,
  lossy,      \* whether Module.dropped is not 0 (all that Health reads of it)
  handler,    \* of each request: [at, server, bound]
  ingested,   \* the requests whose body the telemetry has taken
  gaveUp      \* servers whose Stop returned at its deadline

receiverVars == <<srv, maxQueue, acceptor, closed, stopping, reportedBy, inflight,
                  acceptedTotal, lossy, handler, ingested, gaveUp>>

Server == 1 .. MaxServers
Request == 1 .. MaxRequests   \* in the order in which their handlers begin
NoHandler == [at |-> "absent", server |-> 0, bound |-> 0]

ReceiverInit ==
  /\ srv = 0 /\ maxQueue \in QueueBound
  /\ acceptor = [g \in Server |-> [a \in Address |-> "none"]]
  /\ closed = {} /\ stopping = 0 /\ reportedBy = {} /\ gaveUp = {}
  /\ inflight = 0 /\ acceptedTotal = 0 /\ lossy = FALSE
  /\ handler = [r \in Request |-> NoHandler] /\ ingested = {}

\* Who holds an address: a listener stays open until its Serve returns.
Bound(a) == \E g \in Server : acceptor[g][a] \in {"born", "serving"}

Unused == {g \in Server : \A a \in Address : acceptor[g][a] = "none"}

-----------------------------------------------------------------------------
(* The supervisor's calls. *)

\* Start binds what can be bound; nothing bound is an error, which leaves everything as it was.
StartReceiver ==
  /\ srv = 0 /\ stopping = 0 /\ Unused # {}
  /\ \E B \in SUBSET {a \in Address : ~Bound(a)}, q \in QueueBound :
       LET g == Min(Unused) IN
       /\ B # {}
       /\ srv' = g /\ maxQueue' = q
       /\ acceptor' = [acceptor EXCEPT ![g] = [a \in Address |-> IF a \in B THEN "born" ELSE "unbound"]]
  /\ UNCHANGED <<closed, stopping, reportedBy, inflight, acceptedTotal, lossy, handler, ingested, gaveUp>>

\* Stop forgets the server, ...
StopReceiver ==
  /\ srv # 0
  /\ srv' = 0 /\ stopping' = srv
  /\ UNCHANGED <<maxQueue, acceptor, closed, reportedBy, inflight, acceptedTotal, lossy, handler, ingested, gaveUp>>

\* ... cancels it and shuts it down, ...
ShutDown ==
  /\ stopping # 0 /\ stopping \notin closed
  /\ closed' = closed \cup {stopping}
  /\ UNCHANGED <<srv, maxQueue, acceptor, stopping, reportedBy, inflight, acceptedTotal, lossy, handler, ingested, gaveUp>>

\* ... and waits for connections, handlers and the goroutines that serve, or for its deadline.
Working(g) == {r \in Request : handler[r].server = g /\ handler[r].at \notin {"absent", "gone"}}
Quiet(g) == Working(g) = {} /\ \A a \in Address : acceptor[g][a] \notin {"born", "serving"}

StopReceiverReturns ==
  /\ stopping \in closed /\ stopping' = 0
  /\ gaveUp' = IF Quiet(stopping) THEN gaveUp ELSE gaveUp \cup {stopping}
  /\ UNCHANGED <<srv, maxQueue, acceptor, closed, reportedBy, inflight, acceptedTotal, lossy, handler, ingested>>

\* A reload of the running module: what PrepareConfig stages nobody reads before CommitConfig,
\* which applies the bounds at once and the addresses not at all, or RollbackConfig.
ReconfigureReceiver ==
  /\ srv # 0
  /\ maxQueue' \in QueueBound \ {maxQueue}
  /\ UNCHANGED <<srv, acceptor, closed, stopping, reportedBy, inflight, acceptedTotal, lossy, handler, ingested, gaveUp>>

-----------------------------------------------------------------------------
(* The goroutines that serve. *)

AcceptorGoes(g, a, place) == acceptor' = [acceptor EXCEPT ![g][a] = place]

\* Serve: of a server that was shut down it returns at once.
Serve(g, a) ==
  /\ acceptor[g][a] = "born"
  /\ AcceptorGoes(g, a, IF g \in closed THEN "gone" ELSE "serving")
  /\ UNCHANGED <<srv, maxQueue, closed, stopping, reportedBy, inflight, acceptedTotal, lossy, handler, ingested, gaveUp>>

\* A failure is reported unless the receiver was told to stop.
Tells(g) == g \notin closed

\* Serve returns: the server was shut down, or the listener failed.
ServeReturns(g, a) ==
  /\ acceptor[g][a] = "serving"
  /\ AcceptorGoes(g, a, IF g \in closed THEN "gone" ELSE "failed")
  /\ reportedBy' = IF Tells(g) THEN reportedBy \cup {g} ELSE reportedBy
  /\ UNCHANGED <<srv, maxQueue, closed, stopping, inflight, acceptedTotal, lossy, handler, ingested, gaveUp>>

-----------------------------------------------------------------------------
(* The handlers. *)

HandlerAt(r, place) == handler[r].at = place
HandlerGoes(r, place) == handler' = [handler EXCEPT ![r].at = place]

\* A connection is accepted and its handler reads the bounds, under the lock.
Handle(r) ==
  /\ HandlerAt(r, "absent") /\ \A before \in 1 .. r - 1 : ~HandlerAt(before, "absent")
  /\ \E g \in Server :
       /\ \E a \in Address : acceptor[g][a] = "serving"
       /\ handler' = [handler EXCEPT ![r] = [at |-> "handled", server |-> g, bound |-> maxQueue]]
  /\ UNCHANGED <<srv, maxQueue, acceptor, closed, stopping, reportedBy, inflight, acceptedTotal, lossy, ingested, gaveUp>>

\* The request counts itself first: among those it finds it may be one too many.
OverQueue(n, bound) == n > bound

\* 429, and a drop, or on to the body.
CountIn(r) ==
  /\ HandlerAt(r, "handled")
  /\ inflight' = inflight + 1
  /\ LET over == OverQueue(inflight', handler[r].bound) IN
       /\ HandlerGoes(r, IF over THEN "refused" ELSE "reading")
       /\ lossy' = (lossy \/ over)
  /\ UNCHANGED <<srv, maxQueue, acceptor, closed, stopping, reportedBy, acceptedTotal, ingested, gaveUp>>

\* A body that breaks off is 400, an empty one 200, one too large 413 and a drop: nothing is taken.
NothingToTake(r) ==
  /\ HandlerAt(r, "reading")
  /\ HandlerGoes(r, "read")
  /\ lossy' \in {lossy, TRUE}
  /\ UNCHANGED <<srv, maxQueue, acceptor, closed, stopping, reportedBy, inflight, acceptedTotal, ingested, gaveUp>>

\* IngestTraces, ...
Ingest(r) ==
  /\ HandlerAt(r, "reading")
  /\ ingested' = ingested \cup {r}
  /\ HandlerGoes(r, "taken")
  /\ UNCHANGED <<srv, maxQueue, acceptor, closed, stopping, reportedBy, inflight, acceptedTotal, lossy, gaveUp>>

\* ... and the count of what was accepted, under the lock again; the answer is 200.
CountAccepted(r) ==
  /\ HandlerAt(r, "taken")
  /\ acceptedTotal' = acceptedTotal + 1
  /\ HandlerGoes(r, "read")
  /\ UNCHANGED <<srv, maxQueue, acceptor, closed, stopping, reportedBy, inflight, lossy, ingested, gaveUp>>

\* The deferred decrement.
CountOut(r) ==
  /\ handler[r].at \in {"refused", "read"}
  /\ inflight' = inflight - 1
  /\ handler' = [handler EXCEPT ![r] = [NoHandler EXCEPT !.at = "gone"]]
  /\ UNCHANGED <<srv, maxQueue, acceptor, closed, stopping, reportedBy, acceptedTotal, lossy, ingested, gaveUp>>

ReceiverNext ==
  \/ StartReceiver \/ StopReceiver \/ ShutDown \/ StopReceiverReturns \/ ReconfigureReceiver
  \/ \E g \in Server, a \in Address : Serve(g, a) \/ ServeReturns(g, a)
  \/ \E r \in Request :
       Handle(r) \/ CountIn(r) \/ NothingToTake(r) \/ Ingest(r) \/ CountAccepted(r) \/ CountOut(r)

-----------------------------------------------------------------------------
(* Properties. *)

Holding == {r \in Request : handler[r].at \in {"reading", "taken", "read"}}

\* max.queue bounds the bodies in memory: however many requests come in at once, and whatever
\* is reconfigured or restarted meanwhile, no more are read than the highest bound that one
\* of them found.
BodiesAreBounded == Holding = {} \/ Cardinality(Holding) <= Max({handler[r].bound : r \in Holding})

\* "One absent address" takes no other down: a started receiver serves every address it bound,
\* unless it has told the supervisor; a receiver that was stopped tells nothing, and one whose
\* Stop did not give up leaves no listener that the next Start could not bind, and no handler.
ServesOrTells ==
  /\ srv # 0 /\ srv \notin reportedBy => \A a \in Address : acceptor[srv][a] \in {"born", "serving", "unbound"}
  /\ \A g \in reportedBy : \E a \in Address : acceptor[g][a] = "failed"
  /\ \A g \in closed \ gaveUp : g # stopping => Quiet(g)

\* What is counted is what was done.
RequestsAreCounted ==
  /\ acceptedTotal = Cardinality({r \in ingested : handler[r].at # "taken"})
  /\ inflight = Cardinality({r \in Request : handler[r].at \notin {"absent", "handled", "gone"}})

RequestsAreAnswered == BodiesAreBounded /\ ServesOrTells /\ RequestsAreCounted

=============================================================================
