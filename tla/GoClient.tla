------------------------------ MODULE GoClient ------------------------------
(***************************************************************************)
(* The Go SDK's Client (golang/oppex/client.go) on top of its dispatcher:  *)
(* the lifecycle lock, the four post operations, Close, and the delivery   *)
(* that a worker or a caller of Post runs (golang/oppex/retry.go, with     *)
(* transport.go's classification of a failure).                            *)
(*                                                                         *)
(* A task of the dispatcher is the closure Client.submit builds, so what   *)
(* GoDispatcher takes as one step, queued(d.ctx), is the whole delivery.   *)
(***************************************************************************)
EXTENDS GoDispatcher

CONSTANTS Posters,      \* the goroutines that call Post or PostWithServiceRouting
          MaxRetries    \* len(retryDelays)

Requests == Tasks \cup Posters
Deliverers == Workers \cup Posters

ASSUME GoClientAssumption ==
  /\ IsFiniteSet(Posters) /\ Posters \cap Threads = {}
  /\ MaxRetries \in Nat

VARIABLES
  clientClosed,    \* Client.closed
  writer,          \* who has called lifecycle.Lock and not yet Unlock, or Free
  readers,         \* who holds lifecycle.RLock between two steps
  transportClosed, \* transport.close has run
  call,            \* how far each call on the client is
  callerDone,      \* the context passed to Post is done
  delivery,        \* how far each deliverer's retry is
  attempt,         \* its `attempt' variable
  onWire           \* its current attempt has gone out to Oppex

lockVars == <<clientClosed, writer, readers, transportClosed>>
deliveryVars == <<delivery, attempt, onWire>>
allVars == <<vars, lockVars, call, callerDone, deliveryVars>>

ClientInit ==
  /\ Init
  /\ clientClosed = FALSE
  /\ writer = Free
  /\ readers = {}
  /\ transportClosed = FALSE
  /\ call = [x \in Requests \cup Closers |-> "idle"]
  /\ callerDone = [p \in Posters |-> FALSE]
  /\ delivery = [d \in Deliverers |-> "idle"]
  /\ attempt = [d \in Deliverers |-> 0]
  /\ onWire = [d \in Deliverers |-> FALSE]

\* sync.RWMutex: a writer that waits for the readers already keeps new ones out.
MayRead == writer = Free
MayWrite == readers = {}

Step(x, label) == call' = [call EXCEPT ![x] = label]

-----------------------------------------------------------------------------
(* Faulty variants of definitions below *)

\* prepare keeps its read lock until the post is over.
CheckOpen_KeepsLock(x, valid) ==
  /\ call[x] = "calling"
  /\ MayRead
  /\ Step(x, IF clientClosed THEN "client_closed"
             ELSE IF valid THEN "admitted" ELSE "invalid_request")
  /\ readers' = IF ~clientClosed /\ valid /\ x \in Posters THEN readers \cup {x} ELSE readers
  /\ UNCHANGED <<vars, clientClosed, writer, transportClosed, callerDone, deliveryVars>>

\* postSynchronously trusts prepare's look at the closed flag.
PostBegin_NoRecheck(p) ==
  /\ call[p] = "admitted"
  /\ Step(p, "posting")
  /\ readers' = readers \cup {p}
  /\ delivery' = [delivery EXCEPT ![p] = "sending"]
  /\ attempt' = [attempt EXCEPT ![p] = 0]
  /\ onWire' = [onWire EXCEPT ![p] = ~callerDone[p]]
  /\ UNCHANGED <<vars, clientClosed, writer, transportClosed, callerDone>>

\* A delivery on a worker gets a context that nobody cancels.
CtxDone_Background(d) == d \in Posters /\ callerDone[d]

-----------------------------------------------------------------------------
(* the head of each post operation *)

Call(x) ==
  /\ call[x] = "idle"
  /\ Step(x, "calling")
  /\ UNCHANGED <<vars, lockVars, callerDone, deliveryVars>>

\* prepare, prepareForServiceRouting and the key check, with isClosed's read lock;
\* valid says whether normalize and the key check let the request pass.
CheckOpen(x, valid) ==
  /\ call[x] = "calling"
  /\ MayRead
  /\ Step(x, IF clientClosed THEN "client_closed"
             ELSE IF valid THEN "admitted" ELSE "invalid_request")
  /\ UNCHANGED <<vars, lockVars, callerDone, deliveryVars>>

-----------------------------------------------------------------------------
(* deliver, retry, sleep and transport.send *)

CtxDone(d) == IF d \in Workers THEN cancelled ELSE callerDone[d]

\* A request whose context is done already does not leave the process.
BeginDelivery(d) ==
  /\ delivery' = [delivery EXCEPT ![d] = "sending"]
  /\ attempt' = [attempt EXCEPT ![d] = 0]
  /\ onWire' = [onWire EXCEPT ![d] = ~CtxDone(d)]

AttemptSucceeds(d) ==
  /\ delivery[d] = "sending"
  /\ onWire[d]
  /\ delivery' = [delivery EXCEPT ![d] = "delivered"]
  /\ onWire' = [onWire EXCEPT ![d] = FALSE]
  /\ UNCHANGED <<vars, lockVars, call, callerDone, attempt>>

GivesUp(d, retryable) == ~retryable \/ attempt[d] >= MaxRetries

\* The attempt fails; without a status line, a done context included, retryably.
AttemptFails(d, retryable) ==
  /\ delivery[d] = "sending"
  /\ onWire[d] \/ retryable
  /\ delivery' = [delivery EXCEPT ![d] = IF GivesUp(d, retryable) THEN "failed" ELSE "backoff"]
  /\ onWire' = [onWire EXCEPT ![d] = FALSE]
  /\ UNCHANGED <<vars, lockVars, call, callerDone, attempt>>

\* The timer of sleep fires; select may prefer it to a done context.
BackoffElapses(d) ==
  /\ delivery[d] = "backoff"
  /\ delivery' = [delivery EXCEPT ![d] = "sending"]
  /\ attempt' = [attempt EXCEPT ![d] = @ + 1]
  /\ onWire' = [onWire EXCEPT ![d] = ~CtxDone(d)]
  /\ UNCHANGED <<vars, lockVars, call, callerDone>>

BackoffCancelled(d) ==
  /\ delivery[d] = "backoff"
  /\ CtxDone(d)
  /\ delivery' = [delivery EXCEPT ![d] = "failed"]
  /\ UNCHANGED <<vars, lockVars, call, callerDone, attempt, onWire>>

Deliver(d) == \/ AttemptSucceeds(d)
              \/ \E retryable \in BOOLEAN : AttemptFails(d, retryable)
              \/ BackoffElapses(d)
              \/ BackoffCancelled(d)

Ended(d) == delivery[d] \in {"delivered", "failed"}

-----------------------------------------------------------------------------
(* Post, PostWithServiceRouting: postSynchronously *)

PostBegin(p) ==
  /\ call[p] = "admitted"
  /\ MayRead
  /\ IF clientClosed
     THEN /\ Step(p, "client_closed")
          /\ UNCHANGED <<readers, deliveryVars>>
     ELSE /\ Step(p, "posting")
          /\ readers' = readers \cup {p}
          /\ BeginDelivery(p)
  /\ UNCHANGED <<vars, clientClosed, writer, transportClosed, callerDone>>

PostReturns(p) ==
  /\ call[p] = "posting"
  /\ Ended(p)
  /\ Step(p, "returned")
  /\ readers' = readers \ {p}
  /\ UNCHANGED <<vars, clientClosed, writer, transportClosed, callerDone, deliveryVars>>

\* The caller's context ends.
CallerCancels(p) ==
  /\ ~callerDone[p]
  /\ callerDone' = [callerDone EXCEPT ![p] = TRUE]
  /\ UNCHANGED <<vars, lockVars, call, deliveryVars>>

(* PostAsync, PostAsyncWithServiceRouting: Client.submit *)
AsyncCaller(t) ==
  /\ call[t] = "admitted"
  /\ Caller(t)
  /\ UNCHANGED <<lockVars, call, callerDone, deliveryVars>>

(* the workers: queued(d.ctx) is the delivery *)
WorkerBegins(w) ==
  /\ CheckContext(w)
  /\ IF cancelled THEN UNCHANGED deliveryVars ELSE BeginDelivery(w)
  /\ UNCHANGED <<lockVars, call, callerDone>>

WorkerEndsTask(w) ==
  /\ Ended(w)
  /\ RunTask(w)
  /\ delivery' = [delivery EXCEPT ![w] = "idle"]
  /\ UNCHANGED <<lockVars, call, callerDone, attempt, onWire>>

WorkerLoop(w) ==
  /\ Receive(w) \/ Exit(w)
  /\ UNCHANGED <<lockVars, call, callerDone, deliveryVars>>

-----------------------------------------------------------------------------
(* Close *)

\* lifecycle.Lock() is called ...
CloseLock(c) ==
  /\ call[c] = "idle"
  /\ writer = Free
  /\ writer' = c
  /\ Step(c, "locking")
  /\ UNCHANGED <<vars, clientClosed, readers, transportClosed, callerDone, deliveryVars>>

\* ... and returns, once the last reader has left.
CloseEnter(c) ==
  /\ call[c] = "locking"
  /\ MayWrite
  /\ clientClosed' = TRUE
  /\ IF clientClosed
     THEN /\ writer' = Free
          /\ Step(c, "returned")
     ELSE /\ Step(c, "drain")
          /\ UNCHANGED writer
  /\ UNCHANGED <<vars, readers, transportClosed, callerDone, deliveryVars>>

\* dispatcher.close(closeDrainTimeout)
CloseDrains(c) ==
  /\ call[c] = "drain"
  /\ CloseBegin(c) \/ CloseDrained(c) \/ CloseTimesOut(c) \/ Abandon(c)
  /\ UNCHANGED <<lockVars, call, callerDone, deliveryVars>>

\* transport.close(), lifecycle.Unlock()
CloseReturns(c) ==
  /\ call[c] = "drain"
  /\ pc[c] = "returned"
  /\ transportClosed' = TRUE
  /\ writer' = Free
  /\ Step(c, "returned")
  /\ UNCHANGED <<vars, clientClosed, readers, callerDone, deliveryVars>>

-----------------------------------------------------------------------------
ClientNext ==
  \/ \E x \in Requests : Call(x) \/ \E valid \in BOOLEAN : CheckOpen(x, valid)
  \/ \E t \in Tasks : AsyncCaller(t)
  \/ \E p \in Posters : PostBegin(p) \/ PostReturns(p) \/ CallerCancels(p)
  \/ \E d \in Deliverers : Deliver(d)
  \/ \E w \in Workers : WorkerBegins(w) \/ WorkerEndsTask(w) \/ WorkerLoop(w)
  \/ \E c \in Closers : CloseLock(c) \/ CloseEnter(c) \/ CloseDrains(c) \/ CloseReturns(c)

ClientSpec == ClientInit /\ [][ClientNext]_allVars

\* Goroutines inside a call are scheduled, an attempt ends (attemptTimeout), timers
\* fire and locks are granted.  Nobody has to call anything or cancel a context.
ClientFairness ==
  /\ \A x \in Requests : WF_allVars(\E valid \in BOOLEAN : CheckOpen(x, valid))
  /\ \A t \in Tasks : WF_allVars(AsyncCaller(t))
  /\ \A p \in Posters : WF_allVars(PostBegin(p) \/ PostReturns(p))
  /\ \A d \in Deliverers : WF_allVars(Deliver(d))
  /\ \A w \in Workers : WF_allVars(WorkerBegins(w) \/ WorkerEndsTask(w) \/ WorkerLoop(w))
  /\ \A c \in Closers : WF_allVars(CloseEnter(c) \/ CloseDrains(c) \/ CloseReturns(c))

FairClientSpec == ClientSpec /\ ClientFairness

-----------------------------------------------------------------------------
(* Properties *)

\* "Close cannot tear the transport down while a delivery is in flight"
\* (client.go:41): by then no Post is under way, and a request of a worker that is
\* still out has had its context cancelled.
TransportOutlivesDeliveries ==
  transportClosed => \A d \in Deliverers :
    delivery[d] \in {"sending", "backoff"} => d \in Workers /\ CtxDone(d)

\* A worker sends nothing once close has given up: neither a queued task nor a
\* pending retry reaches Oppex (dispatcher.go:96-98).
QuietOnceAbandoned ==
  [][cancelled => \A w \in Workers : onWire'[w] => onWire[w]]_allVars

\* Close returns although Posts hold the lock it needs, and although the workers
\* it waits for run deliveries of the same client (client.go:185-191).
CloseTerminates ==
  \A c \in Closers : call[c] = "locking" ~> call[c] = "returned"

\* Every post returns, whatever Close is doing.
PostsTerminate ==
  \A x \in Requests : call[x] = "calling" ~>
    \/ call[x] \in {"client_closed", "invalid_request", "returned"}
    \/ x \in Tasks /\ pc[x] = "returned"
=============================================================================
