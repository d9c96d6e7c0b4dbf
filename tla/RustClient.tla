----------------------------- MODULE RustClient -----------------------------
(***************************************************************************)
(* The Rust SDK's IncidentClient (rust/src/client.rs) on top of its        *)
(* dispatcher: the closed flag, the four post operations, the delivery     *)
(* that a worker or a caller of post runs (rust/src/internal/retry.rs),    *)
(* and the Interrupt that cuts a backoff short                             *)
(* (rust/src/internal/interrupt.rs).                                       *)
(*                                                                         *)
(* A task of the dispatcher is the closure Client::submit builds, so what  *)
(* RustDispatcher takes as one step, task(), is here the whole delivery.   *)
(***************************************************************************)
EXTENDS RustDispatcher

CONSTANTS Posters,      \* the threads that call post or post_with_service_routing
          MaxRetries    \* length of retry_delays

Requests == Tasks \cup Posters
Deliverers == Workers \cup Posters

ASSUME ClientAssumption ==
  /\ IsFiniteSet(Posters) /\ Posters \cap Threads = {} /\ NoTask \notin Posters
  /\ MaxRetries \in Nat

VARIABLES
  closed,      \* IncidentClient.closed
  signalled,   \* Interrupt.signalled
  call,        \* how far each application thread's call on the client is
  delivery,    \* how far each deliverer's execute_with_retry is
  attempt      \* its `attempt' variable

clientVars == <<closed, signalled, call>>
deliveryVars == <<delivery, attempt>>
allVars == <<vars, clientVars, deliveryVars>>

ClientInit ==
  /\ Init
  /\ closed = FALSE
  /\ signalled = FALSE
  /\ call = [x \in Requests \cup Closers |-> "start"]
  /\ delivery = [d \in Deliverers |-> "idle"]
  /\ attempt = [d \in Deliverers |-> 0]

-----------------------------------------------------------------------------
(* Faulty variants of definitions below *)

\* interrupt.wait reports whether it timed out rather than the flag.
BackoffElapses_IgnoresSignal(d) ==
  /\ delivery[d] = "backoff"
  /\ attempt' = [attempt EXCEPT ![d] = @ + 1]
  /\ delivery' = [delivery EXCEPT ![d] = "sending"]
  /\ UNCHANGED <<vars, clientVars>>

-----------------------------------------------------------------------------
(* the checks on the calling thread *)

\* ensure_open and the key check at the head of each of the four operations; valid
\* says whether require_service_key or require_service_routable lets the request pass.
Check(x, valid) ==
  /\ call[x] = "start"
  /\ call' = [call EXCEPT ![x] = IF closed THEN "client_closed"
                                 ELSE IF valid THEN "admitted" ELSE "invalid_request"]
  /\ UNCHANGED <<vars, closed, signalled, deliveryVars>>

-----------------------------------------------------------------------------
(* deliver and execute_with_retry *)

BeginDelivery(d) ==
  /\ delivery' = [delivery EXCEPT ![d] = "sending"]
  /\ attempt' = [attempt EXCEPT ![d] = 0]

\* execute_with_retry is left, by return or by a panic, and its locals with it.
EndDelivery(d) ==
  /\ delivery' = [delivery EXCEPT ![d] = "idle"]
  /\ attempt' = [attempt EXCEPT ![d] = 0]

\* operation() succeeds.
AttemptSucceeds(d) ==
  /\ delivery[d] = "sending"
  /\ delivery' = [delivery EXCEPT ![d] = "delivered"]
  /\ UNCHANGED <<vars, clientVars, attempt>>

\* operation() fails: give up, or wait for the next attempt.
AttemptFails(d, retryable) ==
  /\ delivery[d] = "sending"
  /\ delivery' = [delivery EXCEPT ![d] =
                    IF ~retryable \/ attempt[d] >= MaxRetries THEN "failed" ELSE "backoff"]
  /\ UNCHANGED <<vars, clientVars, attempt>>

\* interrupt.wait(delay) returns false: the delay is over and no signal was sent.
BackoffElapses(d) ==
  /\ delivery[d] = "backoff"
  /\ ~signalled
  /\ attempt' = [attempt EXCEPT ![d] = @ + 1]
  /\ delivery' = [delivery EXCEPT ![d] = "sending"]
  /\ UNCHANGED <<vars, clientVars>>

\* interrupt.wait(delay) returns true.
BackoffInterrupted(d) ==
  /\ delivery[d] = "backoff"
  /\ signalled
  /\ delivery' = [delivery EXCEPT ![d] = "interrupted"]
  /\ UNCHANGED <<vars, clientVars, attempt>>

Deliver(d) == \/ AttemptSucceeds(d)
              \/ \E retryable \in BOOLEAN : AttemptFails(d, retryable)
              \/ BackoffElapses(d)
              \/ BackoffInterrupted(d)

Ended(d) == delivery[d] \in {"delivered", "failed", "interrupted"}

-----------------------------------------------------------------------------
(* post, post_with_service_routing *)

PostBegin(p) ==
  /\ call[p] = "admitted"
  /\ call' = [call EXCEPT ![p] = "posting"]
  /\ BeginDelivery(p)
  /\ UNCHANGED <<vars, closed, signalled>>

PostReturns(p) ==
  /\ call[p] = "posting"
  /\ Ended(p)
  /\ call' = [call EXCEPT ![p] = "returned"]
  /\ EndDelivery(p)
  /\ UNCHANGED <<vars, closed, signalled>>

(* post_async, post_async_with_service_routing: Client::submit *)
AsyncCaller(t) ==
  /\ call[t] = "admitted"
  /\ Caller(t)
  /\ UNCHANGED <<clientVars, deliveryVars>>

(* the workers: task() is the delivery *)
WorkerTakes(w) ==
  /\ Take(w)
  /\ BeginDelivery(w)
  /\ UNCHANGED clientVars

WorkerEndsTask(w) ==
  /\ Ended(w)
  /\ RunTask(w)
  /\ EndDelivery(w)
  /\ UNCHANGED clientVars

\* The host's logger, which is told of a failed delivery, panics: the panic unwinds
\* out of the closure and takes the worker's thread with it.
WorkerPanics(w) ==
  /\ delivery[w] \in {"failed", "interrupted"}
  /\ PanicTask(w)
  /\ EndDelivery(w)
  /\ UNCHANGED clientVars

WorkerLoop(w) ==
  /\ Exit(w) \/ Wait(w) \/ Release(w) \/ WorkerNotifyAll(w)
  /\ UNCHANGED <<clientVars, deliveryVars>>

-----------------------------------------------------------------------------
(* close *)

\* closed.swap(true)
CloseSwap(c) ==
  /\ call[c] = "start"
  /\ closed' = TRUE
  /\ call' = [call EXCEPT ![c] = IF closed THEN "returned" ELSE "signal"]
  /\ UNCHANGED <<vars, signalled, deliveryVars>>

\* interrupt.signal()
Signal(c) ==
  /\ call[c] = "signal"
  /\ signalled' = TRUE
  /\ call' = [call EXCEPT ![c] = "drain"]
  /\ UNCHANGED <<vars, closed, deliveryVars>>

\* dispatcher.close(CLOSE_DRAIN_TIMEOUT)
CloseDrains(c) ==
  /\ call[c] = "drain"
  /\ \/ CloseBegin(c) \/ DrainWait(c) \/ DrainEnd(c)
     \/ WaitTimesOut(c) \/ CloserNotifyAll(c)
  /\ UNCHANGED <<clientVars, deliveryVars>>

Environment ==
  /\ DeadlinePasses \/ \E x \in Workers \cup Closers : SpuriousWakeup(x)
  /\ UNCHANGED <<clientVars, deliveryVars>>

-----------------------------------------------------------------------------
ClientNext ==
  \/ \E x \in Requests, valid \in BOOLEAN : Check(x, valid)
  \/ \E t \in Tasks : AsyncCaller(t)
  \/ \E p \in Posters : PostBegin(p) \/ PostReturns(p)
  \/ \E d \in Deliverers : Deliver(d)
  \/ \E w \in Workers : WorkerTakes(w) \/ WorkerEndsTask(w) \/ WorkerPanics(w) \/ WorkerLoop(w)
  \/ \E c \in Closers : CloseSwap(c) \/ Signal(c) \/ CloseDrains(c)
  \/ Environment

ClientSpec == ClientInit /\ [][ClientNext]_allVars

\* A thread that has begun a call is scheduled and time passes.  An attempt ends
\* (ATTEMPT_TIMEOUT bounds it), a backoff ends.  Nobody has to post or to close,
\* and no spurious wake-up ever has to happen.
ClientFairness ==
  /\ \A t \in Tasks : WF_allVars(AsyncCaller(t))
  /\ \A p \in Posters : WF_allVars(PostBegin(p) \/ PostReturns(p))
  /\ \A d \in Deliverers : WF_allVars(Deliver(d))
  /\ \A w \in Workers :
       WF_allVars(WorkerTakes(w) \/ WorkerEndsTask(w) \/ WorkerPanics(w) \/ WorkerLoop(w))
  /\ \A c \in Closers : WF_allVars(Signal(c) \/ CloseDrains(c))
  /\ WF_allVars(DeadlinePasses /\ UNCHANGED <<clientVars, deliveryVars>>)

FairClientSpec == ClientSpec /\ ClientFairness

-----------------------------------------------------------------------------
(* Properties *)

CloseFinished == \E c \in Closers : call[c] = "drain" /\ pc[c] = "returned"

\* Once close has returned, no worker contacts Oppex again beyond the attempt it is
\* in or has just taken up: neither a queued incident nor a pending retry starts (client.rs:104-114).
AsyncQuietAfterClose ==
  [][CloseFinished => \A w \in Workers :
        delivery'[w] = "sending" => delivery[w] = "sending"]_allVars

\* Every close returns, in the end by its deadline: whatever the deliveries in flight
\* do, and also when a panic has left its task in `active' for ever.
ClientCloseReturns ==
  \A c \in Closers : call[c] # "start" ~> (call[c] = "returned" \/ pc[c] = "returned")
=============================================================================
