---------------------------- MODULE PythonClient ----------------------------
(***************************************************************************)
(* The Python SDK's IncidentClient (python/src/oppex_sdk/client.py) on top *)
(* of its dispatcher: the Lifecycle guard, the four post operations, close,*)
(* the RetryExecutor, and the HttpExecutor with its pool of keep-alive     *)
(* connections.  A connection is one of a count: pooled, or in the hands   *)
(* of a deliverer between "reuse" and its answer.                          *)
(***************************************************************************)
EXTENDS PythonDispatcher

CONSTANTS Posters,      \* the threads that call post or post_with_service_routing
          MaxRetries,   \* len(DEFAULT_DELAYS_SECONDS)
          MaxPooled     \* MAX_POOLED_CONNECTIONS

Requests == Tasks \cup Posters
Deliverers == Workers \cup Posters

ASSUME PythonClientAssumption ==
  /\ IsFiniteSet(Posters) /\ Posters \cap Threads = {}
  /\ MaxRetries \in Nat
  /\ MaxPooled \in Nat

VARIABLES
  call,           \* how far each call on the client is
  clientClosed,   \* Lifecycle._closed
  active,         \* Lifecycle._active
  drainExpired,   \* begin_close gave up on the posts under way
  leg,            \* how far each deliverer's delivery is
  retry,          \* RetryExecutor.execute's retry
  pool,           \* len(HttpExecutor._pool)
  httpClosed,     \* HttpExecutor._closed
  late            \* the requests each deliverer has sent after HttpExecutor.close

lifecycleVars == <<clientClosed, active, drainExpired>>
deliveryVars == <<leg, retry, pool, httpClosed, late>>
allVars == <<vars, call, lifecycleVars, deliveryVars>>

ClientInit ==
  /\ Init
  /\ call = [x \in Requests \cup Closers |-> "idle"]
  /\ clientClosed = FALSE
  /\ active = 0
  /\ drainExpired = FALSE
  /\ leg = [d \in Deliverers |-> "idle"]
  /\ retry = [d \in Deliverers |-> 0]
  /\ pool = 0
  /\ httpClosed = FALSE
  /\ late = [d \in Deliverers |-> 0]

Step(x, label) == call' = [call EXCEPT ![x] = label]
Leg(d, label) == leg' = [leg EXCEPT ![d] = label]

-----------------------------------------------------------------------------
(* Faulty variants of definitions below *)

\* The closed flag is left to the pool.
Execute_Unchecked(d) ==
  /\ leg[d] = "execute"
  /\ Leg(d, "take")
  /\ UNCHANGED <<vars, call, lifecycleVars, retry, pool, httpClosed, late>>

\* The post is counted, and the closed flag is left to the HTTP executor.
PostBegin_Unchecked(p) ==
  /\ call[p] = "idle"
  /\ Step(p, "posting")
  /\ active' = active + 1
  /\ leg' = [leg EXCEPT ![p] = "execute"]
  /\ retry' = [retry EXCEPT ![p] = 0]
  /\ UNCHANGED <<vars, clientClosed, drainExpired, pool, httpClosed, late>>

-----------------------------------------------------------------------------
(* HttpExecutor.execute, one attempt *)

Send(d, label) ==
  /\ Leg(d, label)
  /\ late' = IF httpClosed THEN [late EXCEPT ![d] = @ + 1] ELSE late

Execute(d) ==
  /\ leg[d] = "execute"
  /\ Leg(d, IF httpClosed THEN "failed" ELSE "take")
  /\ UNCHANGED <<vars, call, lifecycleVars, retry, pool, httpClosed, late>>

\* _take_pooled, whose lock is released before the connection is used.
TakePooled(d) ==
  /\ leg[d] = "take"
  /\ IF ~httpClosed /\ pool > 0
     THEN /\ pool' = pool - 1
          /\ Leg(d, "reuse")
     ELSE /\ Leg(d, "open")
          /\ UNCHANGED pool
  /\ UNCHANGED <<vars, call, lifecycleVars, retry, httpClosed, late>>

\* connection.request on the pooled connection ...
SendPooled(d) ==
  /\ leg[d] = "reuse"
  /\ Send(d, "pooled")
  /\ UNCHANGED <<vars, call, lifecycleVars, retry, pool, httpClosed>>

\* ... or on a fresh one.
OpenConnection(d) ==
  /\ leg[d] = "open"
  /\ Send(d, "fresh")
  /\ UNCHANGED <<vars, call, lifecycleVars, retry, pool, httpClosed>>

\* _offer
Offer == pool' = IF ~httpClosed /\ pool < MaxPooled THEN pool + 1 ELSE pool

Retries(d) == retry[d] < MaxRetries

\* A whole answer has been read; its status, or a body that does not parse, decides.
ExchangeAnswered(d, outcome, reusable) ==
  /\ leg[d] \in {"pooled", "fresh"}
  /\ Leg(d, IF outcome = "retryable" THEN (IF Retries(d) THEN "backoff" ELSE "failed")
            ELSE outcome)
  /\ IF reusable THEN Offer ELSE UNCHANGED pool
  /\ UNCHANGED <<vars, call, lifecycleVars, retry, httpClosed, late>>

\* TransportError.  A pooled connection is given the benefit of the doubt: execute
\* opens a fresh one, with no second look at the closed flag and without a retry.
ExchangeBreaks(d) ==
  /\ leg[d] \in {"reuse", "pooled", "open", "fresh"}
  /\ Leg(d, IF leg[d] \in {"reuse", "pooled"} THEN "open" ELSE IF Retries(d) THEN "backoff" ELSE "failed")
  /\ UNCHANGED <<vars, call, lifecycleVars, retry, pool, httpClosed, late>>

-----------------------------------------------------------------------------
(* RetryExecutor._wait_before_retry *)

BackoffElapses(d) ==
  /\ leg[d] = "backoff"
  /\ ~shutdownSignal
  /\ Leg(d, "execute")
  /\ retry' = [retry EXCEPT ![d] = @ + 1]
  /\ UNCHANGED <<vars, call, lifecycleVars, pool, httpClosed, late>>

BackoffInterrupted(d) ==
  /\ leg[d] = "backoff"
  /\ shutdownSignal
  /\ Leg(d, "failed")
  /\ UNCHANGED <<vars, call, lifecycleVars, retry, pool, httpClosed, late>>

Deliver(d) ==
  \/ Execute(d) \/ TakePooled(d) \/ SendPooled(d) \/ OpenConnection(d)
  \/ \E outcome \in {"delivered", "failed", "retryable"}, reusable \in BOOLEAN :
       ExchangeAnswered(d, outcome, reusable)
  \/ ExchangeBreaks(d) \/ BackoffElapses(d) \/ BackoffInterrupted(d)

Ended(d) == leg[d] \in {"delivered", "failed"}

-----------------------------------------------------------------------------
(* post, post_with_service_routing *)

\* Lifecycle.begin; a request that a check refuses never gets here.
PostBegin(p) ==
  /\ call[p] = "idle"
  /\ IF clientClosed
     THEN /\ Step(p, "refused")
          /\ UNCHANGED <<active, leg, retry>>
     ELSE /\ Step(p, "posting")
          /\ active' = active + 1
          /\ leg' = [leg EXCEPT ![p] = "execute"]
          /\ retry' = [retry EXCEPT ![p] = 0]
  /\ UNCHANGED <<vars, clientClosed, drainExpired, pool, httpClosed, late>>

\* Lifecycle.end
PostReturns(p) ==
  /\ call[p] = "posting"
  /\ Ended(p)
  /\ active' = active - 1
  /\ Step(p, "returned")
  /\ UNCHANGED <<vars, clientClosed, drainExpired, deliveryVars>>

(* post_async, post_async_with_service_routing *)

SubmitChecksLifecycle(t) ==
  /\ call[t] = "idle"
  /\ Step(t, IF clientClosed THEN "refused" ELSE "submitting")
  /\ UNCHANGED <<vars, lifecycleVars, deliveryVars>>

AsyncCaller(t) ==
  /\ call[t] = "submitting"
  /\ Caller(t)
  /\ UNCHANGED <<call, lifecycleVars, deliveryVars>>

(* the workers, whose task is the delivery *)

WorkerBegins(w) ==
  /\ WorkerCounts(w)
  /\ leg' = [leg EXCEPT ![w] = "execute"]
  /\ retry' = [retry EXCEPT ![w] = 0]
  /\ UNCHANGED <<call, lifecycleVars, pool, httpClosed, late>>

WorkerEndsTask(w) ==
  /\ Ended(w)
  /\ RunTask(w)
  /\ Leg(w, "idle")
  /\ UNCHANGED <<call, lifecycleVars, retry, pool, httpClosed, late>>

WorkerWaits(w) ==
  /\ WorkerGets(w) \/ WorkerFindsEmpty(w) \/ WorkerChecksStopping(w)
  /\ UNCHANGED <<call, lifecycleVars, deliveryVars>>

-----------------------------------------------------------------------------
(* close *)

\* Lifecycle.begin_close admits no more posts ...
ClientCloseBegins(c) ==
  /\ call[c] = "idle"
  /\ clientClosed' = TRUE
  /\ Step(c, IF clientClosed THEN "returned" ELSE "draining")
  /\ UNCHANGED <<vars, active, drainExpired, deliveryVars>>

\* ... and waits for those under way, until its deadline.
LifecycleDrains(c) ==
  /\ call[c] = "draining"
  /\ drainExpired' = (active > 0)
  /\ Step(c, "dispatcher")
  /\ UNCHANGED <<vars, clientClosed, active, deliveryVars>>

DispatcherCloses(c) ==
  /\ call[c] = "dispatcher"
  /\ Closer(c)
  /\ UNCHANGED <<call, lifecycleVars, deliveryVars>>

HttpCloses(c) ==
  /\ call[c] = "dispatcher"
  /\ pc[c] = "returned"
  /\ httpClosed' = TRUE
  /\ pool' = 0
  /\ Step(c, "returned")
  /\ UNCHANGED <<vars, lifecycleVars, leg, retry, late>>

-----------------------------------------------------------------------------
ClientNext ==
  \/ \E p \in Posters : PostBegin(p) \/ PostReturns(p)
  \/ \E t \in Tasks : SubmitChecksLifecycle(t) \/ AsyncCaller(t)
  \/ \E d \in Deliverers : Deliver(d)
  \/ \E w \in Workers : WorkerBegins(w) \/ WorkerEndsTask(w) \/ WorkerWaits(w)
  \/ \E c \in Closers : ClientCloseBegins(c) \/ LifecycleDrains(c)
                          \/ DispatcherCloses(c) \/ HttpCloses(c)

ClientSpec == ClientInit /\ [][ClientNext]_allVars

-----------------------------------------------------------------------------
(* Properties *)

\* "Nothing may stay queued once a close returns" (dispatcher.py:139): true of every
\* task whose submit call did not overlap with the close.
AcceptedIsResolved == httpClosed => \A t \in owed : fate[t] # "queued"

\* A deliverer that close has not waited for sends at most two requests after it: the
\* one it was about to send on a pooled connection, and, when that breaks, its one fresh
\* replacement, for which execute does not look at the flag again
\* (http_executor.py:64-76).  It never retries on a closed client, nor starts another task.
AtMostTwoLateRequests == \A d \in Deliverers : late[d] <= 2

\* When begin_close has seen the last post off, no thread is inside post when the
\* connections are closed (lifecycle.py:13-20).
ConnectionsOutlivePosts ==
  httpClosed /\ ~drainExpired => \A p \in Posters : call[p] # "posting"
=============================================================================
