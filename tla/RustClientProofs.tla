-------------------------- MODULE RustClientProofs --------------------------
(***************************************************************************)
(* Proofs about the Rust client, for any number of posts, workers and      *)
(* closing threads, any capacity and any number of retries.  What is       *)
(* proved about the dispatcher alone carries over, because the client      *)
(* drives it only through its own actions.                                 *)
(***************************************************************************)
EXTENDS RustClient, RustDispatcherProofs

\* Every step of the client is a step of the dispatcher or leaves it alone.
LEMMA DispatcherStep == ASSUME [ClientNext]_allVars PROVE [Next]_vars
  <1> USE DEF vars
  <1>1. CASE \E x \in Requests, valid \in BOOLEAN : Check(x, valid)
    BY <1>1 DEF Check
  <1>2. CASE \E t \in Tasks : AsyncCaller(t)
    BY <1>2 DEF AsyncCaller, Next
  <1>3. CASE \E p \in Posters : PostBegin(p) \/ PostReturns(p)
    BY <1>3 DEF PostBegin, PostReturns
  <1>4. CASE \E d \in Deliverers : Deliver(d)
    BY <1>4 DEF Deliver, AttemptSucceeds, AttemptFails, BackoffElapses, BackoffInterrupted
  <1>5. CASE \E w \in Workers : WorkerTakes(w) \/ WorkerEndsTask(w) \/ WorkerPanics(w) \/ WorkerLoop(w)
    BY <1>5 DEF WorkerTakes, WorkerEndsTask, WorkerPanics, WorkerLoop, Next, Worker
  <1>6. CASE \E c \in Closers : CloseSwap(c) \/ Signal(c) \/ CloseDrains(c)
    BY <1>6 DEF CloseSwap, Signal, CloseDrains, Next, Closer
  <1>7. CASE Environment
    BY <1>7 DEF Environment, Next
  <1>8. CASE UNCHANGED allVars
    BY <1>8 DEF allVars
  <1>9. QED
    BY <1>1, <1>2, <1>3, <1>4, <1>5, <1>6, <1>7, <1>8 DEF ClientNext

\* The client is a user of the dispatcher: whatever it does, submit, work and close
\* run as RustDispatcher specifies them (client.rs:106-114, 135-148).
THEOREM ClientImplementsDispatcher == ClientSpec => Spec
  <1>1. ClientInit => Init
    BY DEF ClientInit
  <1>2. [ClientNext]_allVars => [Next]_vars
    BY DispatcherStep
  <1>3. QED
    BY <1>1, <1>2, PTL DEF ClientSpec, Spec

\* Inside the client a close that beats its deadline has lost nothing, and the
\* deliveries obey the contract of the queue.
THEOREM ClientKeepsGuarantees ==
  ClientSpec => []CleanCloseRanEverything /\ []CloserNotForgotten /\ ImplementsContract
  <1>1. QED
    BY ClientImplementsDispatcher, CleanClose, NoLostNotifyAll, Refinement, PTL

-----------------------------------------------------------------------------
(* Silence after close *)

Calls == {"start", "client_closed", "invalid_request", "admitted", "posting", "returned",
          "signal", "drain"}
Deliveries == {"idle", "sending", "backoff", "delivered", "failed", "interrupted"}

\* The order of close: the backoffs are signalled before the dispatcher is closed,
\* and the one close that drains returns after it has emptied the queue for good.
CloseInv ==
  /\ call \in [Requests \cup Closers -> Calls]
  /\ delivery \in [Deliverers -> Deliveries]
  /\ \A c \in Closers : call[c] = "drain" => signalled
  /\ \A c \in Closers : pc[c] \in {"notify_all", "returned"} => ~draining

LEMMA CloseInvInit == ASSUME ClientInit PROVE CloseInv
  <1> USE RustAssumption, ClientAssumption DEF ClientInit, Init, CloseInv
  <1>1. call \in [Requests \cup Closers -> Calls]
    BY DEF Calls
  <1>2. delivery \in [Deliverers -> Deliveries]
    BY DEF Deliveries
  <1>3. \A c \in Closers : call[c] # "drain" /\ pc[c] = "call"
    BY DEF Threads
  <1>4. QED
    BY <1>1, <1>2, <1>3

LEMMA CloseInvStep == ASSUME IInv, CloseInv, [ClientNext]_allVars PROVE CloseInv'
  <1> USE RustAssumption, ClientAssumption DEF IInv, TypeOK, PCInv, PhaseInv, CloseInv,
          vars, clientVars, deliveryVars, queueVars, Requests, Deliverers, Threads,
          Calls, Deliveries
  <1>1. ASSUME NEW x \in Requests, NEW valid \in BOOLEAN, Check(x, valid) PROVE CloseInv'
    BY <1>1 DEF Check
  <1>2. ASSUME NEW t \in Tasks, AsyncCaller(t) PROVE CloseInv'
    BY <1>2 DEF AsyncCaller, Caller, SubmitRoom, SubmitFull, SubmitRefused, NotifyOne,
                Goto, Waiting
  <1>3. ASSUME NEW p \in Posters, PostBegin(p) \/ PostReturns(p) PROVE CloseInv'
    <2>1. UNCHANGED <<pc, draining, signalled>>
      BY <1>3 DEF PostBegin, PostReturns
    <2>2. \E l \in Calls : call' = [call EXCEPT ![p] = l]
      BY <1>3 DEF PostBegin, PostReturns
    <2>3. call' \in [Requests \cup Closers -> Calls] /\ \A c \in Closers : call'[c] = call[c]
      BY <2>2
    <2>4. delivery' \in [Deliverers -> Deliveries]
      BY <1>3 DEF PostBegin, PostReturns, BeginDelivery, EndDelivery
    <2>5. QED
      BY <2>1, <2>3, <2>4
  <1>4. ASSUME NEW d \in Deliverers, Deliver(d) PROVE CloseInv'
    <2>1. UNCHANGED <<pc, draining, signalled, call>>
      BY <1>4 DEF Deliver, AttemptSucceeds, AttemptFails, BackoffElapses, BackoffInterrupted
    <2>2. delivery' \in [Deliverers -> Deliveries]
      BY <1>4 DEF Deliver, AttemptSucceeds, AttemptFails, BackoffElapses, BackoffInterrupted
    <2>3. QED
      BY <2>1, <2>2
  <1>5. ASSUME NEW w \in Workers, WorkerTakes(w) \/ WorkerEndsTask(w) \/ WorkerPanics(w)
        PROVE  CloseInv'
    <2>1. UNCHANGED <<draining, signalled, call>> /\ \A c \in Closers : pc'[c] = pc[c]
      BY <1>5 DEF WorkerTakes, WorkerEndsTask, WorkerPanics, Take, RunTask, PanicTask, Goto
    <2>2. delivery' \in [Deliverers -> Deliveries]
      BY <1>5 DEF WorkerTakes, WorkerEndsTask, WorkerPanics, BeginDelivery, EndDelivery
    <2>3. QED
      BY <2>1, <2>2
  <1>6. ASSUME NEW w \in Workers, WorkerLoop(w) PROVE CloseInv'
    BY <1>6 DEF WorkerLoop, Exit, Wait, Release, WorkerNotifyAll, NotifyAll, Waiting, Goto
  <1>7. ASSUME NEW c \in Closers, CloseSwap(c) \/ Signal(c) PROVE CloseInv'
    <2>1. UNCHANGED <<pc, draining, delivery>>
      BY <1>7 DEF CloseSwap, Signal
    <2>2. CASE CloseSwap(c)
      BY <2>1, <2>2 DEF CloseSwap
    <2>3. CASE Signal(c)
      BY <2>1, <2>3 DEF Signal
    <2>4. QED
      BY <1>7, <2>2, <2>3
  <1>8. ASSUME NEW c \in Closers, CloseDrains(c) PROVE CloseInv'
    <2>1. UNCHANGED <<signalled, call, delivery>>
      BY <1>8 DEF CloseDrains
    <2>2. CASE CloseBegin(c) \/ DrainWait(c) \/ WaitTimesOut(c)
      BY <2>1, <2>2 DEF CloseBegin, DrainWait, WaitTimesOut, Goto
    <2>3. CASE DrainEnd(c)
      BY <2>1, <2>3 DEF DrainEnd
    <2>4. CASE CloserNotifyAll(c)
      BY <2>1, <2>4 DEF CloserNotifyAll, NotifyAll, Waiting
    <2>5. QED
      BY <1>8, <2>2, <2>3, <2>4 DEF CloseDrains
  <1>9. CASE Environment
    BY <1>9 DEF Environment, DeadlinePasses, SpuriousWakeup, Goto
  <1>10. CASE UNCHANGED allVars
    BY <1>10 DEF allVars
  <1> HIDE DEF IInv, TypeOK, PCInv, PhaseInv, CloseInv, vars, clientVars, deliveryVars,
          queueVars, Deliverers, Threads, Calls, Deliveries
  <1>11. QED
    BY <1>1, <1>2, <1>3, <1>4, <1>5, <1>6, <1>7, <1>8, <1>9, <1>10 DEF ClientNext

LEMMA ClientInvariance == ClientSpec => [](IInv /\ CloseInv)
  <1>1. ClientInit => CloseInv
    BY CloseInvInit
  <1>2. IInv /\ CloseInv /\ [ClientNext]_allVars => CloseInv'
    BY CloseInvStep
  <1>3. ClientSpec => []IInv
    BY ClientImplementsDispatcher, Invariance, PTL
  <1>4. QED
    BY <1>1, <1>2, <1>3, PTL DEF ClientSpec

\* After close a worker finds no task to take and no backoff that elapses.
LEMMA QuietStep ==
  ASSUME IInv, CloseInv, [ClientNext]_allVars, CloseFinished, NEW w \in Workers,
         delivery'[w] = "sending"
  PROVE  delivery[w] = "sending"
  <1> USE RustAssumption, ClientAssumption DEF Requests, Deliverers, Threads,
          vars, clientVars, deliveryVars
  <1>1. signalled /\ tasks = <<>> /\ delivery \in [Deliverers -> Deliveries]
    BY DEF CloseFinished, CloseInv, IInv, PhaseInv
  <1>2. CASE \E p \in Posters : PostBegin(p) \/ PostReturns(p)
    BY <1>1, <1>2 DEF PostBegin, PostReturns, BeginDelivery, EndDelivery
  <1>3. CASE \E d \in Deliverers : Deliver(d)
    BY <1>1, <1>3 DEF Deliver, AttemptSucceeds, AttemptFails, BackoffElapses, BackoffInterrupted
  <1>4. CASE \E v \in Workers : WorkerTakes(v) \/ WorkerEndsTask(v) \/ WorkerPanics(v) \/ WorkerLoop(v)
    BY <1>1, <1>4 DEF WorkerTakes, WorkerEndsTask, WorkerPanics, WorkerLoop, Take, BeginDelivery,
       EndDelivery
  <1>5. CASE UNCHANGED delivery
    BY <1>5
  <1>6. QED
    BY <1>2, <1>3, <1>4, <1>5 DEF ClientNext, allVars, Check, AsyncCaller, CloseSwap, Signal,
       CloseDrains, Environment

\* Once close has returned no worker contacts Oppex beyond the attempt it is in: no
\* queued incident and no pending retry starts (client.rs:104-114).
THEOREM QuietAfterClientClose == ClientSpec => AsyncQuietAfterClose
  <1>1. IInv /\ CloseInv /\ [ClientNext]_allVars =>
          [CloseFinished => \A w \in Workers :
             delivery'[w] = "sending" => delivery[w] = "sending"]_allVars
    BY QuietStep
  <1>2. QED
    BY <1>1, ClientInvariance, PTL DEF ClientSpec, AsyncQuietAfterClose
=============================================================================
