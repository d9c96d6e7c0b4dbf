---------------------------- MODULE GoDispatcher ----------------------------
(***************************************************************************)
(* The Go SDK's dispatcher (golang/oppex/dispatcher.go) with the drop      *)
(* counter it owns (golang/oppex/droplog.go).                              *)
(*                                                                         *)
(* The queue is a buffered channel.  A mutex serialises submit and close,  *)
(* but the workers receive from the channel without it, so a worker may    *)
(* step between the operations of one submit and between the receipt of a  *)
(* task and the test of the context.                                       *)
(***************************************************************************)
EXTENDS Naturals, Sequences, FiniteSets

CONSTANTS Tasks,      \* one task per submit call; the task also names its caller
          Workers,    \* the worker goroutines, workerCount of them
          Closers,    \* the goroutines that call close
          Capacity,   \* queueCapacity
          NoTask,     \* stands for "no task"
          Free        \* stands for "nobody holds the mutex"

ASSUME GoAssumption ==
  /\ IsFiniteSet(Tasks) /\ IsFiniteSet(Workers) /\ Workers # {}
  /\ Tasks \cap Workers = {} /\ Tasks \cap Closers = {} /\ Workers \cap Closers = {}
  /\ Capacity \in Nat \ {0}
  /\ NoTask \notin Tasks
  /\ Free \notin Tasks

VARIABLES
  queue,      \* the contents of the channel
  closed,     \* dispatcher.closed; the channel is closed with it
  mu,         \* the submit call that holds dispatcher.mu between two steps, or Free
  cancelled,  \* dispatcher.ctx is done
  pc,         \* where each goroutine is
  current,    \* the task a worker has received
  timedOut,   \* close's timer has fired
  report,     \* len(d.queue) as close reads it for its warning
  dropped,    \* rateLimitedDropLogger.dropped
  logged,     \* drops that the summaries in the log add up to
  fate        \* what has become of every task

vars == <<queue, closed, mu, cancelled, pc, current, timedOut, report, dropped, logged, fate>>
closeVars == <<timedOut, report>>
dropVars == <<dropped, logged>>

Threads == Tasks \cup Workers \cup Closers

Goto(x, label) == pc' = [pc EXCEPT ![x] = label]

\* newDispatcher
Init ==
  /\ queue = <<>>
  /\ closed = FALSE
  /\ mu = Free
  /\ cancelled = FALSE
  /\ pc = [x \in Threads |-> IF x \in Workers THEN "ready" ELSE "call"]
  /\ current = [w \in Workers |-> NoTask]
  /\ timedOut = FALSE
  /\ report = 0
  /\ dropped = 0
  /\ logged = 0
  /\ fate = [t \in Tasks |-> "new"]

-----------------------------------------------------------------------------
(* Faulty variants of definitions below, one plausible slip each *)

\* The mutex is never released on the slow path.
Resend_KeepsMutex(t) ==
  /\ pc[t] = "resend"
  /\ queue' = Append(queue, t)
  /\ fate' = [fate EXCEPT ![t] = "queued"]
  /\ Goto(t, "returned")
  /\ UNCHANGED <<closed, mu, cancelled, current, closeVars, dropVars>>

\* Without the second select a full queue refuses the newest task.
Evict_Skipped(t) ==
  /\ pc[t] = "evict"
  /\ Goto(t, "resend")
  /\ UNCHANGED <<queue, closed, mu, cancelled, current, closeVars, dropVars, fate>>

\* close waits for the queue to be empty and not for the workers.
CloseDrained_QueueOnly(c) ==
  /\ pc[c] = "draining"
  /\ queue = <<>>
  /\ cancelled' = TRUE
  /\ Goto(c, "returned")
  /\ UNCHANGED <<queue, closed, mu, current, closeVars, dropVars, fate>>

\* What is in the channel is not counted.
CloseTimesOut_Uncounted(c) ==
  /\ pc[c] = "draining"
  /\ timedOut' = TRUE
  /\ report' = 0
  /\ Goto(c, "abandoning")
  /\ UNCHANGED <<queue, closed, mu, cancelled, current, dropVars, fate>>

-----------------------------------------------------------------------------
(* submit *)

SubmitRefused(t) ==
  /\ pc[t] = "call"
  /\ mu = Free
  /\ closed
  /\ fate' = [fate EXCEPT ![t] = "refused"]
  /\ Goto(t, "returned")
  /\ UNCHANGED <<queue, closed, mu, cancelled, current, closeVars, dropVars>>

\* The first select: there is room ...
SubmitSends(t) ==
  /\ pc[t] = "call"
  /\ mu = Free
  /\ ~closed
  /\ Len(queue) < Capacity
  /\ queue' = Append(queue, t)
  /\ fate' = [fate EXCEPT ![t] = "queued"]
  /\ Goto(t, "returned")
  /\ UNCHANGED <<closed, mu, cancelled, current, closeVars, dropVars>>

\* ... or there is none, and the mutex stays locked.
SubmitFindsFull(t) ==
  /\ pc[t] = "call"
  /\ mu = Free
  /\ ~closed
  /\ Len(queue) >= Capacity
  /\ mu' = t
  /\ Goto(t, "evict")
  /\ UNCHANGED <<queue, closed, cancelled, current, closeVars, dropVars, fate>>

\* recordDrop: the counter, or the summary once the interval is over.
RecordDrop ==
  \/ /\ dropped' = dropped + 1
     /\ UNCHANGED logged
  \/ /\ logged' = logged + dropped + 1
     /\ dropped' = 0

\* The second select takes the oldest task, unless workers have emptied the channel.
Evict(t) ==
  /\ pc[t] = "evict"
  /\ IF queue # <<>>
     THEN /\ queue' = Tail(queue)
          /\ fate' = [fate EXCEPT ![Head(queue)] = "dropped"]
          /\ RecordDrop
     ELSE UNCHANGED <<queue, fate, dropVars>>
  /\ Goto(t, "resend")
  /\ UNCHANGED <<closed, mu, cancelled, current, closeVars>>

\* The third select sends; its default drops the newest task instead.
Resend(t) ==
  /\ pc[t] = "resend"
  /\ IF Len(queue) < Capacity
     THEN /\ queue' = Append(queue, t)
          /\ fate' = [fate EXCEPT ![t] = "queued"]
          /\ UNCHANGED dropVars
     ELSE /\ fate' = [fate EXCEPT ![t] = "dropped"]
          /\ RecordDrop
          /\ UNCHANGED queue
  /\ mu' = Free
  /\ Goto(t, "returned")
  /\ UNCHANGED <<closed, cancelled, current, closeVars>>

-----------------------------------------------------------------------------
(* work *)

\* range d.queue yields a task, also from a closed channel ...
Receive(w) ==
  /\ pc[w] = "ready"
  /\ queue # <<>>
  /\ queue' = Tail(queue)
  /\ current' = [current EXCEPT ![w] = Head(queue)]
  /\ fate' = IF cancelled THEN fate ELSE [fate EXCEPT ![Head(queue)] = "running"]
  /\ Goto(w, "received")
  /\ UNCHANGED <<closed, mu, cancelled, closeVars, dropVars>>

\* ... or ends, when the channel is closed and empty.
Exit(w) ==
  /\ pc[w] = "ready"
  /\ queue = <<>>
  /\ closed
  /\ Goto(w, "exited")
  /\ UNCHANGED <<queue, closed, mu, cancelled, current, closeVars, dropVars, fate>>

\* if d.ctx.Err() != nil { return }
CheckContext(w) ==
  /\ pc[w] = "received"
  /\ IF cancelled
     THEN /\ fate' = [fate EXCEPT ![current[w]] = "abandoned"]
          /\ current' = [current EXCEPT ![w] = NoTask]
          /\ Goto(w, "exited")
     ELSE /\ Goto(w, "running")
          /\ UNCHANGED <<fate, current>>
  /\ UNCHANGED <<queue, closed, mu, cancelled, closeVars, dropVars>>

\* queued(d.ctx) returns.
RunTask(w) ==
  /\ pc[w] = "running"
  /\ fate' = [fate EXCEPT ![current[w]] = "done"]
  /\ current' = [current EXCEPT ![w] = NoTask]
  /\ Goto(w, "ready")
  /\ UNCHANGED <<queue, closed, mu, cancelled, closeVars, dropVars>>

-----------------------------------------------------------------------------
(* close *)

CloseBegin(c) ==
  /\ pc[c] = "call"
  /\ mu = Free
  /\ ~closed
  /\ closed' = TRUE
  /\ Goto(c, "draining")
  /\ UNCHANGED <<queue, mu, cancelled, current, closeVars, dropVars, fate>>

CloseAgain(c) ==
  /\ pc[c] = "call"
  /\ mu = Free
  /\ closed
  /\ Goto(c, "returned")
  /\ UNCHANGED <<queue, closed, mu, cancelled, current, closeVars, dropVars, fate>>

\* workers.Wait() has returned before the timer fired.
CloseDrained(c) ==
  /\ pc[c] = "draining"
  /\ \A w \in Workers : pc[w] = "exited"
  /\ cancelled' = TRUE
  /\ Goto(c, "returned")
  /\ UNCHANGED <<queue, closed, mu, current, closeVars, dropVars, fate>>

\* The timer fires first: what is in the channel is counted ...
CloseTimesOut(c) ==
  /\ pc[c] = "draining"
  /\ timedOut' = TRUE
  /\ report' = Len(queue)
  /\ Goto(c, "abandoning")
  /\ UNCHANGED <<queue, closed, mu, cancelled, current, dropVars, fate>>

\* ... and then abandoned.
Abandon(c) ==
  /\ pc[c] = "abandoning"
  /\ cancelled' = TRUE
  /\ fate' = [t \in Tasks |-> IF fate[t] = "queued" THEN "abandoned" ELSE fate[t]]
  /\ Goto(c, "returned")
  /\ UNCHANGED <<queue, closed, mu, current, closeVars, dropVars>>

-----------------------------------------------------------------------------
Caller(t) == \/ SubmitRefused(t) \/ SubmitSends(t) \/ SubmitFindsFull(t)
             \/ Evict(t) \/ Resend(t)

Worker(w) == Receive(w) \/ Exit(w) \/ CheckContext(w) \/ RunTask(w)

Closer(c) == \/ CloseBegin(c) \/ CloseAgain(c)
             \/ CloseDrained(c) \/ CloseTimesOut(c) \/ Abandon(c)

Next == \/ \E t \in Tasks : Caller(t)
        \/ \E w \in Workers : Worker(w)
        \/ \E c \in Closers : Closer(c)

Spec == Init /\ [][Next]_vars

-----------------------------------------------------------------------------
(* Properties *)

\* The submit call that has made room and has not used it yet.
Resending(t) == pc[t] = "resend" /\ mu = t

\* submit takes effect when it evicts, not when it sends; once the context is
\* cancelled nothing that is left in the channel counts as queued.
Contract == INSTANCE DispatcherContract WITH
  queue <- IF cancelled THEN <<>>
           ELSE IF mu \in Tasks /\ Resending(mu) THEN Append(queue, mu) ELSE queue,
  fate <- [t \in Tasks |-> IF Resending(t) THEN "queued" ELSE fate[t]],
  phase <- IF cancelled THEN "closed" ELSE IF closed THEN "closing" ELSE "open",
  WorkerCount <- Cardinality(Workers),
  EvictsEarly <- TRUE

\* submit, work and close together behave as a bounded FIFO queue that drops only
\* from its front: "two concurrent submissions cannot race for the slot that
\* eviction just freed" (dispatcher.go:66-67), so the newest task is never lost.
ImplementsContract == Contract!Spec

\* Every task that is lost is reported: a displaced one by the drop logger, an
\* abandoned one in close's warning, except that a worker may have had one in hand
\* when the context was cancelled (dispatcher.go:81-92, 120-124).
LossesReported ==
  /\ dropped + logged = Cardinality({t \in Tasks : fate[t] = "dropped"})
  /\ Cardinality({t \in Tasks : fate[t] = "abandoned"}) <= report + Cardinality(Workers)

\* A close whose timer has not fired has lost nothing: every task admitted before
\* it has run or was displaced earlier (dispatcher.go:111-119).
CleanCloseRanEverything ==
  cancelled /\ ~timedOut =>
    \A t \in Tasks : fate[t] \in {"new", "refused", "done", "dropped"}
=============================================================================
