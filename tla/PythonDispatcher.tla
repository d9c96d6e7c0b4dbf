-------------------------- MODULE PythonDispatcher --------------------------
(***************************************************************************)
(* The Python SDK's AsyncDispatcher with its _TrackedTask and              *)
(* RateLimitedDropLogger (python/src/oppex_sdk/_internal/dispatcher.py).   *)
(*                                                                         *)
(* A queue.Queue is shared by the workers, who poll it, by submitters, who *)
(* hold _submit_lock, and by the closing thread, who holds no lock.  Only  *)
(* the _stopping event tells a submitter that a close is under way.        *)
(***************************************************************************)
EXTENDS Integers, Sequences, FiniteSets

CONSTANTS Tasks,      \* one task per submit call; the task also names its caller
          Workers,    \* the worker threads, WORKER_COUNT of them
          Closers,    \* the threads that call close
          Capacity,   \* QUEUE_CAPACITY
          NoTask,     \* stands for "no task"
          Free        \* stands for "nobody holds the lock"

ASSUME PythonAssumption ==
  /\ IsFiniteSet(Tasks) /\ IsFiniteSet(Workers) /\ IsFiniteSet(Closers) /\ Workers # {}
  /\ Tasks \cap Workers = {} /\ Tasks \cap Closers = {} /\ Workers \cap Closers = {}
  /\ Capacity \in Nat \ {0}
  /\ NoTask \notin Tasks
  /\ Free \notin Tasks

VARIABLES
  queue,        \* _queue
  stopping,     \* _stopping
  closed,       \* _closed
  submitLock,   \* who holds _submit_lock between two steps, or Free
  shutdownSignal, \* the event that cuts a retry backoff short
  pc,           \* where each thread is
  current,      \* the task a worker has got
  queued,       \* InternalMetrics.queued
  dropped,      \* InternalMetrics.dropped
  interval,     \* RateLimitedDropLogger._dropped_in_interval
  step,         \* the statement of _TrackedTask.drop each thread is at
  logged,       \* drops that the summaries in the log add up to
  owed,         \* the tasks that were accepted when _stopping was set
  fate          \* what has become of every task

countVars == <<queued, dropped, interval, step, logged>>
stopVars == <<stopping, closed, shutdownSignal, owed>>
vars == <<queue, stopVars, submitLock, pc, current, countVars, fate>>

Threads == Tasks \cup Workers \cup Closers

\* A thread continues only when it is through with the drop it may be in.
At(x, label) == pc[x] = label /\ step[x] = "none"
Goto(x, label) == pc' = [pc EXCEPT ![x] = label]
StepTo(x, statement) == step' = [step EXCEPT ![x] = statement]

Init ==
  /\ queue = <<>>
  /\ stopping = FALSE
  /\ closed = FALSE
  /\ submitLock = Free
  /\ shutdownSignal = FALSE
  /\ pc = [x \in Threads |-> IF x \in Workers THEN "get" ELSE "call"]
  /\ current = [w \in Workers |-> NoTask]
  /\ queued = 0
  /\ dropped = 0
  /\ interval = 0
  /\ step = [x \in Threads |-> "none"]
  /\ logged = 0
  /\ owed = {}
  /\ fate = [t \in Tasks |-> "new"]

-----------------------------------------------------------------------------
(* Faulty variants of definitions below, one plausible slip each *)

\* The task that finds the dispatcher stopping is returned from without a drop.
SubmitChecksAgain_Forgets(t) ==
  /\ At(t, "second_check")
  /\ IF stopping
     THEN /\ submitLock' = Free
          /\ fate' = [fate EXCEPT ![t] = "dropped"]
          /\ Goto(t, "returned")
     ELSE /\ Goto(t, "second_offer")
          /\ UNCHANGED <<submitLock, fate>>
  /\ UNCHANGED <<queue, stopVars, current, countVars>>

\* close leaves the queue to the workers.
CloseDrains_Skipped(c) ==
  /\ At(c, "drain")
  /\ Goto(c, "forced_join")
  /\ UNCHANGED <<queue, stopVars, submitLock, current, countVars, fate>>

-----------------------------------------------------------------------------
(* _TrackedTask.drop and RateLimitedDropLogger.record_drop *)

\* Thread x claims task t and will now count the drop.  The claim is part of the step
\* that brings t into its hands: nobody else has t by then.
Drop(x, t, how) ==
  /\ fate' = [fate EXCEPT ![t] = how]
  /\ StepTo(x, "decrement")
  /\ UNCHANGED <<queued, dropped, interval, logged>>

DecrementQueued(x) ==
  /\ step[x] = "decrement"
  /\ queued' = queued - 1
  /\ StepTo(x, "increment")
  /\ UNCHANGED <<queue, stopVars, submitLock, pc, current, dropped, interval, logged, fate>>

IncrementDropped(x) ==
  /\ step[x] = "increment"
  /\ dropped' = dropped + 1
  /\ StepTo(x, "record")
  /\ UNCHANGED <<queue, stopVars, submitLock, pc, current, queued, interval, logged, fate>>

\* record_drop counts and, when the interval is over, resets under one lock.
RecordDrop(x) ==
  /\ step[x] = "record"
  /\ \/ interval' = interval + 1 /\ UNCHANGED logged
     \/ interval' = 0 /\ logged' = logged + interval + 1
  /\ StepTo(x, "none")
  /\ UNCHANGED <<queue, stopVars, submitLock, pc, current, queued, dropped, fate>>

Counting(x) == DecrementQueued(x) \/ IncrementDropped(x) \/ RecordDrop(x)

-----------------------------------------------------------------------------
(* submit *)

SubmitRefused(t) ==
  /\ pc[t] = "call"
  /\ stopping
  /\ fate' = [fate EXCEPT ![t] = "refused"]
  /\ Goto(t, "returned")
  /\ UNCHANGED <<queue, stopVars, submitLock, current, countVars>>

SubmitCounts(t) ==
  /\ pc[t] = "call"
  /\ ~stopping
  /\ queued' = queued + 1
  /\ fate' = [fate EXCEPT ![t] = "submitted"]
  /\ Goto(t, "submit")
  /\ UNCHANGED <<queue, stopVars, submitLock, current, dropped, interval, step, logged>>

\* The first offer, which does not look at _stopping again.
SubmitOffers(t) ==
  /\ pc[t] = "submit"
  /\ submitLock = Free
  /\ IF Len(queue) < Capacity
     THEN /\ queue' = Append(queue, t)
          /\ fate' = [fate EXCEPT ![t] = "queued"]
          /\ Goto(t, "returned")
          /\ UNCHANGED submitLock
     ELSE /\ submitLock' = t
          /\ Goto(t, "poll")
          /\ UNCHANGED <<queue, fate>>
  /\ UNCHANGED <<stopVars, current, countVars>>

SubmitPolls(t) ==
  /\ At(t, "poll")
  /\ IF queue # <<>>
     THEN /\ queue' = Tail(queue)
          /\ Drop(t, Head(queue), "dropped")
     ELSE UNCHANGED <<queue, countVars, fate>>
  /\ Goto(t, "second_check")
  /\ UNCHANGED <<stopVars, submitLock, current>>

SubmitChecksAgain(t) ==
  /\ At(t, "second_check")
  /\ IF stopping
     THEN /\ Drop(t, t, "dropped")
          /\ Goto(t, "unlock")
     ELSE /\ Goto(t, "second_offer")
          /\ UNCHANGED <<countVars, fate>>
  /\ UNCHANGED <<queue, stopVars, submitLock, current>>

SubmitOffersAgain(t) ==
  /\ pc[t] = "second_offer"
  /\ IF Len(queue) < Capacity
     THEN /\ queue' = Append(queue, t)
          /\ fate' = [fate EXCEPT ![t] = "queued"]
          /\ submitLock' = Free
          /\ Goto(t, "returned")
          /\ UNCHANGED countVars
     ELSE /\ Drop(t, t, "dropped")
          /\ Goto(t, "unlock")
          /\ UNCHANGED <<queue, submitLock>>
  /\ UNCHANGED <<stopVars, current>>

\* _submit_lock is released when the drop has been counted.
SubmitUnlocks(t) ==
  /\ At(t, "unlock")
  /\ submitLock' = Free
  /\ Goto(t, "returned")
  /\ UNCHANGED <<queue, stopVars, current, countVars, fate>>

-----------------------------------------------------------------------------
(* _work *)

\* get() yields a task, and run() claims it: by then nobody else has it ...
WorkerGets(w) ==
  /\ pc[w] = "get"
  /\ queue # <<>>
  /\ queue' = Tail(queue)
  /\ current' = [current EXCEPT ![w] = Head(queue)]
  /\ fate' = [fate EXCEPT ![Head(queue)] = "running"]
  /\ Goto(w, "counting")
  /\ UNCHANGED <<stopVars, submitLock, countVars>>

\* ... and run() counts it, on the way to the delivery.
WorkerCounts(w) ==
  /\ pc[w] = "counting"
  /\ queued' = queued - 1
  /\ Goto(w, "running")
  /\ UNCHANGED <<queue, stopVars, submitLock, current, dropped, interval, step, logged, fate>>

\* get() raises Empty after the poll interval ...
WorkerFindsEmpty(w) ==
  /\ pc[w] = "get"
  /\ queue = <<>>
  /\ Goto(w, "empty")
  /\ UNCHANGED <<queue, stopVars, submitLock, current, countVars, fate>>

\* ... and only then is _stopping tested.
WorkerChecksStopping(w) ==
  /\ pc[w] = "empty"
  /\ Goto(w, IF stopping THEN "exited" ELSE "get")
  /\ UNCHANGED <<queue, stopVars, submitLock, current, countVars, fate>>

\* The delivery returns or raises; the worker outlives it.
RunTask(w) ==
  /\ pc[w] = "running"
  /\ fate' = [fate EXCEPT ![current[w]] = "done"]
  /\ current' = [current EXCEPT ![w] = NoTask]
  /\ Goto(w, "get")
  /\ UNCHANGED <<queue, stopVars, submitLock, countVars>>

-----------------------------------------------------------------------------
(* close *)

CloseBegin(c) ==
  /\ pc[c] = "call"
  /\ closed' = TRUE
  /\ Goto(c, IF closed THEN "returned" ELSE "stop")
  /\ UNCHANGED <<queue, stopping, shutdownSignal, owed, submitLock, current, countVars, fate>>

CloseStops(c) ==
  /\ pc[c] = "stop"
  /\ stopping' = TRUE
  /\ owed' = {t \in Tasks : pc[t] = "returned" /\ fate[t] \in {"queued", "running"}}
  /\ Goto(c, "joining")
  /\ UNCHANGED <<queue, closed, shutdownSignal, submitLock, current, countVars, fate>>

\* The joins end, because the workers have left or because the time is up, in which
\* case any backoff is cut short.
CloseJoins(c) ==
  /\ pc[c] = "joining"
  /\ shutdownSignal' = (shutdownSignal \/ \E w \in Workers : pc[w] # "exited")
  /\ Goto(c, "drain")
  /\ UNCHANGED <<queue, stopping, closed, owed, submitLock, current, countVars, fate>>

\* _drain_pending, one poll at a time
CloseDrains(c) ==
  /\ At(c, "drain")
  /\ IF queue # <<>>
     THEN /\ queue' = Tail(queue)
          /\ Drop(c, Head(queue), "abandoned")
          /\ UNCHANGED pc
     ELSE /\ Goto(c, "forced_join")
          /\ UNCHANGED <<queue, countVars, fate>>
  /\ UNCHANGED <<stopVars, submitLock, current>>

\* The second round of joins is bounded as well.
CloseReturns(c) ==
  /\ pc[c] = "forced_join"
  /\ Goto(c, "returned")
  /\ UNCHANGED <<queue, stopVars, submitLock, current, countVars, fate>>

-----------------------------------------------------------------------------
Caller(t) == \/ SubmitRefused(t) \/ SubmitCounts(t) \/ SubmitOffers(t) \/ SubmitPolls(t)
             \/ SubmitChecksAgain(t) \/ SubmitOffersAgain(t) \/ SubmitUnlocks(t)
             \/ Counting(t)

Worker(w) == \/ WorkerGets(w) \/ WorkerCounts(w) \/ RunTask(w)
             \/ WorkerFindsEmpty(w) \/ WorkerChecksStopping(w)

Closer(c) == \/ CloseBegin(c) \/ CloseStops(c) \/ CloseJoins(c)
             \/ CloseDrains(c) \/ Counting(c) \/ CloseReturns(c)

Next == \/ \E t \in Tasks : Caller(t)
        \/ \E w \in Workers : Worker(w)
        \/ \E c \in Closers : Closer(c)

Spec == Init /\ [][Next]_vars

-----------------------------------------------------------------------------
(* Properties *)

\* The threads between the claim and the counter that is to follow it.
ToDecrement == {x \in Threads : step[x] = "decrement"} \cup {w \in Workers : pc[w] = "counting"}
ToIncrement == {x \in Threads : step[x] \in {"decrement", "increment"}}
ToRecord == {x \in Threads : step[x] # "none"}

\* _TrackedTask "keeps the queue depth accurate whether a task runs or is dropped"
\* (dispatcher.py:53), whichever of a worker, an evicting submit and a draining close
\* gets hold of it, and every drop is counted once and reported or yet to be: the gauge
\* and the counters lack what the threads between claim and counter are about to add.
MetricsExact ==
  LET pending == {t \in Tasks : fate[t] \in {"submitted", "queued"}}
      over == {t \in Tasks : fate[t] \in {"dropped", "abandoned"}}
  IN  /\ queued = Cardinality(pending) + Cardinality(ToDecrement)
      /\ dropped + Cardinality(ToIncrement) = Cardinality(over)
      /\ interval + logged + Cardinality(ToRecord) = Cardinality(over)

\* "Drains queued work for a bounded period, then drops whatever is left"
\* (dispatcher.py:124): what had been accepted when close began is not dropped unless
\* the period has run out.
GracefulCloseRanEverything ==
  ~shutdownSignal => \A t \in owed : fate[t] # "abandoned"
=============================================================================
