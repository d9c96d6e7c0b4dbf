--------------------------- MODULE JavaDispatcher ---------------------------
(***************************************************************************)
(* The Java SDK's AsyncDispatcher (java/sdk-http/.../internal/async):      *)
(* submit and close on a ThreadPoolExecutor, the handler that evicts the   *)
(* oldest task on rejection, TrackedTask with its claim, the InternalMetrics *)
(* gauge and counter, and the lock-free RateLimitedDropLogger.             *)
(*                                                                         *)
(* The executor itself is java.util.concurrent's.  It is modelled from the *)
(* way the SDK uses it: a fixed pool of core threads started on demand, a  *)
(* bounded queue, orderly shutdown, and shutdownNow.                       *)
(***************************************************************************)
EXTENDS Integers, Sequences, FiniteSets, SequencesExt

CONSTANTS Tasks,      \* one task per submit call; the task also names its caller
          Workers,    \* the pool's threads, WORKER_COUNT of them
          Closers,    \* the threads that call close
          Capacity,   \* QUEUE_CAPACITY
          NoTask      \* stands for "no task"

ASSUME JavaAssumption ==
  /\ IsFiniteSet(Tasks) /\ IsFiniteSet(Workers) /\ IsFiniteSet(Closers) /\ Workers # {}
  /\ Tasks \cap Workers = {} /\ Tasks \cap Closers = {} /\ Workers \cap Closers = {}
  /\ Capacity \in Nat \ {0}
  /\ NoTask \notin Tasks

VARIABLES
  closed,       \* AsyncDispatcher.closed
  runState,     \* the executor's run state
  queue,        \* the executor's queue
  pc,           \* where each thread is
  current,      \* the task a pool thread holds
  pending,      \* the tasks shutdownNow returned and dropPending has not reached
  claimed,      \* the tasks whose startedOrDropped is set
  queued,       \* InternalMetrics.queued
  dropped,      \* InternalMetrics.dropped
  interval,     \* RateLimitedDropLogger.droppedInInterval
  step,         \* the statement of TrackedTask.drop or recordDrop each thread is at
  logged,       \* drops that the summaries in the log add up to
  forced,       \* close has called shutdownNow
  owed,         \* the tasks the pool had accepted when shutdown was called
  fate          \* what has become of every task

poolVars == <<runState, queue, current>>
dropVars == <<claimed, queued, dropped, interval, step, logged>>
closeVars == <<closed, pending, forced, owed>>
vars == <<poolVars, pc, dropVars, closeVars, fate>>

Threads == Tasks \cup Workers \cup Closers

\* A thread continues only when it is through with the drop it may be in.
At(x, label) == pc[x] = label /\ step[x] = "none"
Goto(x, label) == pc' = [pc EXCEPT ![x] = label]
StepTo(x, statement) == step' = [step EXCEPT ![x] = statement]

LiveWorkers == {w \in Workers : pc[w] \in {"starting", "counting", "running", "take"}}

\* The pool is terminated when it has been shut down and nothing is left in it.
Terminates(q, live) ==
  live = {} /\ (runState = "STOP" \/ (runState = "SHUTDOWN" /\ q = <<>>))

Init ==
  /\ closed = FALSE
  /\ runState = "RUNNING"
  /\ queue = <<>>
  /\ pc = [x \in Threads |-> IF x \in Workers THEN "unborn" ELSE "call"]
  /\ current = [w \in Workers |-> NoTask]
  /\ pending = <<>>
  /\ claimed = {}
  /\ queued = 0
  /\ dropped = 0
  /\ interval = 0
  /\ step = [x \in Threads |-> "none"]
  /\ logged = 0
  /\ forced = FALSE
  /\ owed = {}
  /\ fate = [t \in Tasks |-> "new"]

-----------------------------------------------------------------------------
(* Faulty variants of definitions below, one plausible slip each *)

\* The count is read and reset in two operations, so a drop in between is lost.
LogSummary_ResetsBlindly(x) ==
  /\ step[x] = "summarise"
  /\ \E lost \in {0, 1} :
       /\ lost <= interval
       /\ logged' = logged + interval - lost
  /\ interval' = 0
  /\ StepTo(x, "none")
  /\ UNCHANGED <<poolVars, pc, claimed, queued, dropped, closeVars, fate>>

\* close gives the queue up at once.
CloseShutdown_Now(c) ==
  /\ At(c, "shutdown")
  /\ runState' = "STOP"
  /\ owed' = {t \in Tasks : pc[t] = "returned" /\ fate[t] \in {"queued", "held"}}
  /\ pending' = queue
  /\ queue' = <<>>
  /\ Goto(c, "dropping")
  /\ UNCHANGED <<current, dropVars, closed, forced, fate>>

\* A second shutdown where shutdownNow is meant.
CloseForces_Gently(c) ==
  /\ At(c, "awaiting")
  /\ forced' = TRUE
  /\ Goto(c, "dropping")
  /\ UNCHANGED <<poolVars, dropVars, closed, pending, owed, fate>>

\* The list that shutdownNow returns is ignored.
CloseForces_Discards(c) ==
  /\ At(c, "awaiting")
  /\ runState' = IF LiveWorkers = {} \/ runState = "TERMINATED" THEN "TERMINATED" ELSE "STOP"
  /\ forced' = TRUE
  /\ queue' = <<>>
  /\ Goto(c, "dropping")
  /\ UNCHANGED <<current, dropVars, closed, pending, owed, fate>>

-----------------------------------------------------------------------------
(* TrackedTask.drop, RateLimitedDropLogger.recordDrop *)

\* Thread x wins startedOrDropped for task t and will now count the drop.  The CAS is
\* part of the step that brings t into its hands: nobody else has t by then.
Drop(x, t) ==
  IF t \in claimed
  THEN UNCHANGED <<dropVars, fate>>
  ELSE /\ claimed' = claimed \cup {t}
       /\ StepTo(x, "decrement")
       /\ fate' = [fate EXCEPT ![t] = IF x \in Closers THEN "abandoned" ELSE "dropped"]
       /\ UNCHANGED <<queued, dropped, interval, logged>>

\* metrics.decrementQueued()
DecrementQueued(x) ==
  /\ step[x] = "decrement"
  /\ queued' = queued - 1
  /\ StepTo(x, "increment")
  /\ UNCHANGED <<poolVars, pc, claimed, dropped, interval, logged, closeVars, fate>>

\* metrics.incrementDropped()
IncrementDropped(x) ==
  /\ step[x] = "increment"
  /\ dropped' = dropped + 1
  /\ StepTo(x, "record")
  /\ UNCHANGED <<poolVars, pc, claimed, queued, interval, logged, closeVars, fate>>

\* droppedInInterval.incrementAndGet(); the thread may be the one whose CAS on
\* intervalStartedAt then ends the interval.
RecordDrop(x) ==
  /\ step[x] = "record"
  /\ interval' = interval + 1
  /\ StepTo(x, "none") \/ StepTo(x, "summarise")
  /\ UNCHANGED <<poolVars, pc, claimed, queued, dropped, logged, closeVars, fate>>

\* droppedInInterval.getAndSet(0) and the log line, after drops of other threads.
LogSummary(x) ==
  /\ step[x] = "summarise"
  /\ logged' = logged + interval
  /\ interval' = 0
  /\ StepTo(x, "none")
  /\ UNCHANGED <<poolVars, pc, claimed, queued, dropped, closeVars, fate>>

-----------------------------------------------------------------------------
(* submit *)

SubmitRefused(t) ==
  /\ At(t, "call")
  /\ closed
  /\ fate' = [fate EXCEPT ![t] = "refused"]
  /\ Goto(t, "returned")
  /\ UNCHANGED <<poolVars, dropVars, closeVars>>

SubmitCounts(t) ==
  /\ At(t, "call")
  /\ ~closed
  /\ queued' = queued + 1
  /\ fate' = [fate EXCEPT ![t] = "submitted"]
  /\ Goto(t, "execute")
  /\ UNCHANGED <<poolVars, claimed, dropped, interval, step, logged, closeVars>>

(* ThreadPoolExecutor.execute *)

\* Fewer threads than the core size: a new one begins with this task.
ExecuteStartsWorker(t) ==
  /\ At(t, "execute")
  /\ runState = "RUNNING"
  /\ \E w \in Workers :
       /\ pc[w] = "unborn"
       /\ pc' = [pc EXCEPT ![w] = "starting", ![t] = "returned"]
       /\ current' = [current EXCEPT ![w] = t]
  /\ fate' = [fate EXCEPT ![t] = "held"]
  /\ UNCHANGED <<runState, queue, dropVars, closeVars>>

ExecuteFindsPool(t) ==
  /\ At(t, "execute")
  /\ runState # "RUNNING" \/ \A w \in Workers : pc[w] # "unborn"
  /\ Goto(t, IF runState = "RUNNING" THEN "offer" ELSE "rejected")
  /\ UNCHANGED <<poolVars, dropVars, closeVars, fate>>

ExecuteOffers(t) ==
  /\ At(t, "offer")
  /\ IF Len(queue) < Capacity
     THEN /\ queue' = Append(queue, t)
          /\ fate' = [fate EXCEPT ![t] = "queued"]
          /\ Goto(t, "recheck")
     ELSE /\ Goto(t, "rejected")
          /\ UNCHANGED <<queue, fate>>
  /\ UNCHANGED <<runState, current, dropVars, closeVars>>

\* A pool shut down meanwhile takes the task back out, if no worker has it.
Recheck(t) ==
  /\ At(t, "recheck")
  /\ IF runState # "RUNNING" /\ Contains(queue, t)
     THEN /\ \E i \in 1 .. Len(queue) : queue[i] = t /\ queue' = RemoveAt(queue, i)
          /\ runState' = IF Terminates(queue', LiveWorkers) THEN "TERMINATED" ELSE runState
          /\ fate' = [fate EXCEPT ![t] = "submitted"]
          /\ Goto(t, "rejected")
     ELSE /\ Goto(t, "returned")
          /\ UNCHANGED <<queue, runState, fate>>
  /\ UNCHANGED <<current, dropVars, closeVars>>

(* DropOldestRejectedExecutionHandler.rejectedExecution *)

IsShutdown == runState # "RUNNING"

RejectedFirstCheck(t) ==
  /\ At(t, "rejected")
  /\ IF IsShutdown
     THEN /\ Drop(t, t)
          /\ Goto(t, "returned")
     ELSE /\ Goto(t, "poll")
          /\ UNCHANGED <<dropVars, fate>>
  /\ UNCHANGED <<poolVars, closeVars>>

RejectedPolls(t) ==
  /\ At(t, "poll")
  /\ IF queue # <<>>
     THEN /\ queue' = Tail(queue)
          /\ Drop(t, Head(queue))
     ELSE UNCHANGED <<queue, dropVars, fate>>
  /\ Goto(t, "second_check")
  /\ UNCHANGED <<runState, current, closeVars>>

RejectedSecondCheck(t) ==
  /\ At(t, "second_check")
  /\ IF IsShutdown
     THEN /\ Drop(t, t)
          /\ Goto(t, "returned")
     ELSE /\ Goto(t, "second_offer")
          /\ UNCHANGED <<dropVars, fate>>
  /\ UNCHANGED <<poolVars, closeVars>>

RejectedOffers(t) ==
  /\ At(t, "second_offer")
  /\ IF Len(queue) < Capacity
     THEN /\ queue' = Append(queue, t)
          /\ fate' = [fate EXCEPT ![t] = "queued"]
          /\ UNCHANGED dropVars
     ELSE /\ Drop(t, t)
          /\ UNCHANGED queue
  /\ Goto(t, "returned")
  /\ UNCHANGED <<runState, current, closeVars>>

-----------------------------------------------------------------------------
(* the pool's threads *)

Take(w) ==
  /\ pc[w] = "take"
  /\ runState \in {"RUNNING", "SHUTDOWN"}
  /\ queue # <<>>
  /\ queue' = Tail(queue)
  /\ current' = [current EXCEPT ![w] = Head(queue)]
  /\ fate' = [fate EXCEPT ![Head(queue)] = "held"]
  /\ Goto(w, "starting")
  /\ UNCHANGED <<runState, dropVars, closeVars>>

\* TrackedTask.run: the CAS on startedOrDropped ...
Claim(w) ==
  /\ pc[w] = "starting"
  /\ claimed' = claimed \cup {current[w]}
  /\ Goto(w, IF current[w] \in claimed THEN "take" ELSE "counting")
  /\ UNCHANGED <<poolVars, queued, dropped, interval, step, logged, closeVars, fate>>

\* ... metrics.decrementQueued() ...
CountStarted(w) ==
  /\ pc[w] = "counting"
  /\ queued' = queued - 1
  /\ Goto(w, "running")
  /\ UNCHANGED <<poolVars, claimed, dropped, interval, step, logged, closeVars, fate>>

\* ... and delegate.run().
RunTask(w) ==
  /\ pc[w] = "running"
  /\ fate' = [fate EXCEPT ![current[w]] = "done"]
  /\ current' = [current EXCEPT ![w] = NoTask]
  /\ Goto(w, "take")
  /\ UNCHANGED <<runState, queue, dropVars, closeVars>>

\* The last thread to leave terminates the pool.
Exit(w) ==
  /\ pc[w] = "take"
  /\ runState = "STOP" \/ (runState = "SHUTDOWN" /\ queue = <<>>)
  /\ runState' = IF Terminates(queue, LiveWorkers \ {w}) THEN "TERMINATED" ELSE runState
  /\ Goto(w, "exited")
  /\ UNCHANGED <<queue, current, dropVars, closeVars, fate>>

-----------------------------------------------------------------------------
(* close *)

CloseBegin(c) ==
  /\ At(c, "call")
  /\ closed' = TRUE
  /\ Goto(c, IF closed THEN "returned" ELSE "shutdown")
  /\ UNCHANGED <<poolVars, dropVars, pending, forced, owed, fate>>

CloseShutdown(c) ==
  /\ At(c, "shutdown")
  /\ runState' = IF LiveWorkers = {} /\ queue = <<>> THEN "TERMINATED" ELSE "SHUTDOWN"
  /\ owed' = {t \in Tasks : pc[t] = "returned" /\ fate[t] \in {"queued", "held"}}
  /\ Goto(c, "awaiting")
  /\ UNCHANGED <<queue, current, dropVars, closed, pending, forced, fate>>

\* awaitTermination returns true.
CloseTerminated(c) ==
  /\ At(c, "awaiting")
  /\ runState = "TERMINATED"
  /\ Goto(c, "returned")
  /\ UNCHANGED <<poolVars, dropVars, closeVars, fate>>

\* awaitTermination times out or is interrupted: shutdownNow empties the queue.
CloseForces(c) ==
  /\ At(c, "awaiting")
  /\ runState' = IF LiveWorkers = {} \/ runState = "TERMINATED" THEN "TERMINATED" ELSE "STOP"
  /\ forced' = TRUE
  /\ pending' = queue
  /\ queue' = <<>>
  /\ Goto(c, "dropping")
  /\ UNCHANGED <<current, dropVars, closed, owed, fate>>

DropPending(c) ==
  /\ At(c, "dropping")
  /\ pending # <<>>
  /\ Drop(c, Head(pending))
  /\ pending' = Tail(pending)
  /\ UNCHANGED <<poolVars, pc, closed, forced, owed>>

CloseEnds(c) ==
  /\ At(c, "dropping")
  /\ pending = <<>>
  /\ Goto(c, "returned")
  /\ UNCHANGED <<poolVars, dropVars, closeVars, fate>>

-----------------------------------------------------------------------------
Caller(t) == \/ SubmitRefused(t) \/ SubmitCounts(t)
             \/ ExecuteStartsWorker(t) \/ ExecuteFindsPool(t) \/ ExecuteOffers(t) \/ Recheck(t)
             \/ RejectedFirstCheck(t) \/ RejectedPolls(t)
             \/ RejectedSecondCheck(t) \/ RejectedOffers(t)

Worker(w) == Take(w) \/ Claim(w) \/ CountStarted(w) \/ RunTask(w) \/ Exit(w)

Closer(c) == \/ CloseBegin(c) \/ CloseShutdown(c) \/ CloseTerminated(c)
             \/ CloseForces(c) \/ DropPending(c) \/ CloseEnds(c)

Counting(x) == DecrementQueued(x) \/ IncrementDropped(x) \/ RecordDrop(x) \/ LogSummary(x)

Next == \/ \E t \in Tasks : Caller(t)
        \/ \E w \in Workers : Worker(w)
        \/ \E c \in Closers : Closer(c)
        \/ \E x \in Threads : Counting(x)

Spec == Init /\ [][Next]_vars

-----------------------------------------------------------------------------
(* Properties *)

\* The threads between startedOrDropped and the counter that is to follow it.
ToDecrement == {x \in Threads : step[x] = "decrement"} \cup {w \in Workers : pc[w] = "counting"}
ToIncrement == {x \in Threads : step[x] \in {"decrement", "increment"}}
ToRecord == {x \in Threads : step[x] \in {"decrement", "increment", "record"}}

\* The gauge and the counters lag behind the tasks by the threads in the middle of an
\* update and by nothing else: queued counts the tasks neither started nor dropped, and
\* every dropped one is in the counter and in the interval or the log
\* (TrackedTask.java:19-34, RateLimitedDropLogger.java:35-46).
MetricsExact ==
  LET waiting == {t \in Tasks : fate[t] \in {"submitted", "queued", "held"}} \ claimed
      over == {t \in Tasks : fate[t] \in {"dropped", "abandoned"}}
  IN  /\ queued = Cardinality(waiting) + Cardinality(ToDecrement)
      /\ dropped + Cardinality(ToIncrement) = Cardinality(over)
      /\ interval + logged + Cardinality(ToRecord) = Cardinality(over)

\* When close ends without force, everything the pool had when it was shut down has
\* run or was displaced (AsyncDispatcher.java:55-61).
OwedDelivered ==
  (\E c \in Closers : pc[c] = "returned") /\ runState = "TERMINATED" /\ ~forced =>
    \A t \in owed : fate[t] \in {"done", "dropped"}

\* After shutdownNow no thread of the pool takes another task, not even one that a
\* late rejection handler puts into the queue.
ForcedStaysForced ==
  [][forced => \A w \in Workers : current'[w] # NoTask => current'[w] = current[w]]_vars

\* Nobody is in the middle of anything.
Quiet ==
  /\ \A x \in Tasks \cup Closers : pc[x] \in {"call", "returned"} /\ step[x] = "none"
  /\ \A w \in Workers : pc[w] \in {"unborn", "exited"} \/ (pc[w] = "take" /\ queue = <<>>)

\* When the threads have come to rest every accepted task has run or was dropped and
\* counted, except one that the handler offered to a pool that had terminated.
RestResolved ==
  Quiet => \A t \in Tasks :
    \/ fate[t] \in {"new", "refused", "done", "dropped", "abandoned"}
    \/ runState = "TERMINATED" /\ Contains(queue, t)

\* After close nothing stays behind: the test AsyncDispatcherTest.java:50 asserts
\* assertEquals(0L, metrics.getQueued()) once close and the submitters are through.
NothingLeftBehind ==
  runState = "TERMINATED" /\ (\A x \in Tasks \cup Closers : At(x, "returned")) => queued = 0
=============================================================================
