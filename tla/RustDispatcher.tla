--------------------------- MODULE RustDispatcher ---------------------------
(***************************************************************************)
(* The Rust SDK's AsyncDispatcher (rust/src/internal/dispatcher.rs) with   *)
(* the drop counter it owns (rust/src/internal/drop_logger.rs).            *)
(*                                                                         *)
(* Application threads submit, a fixed set of workers run tasks, any       *)
(* thread may close.  All of them meet at one mutex and at one condition   *)
(* variable, `changed', that idle workers and the closing thread share.    *)
(* What happens between lock() and unlock is one action; a notification,   *)
(* which the code sends after it has released the lock, is an action of    *)
(* its own, so every interleaving around it is explored.                   *)
(***************************************************************************)
EXTENDS Naturals, Sequences, FiniteSets

CONSTANTS Tasks,      \* one task per submit call; the task also names its caller
          Workers,    \* the worker threads, WORKER_COUNT of them
          Closers,    \* the threads that call close
          Capacity,   \* QUEUE_CAPACITY
          Panicking,  \* the tasks whose closure may panic
          NoTask      \* stands for "no task"

ASSUME RustAssumption ==
  /\ IsFiniteSet(Workers) /\ Workers # {}
  /\ Tasks \cap Workers = {} /\ Tasks \cap Closers = {} /\ Workers \cap Closers = {}
  /\ Capacity \in Nat \ {0}
  /\ Panicking \subseteq Tasks
  /\ NoTask \notin Tasks

VARIABLES
  tasks,       \* State.tasks
  accepting,   \* State.accepting
  draining,    \* State.draining
  active,      \* State.active
  pc,          \* where each thread is
  current,     \* the task a worker has popped
  expired,     \* the deadline of the drain has passed
  dropped,     \* DropState.dropped: drops counted since the last summary
  summary,     \* submit's local `dropped': the summary this caller still has to log
  logged,      \* drops that the summaries in the log add up to
  fate         \* what has become of every task

vars == <<tasks, accepting, draining, active, pc, current, expired,
          dropped, summary, logged, fate>>
queueVars == <<tasks, accepting, draining, active>>
logVars == <<dropped, summary, logged>>

Threads == Tasks \cup Workers \cup Closers

\* A thread is "waiting" while it is blocked in changed.wait or wait_timeout and
\* "ready" when it is about to test, holding the lock, what it waits for.
PC == {"call", "notify_one", "returned", "ready", "waiting", "running", "ran",
       "notify_all", "exited", "unwound"}

Fates == {"new", "refused", "queued", "running", "done", "dropped", "abandoned"}

Goto(x, label) == pc' = [pc EXCEPT ![x] = label]

Waiting == {x \in Workers \cup Closers : pc[x] = "waiting"}

\* Condvar::notify_all, and on to the caller's next step.
NotifyAll(x, label) ==
  pc' = [y \in Threads |-> IF y = x THEN label
                           ELSE IF y \in Waiting THEN "ready" ELSE pc[y]]

\* AsyncDispatcher::new: the workers are spawned into their loop.
Init ==
  /\ tasks = <<>>
  /\ accepting = TRUE
  /\ draining = TRUE
  /\ active = 0
  /\ pc = [x \in Threads |-> IF x \in Workers THEN "ready" ELSE "call"]
  /\ current = [w \in Workers |-> NoTask]
  /\ expired = FALSE
  /\ dropped = 0
  /\ summary = [t \in Tasks |-> 0]
  /\ logged = 0
  /\ fate = [t \in Tasks |-> "new"]

-----------------------------------------------------------------------------
(* Faulty variants of definitions below, one plausible slip each; every       *)
(* property of a passing run is violated by one of them.                      *)

\* The summary leaves out the drop that triggers it.
RecordDrop_LosesOne(t, elapsed) ==
  /\ dropped' = IF elapsed THEN 0 ELSE dropped + 1
  /\ summary' = [summary EXCEPT ![t] = IF elapsed THEN dropped ELSE 0]
  /\ UNCHANGED logged

\* The capacity test is off by one.
SubmitRoom_OffByOne(t) ==
  /\ pc[t] = "call" /\ accepting /\ Len(tasks) <= Capacity
  /\ tasks' = Append(tasks, t)
  /\ fate' = [fate EXCEPT ![t] = "queued"]
  /\ Goto(t, "notify_one")
  /\ UNCHANGED <<accepting, draining, active, current, expired, logVars>>

\* submit forgets to notify.
SubmitRoom_Silent(t) ==
  /\ pc[t] = "call" /\ accepting /\ Len(tasks) < Capacity
  /\ tasks' = Append(tasks, t)
  /\ fate' = [fate EXCEPT ![t] = "queued"]
  /\ Goto(t, "returned")
  /\ UNCHANGED <<accepting, draining, active, current, expired, logVars>>

\* The worker forgets to count the task it takes.
Take_Uncounted(w) ==
  /\ pc[w] = "ready" /\ tasks # <<>>
  /\ tasks' = Tail(tasks)
  /\ current' = [current EXCEPT ![w] = Head(tasks)]
  /\ fate' = [fate EXCEPT ![Head(tasks)] = "running"]
  /\ Goto(w, "running")
  /\ UNCHANGED <<accepting, draining, active, expired, logVars>>

\* The worker forgets to report that its task is done.
Release_Silent(w) ==
  /\ pc[w] = "ran"
  /\ active' = active - 1
  /\ current' = [current EXCEPT ![w] = NoTask]
  /\ Goto(w, "ready")
  /\ UNCHANGED <<tasks, accepting, draining, expired, logVars, fate>>

\* The drain only looks at the queue.
Drained_IgnoresActive == tasks = <<>>

\* close forgets to wake the workers it stops.
DrainEnd_Silent(c) ==
  /\ pc[c] = "ready" /\ ((tasks = <<>> /\ active = 0) \/ expired)
  /\ draining' = FALSE
  /\ tasks' = <<>>
  /\ fate' = [t \in Tasks |-> IF fate[t] = "queued" THEN "abandoned" ELSE fate[t]]
  /\ Goto(c, "returned")
  /\ UNCHANGED <<accepting, active, current, expired, logVars>>

\* The drain has no deadline.
DrainEnd_Unbounded(c) ==
  /\ pc[c] = "ready" /\ tasks = <<>> /\ active = 0
  /\ draining' = FALSE
  /\ Goto(c, "notify_all")
  /\ UNCHANGED <<tasks, accepting, active, current, expired, logVars, fate>>

-----------------------------------------------------------------------------
(* submit *)

\* RateLimitedDropLogger::record_drop; elapsed says whether the interval since
\* the last summary is over.
RecordDrop(t, elapsed) ==
  /\ dropped' = IF elapsed THEN 0 ELSE dropped + 1
  /\ summary' = [summary EXCEPT ![t] = IF elapsed THEN dropped + 1 ELSE 0]
  /\ UNCHANGED logged

\* The locked part of submit on a dispatcher that still has room.
SubmitRoom(t) ==
  /\ pc[t] = "call"
  /\ accepting
  /\ Len(tasks) < Capacity
  /\ tasks' = Append(tasks, t)
  /\ fate' = [fate EXCEPT ![t] = "queued"]
  /\ Goto(t, "notify_one")
  /\ UNCHANGED <<accepting, draining, active, current, expired, logVars>>

\* The locked part of submit on a full queue: the front is popped and counted.
SubmitFull(t) ==
  /\ pc[t] = "call"
  /\ accepting
  /\ Len(tasks) >= Capacity
  /\ tasks' = Append(Tail(tasks), t)
  /\ fate' = [fate EXCEPT ![t] = "queued", ![Head(tasks)] = "dropped"]
  /\ \E elapsed \in BOOLEAN : RecordDrop(t, elapsed)
  /\ Goto(t, "notify_one")
  /\ UNCHANGED <<accepting, draining, active, current, expired>>

\* submit on a closed dispatcher.
SubmitRefused(t) ==
  /\ pc[t] = "call"
  /\ ~accepting
  /\ fate' = [fate EXCEPT ![t] = "refused"]
  /\ Goto(t, "returned")
  /\ UNCHANGED <<queueVars, current, expired, logVars>>

\* changed.notify_one() wakes some waiting thread, whichever it is; then the
\* caller logs its summary and returns.
NotifyOne(t) ==
  /\ pc[t] = "notify_one"
  /\ \/ /\ Waiting = {}
        /\ Goto(t, "returned")
     \/ \E x \in Waiting :
          pc' = [pc EXCEPT ![t] = "returned", ![x] = "ready"]
  /\ logged' = logged + summary[t]
  /\ summary' = [summary EXCEPT ![t] = 0]
  /\ UNCHANGED <<queueVars, current, expired, dropped, fate>>

-----------------------------------------------------------------------------
(* work *)

\* The inner loop of work: pop a task ...
Take(w) ==
  /\ pc[w] = "ready"
  /\ tasks # <<>>
  /\ tasks' = Tail(tasks)
  /\ active' = active + 1
  /\ current' = [current EXCEPT ![w] = Head(tasks)]
  /\ fate' = [fate EXCEPT ![Head(tasks)] = "running"]
  /\ Goto(w, "running")
  /\ UNCHANGED <<accepting, draining, expired, logVars>>

\* ... or leave, once close has given up ...
Exit(w) ==
  /\ pc[w] = "ready"
  /\ tasks = <<>>
  /\ ~draining
  /\ Goto(w, "exited")
  /\ UNCHANGED <<queueVars, current, expired, logVars, fate>>

\* ... or wait on the condition variable.
Wait(w) ==
  /\ pc[w] = "ready"
  /\ tasks = <<>>
  /\ draining
  /\ Goto(w, "waiting")
  /\ UNCHANGED <<queueVars, current, expired, logVars, fate>>

\* task() returns.
RunTask(w) ==
  /\ pc[w] = "running"
  /\ fate' = [fate EXCEPT ![current[w]] = "done"]
  /\ Goto(w, "ran")
  /\ UNCHANGED <<queueVars, current, expired, logVars>>

\* task() panics: the thread unwinds out of work with no lock held, and nothing
\* takes its task back out of `active'.
PanicTask(w) ==
  /\ pc[w] = "running"
  /\ current[w] \in Panicking
  /\ fate' = [fate EXCEPT ![current[w]] = "done"]
  /\ Goto(w, "unwound")
  /\ UNCHANGED <<queueVars, current, expired, logVars>>

\* self.lock().active -= 1
Release(w) ==
  /\ pc[w] = "ran"
  /\ active' = active - 1
  /\ current' = [current EXCEPT ![w] = NoTask]
  /\ Goto(w, "notify_all")
  /\ UNCHANGED <<tasks, accepting, draining, expired, logVars, fate>>

\* changed.notify_all(), and round the outer loop.
WorkerNotifyAll(w) ==
  /\ pc[w] = "notify_all"
  /\ NotifyAll(w, "ready")
  /\ UNCHANGED <<queueVars, current, expired, logVars, fate>>

-----------------------------------------------------------------------------
(* close *)

CloseBegin(c) ==
  /\ pc[c] = "call"
  /\ accepting
  /\ accepting' = FALSE
  /\ Goto(c, "ready")
  /\ UNCHANGED <<tasks, draining, active, current, expired, logVars, fate>>

CloseAgain(c) ==
  /\ pc[c] = "call"
  /\ ~accepting
  /\ Goto(c, "returned")
  /\ UNCHANGED <<queueVars, current, expired, logVars, fate>>

Drained == tasks = <<>> /\ active = 0

\* The loop of drain_until goes to sleep ...
DrainWait(c) ==
  /\ pc[c] = "ready"
  /\ ~Drained
  /\ ~expired
  /\ Goto(c, "waiting")
  /\ UNCHANGED <<queueVars, current, expired, logVars, fate>>

\* ... or ends: the workers are stopped and what is still queued is cleared.
DrainEnd(c) ==
  /\ pc[c] = "ready"
  /\ Drained \/ expired
  /\ draining' = FALSE
  /\ tasks' = <<>>
  /\ fate' = [t \in Tasks |-> IF fate[t] = "queued" THEN "abandoned" ELSE fate[t]]
  /\ Goto(c, "notify_all")
  /\ UNCHANGED <<accepting, active, current, expired, logVars>>

\* changed.notify_all(); close returns without joining the workers.
CloserNotifyAll(c) ==
  /\ pc[c] = "notify_all"
  /\ NotifyAll(c, "returned")
  /\ UNCHANGED <<queueVars, current, expired, logVars, fate>>

-----------------------------------------------------------------------------
(* the clock, and the freedom std gives a condition variable *)

\* The ten seconds of a close in progress run out.
DeadlinePasses ==
  /\ ~expired
  /\ \E c \in Closers : pc[c] \in {"ready", "waiting"}
  /\ expired' = TRUE
  /\ UNCHANGED <<queueVars, pc, current, logVars, fate>>

\* wait_timeout returns because its time is up.
WaitTimesOut(c) ==
  /\ pc[c] = "waiting"
  /\ expired
  /\ Goto(c, "ready")
  /\ UNCHANGED <<queueVars, current, expired, logVars, fate>>

\* A wait may return without a notification.
SpuriousWakeup(x) ==
  /\ pc[x] = "waiting"
  /\ Goto(x, "ready")
  /\ UNCHANGED <<queueVars, current, expired, logVars, fate>>

-----------------------------------------------------------------------------
Caller(t) == SubmitRoom(t) \/ SubmitFull(t) \/ SubmitRefused(t) \/ NotifyOne(t)

Worker(w) == \/ Take(w) \/ Exit(w) \/ Wait(w)
             \/ RunTask(w) \/ PanicTask(w) \/ Release(w) \/ WorkerNotifyAll(w)

Closer(c) == \/ CloseBegin(c) \/ CloseAgain(c)
             \/ DrainWait(c) \/ DrainEnd(c) \/ WaitTimesOut(c) \/ CloserNotifyAll(c)

Next == \/ \E t \in Tasks : Caller(t)
        \/ \E w \in Workers : Worker(w)
        \/ \E c \in Closers : Closer(c)
        \/ DeadlinePasses
        \/ \E x \in Workers \cup Closers : SpuriousWakeup(x)

Spec == Init /\ [][Next]_vars

-----------------------------------------------------------------------------
(* Properties *)

\* The types of the state; in particular `active -= 1' never underflows the usize
\* (dispatcher.rs:187).
TypeOK ==
  /\ tasks \in Seq(Tasks)
  /\ accepting \in BOOLEAN
  /\ draining \in BOOLEAN
  /\ active \in Nat
  /\ pc \in [Threads -> PC]
  /\ current \in [Workers -> Tasks \cup {NoTask}]
  /\ expired \in BOOLEAN
  /\ dropped \in Nat
  /\ summary \in [Tasks -> Nat]
  /\ logged \in Nat
  /\ fate \in [Tasks -> Fates]

\* Inside task() or on the way from it to `active -= 1'.
Busy == {w \in Workers : pc[w] \in {"running", "ran", "unwound"}}

\* The dispatcher seen as the queue that every SDK promises.
Contract == INSTANCE DispatcherContract WITH
  queue <- tasks,
  phase <- IF accepting THEN "open" ELSE IF draining THEN "closing" ELSE "closed",
  WorkerCount <- Cardinality(Workers),
  EvictsEarly <- FALSE

\* submit, work and close together behave as a bounded drop-oldest FIFO queue
\* whose entries run at most once, on at most WORKER_COUNT workers, and never
\* after close has abandoned them (dispatcher.rs:29-33 and 118-120).
ImplementsContract == Contract!Spec

\* A close that ends before its deadline has lost nothing: every task admitted
\* before it has run, or was displaced from a full queue earlier (drain_until).
CleanCloseRanEverything ==
  ~draining /\ ~expired =>
    \A t \in Tasks : fate[t] \in {"new", "refused", "done", "dropped"}

\* drain_until never sleeps through the end of the drain: while it waits there is
\* a queued task, a task not accounted for in `active', or a worker that is about
\* to send the notify_all which ends the wait.
CloserNotForgotten ==
  (\E c \in Closers : pc[c] = "waiting") =>
    \/ ~Drained
    \/ \E w \in Workers : pc[w] = "notify_all"

\* "one bad task [does not wedge] delivery and shutdown for the whole process"
\* (dispatcher.rs:158-160): whatever drain_until waits for, some live worker can
\* still bring about.
ShutdownNotWedged ==
  (\E c \in Closers : pc[c] = "waiting") =>
    \/ tasks # <<>>
    \/ \E w \in Workers : pc[w] \in {"running", "ran", "notify_all"}

\* "a worker cannot miss the wake-up that close sends" (dispatcher.rs:17-18): a
\* worker that sleeps although draining is over has that wake-up still coming.
WorkerNotForgotten ==
  ~draining /\ (\E w \in Workers : pc[w] = "waiting") =>
    \E c \in Closers : pc[c] = "notify_all"

\* A queued task has somebody who will fetch it: a worker that is awake, or a
\* submit call about to send its notification.
TaskIsFetched ==
  tasks # <<>> =>
    \/ \E w \in Workers : pc[w] \in {"ready", "running", "ran", "notify_all"}
    \/ \E t \in Tasks : pc[t] = "notify_one"

\* While the dispatcher is open nobody but workers wait on the condition variable,
\* so as long as none of them has panicked the one notification of submit reaches
\* a worker whenever one is asleep.
OpenTaskIsFetched ==
  accepting /\ (\A w \in Workers : pc[w] # "unwound") => TaskIsFetched

\* The drops in summaries that some caller is about to log, numbered per caller.
ToBeLogged == UNION {{t} \X (1 .. summary[t]) : t \in Tasks}

\* Every displaced task is in exactly one place: still counted by the drop
\* logger, in a summary some caller is about to log, or in the log.
DropsAccounted ==
  dropped + logged + Cardinality(ToBeLogged) = Cardinality({t \in Tasks : fate[t] = "dropped"})

\* A panic has unwound every worker: nobody is left to take a task.
AllUnwound == \A w \in Workers : pc[w] = "unwound"

\* An admitted task does not linger: task() ends, in a panic if need be, or the task
\* is displaced or abandoned, unless panics have cost the dispatcher every worker.
TaskResolved ==
  \A t \in Tasks :
    fate[t] = "queued" ~> fate[t] \in {"done", "dropped", "abandoned"} \/ AllUnwound
=============================================================================
