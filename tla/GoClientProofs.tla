--------------------------- MODULE GoClientProofs ---------------------------
(***************************************************************************)
(* Proofs about the Go dispatcher and the Go client on top of it, for any  *)
(* number of submits, posts, workers and closing goroutines, any capacity  *)
(* and any number of retries.                                              *)
(***************************************************************************)
EXTENDS GoClient, FiniteSetTheorems, TLAPS

-----------------------------------------------------------------------------
(* The inductive invariant of the dispatcher *)

Fates == {"new", "refused", "queued", "running", "done", "dropped", "abandoned"}

DispatcherType ==
  /\ queue \in Seq(Tasks)
  /\ mu \in Tasks \cup {Free}
  /\ current \in [Workers -> Tasks \cup {NoTask}]
  /\ report \in Nat /\ dropped \in Nat /\ logged \in Nat
  /\ fate \in [Tasks -> Fates]

\* Each kind of goroutine moves through its own part of the program.
PCInv ==
  /\ pc \in [Threads -> {"call", "evict", "resend", "returned", "ready", "received",
                         "running", "exited", "draining", "abandoning"}]
  /\ \A t \in Tasks : pc[t] \in {"call", "evict", "resend", "returned"}
  /\ \A w \in Workers : pc[w] \in {"ready", "received", "running", "exited"}
  /\ \A c \in Closers : pc[c] \in {"call", "draining", "abandoning", "returned"}

\* The slow path of submit owns the mutex, and while it does close cannot begin.
MutexInv ==
  /\ \A t \in Tasks : pc[t] \in {"evict", "resend"} <=> mu = t
  /\ mu # Free => ~closed

\* One close drains, and the context is cancelled when it is through.
CloseInv ==
  /\ cancelled => closed
  /\ \A c \in Closers : pc[c] \in {"draining", "abandoning"} => closed /\ ~cancelled
  /\ \A c, d \in Closers : pc[c] \in {"draining", "abandoning"} /\ pc[d] \in {"draining", "abandoning"}
       => c = d
  /\ \A c \in Closers : pc[c] = "abandoning" => timedOut /\ Len(queue) <= report
  /\ timedOut /\ ~cancelled => \E c \in Closers : pc[c] = "abandoning"

\* A worker leaves an open context only from a closed and empty channel.
ExitInv ==
  (\E w \in Workers : pc[w] = "exited") /\ ~cancelled => closed /\ queue = <<>>

\* The channel holds every queued task once, and after the cancellation the tasks
\* that close has given up; an eviction has made room that nobody else can use.
QueueInv ==
  /\ Len(queue) <= Capacity
  /\ \A i \in 1 .. Len(queue) :
       fate[queue[i]] = IF cancelled THEN "abandoned" ELSE "queued"
  /\ \A i, j \in 1 .. Len(queue) : queue[i] = queue[j] => i = j
  /\ \A t \in Tasks : fate[t] = "queued" => \E i \in 1 .. Len(queue) : queue[i] = t
  /\ \A t \in Tasks : pc[t] = "resend" => Len(queue) < Capacity

\* A task is new as long as its submit has not decided about it.
NewInv == \A t \in Tasks : fate[t] = "new" <=> pc[t] \in {"call", "evict", "resend"}

Holds(w) == pc[w] \in {"received", "running"}

\* A running task is in the hand of exactly one worker; a worker that received its
\* task after the cancellation holds an abandoned one, which is in no other place.
HandInv ==
  /\ \A w \in Workers : Holds(w) =>
       /\ current[w] \in Tasks
       /\ fate[current[w]] = "running" \/ (pc[w] = "received" /\ cancelled /\ fate[current[w]] = "abandoned")
       /\ \A i \in 1 .. Len(queue) : queue[i] # current[w]
  /\ \A v, w \in Workers : Holds(v) /\ Holds(w) /\ current[v] = current[w] => v = w
  /\ \A t \in Tasks : fate[t] = "running" => \E w \in Workers : Holds(w) /\ current[w] = t

Dropped == {t \in Tasks : fate[t] = "dropped"}
Abandoned == {t \in Tasks : fate[t] = "abandoned"}
Live == {w \in Workers : pc[w] # "exited"}

\* Displaced tasks are counted one by one.  After close has given up each worker may
\* abandon the one task in its hand, and then it is gone.
LossInv ==
  /\ dropped + logged = Cardinality(Dropped)
  /\ ~cancelled => Abandoned = {}
  /\ Cardinality(Abandoned) + Cardinality(Live) <= report + Cardinality(Workers)

DispatcherInv ==
  /\ DispatcherType /\ PCInv /\ MutexInv /\ CloseInv /\ ExitInv /\ QueueInv /\ NewInv
  /\ HandInv /\ LossInv /\ CleanCloseRanEverything

-----------------------------------------------------------------------------
(* Sequences and counting *)

\* What is left of a non-empty queue when its head is removed.
LEMMA TailFacts ==
  ASSUME NEW S, NEW q \in Seq(S), q # <<>>
  PROVE  /\ Len(q) \in Nat \ {0}
         /\ Head(q) = q[1] /\ Head(q) \in S
         /\ Tail(q) \in Seq(S)
         /\ Len(Tail(q)) = Len(q) - 1
         /\ \A i \in 1 .. (Len(q) - 1) : Tail(q)[i] = q[i + 1]
  OBVIOUS

\* The tasks and the workers are finitely many, and so is any kind of them.
LEMMA Finite ==
  /\ IsFiniteSet(Dropped) /\ Cardinality(Dropped) \in Nat
  /\ IsFiniteSet(Abandoned) /\ Cardinality(Abandoned) \in Nat
  /\ IsFiniteSet(Live) /\ Cardinality(Live) \in Nat
  /\ Cardinality(Workers) \in Nat /\ Cardinality(Live) <= Cardinality(Workers)
  <1>1. IsFiniteSet(Tasks) /\ IsFiniteSet(Workers)
    BY GoAssumption
  <1>2. Dropped \subseteq Tasks /\ Abandoned \subseteq Tasks /\ Live \subseteq Workers
    BY DEF Dropped, Abandoned, Live
  <1>3. IsFiniteSet(Dropped) /\ IsFiniteSet(Abandoned) /\ IsFiniteSet(Live)
        /\ Cardinality(Live) <= Cardinality(Workers)
    BY <1>1, <1>2, FS_Subset
  <1>4. QED
    BY <1>1, <1>3, FS_CardinalityType

-----------------------------------------------------------------------------
(* The initial state *)

LEMMA InitInv == ASSUME Init PROVE DispatcherInv
  <1> USE GoAssumption DEF Init
  <1>1. DispatcherType
    BY DEF DispatcherType, Fates
  <1>2. PCInv /\ MutexInv /\ NewInv
    BY DEF PCInv, MutexInv, NewInv, Threads
  <1>3. CloseInv /\ ExitInv /\ HandInv
    BY DEF CloseInv, ExitInv, HandInv, Holds, Threads
  <1>4. QueueInv /\ CleanCloseRanEverything
    BY DEF QueueInv, CleanCloseRanEverything, Threads
  <1>5. LossInv
    <2>1. Dropped = {} /\ Abandoned = {}
      BY DEF Dropped, Abandoned
    <2>2. Cardinality(Dropped) = 0 /\ Cardinality(Abandoned) = 0
      BY <2>1, FS_EmptySet
    <2>3. QED
      BY <2>1, <2>2, Finite DEF LossInv
  <1>6. QED
    BY <1>1, <1>2, <1>3, <1>4, <1>5 DEF DispatcherInv

-----------------------------------------------------------------------------
(* One lemma per part of the invariant *)

\* No action takes a goroutine out of its own part of the program.
LEMMA PCStep == ASSUME DispatcherInv, [Next]_vars PROVE PCInv'
  <1> USE GoAssumption DEF DispatcherInv, DispatcherType, PCInv, Threads, Goto
  <1>1. ASSUME NEW t \in Tasks, Caller(t) PROVE PCInv'
    BY <1>1 DEF Caller, SubmitRefused, SubmitSends, SubmitFindsFull, Evict, Resend
  <1>2. ASSUME NEW w \in Workers, Worker(w) PROVE PCInv'
    BY <1>2 DEF Worker, Receive, Exit, CheckContext, RunTask
  <1>3. ASSUME NEW c \in Closers, Closer(c) PROVE PCInv'
    BY <1>3 DEF Closer, CloseBegin, CloseAgain, CloseDrained, CloseTimesOut, Abandon
  <1>4. CASE UNCHANGED vars
    BY <1>4 DEF vars
  <1>5. QED
    BY <1>1, <1>2, <1>3, <1>4 DEF Next

\* submit takes the mutex with one step and gives it back with another, and close
\* needs it to begin.
LEMMA MutexStep == ASSUME DispatcherInv, [Next]_vars PROVE MutexInv'
  <1> USE GoAssumption DEF DispatcherInv, DispatcherType, PCInv, MutexInv, Threads, Goto
  <1>1. ASSUME NEW t \in Tasks, Caller(t) PROVE MutexInv'
    BY <1>1 DEF Caller, SubmitRefused, SubmitSends, SubmitFindsFull, Evict, Resend
  <1>2. ASSUME NEW w \in Workers, Worker(w) PROVE MutexInv'
    BY <1>2 DEF Worker, Receive, Exit, CheckContext, RunTask
  <1>3. ASSUME NEW c \in Closers, Closer(c) PROVE MutexInv'
    BY <1>3 DEF Closer, CloseBegin, CloseAgain, CloseDrained, CloseTimesOut, Abandon
  <1>4. CASE UNCHANGED vars
    BY <1>4 DEF vars
  <1>5. QED
    BY <1>1, <1>2, <1>3, <1>4 DEF Next

\* A task that is received or evicted comes out of the channel.
LEMMA TypeStep == ASSUME DispatcherInv, [Next]_vars PROVE DispatcherType'
  <1> USE GoAssumption DEF DispatcherInv, DispatcherType, PCInv, Fates, closeVars, dropVars
  <1>1. queue # <<>> => Head(queue) \in Tasks /\ Tail(queue) \in Seq(Tasks)
    BY TailFacts
  <1>2. ASSUME NEW t \in Tasks, SubmitRefused(t) \/ SubmitSends(t) \/ SubmitFindsFull(t)
        PROVE  DispatcherType'
    <2>1. CASE SubmitRefused(t)
      BY <2>1 DEF SubmitRefused
    <2>2. CASE SubmitSends(t)
      BY <2>2 DEF SubmitSends
    <2>3. CASE SubmitFindsFull(t)
      BY <2>3 DEF SubmitFindsFull
    <2>4. QED
      BY <1>2, <2>1, <2>2, <2>3
  <1>3. ASSUME NEW t \in Tasks, Evict(t) PROVE DispatcherType'
    <2>1. queue' \in Seq(Tasks) /\ UNCHANGED <<mu, current, report>>
      BY <1>1, <1>3 DEF Evict
    <2>2. fate' \in [Tasks -> Fates]
      BY <1>1, <1>3 DEF Evict
    <2>3. dropped' \in Nat /\ logged' \in Nat
      BY <1>3 DEF Evict, RecordDrop
    <2>4. QED
      BY <2>1, <2>2, <2>3
  <1>4. ASSUME NEW t \in Tasks, Resend(t) PROVE DispatcherType'
    <2>1. mu' = Free /\ UNCHANGED <<current, report>> /\ queue' \in {queue, Append(queue, t)}
      BY <1>4 DEF Resend
    <2>2. fate' \in [Tasks -> Fates]
      BY <1>4 DEF Resend
    <2>3. dropped' \in Nat /\ logged' \in Nat
      BY <1>4 DEF Resend, RecordDrop
    <2>4. QED
      BY <2>1, <2>2, <2>3
  <1>5. ASSUME NEW w \in Workers, Receive(w) PROVE DispatcherType'
    BY <1>1, <1>5 DEF Receive
  <1>6. ASSUME NEW w \in Workers, Exit(w) PROVE DispatcherType'
    BY <1>6 DEF Exit
  <1>7. ASSUME NEW w \in Workers, CheckContext(w) \/ RunTask(w) PROVE DispatcherType'
    BY <1>7 DEF CheckContext, RunTask
  <1>8. ASSUME NEW c \in Closers, Closer(c) PROVE DispatcherType'
    BY <1>8 DEF Closer, CloseBegin, CloseAgain, CloseDrained, CloseTimesOut, Abandon
  <1>9. CASE UNCHANGED vars
    BY <1>9 DEF vars
  <1>10. QED
    BY <1>2, <1>3, <1>4, <1>5, <1>6, <1>7, <1>8, <1>9 DEF Next, Caller, Worker

\* Only the close that set closed drains, and nothing is sent once it has begun.
LEMMA CloseStep == ASSUME DispatcherInv, [Next]_vars PROVE CloseInv'
  <1> USE GoAssumption DEF DispatcherInv, DispatcherType, PCInv, MutexInv, CloseInv, Threads,
          Goto, closeVars, dropVars
  <1>1. ASSUME NEW t \in Tasks, Caller(t) PROVE CloseInv'
    <2>1. UNCHANGED <<closed, cancelled, timedOut, report>> /\ \A c \in Closers : pc'[c] = pc[c]
      BY <1>1 DEF Caller, SubmitRefused, SubmitSends, SubmitFindsFull, Evict, Resend
    <2>2. closed => UNCHANGED queue
      BY <1>1 DEF Caller, SubmitRefused, SubmitSends, SubmitFindsFull, Evict, Resend
    <2>3. QED
      BY <2>1, <2>2
  <1>2. ASSUME NEW w \in Workers, Worker(w) PROVE CloseInv'
    <2>1. UNCHANGED <<closed, cancelled, timedOut, report>> /\ \A c \in Closers : pc'[c] = pc[c]
      BY <1>2 DEF Worker, Receive, Exit, CheckContext, RunTask
    <2>2. Len(queue') <= Len(queue)
      BY <1>2, TailFacts DEF Worker, Receive, Exit, CheckContext, RunTask
    <2>3. Len(queue') \in Nat /\ Len(queue) \in Nat
      BY TypeStep
    <2>4. QED
      BY <2>1, <2>2, <2>3
  <1>3. ASSUME NEW c \in Closers, Closer(c) PROVE CloseInv'
    BY <1>3 DEF Closer, CloseBegin, CloseAgain, CloseDrained, CloseTimesOut, Abandon
  <1>4. CASE UNCHANGED vars
    BY <1>4 DEF vars
  <1>5. QED
    BY <1>1, <1>2, <1>3, <1>4 DEF Next

LEMMA ExitStep == ASSUME DispatcherInv, [Next]_vars PROVE ExitInv'
  <1> USE GoAssumption DEF DispatcherInv, DispatcherType, PCInv, MutexInv, ExitInv, Threads,
          Goto, closeVars, dropVars
  <1>1. ASSUME NEW t \in Tasks, Caller(t) PROVE ExitInv'
    BY <1>1 DEF Caller, SubmitRefused, SubmitSends, SubmitFindsFull, Evict, Resend
  <1>2. ASSUME NEW w \in Workers, Worker(w) PROVE ExitInv'
    BY <1>2 DEF Worker, Receive, Exit, CheckContext, RunTask
  <1>3. ASSUME NEW c \in Closers, Closer(c) PROVE ExitInv'
    BY <1>3 DEF Closer, CloseBegin, CloseAgain, CloseDrained, CloseTimesOut, Abandon
  <1>4. CASE UNCHANGED vars
    BY <1>4 DEF vars
  <1>5. QED
    BY <1>1, <1>2, <1>3, <1>4 DEF Next

\* submit decides about a task in the step in which it returns.
LEMMA NewStep == ASSUME DispatcherInv, [Next]_vars PROVE NewInv'
  <1> USE GoAssumption DEF DispatcherInv, DispatcherType, PCInv, NewInv, Threads, Goto
  <1>1. queue # <<>> => Head(queue) \in Tasks /\ fate[Head(queue)] # "new"
    BY TailFacts DEF QueueInv
  <1>2. ASSUME NEW t \in Tasks, Caller(t) PROVE NewInv'
    BY <1>1, <1>2 DEF Caller, SubmitRefused, SubmitSends, SubmitFindsFull, Evict, Resend
  <1>3. ASSUME NEW w \in Workers, Worker(w) PROVE NewInv'
    BY <1>1, <1>3 DEF Worker, Receive, Exit, CheckContext, RunTask, HandInv, Holds
  <1>4. ASSUME NEW c \in Closers, Closer(c) PROVE NewInv'
    BY <1>4 DEF Closer, CloseBegin, CloseAgain, CloseDrained, CloseTimesOut, Abandon
  <1>5. CASE UNCHANGED vars
    BY <1>5 DEF vars
  <1>6. QED
    BY <1>2, <1>3, <1>4, <1>5 DEF Next

\* When the last worker has left an open context there is nothing in the channel.
LEMMA DrainedEmpty ==
  ASSUME DispatcherInv, NEW c \in Closers, CloseDrained(c)
  PROVE  queue = <<>> /\ ~cancelled
  BY GoAssumption DEF DispatcherInv, CloseDrained, CloseInv, ExitInv

\* The rest of the channel once its oldest task is taken out.
LEMMA RestOfQueue ==
  ASSUME DispatcherInv, queue # <<>>
  PROVE  /\ Len(queue) \in Nat \ {0} /\ Len(Tail(queue)) = Len(queue) - 1
         /\ Head(queue) \in Tasks /\ Tail(queue) \in Seq(Tasks)
         /\ fate[Head(queue)] = IF cancelled THEN "abandoned" ELSE "queued"
         /\ \A i \in 1 .. Len(Tail(queue)) : Tail(queue)[i] # Head(queue)
         /\ \A i \in 1 .. Len(Tail(queue)) :
              fate[Tail(queue)[i]] = IF cancelled THEN "abandoned" ELSE "queued"
         /\ \A i, j \in 1 .. Len(Tail(queue)) : Tail(queue)[i] = Tail(queue)[j] => i = j
         /\ \A t \in Tasks : fate[t] = "queued" /\ t # Head(queue) =>
              \E i \in 1 .. Len(Tail(queue)) : Tail(queue)[i] = t
  <1> DEFINE n == Len(queue)
             r == Tail(queue)
  <1>1. /\ n \in Nat \ {0} /\ Head(queue) = queue[1] /\ Head(queue) \in Tasks
        /\ r \in Seq(Tasks) /\ Len(r) = n - 1 /\ \A i \in 1 .. (n - 1) : r[i] = queue[i + 1]
    BY TailFacts DEF DispatcherInv, DispatcherType
  <1>2. /\ \A i \in 1 .. n : fate[queue[i]] = IF cancelled THEN "abandoned" ELSE "queued"
        /\ \A i, j \in 1 .. n : queue[i] = queue[j] => i = j
        /\ \A t \in Tasks : fate[t] = "queued" => \E i \in 1 .. n : queue[i] = t
    BY DEF DispatcherInv, QueueInv
  <1> HIDE DEF n, r
  <1>3. \A i \in 1 .. Len(r) :
          r[i] # Head(queue) /\ fate[r[i]] = IF cancelled THEN "abandoned" ELSE "queued"
    BY <1>1, <1>2
  <1>4. \A i, j \in 1 .. Len(r) : r[i] = r[j] => i = j
    BY <1>1, <1>2
  <1>5. ASSUME NEW t \in Tasks, fate[t] = "queued", t # Head(queue)
        PROVE  \E i \in 1 .. Len(r) : r[i] = t
    <2>1. PICK i \in 1 .. n : queue[i] = t
      BY <1>2, <1>5
    <2>2. i - 1 \in 1 .. Len(r) /\ r[i - 1] = t
      BY <1>1, <1>5, <2>1
    <2>3. QED
      BY <2>2
  <1>6. QED
    BY <1>1, <1>2, <1>3, <1>4, <1>5 DEF n, r

\* Every sender, receiver and evicting submit keeps the channel a list of queued tasks.
LEMMA QueueStep == ASSUME DispatcherInv, [Next]_vars PROVE QueueInv'
  <1> USE GoAssumption DEF DispatcherInv, DispatcherType, PCInv, MutexInv, CloseInv, NewInv,
          QueueInv, Threads, Goto
  <1>1. ASSUME NEW t \in Tasks, SubmitRefused(t) PROVE QueueInv'
    BY <1>1 DEF SubmitRefused
  <1>2. ASSUME NEW t \in Tasks, SubmitSends(t) PROVE QueueInv'
    BY <1>2 DEF SubmitSends
  <1>3. ASSUME NEW t \in Tasks, SubmitFindsFull(t) PROVE QueueInv'
    BY <1>3 DEF SubmitFindsFull
  <1>4. ASSUME NEW t \in Tasks, Evict(t) PROVE QueueInv'
    <2>1. CASE queue = <<>>
      BY <1>4, <2>1 DEF Evict
    <2>2. CASE queue # <<>>
      <3>1. /\ queue' = Tail(queue) /\ fate' = [fate EXCEPT ![Head(queue)] = "dropped"]
            /\ pc' = [pc EXCEPT ![t] = "resend"] /\ ~cancelled /\ ~cancelled'
        BY <1>4, <2>2 DEF Evict
      <3>2. /\ Len(queue') < Capacity
            /\ \A i \in 1 .. Len(queue') : fate'[queue'[i]] = "queued"
        BY <2>2, <3>1, RestOfQueue
      <3>3. \A u \in Tasks : fate'[u] = "queued" => \E i \in 1 .. Len(queue') : queue'[i] = u
        BY <2>2, <3>1, RestOfQueue
      <3>4. \A i, j \in 1 .. Len(queue') : queue'[i] = queue'[j] => i = j
        BY <2>2, <3>1, RestOfQueue
      <3>5. QED
        BY <3>1, <3>2, <3>3, <3>4
    <2>3. QED
      BY <2>1, <2>2
  <1>5. ASSUME NEW t \in Tasks, Resend(t) PROVE QueueInv'
    <2>1. /\ Len(queue) < Capacity /\ ~cancelled
          /\ queue' = Append(queue, t) /\ fate' = [fate EXCEPT ![t] = "queued"]
          /\ pc' = [pc EXCEPT ![t] = "returned"] /\ UNCHANGED cancelled
      BY <1>5 DEF Resend
    <2>2. \A u \in Tasks : pc[u] = "resend" => u = t
      BY <1>5 DEF Resend
    <2>3. QED
      BY <1>5, <2>1, <2>2 DEF Resend
  <1>6. ASSUME NEW w \in Workers, Receive(w) PROVE QueueInv'
    <2>1. queue # <<>> /\ queue' = Tail(queue) /\ pc' = [pc EXCEPT ![w] = "received"]
      BY <1>6 DEF Receive
    <2>2. CASE cancelled
      BY <1>6, <2>1, <2>2, RestOfQueue DEF Receive
    <2>3. CASE ~cancelled
      BY <1>6, <2>1, <2>3, RestOfQueue DEF Receive
    <2>4. QED
      BY <2>2, <2>3
  <1>7. ASSUME NEW w \in Workers, Exit(w) PROVE QueueInv'
    BY <1>7 DEF Exit
  <1>8. ASSUME NEW w \in Workers, CheckContext(w) \/ RunTask(w) PROVE QueueInv'
    BY <1>8 DEF CheckContext, RunTask, HandInv, Holds
  <1>9. ASSUME NEW c \in Closers, CloseBegin(c) \/ CloseAgain(c) \/ CloseTimesOut(c) PROVE QueueInv'
    BY <1>9 DEF CloseBegin, CloseAgain, CloseTimesOut
  <1>10. ASSUME NEW c \in Closers, CloseDrained(c) PROVE QueueInv'
    <2>1. queue = <<>> /\ \A t \in Tasks : fate[t] # "queued"
      BY <1>10, DrainedEmpty
    <2>2. QED
      BY <1>10, <2>1 DEF CloseDrained
  <1>11. ASSUME NEW c \in Closers, Abandon(c) PROVE QueueInv'
    <2>1. /\ queue' = queue /\ cancelled' = TRUE /\ pc' = [pc EXCEPT ![c] = "returned"]
          /\ fate' = [t \in Tasks |-> IF fate[t] = "queued" THEN "abandoned" ELSE fate[t]]
      BY <1>11 DEF Abandon
    <2>2. \A i \in 1 .. Len(queue) : queue[i] \in Tasks /\ fate'[queue[i]] = "abandoned"
      BY <2>1
    <2>3. \A t \in Tasks : fate'[t] # "queued"
      BY <2>1
    <2>4. \A t \in Tasks : pc'[t] = "resend" => pc[t] = "resend"
      BY <2>1
    <2>5. QED
      BY <2>1, <2>2, <2>3, <2>4
  <1>12. CASE UNCHANGED vars
    BY <1>12 DEF vars
  <1>13. QED
    BY <1>1, <1>2, <1>3, <1>4, <1>5, <1>6, <1>7, <1>8, <1>9, <1>10, <1>11, <1>12
       DEF Next, Caller, Worker, Closer

\* A task leaves the channel into one hand only.
LEMMA HandStep == ASSUME DispatcherInv, [Next]_vars PROVE HandInv'
  <1> USE GoAssumption DEF DispatcherInv, DispatcherType, PCInv, MutexInv, CloseInv, NewInv,
          QueueInv, HandInv, Holds, Threads, Goto
  <1>1. ASSUME NEW t \in Tasks, SubmitRefused(t) PROVE HandInv'
    BY <1>1 DEF SubmitRefused
  <1>2. ASSUME NEW t \in Tasks, SubmitSends(t) PROVE HandInv'
    BY <1>2 DEF SubmitSends
  <1>3. ASSUME NEW t \in Tasks, SubmitFindsFull(t) PROVE HandInv'
    BY <1>3 DEF SubmitFindsFull
  <1>4. ASSUME NEW t \in Tasks, Evict(t) PROVE HandInv'
    <2>1. CASE queue = <<>>
      BY <1>4, <2>1 DEF Evict
    <2>2. CASE queue # <<>>
      <3>1. /\ queue' = Tail(queue) /\ fate' = [fate EXCEPT ![Head(queue)] = "dropped"]
            /\ UNCHANGED <<current, cancelled>> /\ \A w \in Workers : pc'[w] = pc[w]
        BY <1>4, <2>2 DEF Evict
      <3>2. /\ Head(queue) \in Tasks /\ fate[Head(queue)] \in {"queued", "abandoned"}
            /\ \A w \in Workers : Holds(w) => current[w] # Head(queue)
        BY <2>2, TailFacts
      <3>3. \A x : (\A i \in 1 .. Len(queue) : queue[i] # x) =>
                   \A i \in 1 .. Len(queue') : queue'[i] # x
        BY <2>2, <3>1, TailFacts
      <3>4. ASSUME NEW w \in Workers, Holds(w)'
            PROVE  /\ current'[w] \in Tasks
                   /\ \/ fate'[current'[w]] = "running"
                      \/ pc'[w] = "received" /\ cancelled' /\ fate'[current'[w]] = "abandoned"
                   /\ \A i \in 1 .. Len(queue') : queue'[i] # current'[w]
        <4>1. Holds(w) /\ current'[w] = current[w] /\ fate'[current[w]] = fate[current[w]]
          BY <3>1, <3>2, <3>4
        <4>2. QED
          BY <3>1, <3>3, <4>1
      <3>5. \A u \in Tasks : fate'[u] = "running" => fate[u] = "running"
        BY <3>1, <3>2
      <3>6. \A v \in Workers : Holds(v)' <=> Holds(v)
        BY <3>1
      <3>7. QED
        BY <3>1, <3>4, <3>5, <3>6
    <2>3. QED
      BY <2>1, <2>2
  <1>5. ASSUME NEW t \in Tasks, Resend(t) PROVE HandInv'
    <2>1. /\ fate[t] = "new" /\ queue' = Append(queue, t)
          /\ fate' = [fate EXCEPT ![t] = "queued"]
      BY <1>5 DEF Resend
    <2>2. \A w \in Workers : pc'[w] = pc[w] /\ UNCHANGED <<current, cancelled>>
      BY <1>5 DEF Resend
    <2>3. QED
      BY <2>1, <2>2
  <1>6. ASSUME NEW w \in Workers, Receive(w) PROVE HandInv'
    <2>1. /\ queue # <<>> /\ queue' = Tail(queue) /\ ~Holds(w)
          /\ current' = [current EXCEPT ![w] = Head(queue)]
          /\ pc' = [pc EXCEPT ![w] = "received"] /\ UNCHANGED cancelled
          /\ fate' = IF cancelled THEN fate ELSE [fate EXCEPT ![Head(queue)] = "running"]
      BY <1>6 DEF Receive
    <2>2. /\ Head(queue) \in Tasks
          /\ fate[Head(queue)] = IF cancelled THEN "abandoned" ELSE "queued"
          /\ \A v \in Workers : Holds(v) => current[v] # Head(queue)
      BY <2>1, TailFacts
    <2>3. /\ \A x : (\A i \in 1 .. Len(queue) : queue[i] # x) =>
                     \A i \in 1 .. Len(queue') : queue'[i] # x
          /\ \A i \in 1 .. Len(queue') : queue'[i] # Head(queue)
      BY <2>1, RestOfQueue, TailFacts
    <2>4. \A v \in Workers : /\ Holds(v)' <=> Holds(v) \/ v = w
                             /\ current'[v] = IF v = w THEN Head(queue) ELSE current[v]
                             /\ v # w => pc'[v] = pc[v]
      BY <2>1
    <2>5. ASSUME NEW v \in Workers, Holds(v)'
          PROVE  /\ current'[v] \in Tasks
                 /\ \/ fate'[current'[v]] = "running"
                    \/ pc'[v] = "received" /\ cancelled' /\ fate'[current'[v]] = "abandoned"
                 /\ \A i \in 1 .. Len(queue') : queue'[i] # current'[v]
      <3>1. CASE v = w
        BY <2>1, <2>2, <2>3, <2>4, <3>1
      <3>2. CASE v # w
        <4>1. Holds(v) /\ current'[v] = current[v] /\ fate'[current[v]] = fate[current[v]]
          BY <2>1, <2>2, <2>4, <2>5, <3>2
        <4>2. QED
          BY <2>1, <2>3, <2>4, <3>2, <4>1
      <3>3. QED
        BY <3>1, <3>2
    <2>6. \A u, v \in Workers : Holds(u)' /\ Holds(v)' /\ current'[u] = current'[v] => u = v
      BY <2>2, <2>4
    <2>7. \A t \in Tasks : fate'[t] = "running" => \E v \in Workers : Holds(v)' /\ current'[v] = t
      <3>1. \A t \in Tasks : fate'[t] = "running" => fate[t] = "running" \/ t = Head(queue)
        BY <2>1
      <3>2. QED
        BY <2>1, <2>4, <3>1
    <2>8. QED
      BY <2>5, <2>6, <2>7
  <1>7. ASSUME NEW w \in Workers, Exit(w) PROVE HandInv'
    BY <1>7 DEF Exit
  <1>8. ASSUME NEW w \in Workers, CheckContext(w) PROVE HandInv'
    BY <1>8 DEF CheckContext
  <1>9. ASSUME NEW w \in Workers, RunTask(w) PROVE HandInv'
    BY <1>9 DEF RunTask
  <1>10. ASSUME NEW c \in Closers, CloseBegin(c) \/ CloseAgain(c) \/ CloseTimesOut(c) PROVE HandInv'
    BY <1>10 DEF CloseBegin, CloseAgain, CloseTimesOut
  <1>11. ASSUME NEW c \in Closers, CloseDrained(c) PROVE HandInv'
    BY <1>11 DEF CloseDrained
  <1>12. ASSUME NEW c \in Closers, Abandon(c) PROVE HandInv'
    BY <1>12 DEF Abandon
  <1>13. CASE UNCHANGED vars
    BY <1>13 DEF vars
  <1>14. QED
    BY <1>1, <1>2, <1>3, <1>4, <1>5, <1>6, <1>7, <1>8, <1>9, <1>10, <1>11, <1>12, <1>13
       DEF Next, Caller, Worker, Closer

\* The tasks in the channel are at most as many as its length.
LEMMA QueuedAtMost ==
  ASSUME DispatcherInv
  PROVE  LET Q == {t \in Tasks : fate[t] = "queued"}
         IN  IsFiniteSet(Q) /\ Cardinality(Q) \in Nat /\ Cardinality(Q) <= Len(queue)
  <1> DEFINE Q == {t \in Tasks : fate[t] = "queued"}
             I == {i \in 1 .. Len(queue) : queue[i] \in Q}
             f == [i \in I |-> queue[i]]
  <1>1. f \in Surjection(I, Q)
    BY DEF DispatcherInv, QueueInv, Surjection
  <1>2. Len(queue) \in Nat /\ I \subseteq 1 .. Len(queue)
    BY DEF DispatcherInv, DispatcherType
  <1> HIDE DEF Q, I, f
  <1>3. IsFiniteSet(1 .. Len(queue)) /\ Cardinality(1 .. Len(queue)) = Len(queue)
    BY <1>2, FS_Interval
  <1>4. IsFiniteSet(I) /\ Cardinality(I) <= Len(queue)
    BY <1>2, <1>3, FS_Subset
  <1>5. IsFiniteSet(Q) /\ Cardinality(Q) <= Cardinality(I)
    BY <1>1, <1>4, FS_Surjection
  <1>6. Cardinality(I) \in Nat /\ Cardinality(Q) \in Nat
    BY <1>4, <1>5, FS_CardinalityType
  <1>7. Cardinality(Q) <= Len(queue)
    BY <1>2, <1>4, <1>5, <1>6
  <1>8. QED
    BY <1>5, <1>6, <1>7 DEF Q

\* An eviction counts the task that it drops, close counts the channel before it
\* gives it up, and a worker that gives up a task is not there for another one.
LEMMA LossStep == ASSUME DispatcherInv, [Next]_vars PROVE LossInv'
  <1> USE GoAssumption DEF DispatcherInv, LossInv, PCInv, Threads, Goto
  <1>1. ASSUME UNCHANGED <<dropped, logged, report, cancelled>>, Dropped' = Dropped,
               Abandoned' = Abandoned, Live' \subseteq Live
        PROVE  LossInv'
    <2>1. IsFiniteSet(Live) /\ Cardinality(Live') <= Cardinality(Live)
      BY <1>1, Finite, FS_Subset
    <2>2. Cardinality(Live') \in Nat
      BY <1>1, Finite, FS_Subset, FS_CardinalityType
    <2>3. QED
      BY <1>1, <2>1, <2>2, Finite DEF DispatcherType
  <1>2. ASSUME NEW t \in Tasks, SubmitRefused(t) \/ SubmitSends(t) \/ SubmitFindsFull(t)
        PROVE  LossInv'
    <2>1. fate[t] = "new"
      BY <1>2 DEF SubmitRefused, SubmitSends, SubmitFindsFull, NewInv
    <2>2. /\ fate' \in {fate, [fate EXCEPT ![t] = "refused"], [fate EXCEPT ![t] = "queued"]}
          /\ UNCHANGED <<dropped, logged, report, cancelled>> /\ \A w \in Workers : pc'[w] = pc[w]
      BY <1>2 DEF SubmitRefused, SubmitSends, SubmitFindsFull, closeVars, dropVars
    <2>3. Dropped' = Dropped /\ Abandoned' = Abandoned /\ Live' \subseteq Live
      BY <2>1, <2>2 DEF Dropped, Abandoned, Live, DispatcherType
    <2>4. QED
      BY <1>1, <2>2, <2>3
  <1>3. ASSUME NEW t \in Tasks, Evict(t) PROVE LossInv'
    <2>1. UNCHANGED <<report, cancelled>> /\ \A w \in Workers : pc'[w] = pc[w]
      BY <1>3 DEF Evict, closeVars
    <2>2. Live' = Live
      BY <2>1 DEF Live
    <2>3. CASE queue = <<>>
      <3>1. UNCHANGED <<dropped, logged, fate>>
        BY <1>3, <2>3 DEF Evict, dropVars
      <3>2. QED
        BY <1>1, <2>1, <2>2, <3>1 DEF Dropped, Abandoned
    <2>4. CASE queue # <<>>
      <3>1. Head(queue) \in Tasks /\ fate[Head(queue)] = "queued"
        BY <1>3, <2>4, RestOfQueue DEF Evict, MutexInv, CloseInv, DispatcherType
      <3>2. fate' = [fate EXCEPT ![Head(queue)] = "dropped"] /\ dropped' + logged' = dropped + logged + 1
        BY <1>3, <2>4 DEF Evict, RecordDrop, DispatcherType
      <3>3. /\ Dropped' = Dropped \cup {Head(queue)} /\ Head(queue) \notin Dropped
            /\ Abandoned' = Abandoned
        BY <3>1, <3>2 DEF Dropped, Abandoned, DispatcherType
      <3>4. Cardinality(Dropped') = Cardinality(Dropped) + 1
        BY <3>3, Finite, FS_AddElement
      <3>5. QED
        BY <2>1, <2>2, <3>2, <3>3, <3>4
    <2>5. QED
      BY <2>3, <2>4
  <1>4. ASSUME NEW t \in Tasks, Resend(t) PROVE LossInv'
    <2>1. /\ fate[t] = "new" /\ Len(queue) < Capacity
      BY <1>4 DEF Resend, NewInv, QueueInv
    <2>2. /\ fate' = [fate EXCEPT ![t] = "queued"] /\ \A w \in Workers : pc'[w] = pc[w]
          /\ UNCHANGED <<dropped, logged, report, cancelled>>
      BY <1>4, <2>1 DEF Resend, closeVars, dropVars
    <2>3. Dropped' = Dropped /\ Abandoned' = Abandoned /\ Live' \subseteq Live
      BY <2>1, <2>2 DEF Dropped, Abandoned, Live, DispatcherType
    <2>4. QED
      BY <1>1, <2>2, <2>3
  <1>5. ASSUME NEW w \in Workers, Receive(w) PROVE LossInv'
    <2>1. /\ Head(queue) \in Tasks /\ ~cancelled => fate[Head(queue)] = "queued"
      BY <1>5, RestOfQueue DEF Receive
    <2>2. /\ fate' = IF cancelled THEN fate ELSE [fate EXCEPT ![Head(queue)] = "running"]
          /\ pc[w] = "ready" /\ pc' = [pc EXCEPT ![w] = "received"]
          /\ UNCHANGED <<dropped, logged, report, cancelled>>
      BY <1>5 DEF Receive, closeVars, dropVars
    <2>3. Dropped' = Dropped /\ Abandoned' = Abandoned /\ Live' \subseteq Live
      BY <2>1, <2>2 DEF Dropped, Abandoned, Live, DispatcherType
    <2>4. QED
      BY <1>1, <2>2, <2>3
  <1>6. ASSUME NEW w \in Workers, Exit(w) PROVE LossInv'
    <2>1. /\ UNCHANGED <<dropped, logged, report, cancelled, fate>>
          /\ pc' = [pc EXCEPT ![w] = "exited"]
      BY <1>6 DEF Exit, closeVars, dropVars
    <2>2. Dropped' = Dropped /\ Abandoned' = Abandoned /\ Live' \subseteq Live
      BY <2>1 DEF Dropped, Abandoned, Live
    <2>3. QED
      BY <1>1, <2>1, <2>2
  <1>7. ASSUME NEW w \in Workers, CheckContext(w) PROVE LossInv'
    <2>1. /\ UNCHANGED <<dropped, logged, report, cancelled>> /\ pc[w] = "received"
          /\ current[w] \in Tasks /\ fate[current[w]] \in {"running", "abandoned"}
      BY <1>7 DEF CheckContext, closeVars, dropVars, HandInv, Holds
    <2>2. CASE ~cancelled
      <3>1. UNCHANGED fate /\ pc' = [pc EXCEPT ![w] = "running"]
        BY <1>7, <2>2 DEF CheckContext
      <3>2. Dropped' = Dropped /\ Abandoned' = Abandoned /\ Live' \subseteq Live
        BY <2>1, <3>1 DEF Dropped, Abandoned, Live
      <3>3. QED
        BY <1>1, <2>1, <3>2
    <2>3. CASE cancelled
      <3>1. /\ fate' = [fate EXCEPT ![current[w]] = "abandoned"]
            /\ pc' = [pc EXCEPT ![w] = "exited"]
        BY <1>7, <2>3 DEF CheckContext
      <3>2. /\ Dropped' = Dropped /\ Abandoned' = Abandoned \cup {current[w]}
            /\ Live' = Live \ {w} /\ w \in Live
        BY <2>1, <3>1 DEF Dropped, Abandoned, Live, DispatcherType
      <3>3. /\ Cardinality(Live') = Cardinality(Live) - 1
            /\ Cardinality(Abandoned') \in {Cardinality(Abandoned), Cardinality(Abandoned) + 1}
        BY <3>2, Finite, FS_AddElement, FS_RemoveElement
      <3>4. QED
        BY <2>1, <2>3, <3>2, <3>3, Finite DEF DispatcherType
    <2>4. QED
      BY <2>2, <2>3
  <1>8. ASSUME NEW w \in Workers, RunTask(w) PROVE LossInv'
    <2>1. /\ UNCHANGED <<dropped, logged, report, cancelled>> /\ pc[w] = "running"
          /\ current[w] \in Tasks /\ fate[current[w]] = "running"
      BY <1>8 DEF RunTask, closeVars, dropVars, HandInv, Holds
    <2>2. fate' = [fate EXCEPT ![current[w]] = "done"] /\ pc' = [pc EXCEPT ![w] = "ready"]
      BY <1>8 DEF RunTask
    <2>3. Dropped' = Dropped /\ Abandoned' = Abandoned /\ Live' \subseteq Live
      BY <2>1, <2>2 DEF Dropped, Abandoned, Live, DispatcherType
    <2>4. QED
      BY <1>1, <2>1, <2>3
  <1>9. ASSUME NEW c \in Closers, CloseBegin(c) \/ CloseAgain(c) \/ CloseDrained(c)
        PROVE  LossInv'
    <2>1. /\ UNCHANGED <<dropped, logged, report, fate>> /\ \A w \in Workers : pc'[w] = pc[w]
          /\ cancelled => cancelled'
      BY <1>9 DEF CloseBegin, CloseAgain, CloseDrained, closeVars, dropVars
    <2>2. Dropped' = Dropped /\ Abandoned' = Abandoned /\ Live' = Live
      BY <2>1 DEF Dropped, Abandoned, Live
    <2>3. QED
      BY <2>1, <2>2
  <1>10. ASSUME NEW c \in Closers, CloseTimesOut(c) PROVE LossInv'
    <2>1. /\ UNCHANGED <<dropped, logged, cancelled, fate>> /\ \A w \in Workers : pc'[w] = pc[w]
          /\ ~cancelled /\ report' \in Nat
      BY <1>10, TypeStep DEF CloseTimesOut, dropVars, CloseInv, DispatcherType
    <2>2. Dropped' = Dropped /\ Abandoned' = Abandoned /\ Live' = Live
      BY <2>1 DEF Dropped, Abandoned, Live
    <2>3. Cardinality(Abandoned) = 0
      BY <2>1, FS_EmptySet
    <2>4. QED
      BY <2>1, <2>2, <2>3, Finite
  <1>11. ASSUME NEW c \in Closers, Abandon(c) PROVE LossInv'
    <2>1. /\ UNCHANGED <<dropped, logged, report>> /\ \A w \in Workers : pc'[w] = pc[w]
          /\ ~cancelled /\ cancelled' /\ Len(queue) <= report
      BY <1>11 DEF Abandon, closeVars, dropVars, CloseInv
    <2>2. /\ Dropped' = Dropped /\ Live' = Live
          /\ Abandoned' = {t \in Tasks : fate[t] = "queued"}
      BY <1>11, <2>1 DEF Abandon, Dropped, Abandoned, Live, DispatcherType
    <2>3. Cardinality(Abandoned') \in Nat /\ Cardinality(Abandoned') <= Len(queue)
      BY <2>2, QueuedAtMost
    <2>4. Len(queue) \in Nat /\ report \in Nat
      BY DEF DispatcherType
    <2>5. QED
      BY <2>1, <2>2, <2>3, <2>4, Finite
  <1>12. CASE UNCHANGED vars
    <2>1. Dropped' = Dropped /\ Abandoned' = Abandoned /\ Live' \subseteq Live
      BY <1>12 DEF vars, Dropped, Abandoned, Live
    <2>2. QED
      BY <1>1, <1>12, <2>1 DEF vars
  <1>13. QED
    BY <1>2, <1>3, <1>4, <1>5, <1>6, <1>7, <1>8, <1>9, <1>10, <1>11, <1>12
       DEF Next, Caller, Worker, Closer

\* A close that ends before its timer leaves an empty channel and idle workers, and
\* nothing is queued or run after it.
LEMMA CleanStep == ASSUME DispatcherInv, [Next]_vars PROVE CleanCloseRanEverything'
  <1> USE GoAssumption DEF DispatcherInv, DispatcherType, PCInv, MutexInv, CloseInv, Threads,
          Goto, Fates, CleanCloseRanEverything, closeVars
  <1>1. ASSUME cancelled, ~timedOut
        PROVE  /\ queue = <<>> /\ mu = Free
               /\ \A w \in Workers : ~Holds(w)
    BY <1>1 DEF QueueInv, HandInv
  <1>2. ASSUME NEW t \in Tasks, Caller(t) PROVE CleanCloseRanEverything'
    <2>1. UNCHANGED <<cancelled, timedOut>>
      BY <1>2 DEF Caller, SubmitRefused, SubmitSends, SubmitFindsFull, Evict, Resend
    <2>2. ASSUME cancelled, ~timedOut PROVE fate' = [fate EXCEPT ![t] = "refused"]
      <3>1. closed /\ pc[t] \notin {"evict", "resend"}
        BY <1>1, <2>2
      <3>2. QED
        BY <1>2, <3>1 DEF Caller, SubmitRefused, SubmitSends, SubmitFindsFull, Evict, Resend
    <2>3. QED
      BY <2>1, <2>2
  <1>3. ASSUME NEW w \in Workers, Worker(w) PROVE CleanCloseRanEverything'
    BY <1>1, <1>3 DEF Worker, Receive, Exit, CheckContext, RunTask, Holds
  <1>4. ASSUME NEW c \in Closers, CloseDrained(c) PROVE CleanCloseRanEverything'
    <2>1. queue = <<>> /\ ~cancelled
      BY <1>4, DrainedEmpty
    <2>2. \A t \in Tasks : fate[t] \notin {"queued", "running", "abandoned"}
      BY <1>4, <2>1 DEF CloseDrained, QueueInv, HandInv, Holds, LossInv, Abandoned
    <2>3. QED
      BY <1>4, <2>2 DEF CloseDrained
  <1>5. ASSUME NEW c \in Closers, CloseBegin(c) \/ CloseAgain(c) \/ CloseTimesOut(c) \/ Abandon(c)
        PROVE  CleanCloseRanEverything'
    <2>1. CASE CloseBegin(c) \/ CloseAgain(c)
      BY <2>1 DEF CloseBegin, CloseAgain
    <2>2. CASE CloseTimesOut(c)
      BY <2>2 DEF CloseTimesOut
    <2>3. CASE Abandon(c)
      BY <2>3 DEF Abandon
    <2>4. QED
      BY <1>5, <2>1, <2>2, <2>3
  <1>6. CASE UNCHANGED vars
    BY <1>6 DEF vars
  <1>7. QED
    BY <1>2, <1>3, <1>4, <1>5, <1>6 DEF Next, Closer

LEMMA NextInv == ASSUME DispatcherInv, [Next]_vars PROVE DispatcherInv'
  BY TypeStep, PCStep, MutexStep, CloseStep, ExitStep, QueueStep, NewStep, HandStep,
     LossStep, CleanStep DEF DispatcherInv

\* The invariant of the Go dispatcher, for every number of goroutines and any capacity.
THEOREM Invariance == Spec => []DispatcherInv
  <1>1. Init => DispatcherInv
    BY InitInv
  <1>2. DispatcherInv /\ [Next]_vars => DispatcherInv'
    BY NextInv
  <1>3. QED
    BY <1>1, <1>2, PTL DEF Spec

\* Whatever the goroutines do, displaced tasks are counted to the last one, and what
\* close abandons is at most its warning plus one task per worker
\* (dispatcher.go:81-92, 120-124).
THEOREM AllLossesReported == Spec => []LossesReported
  <1>1. DispatcherInv => LossesReported
    <2>1. SUFFICES ASSUME DispatcherInv PROVE LossesReported
      OBVIOUS
    <2>2. /\ dropped + logged = Cardinality(Dropped)
          /\ Cardinality(Abandoned) <= report + Cardinality(Workers)
      BY <2>1, Finite DEF DispatcherInv, DispatcherType, LossInv
    <2>3. QED
      BY <2>2 DEF LossesReported, Dropped, Abandoned
  <1>2. QED
    BY <1>1, Invariance, PTL

\* A close that its timer does not cut short has run or displaced every task it found
\* admitted (dispatcher.go:111-119).
THEOREM CleanClose == Spec => []CleanCloseRanEverything
  <1>1. DispatcherInv => CleanCloseRanEverything
    BY DEF DispatcherInv
  <1>2. QED
    BY <1>1, Invariance, PTL

-----------------------------------------------------------------------------
(* The dispatcher implements the contract *)

AbsQueue == IF cancelled THEN <<>>
            ELSE IF mu \in Tasks /\ Resending(mu) THEN Append(queue, mu) ELSE queue
AbsFate == [t \in Tasks |-> IF Resending(t) THEN "queued" ELSE fate[t]]
AbsPhase == IF cancelled THEN "closed" ELSE IF closed THEN "closing" ELSE "open"

\* The abstract state while no submit is between its eviction and its send ...
Plain == \A t \in Tasks : pc[t] # "resend"
PlainAbs == AbsQueue = (IF cancelled THEN <<>> ELSE queue) /\ AbsFate = fate

\* ... and while one is.
ResendAbs(t) ==
  /\ mu = t /\ ~cancelled /\ ~closed /\ fate[t] = "new"
  /\ AbsQueue = Append(queue, t)
  /\ AbsFate = [fate EXCEPT ![t] = "queued"]

LEMMA AbsPlain ==
  ASSUME DispatcherInv, DispatcherInv'
  PROVE  (Plain => PlainAbs) /\ (Plain' => PlainAbs')
  <1> USE DEF DispatcherInv, DispatcherType, AbsQueue, AbsFate, Resending, Plain, PlainAbs
  <1>1. Plain => PlainAbs
    OBVIOUS
  <1>2. Plain' => PlainAbs'
    OBVIOUS
  <1>3. QED
    BY <1>1, <1>2

LEMMA AbsResend ==
  ASSUME DispatcherInv, DispatcherInv', NEW t \in Tasks
  PROVE  (pc[t] = "resend" => ResendAbs(t)) /\ (pc'[t] = "resend" => ResendAbs(t)')
  <1> USE DEF DispatcherInv, DispatcherType
  <1>1. ASSUME pc[t] = "resend" PROVE ResendAbs(t)
    <2>1. mu = t /\ ~cancelled /\ ~closed /\ fate[t] = "new"
      BY <1>1, GoAssumption DEF MutexInv, CloseInv, NewInv
    <2>2. \A u \in Tasks : Resending(u) <=> u = t
      BY <1>1, <2>1 DEF Resending
    <2>3. AbsQueue = Append(queue, t)
      BY <2>1, <2>2 DEF AbsQueue
    <2>4. AbsFate = [fate EXCEPT ![t] = "queued"]
      BY <2>2 DEF AbsFate
    <2>5. QED
      BY <2>1, <2>3, <2>4 DEF ResendAbs
  <1>2. ASSUME pc'[t] = "resend" PROVE ResendAbs(t)'
    <2>1. mu' = t /\ ~cancelled' /\ ~closed' /\ fate'[t] = "new"
      BY <1>2, GoAssumption DEF MutexInv, CloseInv, NewInv
    <2>2. \A u \in Tasks : Resending(u)' <=> u = t
      BY <1>2, <2>1 DEF Resending
    <2>3. AbsQueue' = Append(queue', t)
      BY <2>1, <2>2 DEF AbsQueue
    <2>4. AbsFate' = [fate' EXCEPT ![t] = "queued"]
      BY <2>2 DEF AbsFate
    <2>5. QED
      BY <2>1, <2>3, <2>4 DEF ResendAbs
  <1>3. QED
    BY <1>1, <1>2

\* A worker that asks for a task is not running one.
LEMMA SpareWorker ==
  ASSUME DispatcherInv, NEW w \in Workers, pc[w] = "ready"
  PROVE  Cardinality({t \in Tasks : fate[t] = "running"}) < Cardinality(Workers)
  <1> DEFINE Run == {t \in Tasks : fate[t] = "running"}
             R == {v \in Workers : Holds(v) /\ current[v] \in Run}
             f == [v \in R |-> current[v]]
  <1>1. f \in Surjection(R, Run)
    BY DEF DispatcherInv, HandInv, Surjection
  <1>2. R \subseteq Workers \ {w} /\ IsFiniteSet(Workers)
    BY GoAssumption DEF Holds
  <1>3. /\ IsFiniteSet(Workers \ {w})
        /\ Cardinality(Workers \ {w}) = Cardinality(Workers) - 1
    BY <1>2, FS_RemoveElement
  <1> HIDE DEF R, Run, f
  <1>4. IsFiniteSet(R) /\ Cardinality(R) <= Cardinality(Workers \ {w})
    BY <1>2, <1>3, FS_Subset
  <1>5. IsFiniteSet(Run) /\ Cardinality(Run) <= Cardinality(R)
    BY <1>1, <1>4, FS_Surjection
  <1>6. Cardinality(R) \in Nat /\ Cardinality(Workers) \in Nat /\ Cardinality(Run) \in Nat
    BY <1>2, <1>4, <1>5, FS_CardinalityType
  <1>7. Cardinality(Run) < Cardinality(Workers)
    BY <1>3, <1>4, <1>5, <1>6
  <1>8. QED
    BY <1>7 DEF Run

\* The contract's Cardinality is the standard one.
LEMMA SameCardinality == \A S : Contract!Cardinality(S) = Cardinality(S)
  BY DEF Contract!Cardinality, Cardinality

\* A submit takes its effect in the contract when it is refused, when it sends into a
\* free slot, or when it evicts.
LEMMA CallerRefines ==
  ASSUME DispatcherInv, DispatcherInv', NEW t \in Tasks, Caller(t)
  PROVE  [Contract!Next]_(Contract!vars)
  <1> USE GoAssumption
  <1>1. UNCHANGED cancelled
    BY DEF Caller, SubmitRefused, SubmitSends, SubmitFindsFull, Evict, Resend
  <1>2. (Plain => PlainAbs) /\ (Plain' => PlainAbs')
    BY AbsPlain
  <1>3. /\ \A u \in Tasks : pc[u] = "resend" => ResendAbs(u)
        /\ \A u \in Tasks : pc'[u] = "resend" => ResendAbs(u)'
    BY AbsResend
  <1>4. mu \notin Tasks \/ pc[mu] # "resend" => Plain
    BY DEF DispatcherInv, MutexInv, Plain
  <1>5. pc' \in [Threads -> {"call", "evict", "resend", "returned", "ready", "received",
                         "running", "exited", "draining", "abandoning"}]
        /\ pc \in [Threads -> {"call", "evict", "resend", "returned", "ready", "received",
                         "running", "exited", "draining", "abandoning"}]
    BY DEF DispatcherInv, PCInv
  <1>6. CASE SubmitRefused(t)
    <2>1. Plain /\ Plain'
      BY <1>4, <1>5, <1>6 DEF SubmitRefused, Goto, Threads, Plain
    <2>2. /\ AbsQueue' = AbsQueue /\ AbsPhase' = AbsPhase /\ AbsPhase # "open" /\ AbsFate = fate
          /\ AbsFate' = [AbsFate EXCEPT ![t] = "refused"] /\ AbsFate[t] = "new"
      BY <1>1, <1>2, <1>6, <2>1 DEF PlainAbs, SubmitRefused, AbsPhase, DispatcherInv, NewInv
    <2>3. Contract!Refuse(t)
      BY <2>2 DEF Contract!Refuse, AbsQueue, AbsPhase, AbsFate
    <2>4. QED
      BY <2>3 DEF Contract!Next
  <1>7. CASE SubmitSends(t)
    <2>1. Plain /\ Plain'
      BY <1>4, <1>5, <1>7 DEF SubmitSends, Goto, Threads, Plain
    <2>2. ~cancelled /\ ~cancelled' /\ ~closed /\ ~closed'
      BY <1>1, <1>7 DEF SubmitSends, DispatcherInv, CloseInv
    <2>3. /\ AbsQueue = queue /\ AbsQueue' = Append(queue, t) /\ AbsPhase' = "open" /\ AbsPhase = "open"
          /\ AbsFate' = [AbsFate EXCEPT ![t] = "queued"] /\ AbsFate[t] = "new"
      BY <1>2, <1>7, <2>1, <2>2 DEF PlainAbs, SubmitSends, AbsPhase, DispatcherInv, NewInv
    <2>4. Len(AbsQueue) < Capacity /\ AbsQueue' = Append(AbsQueue, t)
      BY <1>7, <2>3 DEF SubmitSends
    <2>5. Contract!Enqueue(t)
      BY <2>3, <2>4 DEF Contract!Enqueue, AbsQueue, AbsPhase, AbsFate
    <2>6. QED
      BY <2>5 DEF Contract!Next
  <1>8. CASE SubmitFindsFull(t)
    <2>1. Plain /\ Plain'
      BY <1>4, <1>5, <1>8 DEF SubmitFindsFull, Goto, Threads, Plain
    <2>2. AbsQueue' = AbsQueue /\ AbsPhase' = AbsPhase /\ AbsFate' = AbsFate
      BY <1>1, <1>2, <1>8, <2>1 DEF PlainAbs, SubmitFindsFull, AbsPhase
    <2>3. QED
      BY <2>2 DEF Contract!vars, AbsQueue, AbsPhase, AbsFate
  <1>9. CASE Evict(t)
    <2>1. Plain /\ pc'[t] = "resend"
      BY <1>4, <1>5, <1>9 DEF Evict, Goto, Threads, DispatcherInv, MutexInv, Plain
    <2>2. /\ ~cancelled /\ ~cancelled' /\ ~closed /\ ~closed'
      BY <1>1, <1>3, <1>9, <2>1 DEF Evict, ResendAbs
    <2>3. /\ AbsQueue = queue /\ AbsQueue' = Append(queue', t) /\ AbsFate = fate
          /\ AbsFate' = [fate' EXCEPT ![t] = "queued"] /\ AbsFate[t] = "new"
          /\ AbsPhase = "open" /\ AbsPhase' = "open"
      BY <1>2, <1>3, <1>9, <2>1, <2>2 DEF PlainAbs, ResendAbs, Evict, AbsPhase, DispatcherInv, NewInv
    <2>4. CASE queue = <<>>
      <3>1. /\ AbsQueue' = Append(AbsQueue, t) /\ Len(AbsQueue) < Capacity
            /\ AbsFate' = [AbsFate EXCEPT ![t] = "queued"]
        BY <1>9, <2>3, <2>4 DEF Evict
      <3>2. Contract!Enqueue(t)
        BY <2>3, <3>1 DEF Contract!Enqueue, AbsQueue, AbsPhase, AbsFate
      <3>3. QED
        BY <3>2 DEF Contract!Next
    <2>5. CASE queue # <<>>
      <3>1. Head(queue) \in Tasks /\ fate[Head(queue)] = "queued"
        BY <2>2, <2>5, RestOfQueue
      <3>2. /\ queue' = Tail(queue) /\ fate' = [fate EXCEPT ![Head(queue)] = "dropped"]
        BY <1>9, <2>5 DEF Evict
      <3>3. /\ AbsQueue' = Append(Tail(AbsQueue), t) /\ AbsQueue # <<>>
            /\ AbsFate[Head(AbsQueue)] = "queued"
        BY <2>3, <2>5, <3>1, <3>2
      <3>4. AbsFate' = [AbsFate EXCEPT ![t] = "queued", ![Head(AbsQueue)] = "dropped"]
        BY <2>3, <3>1, <3>2 DEF DispatcherInv, DispatcherType
      <3>5. Contract!EnqueueDropOldest(t)
        BY <2>3, <3>3, <3>4 DEF Contract!EnqueueDropOldest, AbsQueue, AbsPhase, AbsFate
      <3>6. QED
        BY <3>5 DEF Contract!Next
    <2>6. QED
      BY <2>4, <2>5
  <1>10. CASE Resend(t)
    <2>1. Plain'
      BY <1>5, <1>10 DEF Resend, Goto, Threads, DispatcherInv, MutexInv, Plain
    <2>2. pc[t] = "resend" /\ Len(queue) < Capacity
      BY <1>10 DEF Resend, DispatcherInv, QueueInv
    <2>3. AbsQueue = Append(queue, t) /\ AbsFate = [fate EXCEPT ![t] = "queued"] /\ ~cancelled
      BY <1>3, <2>2 DEF ResendAbs
    <2>4. /\ AbsQueue' = queue' /\ AbsFate' = fate' /\ AbsPhase' = AbsPhase
          /\ queue' = Append(queue, t) /\ fate' = [fate EXCEPT ![t] = "queued"]
      BY <1>1, <1>2, <1>10, <2>1, <2>2, <2>3 DEF Resend, AbsPhase, PlainAbs
    <2>5. QED
      BY <2>3, <2>4 DEF Contract!vars, AbsQueue, AbsPhase, AbsFate
  <1>11. QED
    BY <1>6, <1>7, <1>8, <1>9, <1>10 DEF Caller

\* A worker starts the oldest task unless close has given it up already, also while a
\* submit holds the slot that its eviction freed.
LEMMA WorkerRefines ==
  ASSUME DispatcherInv, DispatcherInv', NEW w \in Workers, Worker(w)
  PROVE  [Contract!Next]_(Contract!vars)
  <1> USE GoAssumption
  <1>1. /\ UNCHANGED <<cancelled, closed, mu>> /\ AbsPhase' = AbsPhase
        /\ \A u \in Tasks : pc'[u] = pc[u] /\ Resending(u)' = Resending(u)
    BY DEF Worker, Receive, Exit, CheckContext, RunTask, AbsPhase, Resending, Goto, Threads,
           DispatcherInv, PCInv
  <1>2. /\ (Plain => PlainAbs) /\ (Plain' => PlainAbs') /\ (Plain <=> Plain')
        /\ \A u \in Tasks : pc[u] = "resend" => ResendAbs(u) /\ ResendAbs(u)'
    BY <1>1, AbsPlain, AbsResend DEF Plain
  <1>3. fate \in [Tasks -> Fates] /\ queue \in Seq(Tasks)
    BY DEF DispatcherInv, DispatcherType
  <1>4. CASE UNCHANGED <<queue, fate>>
    <2>1. AbsQueue' = AbsQueue /\ AbsFate' = AbsFate
      BY <1>1, <1>4 DEF AbsQueue, AbsFate
    <2>2. QED
      BY <1>1, <2>1 DEF Contract!vars, AbsQueue, AbsPhase, AbsFate
  <1>5. ASSUME NEW t \in Tasks, NEW f \in {"done", "abandoned"}, fate[t] = "running",
               queue' = queue, fate' = [fate EXCEPT ![t] = f]
        PROVE  AbsQueue' = AbsQueue /\ AbsFate[t] = "running" /\ AbsFate' = [AbsFate EXCEPT ![t] = f]
    <2>1. ~Resending(t)
      BY <1>2, <1>5 DEF Resending, ResendAbs
    <2>2. QED
      BY <1>1, <1>3, <1>5, <2>1 DEF AbsQueue, AbsFate
  <1>6. CASE Receive(w)
    <2>1. /\ queue # <<>> /\ Head(queue) \in Tasks /\ queue' = Tail(queue)
          /\ fate[Head(queue)] = IF cancelled THEN "abandoned" ELSE "queued"
      BY <1>6, RestOfQueue DEF Receive
    <2>2. CASE cancelled
      <3>1. UNCHANGED fate /\ AbsQueue = <<>> /\ AbsQueue' = <<>>
        BY <1>1, <1>6, <2>2 DEF Receive, AbsQueue
      <3>2. AbsFate' = AbsFate
        BY <1>1, <3>1 DEF AbsFate
      <3>3. QED
        BY <1>1, <3>1, <3>2 DEF Contract!vars, AbsQueue, AbsPhase, AbsFate
    <2>3. CASE ~cancelled
      <3>1. fate' = [fate EXCEPT ![Head(queue)] = "running"] /\ AbsPhase # "closed"
        BY <1>6, <2>3 DEF Receive, AbsPhase
      <3>2. /\ AbsQueue # <<>> /\ Head(AbsQueue) = Head(queue) /\ AbsQueue' = Tail(AbsQueue)
        <4>1. CASE Plain
          BY <1>1, <1>2, <2>1, <2>3, <4>1 DEF PlainAbs
        <4>2. ASSUME NEW u \in Tasks, pc[u] = "resend"
              PROVE  AbsQueue # <<>> /\ Head(AbsQueue) = Head(queue) /\ AbsQueue' = Tail(AbsQueue)
          <5>1. AbsQueue = Append(queue, u) /\ AbsQueue' = Append(Tail(queue), u)
            BY <1>2, <2>1, <4>2 DEF ResendAbs
          <5>2. QED
            BY <1>3, <2>1, <5>1
        <4>3. QED
          BY <4>1, <4>2 DEF Plain
      <3>3. ~Resending(Head(queue))
        BY <1>2, <2>1, <2>3 DEF Resending, ResendAbs
      <3>4. AbsFate[Head(queue)] = "queued" /\ AbsFate' = [AbsFate EXCEPT ![Head(queue)] = "running"]
        BY <1>1, <1>3, <2>1, <2>3, <3>1, <3>3 DEF AbsFate
      <3>5. {t \in Tasks : AbsFate[t] = "running"} = {t \in Tasks : fate[t] = "running"}
        BY <1>2 DEF AbsFate, Resending, ResendAbs
      <3>6. Cardinality({t \in Tasks : AbsFate[t] = "running"}) < Cardinality(Workers)
        BY <1>6, <3>5, SpareWorker DEF Receive
      <3>7. Contract!Cardinality(Contract!Running) < Cardinality(Workers)
        BY <3>6, SameCardinality DEF Contract!Running, AbsFate
      <3>8. Contract!Start
        BY <1>1, <3>1, <3>2, <3>4, <3>7 DEF Contract!Start, AbsQueue, AbsPhase, AbsFate
      <3>9. QED
        BY <3>8 DEF Contract!Next
    <2>4. QED
      BY <2>2, <2>3
  <1>7. CASE Exit(w)
    BY <1>4, <1>7 DEF Exit
  <1>8. CASE CheckContext(w)
    <2>1. CASE ~cancelled
      BY <1>4, <1>8, <2>1 DEF CheckContext
    <2>2. CASE cancelled
      <3>1. /\ current[w] \in Tasks /\ fate[current[w]] \in {"running", "abandoned"}
            /\ UNCHANGED queue /\ fate' = [fate EXCEPT ![current[w]] = "abandoned"]
        BY <1>8, <2>2 DEF CheckContext, DispatcherInv, HandInv, Holds
      <3>2. CASE fate[current[w]] = "running"
        <4>1. PICK t \in Tasks : t = current[w]
          BY <3>1
        <4>2. /\ AbsQueue' = AbsQueue /\ AbsFate[t] = "running"
              /\ AbsFate' = [AbsFate EXCEPT ![t] = "abandoned"]
          BY <1>5, <3>1, <3>2, <4>1
        <4>3. AbsPhase = "closed"
          BY <2>2 DEF AbsPhase
        <4>4. Contract!CutShort(t)
          BY <1>1, <4>2, <4>3 DEF Contract!CutShort, AbsQueue, AbsPhase, AbsFate
        <4>5. QED
          BY <4>4 DEF Contract!Next
      <3>3. CASE fate[current[w]] = "abandoned"
        <4>1. UNCHANGED fate
          BY <1>3, <3>1, <3>3
        <4>2. QED
          BY <1>4, <3>1, <4>1
      <3>4. QED
        BY <3>1, <3>2, <3>3
    <2>3. QED
      BY <2>1, <2>2
  <1>9. CASE RunTask(w)
    <2>1. /\ current[w] \in Tasks /\ fate[current[w]] = "running"
          /\ UNCHANGED queue /\ fate' = [fate EXCEPT ![current[w]] = "done"]
      BY <1>9 DEF RunTask, DispatcherInv, HandInv, Holds
    <2>2. PICK t \in Tasks : t = current[w]
      BY <2>1
    <2>3. /\ AbsQueue' = AbsQueue /\ AbsFate[t] = "running"
          /\ AbsFate' = [AbsFate EXCEPT ![t] = "done"]
      BY <1>5, <2>1, <2>2
    <2>4. Contract!Finish(t)
      BY <1>1, <2>3 DEF Contract!Finish, AbsQueue, AbsPhase, AbsFate
    <2>5. QED
      BY <2>4 DEF Contract!Next
  <1>10. QED
    BY <1>6, <1>7, <1>8, <1>9 DEF Worker

\* close begins when it sets closed, and gives up when it cancels the context.
LEMMA CloserRefines ==
  ASSUME DispatcherInv, DispatcherInv', NEW c \in Closers, Closer(c)
  PROVE  [Contract!Next]_(Contract!vars)
  <1> USE GoAssumption
  <1>1. UNCHANGED <<mu, queue>> /\ \A u \in Tasks : pc'[u] = pc[u] /\ Resending(u)' = Resending(u)
    BY DEF Closer, CloseBegin, CloseAgain, CloseDrained, CloseTimesOut, Abandon, Resending, Goto,
           Threads, DispatcherInv, PCInv
  <1>2. closed => \A u \in Tasks : ~Resending(u)
    BY DEF DispatcherInv, MutexInv, Resending
  <1>3. fate \in [Tasks -> Fates]
    BY DEF DispatcherInv, DispatcherType
  <1>4. CASE CloseBegin(c)
    <2>1. UNCHANGED <<cancelled, fate>> /\ ~closed /\ closed' /\ ~cancelled
      BY <1>4 DEF CloseBegin, DispatcherInv, CloseInv
    <2>2. AbsQueue' = AbsQueue /\ AbsFate' = AbsFate /\ AbsPhase = "open" /\ AbsPhase' = "closing"
      BY <1>1, <2>1 DEF AbsQueue, AbsFate, AbsPhase
    <2>3. Contract!BeginClose
      BY <2>2 DEF Contract!BeginClose, AbsQueue, AbsFate, AbsPhase
    <2>4. QED
      BY <2>3 DEF Contract!Next
  <1>5. CASE CloseAgain(c) \/ CloseTimesOut(c)
    <2>1. UNCHANGED <<cancelled, closed, fate>>
      BY <1>5 DEF CloseAgain, CloseTimesOut
    <2>2. AbsQueue' = AbsQueue /\ AbsFate' = AbsFate /\ AbsPhase = AbsPhase'
      BY <1>1, <2>1 DEF AbsQueue, AbsFate, AbsPhase
    <2>3. QED
      BY <2>2 DEF Contract!vars, AbsQueue, AbsFate, AbsPhase
  <1>6. CASE CloseDrained(c) \/ Abandon(c)
    <2>1. closed /\ ~cancelled /\ cancelled'
      BY <1>6 DEF CloseDrained, Abandon, DispatcherInv, CloseInv
    <2>2. fate' = [t \in Tasks |-> IF fate[t] = "queued" THEN "abandoned" ELSE fate[t]]
      <3>1. CASE CloseDrained(c)
        <4>1. \A t \in Tasks : fate[t] # "queued"
          BY <3>1, DrainedEmpty DEF DispatcherInv, QueueInv
        <4>2. QED
          BY <1>3, <3>1, <4>1 DEF CloseDrained
      <3>2. CASE Abandon(c)
        BY <3>2 DEF Abandon
      <3>3. QED
        BY <1>6, <3>1, <3>2
    <2>3. AbsFate = fate /\ AbsFate' = fate'
      BY <1>1, <1>2, <1>3, <2>1, <2>2 DEF AbsFate
    <2>4. AbsQueue' = <<>> /\ AbsPhase = "closing" /\ AbsPhase' = "closed"
      BY <2>1 DEF AbsQueue, AbsPhase
    <2>5. AbsFate' = [t \in Tasks |-> IF AbsFate[t] = "queued" THEN "abandoned" ELSE AbsFate[t]]
      BY <2>2, <2>3
    <2>6. Contract!GiveUp
      BY <2>4, <2>5 DEF Contract!GiveUp, AbsQueue, AbsFate, AbsPhase
    <2>7. QED
      BY <2>6 DEF Contract!Next
  <1>7. QED
    BY <1>4, <1>5, <1>6 DEF Closer

\* submit, work and close implement the contract, although the workers receive from
\* the channel between the steps of a submit (dispatcher.go:66-67).
THEOREM Refinement == Spec => ImplementsContract
  <1>1. Init => Contract!Init
    BY GoAssumption DEF Init, Contract!Init, Resending
  <1>2. ASSUME DispatcherInv, DispatcherInv', [Next]_vars PROVE [Contract!Next]_(Contract!vars)
    <2>1. CASE UNCHANGED vars
      BY <2>1 DEF vars, Contract!vars, Resending
    <2>2. QED
      BY <1>2, <2>1, CallerRefines, WorkerRefines, CloserRefines DEF Next
  <1>3. QED
    BY <1>1, <1>2, Invariance, PTL DEF Spec, ImplementsContract, Contract!Spec

-----------------------------------------------------------------------------
(* The client drives the dispatcher through its own actions only *)

LEMMA DispatcherStep == ASSUME [ClientNext]_allVars PROVE [Next]_vars
  <1>1. CASE \E x \in Requests : Call(x) \/ \E valid \in BOOLEAN : CheckOpen(x, valid)
    BY <1>1 DEF Call, CheckOpen
  <1>2. CASE \E t \in Tasks : AsyncCaller(t)
    BY <1>2 DEF AsyncCaller, Next
  <1>3. CASE \E p \in Posters : PostBegin(p) \/ PostReturns(p) \/ CallerCancels(p)
    BY <1>3 DEF PostBegin, PostReturns, CallerCancels
  <1>4. CASE \E d \in Deliverers : Deliver(d)
    BY <1>4 DEF Deliver, AttemptSucceeds, AttemptFails, BackoffElapses, BackoffCancelled
  <1>5. CASE \E w \in Workers : WorkerBegins(w) \/ WorkerEndsTask(w) \/ WorkerLoop(w)
    BY <1>5 DEF WorkerBegins, WorkerEndsTask, WorkerLoop, Next, Worker
  <1>6. CASE \E c \in Closers : CloseLock(c) \/ CloseEnter(c) \/ CloseReturns(c)
    BY <1>6 DEF CloseLock, CloseEnter, CloseReturns
  <1>7. CASE \E c \in Closers : CloseDrains(c)
    BY <1>7 DEF CloseDrains, Next, Closer
  <1>8. CASE UNCHANGED allVars
    BY <1>8 DEF allVars
  <1>9. QED
    BY <1>1, <1>2, <1>3, <1>4, <1>5, <1>6, <1>7, <1>8 DEF ClientNext

\* Post, PostAsync and Close use the dispatcher as GoDispatcher specifies it, whatever
\* the lifecycle lock and the deliveries do in between (client.go).
THEOREM ClientImplementsDispatcher == ClientSpec => Spec
  <1>1. ClientInit => Init
    BY DEF ClientInit
  <1>2. [ClientNext]_allVars => [Next]_vars
    BY DispatcherStep
  <1>3. QED
    BY <1>1, <1>2, PTL DEF ClientSpec, Spec

\* Inside the client losses are reported, a clean close has run everything, and the
\* queue obeys the contract.
THEOREM ClientKeepsGuarantees ==
  ClientSpec => []LossesReported /\ []CleanCloseRanEverything /\ ImplementsContract
  <1>1. QED
    BY ClientImplementsDispatcher, AllLossesReported, CleanClose, Refinement, PTL

-----------------------------------------------------------------------------
(* The lifecycle lock and the transport *)

Calls == {"idle", "calling", "client_closed", "invalid_request", "admitted", "posting",
          "returned", "locking", "drain"}
Deliveries == {"idle", "sending", "backoff", "delivered", "failed"}

ClientType ==
  /\ call \in [Requests \cup Closers -> Calls]
  /\ delivery \in [Deliverers -> Deliveries]
  /\ onWire \in [Deliverers -> BOOLEAN]

\* The read lock covers a Post's delivery from end to end, and Close gets past it only
\* when nobody holds it.
LockInv ==
  /\ \A p \in Posters : p \in readers <=> call[p] = "posting"
  /\ \A p \in Posters : delivery[p] \in {"sending", "backoff"} => call[p] = "posting"
  /\ clientClosed => readers = {}

\* The transport goes last: the close that drained has cancelled the context by then.
ReleaseInv ==
  /\ \A c \in Closers : call[c] = "drain" => clientClosed
  /\ \A c \in Closers : pc[c] = "returned" => cancelled
  /\ transportClosed => clientClosed /\ cancelled

LEMMA ClientInitInv == ASSUME ClientInit PROVE ClientType /\ LockInv /\ ReleaseInv
  <1> USE GoAssumption, GoClientAssumption DEF ClientInit, Init, Requests, Deliverers, Threads
  <1>1. ClientType
    BY DEF ClientType, Calls, Deliveries
  <1>2. LockInv
    BY DEF LockInv
  <1>3. ReleaseInv
    BY DEF ReleaseInv
  <1>4. QED
    BY <1>1, <1>2, <1>3

LEMMA ClientTypeStep == ASSUME ClientType, [ClientNext]_allVars PROVE ClientType'
  <1> USE GoAssumption, GoClientAssumption DEF ClientType, Requests, Deliverers, deliveryVars, Step
  <1>1. ASSUME NEW x \in Requests, Call(x) PROVE ClientType'
    BY <1>1 DEF Call, Calls
  <1>2. ASSUME NEW x \in Requests, NEW valid \in BOOLEAN, CheckOpen(x, valid) PROVE ClientType'
    <2>1. \E l \in Calls : call' = [call EXCEPT ![x] = l]
      BY <1>2 DEF CheckOpen, Calls
    <2>2. UNCHANGED <<delivery, onWire>>
      BY <1>2 DEF CheckOpen
    <2>3. QED
      BY <2>1, <2>2
  <1>3. ASSUME NEW t \in Tasks, AsyncCaller(t) PROVE ClientType'
    BY <1>3 DEF AsyncCaller
  <1>4. ASSUME NEW p \in Posters, PostBegin(p) \/ PostReturns(p) \/ CallerCancels(p) PROVE ClientType'
    <2>1. call' = call \/ \E l \in Calls : call' = [call EXCEPT ![p] = l]
      BY <1>4 DEF PostBegin, PostReturns, CallerCancels, Calls
    <2>2. delivery' = delivery \/ delivery' = [delivery EXCEPT ![p] = "sending"]
      BY <1>4 DEF PostBegin, PostReturns, CallerCancels, BeginDelivery
    <2>3. onWire' = onWire \/ onWire' = [onWire EXCEPT ![p] = ~CtxDone(p)]
      BY <1>4 DEF PostBegin, PostReturns, CallerCancels, BeginDelivery
    <2>4. onWire' \in [Deliverers -> BOOLEAN]
      BY <2>3
    <2>5. delivery' \in [Deliverers -> Deliveries]
      BY <2>2 DEF Deliveries
    <2>6. call' \in [Requests \cup Closers -> Calls]
      BY <2>1
    <2>7. QED
      BY <2>4, <2>5, <2>6
  <1>5. ASSUME NEW d \in Deliverers, Deliver(d) PROVE ClientType'
    <2>1. UNCHANGED call
      BY <1>5 DEF Deliver, AttemptSucceeds, AttemptFails, BackoffElapses, BackoffCancelled
    <2>2. \E l \in Deliveries : delivery' = [delivery EXCEPT ![d] = l]
      BY <1>5 DEF Deliver, AttemptSucceeds, AttemptFails, BackoffElapses, BackoffCancelled, Deliveries
    <2>3. onWire' = onWire \/ onWire' = [onWire EXCEPT ![d] = FALSE]
                           \/ onWire' = [onWire EXCEPT ![d] = ~CtxDone(d)]
      BY <1>5 DEF Deliver, AttemptSucceeds, AttemptFails, BackoffElapses, BackoffCancelled
    <2>4. onWire' \in [Deliverers -> BOOLEAN]
      BY <2>3
    <2>5. QED
      BY <2>1, <2>2, <2>4
  <1>6. ASSUME NEW w \in Workers, WorkerBegins(w) \/ WorkerEndsTask(w) \/ WorkerLoop(w)
        PROVE  ClientType'
    <2>1. UNCHANGED call
      BY <1>6 DEF WorkerBegins, WorkerEndsTask, WorkerLoop
    <2>2. delivery' = delivery \/ \E l \in Deliveries : delivery' = [delivery EXCEPT ![w] = l]
      BY <1>6 DEF WorkerBegins, WorkerEndsTask, WorkerLoop, BeginDelivery, Deliveries
    <2>3. onWire' = onWire \/ onWire' = [onWire EXCEPT ![w] = ~CtxDone(w)]
      BY <1>6 DEF WorkerBegins, WorkerEndsTask, WorkerLoop, BeginDelivery
    <2>4. onWire' \in [Deliverers -> BOOLEAN]
      BY <2>3
    <2>5. delivery' \in [Deliverers -> Deliveries]
      BY <2>2
    <2>6. QED
      BY <2>1, <2>4, <2>5
  <1>7. ASSUME NEW c \in Closers, CloseLock(c) \/ CloseEnter(c) \/ CloseDrains(c) \/ CloseReturns(c)
        PROVE  ClientType'
    <2>1. call' = call \/ \E l \in Calls : call' = [call EXCEPT ![c] = l]
      BY <1>7 DEF CloseLock, CloseEnter, CloseDrains, CloseReturns, Calls
    <2>2. UNCHANGED <<delivery, onWire>>
      BY <1>7 DEF CloseLock, CloseEnter, CloseDrains, CloseReturns
    <2>3. QED
      BY <2>1, <2>2
  <1>8. CASE UNCHANGED allVars
    BY <1>8 DEF allVars
  <1>9. QED
    BY <1>1, <1>2, <1>3, <1>4, <1>5, <1>6, <1>7, <1>8 DEF ClientNext

LEMMA LockStep == ASSUME ClientType, LockInv, [ClientNext]_allVars PROVE LockInv'
  <1> USE GoAssumption, GoClientAssumption DEF ClientType, LockInv, Requests, Deliverers, Threads,
          lockVars, deliveryVars, Step
  <1>1. ASSUME NEW x \in Requests, Call(x) PROVE LockInv'
    BY <1>1 DEF Call
  <1>2. ASSUME NEW x \in Requests, NEW valid \in BOOLEAN, CheckOpen(x, valid) PROVE LockInv'
    <2>1. /\ call[x] = "calling" /\ UNCHANGED <<delivery, readers, clientClosed>>
          /\ \E l \in Calls \ {"posting"} : call' = [call EXCEPT ![x] = l]
      BY <1>2 DEF CheckOpen, Calls
    <2>2. QED
      BY <2>1
  <1>3. ASSUME NEW t \in Tasks, AsyncCaller(t) PROVE LockInv'
    BY <1>3 DEF AsyncCaller
  <1>4. ASSUME NEW p \in Posters, PostBegin(p) PROVE LockInv'
    <2>1. CASE clientClosed
      BY <1>4, <2>1 DEF PostBegin
    <2>2. CASE ~clientClosed
      BY <1>4, <2>2 DEF PostBegin, BeginDelivery
    <2>3. QED
      BY <2>1, <2>2
  <1>5. ASSUME NEW p \in Posters, PostReturns(p) PROVE LockInv'
    BY <1>5 DEF PostReturns, Ended
  <1>6. ASSUME NEW p \in Posters, CallerCancels(p) PROVE LockInv'
    BY <1>6 DEF CallerCancels
  <1>7. ASSUME NEW d \in Deliverers, Deliver(d) PROVE LockInv'
    <2>1. /\ UNCHANGED <<call, readers, clientClosed>> /\ delivery[d] \in {"sending", "backoff"}
          /\ \E l \in Deliveries : delivery' = [delivery EXCEPT ![d] = l]
      BY <1>7 DEF Deliver, AttemptSucceeds, AttemptFails, BackoffElapses, BackoffCancelled, Deliveries
    <2>2. QED
      BY <2>1
  <1>8. ASSUME NEW w \in Workers, WorkerBegins(w) \/ WorkerEndsTask(w) \/ WorkerLoop(w)
        PROVE  LockInv'
    <2>1. /\ UNCHANGED <<call, readers, clientClosed>> /\ \A p \in Posters : delivery'[p] = delivery[p]
      BY <1>8 DEF WorkerBegins, WorkerEndsTask, WorkerLoop, BeginDelivery
    <2>2. QED
      BY <2>1
  <1>9. ASSUME NEW c \in Closers, CloseLock(c) \/ CloseEnter(c) \/ CloseDrains(c) \/ CloseReturns(c)
        PROVE  LockInv'
    <2>1. /\ UNCHANGED <<delivery, readers>> /\ \A p \in Posters : call'[p] = call[p]
      BY <1>9 DEF CloseLock, CloseEnter, CloseDrains, CloseReturns
    <2>2. clientClosed' => readers = {}
      BY <1>9 DEF CloseLock, CloseEnter, CloseDrains, CloseReturns, MayWrite
    <2>3. QED
      BY <2>1, <2>2
  <1>10. CASE UNCHANGED allVars
    BY <1>10 DEF allVars
  <1>11. QED
    BY <1>1, <1>2, <1>3, <1>4, <1>5, <1>6, <1>7, <1>8, <1>9, <1>10 DEF ClientNext

LEMMA ReleaseStep ==
  ASSUME DispatcherInv, ClientType, ReleaseInv, [ClientNext]_allVars PROVE ReleaseInv'
  <1> USE GoAssumption, GoClientAssumption DEF DispatcherInv, PCInv, ClientType, ReleaseInv,
          Requests, Deliverers, Threads, lockVars, vars, Step
  <1>1. ASSUME \A c \in Closers : call'[c] = call[c] /\ pc'[c] = pc[c],
               UNCHANGED <<clientClosed, transportClosed, cancelled>>
        PROVE  ReleaseInv'
    BY <1>1
  <1>2. ASSUME NEW x \in Requests, NEW valid \in BOOLEAN, Call(x) \/ CheckOpen(x, valid)
        PROVE  ReleaseInv'
    <2>1. \A c \in Closers : call'[c] = call[c]
      BY <1>2 DEF Call, CheckOpen
    <2>2. QED
      BY <1>1, <1>2, <2>1 DEF Call, CheckOpen
  <1>3. ASSUME NEW t \in Tasks, AsyncCaller(t) PROVE ReleaseInv'
    <2>1. (\A c \in Closers : pc'[c] = pc[c]) /\ UNCHANGED cancelled
      BY <1>3 DEF AsyncCaller, Caller, SubmitRefused, SubmitSends, SubmitFindsFull, Evict, Resend, Goto
    <2>2. QED
      BY <1>1, <1>3, <2>1 DEF AsyncCaller
  <1>4. ASSUME NEW p \in Posters, PostBegin(p) \/ PostReturns(p) \/ CallerCancels(p) PROVE ReleaseInv'
    <2>1. \A c \in Closers : call'[c] = call[c]
      BY <1>4 DEF PostBegin, PostReturns, CallerCancels
    <2>2. QED
      BY <1>1, <1>4, <2>1 DEF PostBegin, PostReturns, CallerCancels
  <1>5. ASSUME NEW d \in Deliverers, Deliver(d) PROVE ReleaseInv'
    BY <1>1, <1>5 DEF Deliver, AttemptSucceeds, AttemptFails, BackoffElapses, BackoffCancelled
  <1>6. ASSUME NEW w \in Workers, WorkerBegins(w) \/ WorkerEndsTask(w) \/ WorkerLoop(w)
        PROVE  ReleaseInv'
    <2>1. (\A c \in Closers : pc'[c] = pc[c]) /\ UNCHANGED cancelled
      BY <1>6 DEF WorkerBegins, WorkerEndsTask, WorkerLoop, CheckContext, RunTask, Receive, Exit, Goto
    <2>2. QED
      BY <1>1, <1>6, <2>1 DEF WorkerBegins, WorkerEndsTask, WorkerLoop
  <1>7. ASSUME NEW c \in Closers, CloseLock(c) PROVE ReleaseInv'
    BY <1>7 DEF CloseLock
  <1>8. ASSUME NEW c \in Closers, CloseEnter(c) PROVE ReleaseInv'
    BY <1>8 DEF CloseEnter
  <1>9. ASSUME NEW c \in Closers, CloseDrains(c) PROVE ReleaseInv'
    BY <1>9 DEF CloseDrains, CloseBegin, CloseDrained, CloseTimesOut, Abandon, Goto
  <1>10. ASSUME NEW c \in Closers, CloseReturns(c) PROVE ReleaseInv'
    BY <1>10 DEF CloseReturns
  <1>11. CASE UNCHANGED allVars
    BY <1>11 DEF allVars
  <1>12. QED
    BY <1>2, <1>3, <1>4, <1>5, <1>6, <1>7, <1>8, <1>9, <1>10, <1>11 DEF ClientNext

LEMMA ClientInvariance == ClientSpec => [](DispatcherInv /\ ClientType /\ LockInv /\ ReleaseInv)
  <1>1. ClientInit => ClientType /\ LockInv /\ ReleaseInv
    BY ClientInitInv
  <1>2. DispatcherInv /\ ClientType /\ LockInv /\ ReleaseInv /\ [ClientNext]_allVars
          => (ClientType /\ LockInv /\ ReleaseInv)'
    BY ClientTypeStep, LockStep, ReleaseStep
  <1>3. ClientSpec => []DispatcherInv
    BY ClientImplementsDispatcher, Invariance, PTL
  <1>4. QED
    BY <1>1, <1>2, <1>3, PTL DEF ClientSpec

\* Close takes the transport down only when no Post is under way and the context of
\* every delivery a worker is still in has been cancelled (client.go:41, 185-191).
THEOREM TransportGoesLast == ClientSpec => []TransportOutlivesDeliveries
  <1>1. LockInv /\ ReleaseInv => TransportOutlivesDeliveries
    BY GoClientAssumption DEF LockInv, ReleaseInv, TransportOutlivesDeliveries, Deliverers,
       CtxDone, Threads
  <1>2. QED
    BY <1>1, ClientInvariance, PTL

\* Once the context is cancelled no worker puts a request on the wire.
LEMMA QuietStep ==
  ASSUME ClientType, [ClientNext]_allVars, cancelled, NEW w \in Workers, onWire'[w]
  PROVE  onWire[w]
  <1> USE GoAssumption, GoClientAssumption DEF ClientType, Deliverers, Threads, deliveryVars
  <1>1. CASE UNCHANGED onWire
    BY <1>1
  <1>2. CASE \E p \in Posters : PostBegin(p) \/ PostReturns(p) \/ CallerCancels(p)
    BY <1>2 DEF PostBegin, PostReturns, CallerCancels, BeginDelivery
  <1>3. CASE \E d \in Deliverers : Deliver(d)
    BY <1>3 DEF Deliver, AttemptSucceeds, AttemptFails, BackoffElapses, BackoffCancelled, CtxDone
  <1>4. CASE \E v \in Workers : WorkerBegins(v) \/ WorkerEndsTask(v) \/ WorkerLoop(v)
    BY <1>4 DEF WorkerBegins, WorkerEndsTask, WorkerLoop
  <1>5. QED
    BY <1>1, <1>2, <1>3, <1>4 DEF ClientNext, allVars, Call, CheckOpen, AsyncCaller, CloseLock,
       CloseEnter, CloseDrains, CloseReturns

\* After close has given up, neither a queued task nor a pending retry of a worker
\* reaches Oppex (dispatcher.go:96-98).
THEOREM QuietAfterGivingUp == ClientSpec => QuietOnceAbandoned
  <1>1. ClientType /\ [ClientNext]_allVars =>
          [cancelled => \A w \in Workers : onWire'[w] => onWire[w]]_allVars
    BY QuietStep
  <1>2. QED
    BY <1>1, ClientInvariance, PTL DEF ClientSpec, QuietOnceAbandoned
=============================================================================
