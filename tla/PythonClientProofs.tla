------------------------- MODULE PythonClientProofs -------------------------
(***************************************************************************)
(* Proofs about the Python dispatcher and the Python client on top of it,  *)
(* for any number of submits, posts, workers and closing threads, any      *)
(* capacity, any number of retries and any size of the pool.               *)
(***************************************************************************)
EXTENDS PythonClient, FiniteSetTheorems, TLAPS

-----------------------------------------------------------------------------
(* The inductive invariant of the dispatcher *)

Fates == {"new", "refused", "submitted", "queued", "running", "done", "dropped", "abandoned"}
Submitting == {"submit", "poll", "second_check", "second_offer"}
Steps == {"none", "decrement", "increment", "record"}

DataInv ==
  /\ queue \in Seq(Tasks)
  /\ current \in [Workers -> Tasks \cup {NoTask}]
  /\ queued \in Int /\ dropped \in Nat /\ interval \in Nat /\ logged \in Nat
  /\ fate \in [Tasks -> Fates]
  /\ step \in [Threads -> Steps]

\* Each kind of thread moves through its own part of the program.
PCInv ==
  /\ pc \in [Threads -> {"call", "returned", "unlock", "get", "counting", "empty", "running",
                         "exited", "stop", "joining", "drain", "forced_join"} \cup Submitting]
  /\ \A t \in Tasks : pc[t] \in {"call", "returned", "unlock"} \cup Submitting
  /\ \A w \in Workers : pc[w] \in {"get", "counting", "empty", "running", "exited"}
  /\ \A c \in Closers : pc[c] \in {"call", "stop", "joining", "drain", "forced_join", "returned"}

\* Where a thread may be while it counts a drop.
StepInv == \A x \in Threads : step[x] # "none" => pc[x] \in {"second_check", "unlock", "drain"}

\* A task is new until submit has counted it, and submitted until submit has decided.
CallerInv ==
  \A t \in Tasks : /\ fate[t] = "new" <=> pc[t] = "call"
                   /\ fate[t] = "submitted" <=> pc[t] \in Submitting

\* The queue holds the queued tasks, each once.
QueueInv ==
  /\ \A i \in 1 .. Len(queue) : fate[queue[i]] = "queued"
  /\ \A i, j \in 1 .. Len(queue) : queue[i] = queue[j] => i = j
  /\ \A t \in Tasks : fate[t] = "queued" => \E i \in 1 .. Len(queue) : queue[i] = t

Holding(w) == pc[w] \in {"counting", "running"}

\* A worker runs a task that no other worker has.
HandInv ==
  /\ \A w \in Workers : Holding(w) => current[w] \in Tasks /\ fate[current[w]] = "running"
  /\ \A v, w \in Workers : Holding(v) /\ Holding(w) /\ current[v] = current[w] => v = w

Pending == {t \in Tasks : fate[t] \in {"submitted", "queued"}}
Dropped == {t \in Tasks : fate[t] \in {"dropped", "abandoned"}}

\* Every counter lacks what the threads on their way to it are about to add.
CountInv ==
  /\ queued = Cardinality(Pending) + Cardinality(ToDecrement)
  /\ dropped + Cardinality(ToIncrement) = Cardinality(Dropped)
  /\ interval + logged + Cardinality(ToRecord) = Cardinality(Dropped)

\* Close owes nothing to a submit call that was not over when it began.
OwedInv == \A t \in owed : t \in Tasks /\ pc[t] = "returned"

DispatcherInv ==
  /\ DataInv /\ PCInv /\ StepInv /\ CallerInv /\ QueueInv /\ HandInv /\ CountInv
  /\ OwedInv

-----------------------------------------------------------------------------
(* The inductive invariant of the client *)

Calls == {"idle", "refused", "submitting", "posting", "returned", "draining", "dispatcher"}
Legs == {"idle", "execute", "take", "reuse", "open", "pooled", "fresh", "backoff", "delivered",
         "failed"}

ClientType ==
  /\ call \in [Requests \cup Closers -> Calls]
  /\ leg \in [Deliverers -> Legs]
  /\ late \in [Deliverers -> Nat]
  /\ active \in Int

Closing(c) == call[c] \in {"draining", "dispatcher"}

\* One close gets past the lifecycle; it is the only one that reaches the dispatcher,
\* and the connections are closed when it is through.
CloseInv ==
  /\ \A c, d \in Closers : Closing(c) /\ Closing(d) => c = d
  /\ \A c \in Closers : Closing(c) => clientClosed /\ ~httpClosed
  /\ \A c \in Closers : pc[c] # "call" => call[c] = "dispatcher" \/ httpClosed
  /\ closed => \E c \in Closers : pc[c] # "call"
  /\ httpClosed => clientClosed /\ \E c \in Closers : pc[c] = "returned"

\* When the close has emptied the queue nothing that it owes is left in it.
DrainedInv ==
  \A c \in Closers : pc[c] \in {"forced_join", "returned"} => \A t \in owed : fate[t] # "queued"

Posting == {p \in Posters : call[p] = "posting"}

\* The lifecycle counts the posts under way, and after its drain there are none.
LifecycleInv ==
  /\ active = Cardinality(Posting)
  /\ (httpClosed \/ \E c \in Closers : call[c] = "dispatcher") /\ ~drainExpired => Posting = {}

\* A deliverer that has a pooled connection to send on has sent nothing on a closed
\* executor, and one that may still open a fresh connection has sent one request at most.
LateInv ==
  \A d \in Deliverers :
    /\ late[d] <= 2
    /\ ~httpClosed \/ leg[d] \in {"take", "reuse"} => late[d] = 0
    /\ leg[d] \in {"open", "pooled"} => late[d] <= 1

ClientInv == ClientType /\ CloseInv /\ DrainedInv /\ LifecycleInv /\ LateInv

-----------------------------------------------------------------------------
(* Sequences and counting *)

\* What is left of a non-empty queue when its head is removed.
LEMMA TailFacts ==
  ASSUME NEW S, NEW q \in Seq(S), q # <<>>
  PROVE  /\ Len(q) \in Nat \ {0}
         /\ Head(q) = q[1] /\ Head(q) \in S
         /\ Tail(q) \in Seq(S)
         /\ Len(Tail(q)) = Len(q) - 1
         /\ \A i \in 1 .. (Len(q) - 1) : Tail(q)[i] = q[i + 1]
  OBVIOUS

\* The queue without its oldest task.
LEMMA RestOfQueue ==
  ASSUME DataInv, QueueInv, queue # <<>>
  PROVE  /\ Head(queue) \in Tasks /\ Tail(queue) \in Seq(Tasks)
         /\ fate[Head(queue)] = "queued"
         /\ \A i \in 1 .. Len(Tail(queue)) :
              Tail(queue)[i] # Head(queue) /\ fate[Tail(queue)[i]] = "queued"
         /\ \A i, j \in 1 .. Len(Tail(queue)) : Tail(queue)[i] = Tail(queue)[j] => i = j
         /\ \A t \in Tasks : fate[t] = "queued" /\ t # Head(queue) =>
              \E i \in 1 .. Len(Tail(queue)) : Tail(queue)[i] = t
  <1> DEFINE n == Len(queue)
             r == Tail(queue)
  <1>1. /\ n \in Nat \ {0} /\ Head(queue) = queue[1] /\ Head(queue) \in Tasks
        /\ r \in Seq(Tasks) /\ Len(r) = n - 1 /\ \A i \in 1 .. (n - 1) : r[i] = queue[i + 1]
    BY TailFacts DEF DataInv
  <1>2. /\ \A i \in 1 .. n : fate[queue[i]] = "queued"
        /\ \A i, j \in 1 .. n : queue[i] = queue[j] => i = j
        /\ \A t \in Tasks : fate[t] = "queued" => \E i \in 1 .. n : queue[i] = t
    BY DEF QueueInv
  <1> HIDE DEF n, r
  <1>3. ASSUME NEW i \in 1 .. Len(r) PROVE r[i] # Head(queue) /\ fate[r[i]] = "queued"
    <2>1. i + 1 \in 1 .. n /\ 1 \in 1 .. n /\ i + 1 # 1 /\ r[i] = queue[i + 1]
      BY <1>1
    <2>2. QED
      BY <1>1, <1>2, <2>1
  <1>4. ASSUME NEW i \in 1 .. Len(r), NEW j \in 1 .. Len(r), r[i] = r[j] PROVE i = j
    <2>1. /\ i + 1 \in 1 .. n /\ j + 1 \in 1 .. n /\ i \in Int /\ j \in Int
          /\ queue[i + 1] = queue[j + 1]
      BY <1>1, <1>4
    <2>2. i + 1 = j + 1
      BY <1>2, <2>1
    <2>3. QED
      BY <2>1, <2>2
  <1>5. ASSUME NEW t \in Tasks, fate[t] = "queued", t # Head(queue)
        PROVE  \E i \in 1 .. Len(r) : r[i] = t
    <2>1. PICK i \in 1 .. n : queue[i] = t
      BY <1>2, <1>5
    <2>2. i - 1 \in 1 .. Len(r) /\ r[i - 1] = t
      BY <1>1, <1>5, <2>1
    <2>3. QED
      BY <2>2
  <1>6. QED
    BY <1>1, <1>2, <1>3, <1>4, <1>5 DEF n, r

LEMMA Finite ==
  /\ IsFiniteSet(Pending) /\ Cardinality(Pending) \in Nat
  /\ IsFiniteSet(Dropped) /\ Cardinality(Dropped) \in Nat
  /\ IsFiniteSet(ToDecrement) /\ Cardinality(ToDecrement) \in Nat
  /\ IsFiniteSet(ToIncrement) /\ Cardinality(ToIncrement) \in Nat
  /\ IsFiniteSet(ToRecord) /\ Cardinality(ToRecord) \in Nat
  <1>1. IsFiniteSet(Tasks) /\ IsFiniteSet(Threads)
    BY PythonAssumption, FS_Union DEF Threads
  <1>2. /\ Pending \subseteq Tasks /\ Dropped \subseteq Tasks
        /\ ToDecrement \subseteq Threads /\ ToIncrement \subseteq Threads /\ ToRecord \subseteq Threads
    BY DEF Pending, Dropped, ToDecrement, ToIncrement, ToRecord, Threads
  <1>3. QED
    BY <1>1, <1>2, FS_Subset, FS_CardinalityType

\* The claim of a drop puts its thread into all three sets of threads that owe a counter
\* something; the update of a counter takes the thread out of that counter's set.
LEMMA Owing ==
  ASSUME DataInv, NEW x \in Threads \ Workers, NEW s \in Steps, step' = [step EXCEPT ![x] = s],
         \A w \in Workers : pc'[w] = "counting" <=> pc[w] = "counting"
  PROVE  /\ ToDecrement' = IF s = "decrement" THEN ToDecrement \cup {x} ELSE ToDecrement \ {x}
         /\ ToIncrement' = IF s \in {"decrement", "increment"} THEN ToIncrement \cup {x}
                           ELSE ToIncrement \ {x}
         /\ ToRecord' = IF s # "none" THEN ToRecord \cup {x} ELSE ToRecord \ {x}
         /\ x \in ToDecrement <=> step[x] = "decrement"
         /\ x \in ToIncrement <=> step[x] \in {"decrement", "increment"}
         /\ x \in ToRecord <=> step[x] # "none"
  BY DEF DataInv, ToDecrement, ToIncrement, ToRecord, Threads

-----------------------------------------------------------------------------
(* The dispatcher: the initial state *)

LEMMA InitInv == ASSUME Init PROVE DispatcherInv
  <1> USE PythonAssumption DEF Init
  <1>1. DataInv
    BY DEF DataInv, Fates, Steps
  <1>2. PCInv /\ StepInv /\ CallerInv /\ HandInv /\ OwedInv
    BY DEF PCInv, StepInv, CallerInv, HandInv, Holding, OwedInv, Threads, Submitting
  <1>3. QueueInv
    BY DEF QueueInv
  <1>4. Pending = {} /\ Dropped = {} /\ ToDecrement = {} /\ ToIncrement = {} /\ ToRecord = {}
    BY DEF Pending, Dropped, ToDecrement, ToIncrement, ToRecord, Threads
  <1>5. CountInv
    BY <1>4, FS_EmptySet DEF CountInv
  <1>6. QED
    BY <1>1, <1>2, <1>3, <1>5 DEF DispatcherInv

-----------------------------------------------------------------------------
(* The dispatcher: one lemma per part of the invariant *)

\* The claim of a drop changes no counter.
LEMMA DropFacts ==
  ASSUME DataInv, NEW x \in Threads, NEW t \in Tasks, NEW how \in {"dropped", "abandoned"},
         Drop(x, t, how)
  PROVE  /\ fate' = [fate EXCEPT ![t] = how] /\ fate' \in [Tasks -> Fates]
         /\ step' = [step EXCEPT ![x] = "decrement"] /\ step' \in [Threads -> Steps]
         /\ UNCHANGED <<queued, dropped, interval, logged>>
  BY DEF DataInv, Drop, StepTo, Fates, Steps

\* The statements that follow the claim change nothing but the counters.
LEMMA CountingFacts ==
  ASSUME DataInv, NEW x \in Threads, Counting(x)
  PROVE  /\ UNCHANGED <<queue, stopVars, submitLock, pc, current, fate>>
         /\ step[x] # "none" /\ \E s \in Steps : step' = [step EXCEPT ![x] = s]
         /\ queued' \in Int /\ dropped' \in Nat /\ interval' \in Nat /\ logged' \in Nat
  BY DEF Counting, DecrementQueued, IncrementDropped, RecordDrop, StepTo, Steps, DataInv

LEMMA PCStep == ASSUME DispatcherInv, [Next]_vars PROVE PCInv'
  <1> USE PythonAssumption DEF DispatcherInv, PCInv, Threads, Goto, At, Submitting
  <1>1. ASSUME NEW x \in Threads, Counting(x) PROVE PCInv'
    BY <1>1, CountingFacts
  <1>2. ASSUME NEW t \in Tasks, Caller(t) PROVE PCInv'
    BY <1>1, <1>2 DEF Caller, SubmitRefused, SubmitCounts, SubmitOffers, SubmitPolls,
                      SubmitChecksAgain, SubmitOffersAgain, SubmitUnlocks
  <1>3. ASSUME NEW w \in Workers, Worker(w) PROVE PCInv'
    BY <1>3 DEF Worker, WorkerGets, WorkerCounts, WorkerFindsEmpty, WorkerChecksStopping, RunTask
  <1>4. ASSUME NEW c \in Closers, Closer(c) PROVE PCInv'
    BY <1>1, <1>4 DEF Closer, CloseBegin, CloseStops, CloseJoins, CloseDrains, CloseReturns
  <1>5. CASE UNCHANGED vars
    BY <1>5 DEF vars
  <1>6. QED
    BY <1>2, <1>3, <1>4, <1>5 DEF Next

\* A thread starts no drop before it has counted the last one, and goes nowhere meanwhile.
LEMMA StepStep == ASSUME DispatcherInv, [Next]_vars PROVE StepInv'
  <1> USE PythonAssumption
      DEF DispatcherInv, DataInv, PCInv, StepInv, Threads, Goto, At, StepTo, Submitting, Steps, countVars
  <1>1. ASSUME NEW x \in Threads, Counting(x) PROVE StepInv'
    BY <1>1, CountingFacts
  <1>2. ASSUME NEW t \in Tasks, Caller(t) PROVE StepInv'
    <2>1. CASE SubmitRefused(t) \/ SubmitCounts(t) \/ SubmitOffers(t) \/ SubmitUnlocks(t)
      BY <2>1 DEF SubmitRefused, SubmitCounts, SubmitOffers, SubmitUnlocks
    <2>2. CASE SubmitPolls(t)
      BY <2>2 DEF SubmitPolls, Drop
    <2>3. CASE SubmitChecksAgain(t)
      BY <2>3 DEF SubmitChecksAgain, Drop
    <2>4. CASE SubmitOffersAgain(t)
      BY <2>4 DEF SubmitOffersAgain, Drop
    <2>5. QED
      BY <1>1, <1>2, <2>1, <2>2, <2>3, <2>4 DEF Caller
  <1>3. ASSUME NEW w \in Workers, Worker(w) PROVE StepInv'
    BY <1>3 DEF Worker, WorkerGets, WorkerCounts, WorkerFindsEmpty, WorkerChecksStopping, RunTask
  <1>4. ASSUME NEW c \in Closers, Closer(c) PROVE StepInv'
    <2>1. CASE CloseBegin(c) \/ CloseStops(c) \/ CloseJoins(c) \/ CloseReturns(c)
      BY <2>1 DEF CloseBegin, CloseStops, CloseJoins, CloseReturns
    <2>2. CASE CloseDrains(c)
      BY <2>2 DEF CloseDrains, Drop
    <2>3. QED
      BY <1>1, <1>4, <2>1, <2>2 DEF Closer
  <1>5. CASE UNCHANGED vars
    BY <1>5 DEF vars
  <1>6. QED
    BY <1>2, <1>3, <1>4, <1>5 DEF Next

LEMMA DataStep == ASSUME DispatcherInv, [Next]_vars PROVE DataInv'
  <1> USE PythonAssumption DEF DispatcherInv, PCInv, countVars
  <1>1. queue # <<>> => Head(queue) \in Tasks /\ Tail(queue) \in Seq(Tasks)
    BY TailFacts DEF DataInv
  <1>2. ASSUME NEW t \in Tasks, SubmitRefused(t) \/ SubmitCounts(t) PROVE DataInv'
    <2>1. CASE SubmitRefused(t)
      BY <2>1 DEF SubmitRefused, DataInv, Fates
    <2>2. CASE SubmitCounts(t)
      BY <2>2 DEF SubmitCounts, DataInv, Fates
    <2>3. QED
      BY <1>2, <2>1, <2>2
  <1>3. ASSUME NEW t \in Tasks, SubmitOffers(t) PROVE DataInv'
    <2>1. CASE Len(queue) < Capacity
      <3>1. queue' = Append(queue, t) /\ fate' = [fate EXCEPT ![t] = "queued"] /\ UNCHANGED <<countVars, current>>
        BY <1>3, <2>1 DEF SubmitOffers
      <3>2. queue' \in Seq(Tasks)
        BY <1>3, <3>1 DEF DataInv
      <3>3. fate' \in [Tasks -> Fates]
        BY <1>3, <3>1 DEF DataInv, Fates
      <3>4. QED
        BY <3>1, <3>2, <3>3 DEF DataInv
    <2>2. CASE ~(Len(queue) < Capacity)
      BY <1>3, <2>2 DEF SubmitOffers, DataInv
    <2>3. QED
      BY <2>1, <2>2
  <1>4. ASSUME NEW t \in Tasks, SubmitPolls(t) PROVE DataInv'
    <2>1. CASE queue = <<>>
      BY <1>4, <2>1 DEF SubmitPolls, DataInv
    <2>2. CASE queue # <<>>
      <3>1. queue' = Tail(queue) /\ UNCHANGED current /\ Drop(t, Head(queue), "dropped")
        BY <1>4, <2>2 DEF SubmitPolls
      <3>2. QED
        BY <1>1, <2>2, <3>1, DropFacts DEF DataInv, Threads
    <2>3. QED
      BY <2>1, <2>2
  <1>5. ASSUME NEW t \in Tasks, SubmitChecksAgain(t) PROVE DataInv'
    <2>1. CASE ~stopping
      BY <1>5, <2>1 DEF SubmitChecksAgain, DataInv
    <2>2. CASE stopping
      BY <1>5, <2>2, DropFacts DEF SubmitChecksAgain, DataInv, Threads
    <2>3. QED
      BY <2>1, <2>2
  <1>6. ASSUME NEW t \in Tasks, SubmitOffersAgain(t) PROVE DataInv'
    <2>1. CASE Len(queue) < Capacity
      <3>1. queue' = Append(queue, t) /\ fate' = [fate EXCEPT ![t] = "queued"] /\ UNCHANGED <<countVars, current>>
        BY <1>6, <2>1 DEF SubmitOffersAgain
      <3>2. queue' \in Seq(Tasks)
        BY <1>6, <3>1 DEF DataInv
      <3>3. fate' \in [Tasks -> Fates]
        BY <1>6, <3>1 DEF DataInv, Fates
      <3>4. QED
        BY <3>1, <3>2, <3>3 DEF DataInv, countVars
    <2>2. CASE ~(Len(queue) < Capacity)
      BY <1>6, <2>2, DropFacts DEF SubmitOffersAgain, DataInv, Threads
    <2>3. QED
      BY <2>1, <2>2
  <1>7. ASSUME NEW w \in Workers, WorkerGets(w) PROVE DataInv'
    BY <1>1, <1>7 DEF WorkerGets, DataInv, Fates
  <1>8. ASSUME NEW w \in Workers, WorkerFindsEmpty(w) \/ WorkerChecksStopping(w) PROVE DataInv'
    BY <1>8 DEF WorkerFindsEmpty, WorkerChecksStopping, DataInv
  <1>9. ASSUME NEW w \in Workers, RunTask(w) PROVE DataInv'
    BY <1>9 DEF RunTask, DataInv, Fates
  <1>10. ASSUME NEW c \in Closers, CloseBegin(c) \/ CloseStops(c) \/ CloseJoins(c) \/ CloseReturns(c)
         PROVE  DataInv'
    BY <1>10 DEF CloseBegin, CloseStops, CloseJoins, CloseReturns, DataInv
  <1>11. ASSUME NEW c \in Closers, CloseDrains(c) PROVE DataInv'
    <2>1. CASE queue = <<>>
      BY <1>11, <2>1 DEF CloseDrains, DataInv
    <2>2. CASE queue # <<>>
      <3>1. queue' = Tail(queue) /\ UNCHANGED current /\ Drop(c, Head(queue), "abandoned")
        BY <1>11, <2>2 DEF CloseDrains
      <3>2. QED
        BY <1>1, <2>2, <3>1, DropFacts DEF DataInv, Threads
    <2>3. QED
      BY <2>1, <2>2
  <1>12. CASE UNCHANGED vars
    BY <1>12 DEF vars, DataInv
  <1>13. ASSUME NEW x \in Threads, Counting(x) PROVE DataInv'
    BY <1>13, CountingFacts DEF DataInv
  <1>14. ASSUME NEW t \in Tasks, SubmitUnlocks(t) PROVE DataInv'
    BY <1>14 DEF SubmitUnlocks, DataInv
  <1>15. ASSUME NEW w \in Workers, WorkerCounts(w) PROVE DataInv'
    BY <1>15 DEF WorkerCounts, DataInv
  <1>16. QED
    BY <1>2, <1>3, <1>4, <1>5, <1>6, <1>7, <1>8, <1>9, <1>10, <1>11, <1>12, <1>13, <1>14, <1>15
       DEF Next, Caller, Worker, Closer, Threads

\* submit counts its task before it offers it and decides before it returns.
LEMMA CallerStep == ASSUME DispatcherInv, [Next]_vars PROVE CallerInv'
  <1> USE PythonAssumption
      DEF DispatcherInv, DataInv, PCInv, CallerInv, Threads, Goto, At, Submitting
  <1>1. queue # <<>> => Head(queue) \in Tasks /\ fate[Head(queue)] = "queued"
    BY RestOfQueue
  <1>2. ASSUME NEW x \in Threads, Counting(x) PROVE CallerInv'
    BY <1>2, CountingFacts
  <1>3. ASSUME NEW t \in Tasks, Caller(t) PROVE CallerInv'
    BY <1>1, <1>2, <1>3 DEF Caller, SubmitRefused, SubmitCounts, SubmitOffers, SubmitPolls,
                SubmitChecksAgain, SubmitOffersAgain, SubmitUnlocks, Drop
  <1>4. ASSUME NEW w \in Workers, Worker(w) PROVE CallerInv'
    BY <1>1, <1>4 DEF Worker, WorkerGets, WorkerCounts, WorkerFindsEmpty, WorkerChecksStopping,
                RunTask, HandInv, Holding
  <1>5. ASSUME NEW c \in Closers, Closer(c) PROVE CallerInv'
    BY <1>1, <1>2, <1>5 DEF Closer, CloseBegin, CloseStops, CloseJoins, CloseDrains, CloseReturns,
                Drop
  <1>6. CASE UNCHANGED vars
    BY <1>6 DEF vars
  <1>7. QED
    BY <1>3, <1>4, <1>5, <1>6 DEF Next

LEMMA OwedStep == ASSUME DispatcherInv, [Next]_vars PROVE OwedInv'
  <1> USE PythonAssumption DEF DispatcherInv, PCInv, StepInv, OwedInv, Threads, Goto, At, stopVars
  <1>1. ASSUME NEW x \in Threads, Counting(x) PROVE OwedInv'
    BY <1>1, CountingFacts
  <1>2. ASSUME NEW t \in Tasks, Caller(t) PROVE OwedInv'
    BY <1>1, <1>2 DEF Caller, SubmitRefused, SubmitCounts, SubmitOffers, SubmitPolls,
                SubmitChecksAgain, SubmitOffersAgain, SubmitUnlocks
  <1>3. ASSUME NEW w \in Workers, Worker(w) PROVE OwedInv'
    BY <1>3 DEF Worker, WorkerGets, WorkerCounts, WorkerFindsEmpty, WorkerChecksStopping, RunTask
  <1>4. ASSUME NEW c \in Closers, Closer(c) PROVE OwedInv'
    BY <1>1, <1>4 DEF Closer, CloseBegin, CloseStops, CloseJoins, CloseDrains, CloseReturns
  <1>5. CASE UNCHANGED vars
    BY <1>5 DEF vars
  <1>6. QED
    BY <1>2, <1>3, <1>4, <1>5 DEF Next

LEMMA HandStep == ASSUME DispatcherInv, [Next]_vars PROVE HandInv'
  <1> USE PythonAssumption DEF DispatcherInv, DataInv, PCInv, CallerInv, HandInv, Holding, Threads,
          Goto, At, Submitting
  <1>1. queue # <<>> => Head(queue) \in Tasks /\ fate[Head(queue)] = "queued"
    BY RestOfQueue
  <1>2. ASSUME NEW x \in Threads, Counting(x) PROVE HandInv'
    BY <1>2, CountingFacts
  <1>3. ASSUME NEW t \in Tasks, Caller(t), ~Counting(t) PROVE HandInv'
    <2>1. UNCHANGED current /\ \A w \in Workers : pc'[w] = pc[w]
      BY <1>3 DEF Caller, SubmitRefused, SubmitCounts, SubmitOffers, SubmitPolls,
                SubmitChecksAgain, SubmitOffersAgain, SubmitUnlocks
    <2>2. \A u \in Tasks : fate[u] = "running" => fate'[u] = "running"
      BY <1>1, <1>3 DEF Caller, SubmitRefused, SubmitCounts, SubmitOffers, SubmitPolls,
                SubmitChecksAgain, SubmitOffersAgain, SubmitUnlocks, Drop
    <2>3. QED
      BY <2>1, <2>2
  <1>4. ASSUME NEW w \in Workers, WorkerGets(w) PROVE HandInv'
    BY <1>1, <1>4 DEF WorkerGets
  <1>5. ASSUME NEW w \in Workers, WorkerFindsEmpty(w) \/ WorkerChecksStopping(w) \/ WorkerCounts(w)
        PROVE  HandInv'
    BY <1>5 DEF WorkerFindsEmpty, WorkerChecksStopping, WorkerCounts
  <1>6. ASSUME NEW w \in Workers, RunTask(w) PROVE HandInv'
    BY <1>6 DEF RunTask
  <1>7. ASSUME NEW c \in Closers, Closer(c), ~Counting(c) PROVE HandInv'
    <2>1. UNCHANGED current /\ \A w \in Workers : pc'[w] = pc[w]
      BY <1>7 DEF Closer, CloseBegin, CloseStops, CloseJoins, CloseDrains, CloseReturns
    <2>2. \A u \in Tasks : fate[u] = "running" => fate'[u] = "running"
      BY <1>1, <1>7 DEF Closer, CloseBegin, CloseStops, CloseJoins, CloseDrains, CloseReturns, Drop
    <2>3. QED
      BY <2>1, <2>2
  <1>8. CASE UNCHANGED vars
    BY <1>8 DEF vars
  <1>9. QED
    BY <1>2, <1>3, <1>4, <1>5, <1>6, <1>7, <1>8 DEF Next, Worker

\* Three ways to change the queue: nothing, a task at the end, the oldest one out.
LEMMA QueueStep == ASSUME DispatcherInv, [Next]_vars PROVE QueueInv'
  <1> USE PythonAssumption DEF DispatcherInv, DataInv
  <1>1. ASSUME UNCHANGED queue, \A t \in Tasks : fate'[t] = "queued" <=> fate[t] = "queued"
        PROVE  QueueInv'
    <2>1. \A i \in 1 .. Len(queue) : queue[i] \in Tasks
      OBVIOUS
    <2>2. QED
      BY <1>1, <2>1 DEF QueueInv
  <1>2. ASSUME NEW t \in Tasks, fate[t] = "submitted", queue' = Append(queue, t),
               fate' = [fate EXCEPT ![t] = "queued"]
        PROVE  QueueInv'
    BY <1>2 DEF QueueInv
  <1>3. ASSUME queue # <<>>, queue' = Tail(queue), NEW f \in Fates \ {"queued"},
               fate' = [fate EXCEPT ![Head(queue)] = f]
        PROVE  QueueInv'
    BY <1>3, RestOfQueue DEF QueueInv
  <1>4. "dropped" \in Fates \ {"queued"} /\ "abandoned" \in Fates \ {"queued"}
        /\ "running" \in Fates \ {"queued"}
    BY DEF Fates
  <1>5. ASSUME NEW t \in Tasks, SubmitRefused(t) \/ SubmitCounts(t) PROVE QueueInv'
    <2>1. fate[t] = "new" /\ UNCHANGED queue /\ \E f \in Fates \ {"queued"} : fate' = [fate EXCEPT ![t] = f]
      BY <1>5 DEF SubmitRefused, SubmitCounts, CallerInv, Fates
    <2>2. QED
      BY <1>1, <2>1
  <1>6. ASSUME NEW t \in Tasks, SubmitOffers(t) PROVE QueueInv'
    BY <1>1, <1>2, <1>6 DEF SubmitOffers, CallerInv, Submitting
  <1>7. ASSUME NEW t \in Tasks, SubmitPolls(t) PROVE QueueInv'
    BY <1>1, <1>3, <1>4, <1>7 DEF SubmitPolls, Drop
  <1>8. ASSUME NEW t \in Tasks, SubmitChecksAgain(t) PROVE QueueInv'
    BY <1>1, <1>8 DEF SubmitChecksAgain, At, Drop, CallerInv, Submitting
  <1>9. ASSUME NEW t \in Tasks, SubmitOffersAgain(t) PROVE QueueInv'
    BY <1>1, <1>2, <1>9 DEF SubmitOffersAgain, Drop, CallerInv, Submitting
  <1>10. ASSUME NEW w \in Workers, WorkerGets(w) PROVE QueueInv'
    BY <1>3, <1>4, <1>10 DEF WorkerGets
  <1>11. ASSUME NEW w \in Workers, WorkerFindsEmpty(w) \/ WorkerChecksStopping(w) PROVE QueueInv'
    BY <1>1, <1>11 DEF WorkerFindsEmpty, WorkerChecksStopping
  <1>12. ASSUME NEW w \in Workers, RunTask(w) PROVE QueueInv'
    BY <1>1, <1>12 DEF RunTask, HandInv, Holding
  <1>13. ASSUME NEW c \in Closers, CloseBegin(c) \/ CloseStops(c) \/ CloseJoins(c) \/ CloseReturns(c)
         PROVE  QueueInv'
    BY <1>1, <1>13 DEF CloseBegin, CloseStops, CloseJoins, CloseReturns
  <1>14. ASSUME NEW c \in Closers, CloseDrains(c) PROVE QueueInv'
    BY <1>1, <1>3, <1>4, <1>14 DEF CloseDrains, Drop
  <1>15. CASE UNCHANGED vars
    BY <1>1, <1>15 DEF vars
  <1>16. ASSUME NEW x \in Threads, Counting(x) PROVE QueueInv'
    BY <1>1, <1>16, CountingFacts
  <1>17. ASSUME NEW t \in Tasks, SubmitUnlocks(t) PROVE QueueInv'
    BY <1>1, <1>17 DEF SubmitUnlocks
  <1>18. ASSUME NEW w \in Workers, WorkerCounts(w) PROVE QueueInv'
    BY <1>1, <1>18 DEF WorkerCounts
  <1>19. QED
    BY <1>5, <1>6, <1>7, <1>8, <1>9, <1>10, <1>11, <1>12, <1>13, <1>14, <1>15, <1>16, <1>17, <1>18
       DEF Next, Caller, Worker, Closer, Threads

\* The claim moves the task and makes its thread a debtor of the counters; every update
\* of a counter settles one debt.
LEMMA CountStep == ASSUME DispatcherInv, [Next]_vars PROVE CountInv'
  <1> USE PythonAssumption DEF DispatcherInv, DataInv, PCInv, StepInv, Threads, Goto, At, countVars
  <1> DEFINE Live == {"submitted", "queued"}
             Over == {"dropped", "abandoned"}
             Still == \A w \in Workers : pc'[w] = "counting" <=> pc[w] = "counting"
  <1>1. ASSUME UNCHANGED countVars, Still,
               \A t \in Tasks : /\ fate'[t] \in Live <=> fate[t] \in Live
                                /\ fate'[t] \in Over <=> fate[t] \in Over
        PROVE  CountInv'
    <2>1. /\ Pending' = Pending /\ Dropped' = Dropped /\ ToDecrement' = ToDecrement
          /\ ToIncrement' = ToIncrement /\ ToRecord' = ToRecord
      BY <1>1 DEF Pending, Dropped, ToDecrement, ToIncrement, ToRecord
    <2>2. QED
      BY <1>1, <2>1 DEF CountInv
  <1>2. ASSUME NEW x \in Tasks \cup Closers, NEW t \in Tasks, NEW how \in Over, step[x] = "none",
               fate[t] \in Live, Drop(x, t, how), Still
        PROVE  CountInv'
    <2>1. /\ fate' = [fate EXCEPT ![t] = how] /\ step' = [step EXCEPT ![x] = "decrement"]
          /\ UNCHANGED <<queued, dropped, interval, logged>>
      BY <1>2, DropFacts
    <2>2. Pending' = Pending \ {t} /\ t \in Pending /\ Dropped' = Dropped \cup {t} /\ t \notin Dropped
      BY <1>2, <2>1 DEF Pending, Dropped
    <2>3. Cardinality(Pending') = Cardinality(Pending) - 1
      BY <2>2, Finite, FS_RemoveElement
    <2>4. Cardinality(Dropped') = Cardinality(Dropped) + 1
      BY <2>2, Finite, FS_AddElement
    <2>5. /\ ToDecrement' = ToDecrement \cup {x} /\ x \notin ToDecrement
          /\ ToIncrement' = ToIncrement \cup {x} /\ x \notin ToIncrement
          /\ ToRecord' = ToRecord \cup {x} /\ x \notin ToRecord
      BY <1>2, <2>1, Owing DEF Steps
    <2>6. /\ Cardinality(ToDecrement') = Cardinality(ToDecrement) + 1
          /\ Cardinality(ToIncrement') = Cardinality(ToIncrement) + 1
          /\ Cardinality(ToRecord') = Cardinality(ToRecord) + 1
      BY <2>5, Finite, FS_AddElement
    <2>7. dropped \in Nat /\ interval \in Nat /\ logged \in Nat /\ CountInv
      OBVIOUS
    <2> HIDE DEF DispatcherInv, DataInv, PCInv
    <2>8. QED
      BY <2>1, <2>3, <2>4, <2>6, <2>7, Finite DEF CountInv
  <1>3. queue # <<>> => Head(queue) \in Tasks /\ fate[Head(queue)] = "queued"
    BY RestOfQueue
  <1>4. ASSUME NEW t \in Tasks, SubmitRefused(t) PROVE CountInv'
    BY <1>1, <1>4 DEF SubmitRefused, CallerInv
  <1>5. ASSUME NEW t \in Tasks, SubmitCounts(t) PROVE CountInv'
    <2>1. /\ fate[t] = "new" /\ fate' = [fate EXCEPT ![t] = "submitted"] /\ queued' = queued + 1
          /\ UNCHANGED <<dropped, interval, step, logged>> /\ \A w \in Workers : pc'[w] = pc[w]
      BY <1>5 DEF SubmitCounts, CallerInv
    <2>2. Pending' = Pending \cup {t} /\ t \notin Pending /\ Dropped' = Dropped
      BY <2>1 DEF Pending, Dropped
    <2>3. Cardinality(Pending') = Cardinality(Pending) + 1
      BY <2>2, Finite, FS_AddElement
    <2>4. ToDecrement' = ToDecrement /\ ToIncrement' = ToIncrement /\ ToRecord' = ToRecord
      BY <2>1 DEF ToDecrement, ToIncrement, ToRecord
    <2>5. QED
      BY <2>1, <2>2, <2>3, <2>4, Finite DEF CountInv
  <1>6. ASSUME NEW t \in Tasks, SubmitOffers(t) PROVE CountInv'
    BY <1>1, <1>6 DEF SubmitOffers, CallerInv, Submitting
  <1>7. ASSUME NEW t \in Tasks, SubmitPolls(t) PROVE CountInv'
    <2>1. Still /\ step[t] = "none"
      BY <1>7 DEF SubmitPolls
    <2>2. QED
      BY <1>1, <1>2, <1>3, <1>7, <2>1 DEF SubmitPolls
  <1>8. ASSUME NEW t \in Tasks, SubmitChecksAgain(t) PROVE CountInv'
    <2>1. Still /\ step[t] = "none" /\ fate[t] = "submitted"
      BY <1>8 DEF SubmitChecksAgain, CallerInv, Submitting
    <2>2. QED
      BY <1>1, <1>2, <1>8, <2>1 DEF SubmitChecksAgain
  <1>9. ASSUME NEW t \in Tasks, SubmitOffersAgain(t) PROVE CountInv'
    <2>1. Still /\ step[t] = "none" /\ fate[t] = "submitted"
      BY <1>9 DEF SubmitOffersAgain, CallerInv, Submitting
    <2>2. QED
      BY <1>1, <1>2, <1>9, <2>1 DEF SubmitOffersAgain
  <1>10. ASSUME NEW w \in Workers, WorkerGets(w) PROVE CountInv'
    <2>1. /\ Head(queue) \in Tasks /\ fate[Head(queue)] = "queued" /\ pc[w] = "get"
          /\ pc' = [pc EXCEPT ![w] = "counting"] /\ fate' = [fate EXCEPT ![Head(queue)] = "running"]
          /\ UNCHANGED <<queued, dropped, interval, step, logged>>
      BY <1>3, <1>10 DEF WorkerGets
    <2>2. Pending' = Pending \ {Head(queue)} /\ Head(queue) \in Pending /\ Dropped' = Dropped
      BY <2>1 DEF Pending, Dropped
    <2>3. Cardinality(Pending') = Cardinality(Pending) - 1
      BY <2>2, Finite, FS_RemoveElement
    <2>4. /\ ToDecrement' = ToDecrement \cup {w} /\ w \notin ToDecrement
          /\ ToIncrement' = ToIncrement /\ ToRecord' = ToRecord
      BY <2>1 DEF ToDecrement, ToIncrement, ToRecord
    <2>5. Cardinality(ToDecrement') = Cardinality(ToDecrement) + 1
      BY <2>4, Finite, FS_AddElement
    <2>6. QED
      BY <2>1, <2>2, <2>3, <2>4, <2>5, Finite DEF CountInv
  <1>11. ASSUME NEW w \in Workers, WorkerCounts(w) PROVE CountInv'
    <2>1. /\ pc[w] = "counting" /\ pc' = [pc EXCEPT ![w] = "running"] /\ queued' = queued - 1
          /\ UNCHANGED <<fate, dropped, interval, step, logged>>
      BY <1>11 DEF WorkerCounts
    <2>2. /\ Pending' = Pending /\ Dropped' = Dropped
          /\ ToDecrement' = ToDecrement \ {w} /\ w \in ToDecrement
          /\ ToIncrement' = ToIncrement /\ ToRecord' = ToRecord
      BY <2>1 DEF Pending, Dropped, ToDecrement, ToIncrement, ToRecord
    <2>3. Cardinality(ToDecrement') = Cardinality(ToDecrement) - 1
      BY <2>2, Finite, FS_RemoveElement
    <2>4. QED
      BY <2>1, <2>2, <2>3, Finite DEF CountInv
  <1>12. ASSUME NEW w \in Workers, WorkerFindsEmpty(w) \/ WorkerChecksStopping(w) PROVE CountInv'
    BY <1>1, <1>12 DEF WorkerFindsEmpty, WorkerChecksStopping
  <1>13. ASSUME NEW w \in Workers, RunTask(w) PROVE CountInv'
    BY <1>1, <1>13 DEF RunTask, HandInv, Holding
  <1>14. ASSUME NEW c \in Closers, CloseBegin(c) \/ CloseStops(c) \/ CloseJoins(c) \/ CloseReturns(c)
         PROVE  CountInv'
    BY <1>1, <1>14 DEF CloseBegin, CloseStops, CloseJoins, CloseReturns
  <1>15. ASSUME NEW c \in Closers, CloseDrains(c) PROVE CountInv'
    <2>1. Still /\ step[c] = "none"
      BY <1>15 DEF CloseDrains
    <2>2. QED
      BY <1>1, <1>2, <1>3, <1>15, <2>1 DEF CloseDrains
  <1>16. ASSUME NEW t \in Tasks, SubmitUnlocks(t) PROVE CountInv'
    BY <1>1, <1>16 DEF SubmitUnlocks
  <1>17. ASSUME NEW x \in Threads, Counting(x) PROVE CountInv'
    <2>1. UNCHANGED <<pc, fate>> /\ step[x] # "none"
      BY <1>17, CountingFacts
    <2>2. Pending' = Pending /\ Dropped' = Dropped /\ x \in Threads \ Workers
      BY <2>1 DEF Pending, Dropped
    <2>3. CASE DecrementQueued(x)
      <3>1. step[x] = "decrement" /\ step' = [step EXCEPT ![x] = "increment"]
            /\ queued' = queued - 1 /\ UNCHANGED <<dropped, interval, logged>>
        BY <2>3 DEF DecrementQueued, StepTo
      <3>2. /\ x \in ToDecrement /\ ToDecrement' = ToDecrement \ {x}
            /\ x \in ToIncrement /\ ToIncrement' = ToIncrement \cup {x}
            /\ x \in ToRecord /\ ToRecord' = ToRecord \cup {x}
        BY <2>1, <2>2, <3>1, Owing DEF Steps
      <3>3. ToIncrement' = ToIncrement /\ ToRecord' = ToRecord
        BY <3>2
      <3>4. Cardinality(ToDecrement') = Cardinality(ToDecrement) - 1
        BY <3>2, Finite, FS_RemoveElement
      <3>5. QED
        BY <2>2, <3>1, <3>3, <3>4, Finite DEF CountInv
    <2>4. CASE IncrementDropped(x)
      <3>1. step[x] = "increment" /\ step' = [step EXCEPT ![x] = "record"]
            /\ dropped' = dropped + 1 /\ UNCHANGED <<queued, interval, logged>>
        BY <2>4 DEF IncrementDropped, StepTo
      <3>2. /\ x \notin ToDecrement /\ ToDecrement' = ToDecrement \ {x}
            /\ x \in ToIncrement /\ ToIncrement' = ToIncrement \ {x}
            /\ x \in ToRecord /\ ToRecord' = ToRecord \cup {x}
        BY <2>1, <2>2, <3>1, Owing DEF Steps
      <3>3. ToDecrement' = ToDecrement /\ ToRecord' = ToRecord
        BY <3>2
      <3>4. Cardinality(ToIncrement') = Cardinality(ToIncrement) - 1
        BY <3>2, Finite, FS_RemoveElement
      <3>5. QED
        BY <2>2, <3>1, <3>3, <3>4, Finite DEF CountInv
    <2>5. CASE RecordDrop(x)
      <3>1. step[x] = "record" /\ step' = [step EXCEPT ![x] = "none"]
            /\ interval' + logged' = interval + logged + 1 /\ UNCHANGED <<queued, dropped>>
        BY <2>5 DEF RecordDrop, StepTo
      <3>2. /\ x \notin ToDecrement /\ ToDecrement' = ToDecrement \ {x}
            /\ x \notin ToIncrement /\ ToIncrement' = ToIncrement \ {x}
            /\ x \in ToRecord /\ ToRecord' = ToRecord \ {x}
        BY <2>1, <2>2, <3>1, Owing DEF Steps
      <3>3. ToDecrement' = ToDecrement /\ ToIncrement' = ToIncrement
        BY <3>2
      <3>4. Cardinality(ToRecord') = Cardinality(ToRecord) - 1
        BY <3>2, Finite, FS_RemoveElement
      <3>5. interval \in Nat /\ logged \in Nat /\ interval' + logged' = interval + logged + 1
        BY <3>1
      <3>6. QED
        BY <2>2, <3>1, <3>3, <3>4, <3>5, Finite DEF CountInv
    <2>6. QED
      BY <1>17, <2>3, <2>4, <2>5 DEF Counting
  <1>18. CASE UNCHANGED vars
    BY <1>1, <1>18 DEF vars
  <1>19. QED
    BY <1>4, <1>5, <1>6, <1>7, <1>8, <1>9, <1>10, <1>11, <1>12, <1>13, <1>14, <1>15, <1>16, <1>17,
       <1>18 DEF Next, Caller, Worker, Closer

LEMMA NextInv == ASSUME DispatcherInv, [Next]_vars PROVE DispatcherInv'
  BY DataStep, PCStep, StepStep, CallerStep, QueueStep, HandStep, CountStep, OwedStep DEF DispatcherInv

\* The invariant of the Python dispatcher.
THEOREM Invariance == Spec => []DispatcherInv
  <1>1. Init => DispatcherInv
    BY InitInv
  <1>2. DispatcherInv /\ [Next]_vars => DispatcherInv'
    BY NextInv
  <1>3. QED
    BY <1>1, <1>2, PTL DEF Spec

\* The queue depth and the drop counters lack exactly what the threads between the claim
\* of a task and its counters have yet to add, whichever of a worker, an evicting submit
\* and a draining close has got hold of it (dispatcher.py:53).
THEOREM MetricsAreExact == Spec => []MetricsExact
  <1>1. DispatcherInv => MetricsExact
    BY DEF DispatcherInv, CountInv, MetricsExact, Pending, Dropped
  <1>2. QED
    BY <1>1, Invariance, PTL

-----------------------------------------------------------------------------
(* The client *)

\* Only these actions of the client are steps of the dispatcher.
LEMMA DispatcherStep == ASSUME [ClientNext]_allVars PROVE [Next]_vars
  <1>1. ASSUME NEW p \in Posters, PostBegin(p) \/ PostReturns(p) PROVE UNCHANGED vars
    BY <1>1 DEF PostBegin, PostReturns
  <1>2. ASSUME NEW t \in Tasks, SubmitChecksLifecycle(t) PROVE UNCHANGED vars
    BY <1>2 DEF SubmitChecksLifecycle
  <1>3. ASSUME NEW t \in Tasks, AsyncCaller(t) PROVE Next
    BY <1>3 DEF AsyncCaller, Next
  <1>4. ASSUME NEW d \in Deliverers, Deliver(d) PROVE UNCHANGED vars
    BY <1>4 DEF Deliver, Execute, TakePooled, SendPooled, OpenConnection, ExchangeAnswered,
                ExchangeBreaks, BackoffElapses, BackoffInterrupted
  <1>5. ASSUME NEW w \in Workers, WorkerBegins(w) \/ WorkerEndsTask(w) \/ WorkerWaits(w) PROVE Next
    BY <1>5 DEF WorkerBegins, WorkerEndsTask, WorkerWaits, Worker, Next
  <1>6. ASSUME NEW c \in Closers, ClientCloseBegins(c) \/ LifecycleDrains(c) \/ HttpCloses(c)
        PROVE  UNCHANGED vars
    BY <1>6 DEF ClientCloseBegins, LifecycleDrains, HttpCloses
  <1>7. ASSUME NEW c \in Closers, DispatcherCloses(c) PROVE Next
    BY <1>7 DEF DispatcherCloses, Next
  <1>8. CASE UNCHANGED allVars
    BY <1>8 DEF allVars
  <1>9. QED
    BY <1>1, <1>2, <1>3, <1>4, <1>5, <1>6, <1>7, <1>8 DEF ClientNext

\* What the client does to the dispatcher is a behaviour of the dispatcher: post_async
\* and close reach it through submit and close alone (client.py).
THEOREM ClientImplementsDispatcher == ClientSpec => Spec
  <1>1. ClientInit => Init
    BY DEF ClientInit
  <1>2. [ClientNext]_allVars => [Next]_vars
    BY DispatcherStep
  <1>3. QED
    BY <1>1, <1>2, PTL DEF ClientSpec, Spec

\* The metrics are as exact under the client as they are alone (dispatcher.py:53).
THEOREM ClientKeepsMetrics == ClientSpec => []MetricsExact
  BY ClientImplementsDispatcher, MetricsAreExact, PTL

-----------------------------------------------------------------------------
(* The steps of the client's invariant *)

LEMMA ClientInitInv == ASSUME ClientInit PROVE ClientInv
  <1> USE PythonAssumption, PythonClientAssumption DEF ClientInit, Init
  <1>1. ClientType
    BY DEF ClientType, Calls, Legs
  <1>2. CloseInv
    BY DEF CloseInv, Closing, Requests, Threads
  <1>3. DrainedInv
    BY DEF DrainedInv, Threads
  <1>4. LifecycleInv
    <2>1. Posting = {}
      BY DEF Posting, Requests
    <2>2. QED
      BY <2>1, FS_EmptySet DEF LifecycleInv
  <1>5. LateInv
    BY DEF LateInv
  <1>6. QED
    BY <1>1, <1>2, <1>3, <1>4, <1>5 DEF ClientInv

\* What each step of a delivery may do to the leg, the count and the pool.
LEMMA DeliverFacts ==
  ASSUME ClientType, NEW d \in Deliverers, Deliver(d)
  PROVE  /\ \E l \in Legs \ {"idle"} : leg' = [leg EXCEPT ![d] = l]
         /\ late' = late \/ late' = [late EXCEPT ![d] = @ + 1]
         /\ UNCHANGED <<vars, call, lifecycleVars, httpClosed>>
  <1> DEFINE G == \E l \in Legs \ {"idle"} : leg' = [leg EXCEPT ![d] = l]
  <1>1. ASSUME Execute(d) PROVE G
    BY <1>1 DEF Execute, Leg, Legs
  <1>2. ASSUME TakePooled(d) PROVE G
    BY <1>2 DEF TakePooled, Leg, Legs
  <1>3. ASSUME SendPooled(d) \/ OpenConnection(d) PROVE G
    BY <1>3 DEF SendPooled, OpenConnection, Leg, Legs, Send
  <1>4. ASSUME NEW outcome \in {"delivered", "failed", "retryable"}, NEW reusable \in BOOLEAN,
               ExchangeAnswered(d, outcome, reusable)
        PROVE  G
    BY <1>4 DEF ExchangeAnswered, Leg, Legs
  <1>5. ASSUME ExchangeBreaks(d) PROVE G
    BY <1>5 DEF ExchangeBreaks, Leg, Legs
  <1>6. ASSUME BackoffElapses(d) \/ BackoffInterrupted(d) PROVE G
    BY <1>6 DEF BackoffElapses, BackoffInterrupted, Leg, Legs
  <1>7. G
    BY <1>1, <1>2, <1>3, <1>4, <1>5, <1>6 DEF Deliver
  <1>8. late' = late \/ late' = [late EXCEPT ![d] = @ + 1]
    BY DEF Deliver, Execute, TakePooled, SendPooled, OpenConnection, Send, ExchangeAnswered,
           ExchangeBreaks, BackoffElapses, BackoffInterrupted
  <1>9. UNCHANGED <<vars, call, lifecycleVars, httpClosed>>
    BY DEF Deliver, Execute, TakePooled, SendPooled, OpenConnection, ExchangeAnswered,
           ExchangeBreaks, BackoffElapses, BackoffInterrupted
  <1>10. QED
    BY <1>7, <1>8, <1>9

LEMMA ClientTypeStep == ASSUME ClientInv, [ClientNext]_allVars PROVE ClientType'
  <1> USE DEF ClientInv, ClientType
  <1>1. call' \in [Requests \cup Closers -> Calls]
    <2>1. ASSUME NEW p \in Posters, PostBegin(p) \/ PostReturns(p)
          PROVE  call' \in [Requests \cup Closers -> Calls]
      BY <2>1 DEF PostBegin, PostReturns, Step, Calls
    <2>2. ASSUME NEW t \in Tasks, SubmitChecksLifecycle(t) \/ AsyncCaller(t)
          PROVE  call' \in [Requests \cup Closers -> Calls]
      BY <2>2 DEF SubmitChecksLifecycle, AsyncCaller, Step, Calls
    <2>3. ASSUME NEW d \in Deliverers, Deliver(d) PROVE UNCHANGED call
      BY <2>3, DeliverFacts
    <2>4. ASSUME NEW w \in Workers, WorkerBegins(w) \/ WorkerEndsTask(w) \/ WorkerWaits(w)
          PROVE  UNCHANGED call
      BY <2>4 DEF WorkerBegins, WorkerEndsTask, WorkerWaits
    <2>5. ASSUME NEW c \in Closers, ClientCloseBegins(c) \/ LifecycleDrains(c) \/ DispatcherCloses(c)
                                      \/ HttpCloses(c)
          PROVE  call' \in [Requests \cup Closers -> Calls]
      BY <2>5 DEF ClientCloseBegins, LifecycleDrains, DispatcherCloses, HttpCloses, Step, Calls
    <2>6. CASE UNCHANGED allVars
      BY <2>6 DEF allVars
    <2>7. QED
      BY <2>1, <2>2, <2>3, <2>4, <2>5, <2>6 DEF ClientNext
  <1>2. leg' \in [Deliverers -> Legs] /\ late' \in [Deliverers -> Nat]
    <2> USE DEF Deliverers, deliveryVars
    <2>1. ASSUME NEW p \in Posters, PostBegin(p) \/ PostReturns(p)
          PROVE  leg' \in [Deliverers -> Legs] /\ UNCHANGED late
      BY <2>1 DEF PostBegin, PostReturns, Legs
    <2>2. ASSUME NEW t \in Tasks, SubmitChecksLifecycle(t) \/ AsyncCaller(t)
          PROVE  UNCHANGED <<leg, late>>
      BY <2>2 DEF SubmitChecksLifecycle, AsyncCaller
    <2>3. ASSUME NEW d \in Deliverers, Deliver(d)
          PROVE  leg' \in [Deliverers -> Legs] /\ late' \in [Deliverers -> Nat]
      <3>1. PICK l \in Legs : leg' = [leg EXCEPT ![d] = l]
        BY <2>3, DeliverFacts
      <3>2. leg' \in [Deliverers -> Legs]
        BY <3>1
      <3>3. late' = late \/ late' = [late EXCEPT ![d] = @ + 1]
        BY <2>3, DeliverFacts
      <3>4. late' \in [Deliverers -> Nat]
        BY <3>3
      <3>5. QED
        BY <3>2, <3>4
    <2>4. ASSUME NEW w \in Workers, WorkerBegins(w) \/ WorkerEndsTask(w) \/ WorkerWaits(w)
          PROVE  leg' \in [Deliverers -> Legs] /\ UNCHANGED late
      BY <2>4 DEF WorkerBegins, WorkerEndsTask, WorkerWaits, Leg, Legs
    <2>5. ASSUME NEW c \in Closers, ClientCloseBegins(c) \/ LifecycleDrains(c) \/ DispatcherCloses(c)
                                      \/ HttpCloses(c)
          PROVE  UNCHANGED <<leg, late>>
      BY <2>5 DEF ClientCloseBegins, LifecycleDrains, DispatcherCloses, HttpCloses
    <2>6. CASE UNCHANGED allVars
      BY <2>6 DEF allVars
    <2>7. QED
      BY <2>1, <2>2, <2>3, <2>4, <2>5, <2>6 DEF ClientNext
  <1>3. active' \in Int
    <2> USE DEF lifecycleVars
    <2>1. ASSUME NEW p \in Posters, PostBegin(p) \/ PostReturns(p) PROVE active' \in Int
      BY <2>1 DEF PostBegin, PostReturns
    <2>2. ASSUME NEW t \in Tasks, SubmitChecksLifecycle(t) \/ AsyncCaller(t) PROVE UNCHANGED active
      BY <2>2 DEF SubmitChecksLifecycle, AsyncCaller
    <2>3. ASSUME NEW d \in Deliverers, Deliver(d) PROVE UNCHANGED active
      BY <2>3, DeliverFacts
    <2>4. ASSUME NEW w \in Workers, WorkerBegins(w) \/ WorkerEndsTask(w) \/ WorkerWaits(w)
          PROVE  UNCHANGED active
      BY <2>4 DEF WorkerBegins, WorkerEndsTask, WorkerWaits
    <2>5. ASSUME NEW c \in Closers, ClientCloseBegins(c) \/ LifecycleDrains(c) \/ DispatcherCloses(c)
                                      \/ HttpCloses(c)
          PROVE  UNCHANGED active
      BY <2>5 DEF ClientCloseBegins, LifecycleDrains, DispatcherCloses, HttpCloses
    <2>6. CASE UNCHANGED allVars
      BY <2>6 DEF allVars
    <2>7. QED
      BY <2>1, <2>2, <2>3, <2>4, <2>5, <2>6 DEF ClientNext
  <1>4. QED
    BY <1>1, <1>2, <1>3

\* Nobody but the close that got past the lifecycle touches what CloseInv speaks of.
LEMMA CloseStep == ASSUME DispatcherInv, ClientInv, [ClientNext]_allVars PROVE CloseInv'
  <1> USE PythonAssumption, PythonClientAssumption DEF ClientInv, DispatcherInv
  <1>1. ASSUME UNCHANGED <<clientClosed, closed, httpClosed>>,
               \A c \in Closers : pc'[c] = pc[c] /\ call'[c] = call[c]
        PROVE  CloseInv'
    BY <1>1 DEF CloseInv, Closing
  <1>2. ASSUME NEW p \in Posters, PostBegin(p) \/ PostReturns(p) PROVE CloseInv'
    <2>1. UNCHANGED <<clientClosed, closed, httpClosed, pc>>
      BY <1>2 DEF PostBegin, PostReturns, vars, stopVars, deliveryVars
    <2>2. \A c \in Closers : call'[c] = call[c]
      BY <1>2 DEF PostBegin, PostReturns, Step, ClientType, Threads
    <2>3. QED
      BY <1>1, <2>1, <2>2
  <1>3. ASSUME NEW t \in Tasks, SubmitChecksLifecycle(t) PROVE CloseInv'
    <2>1. UNCHANGED <<clientClosed, closed, httpClosed, pc>>
      BY <1>3 DEF SubmitChecksLifecycle, vars, stopVars, deliveryVars, lifecycleVars
    <2>2. \A c \in Closers : call'[c] = call[c]
      BY <1>3 DEF SubmitChecksLifecycle, Step, ClientType
    <2>3. QED
      BY <1>1, <2>1, <2>2
  <1>4. ASSUME NEW t \in Tasks, AsyncCaller(t) PROVE CloseInv'
    <2> USE DEF AsyncCaller, Caller, SubmitRefused, SubmitCounts, SubmitOffers, SubmitPolls,
                SubmitChecksAgain, SubmitOffersAgain, SubmitUnlocks
    <2>1. Counting(t) => UNCHANGED <<stopVars, pc>>
      BY CountingFacts DEF Threads
    <2>2. UNCHANGED <<clientClosed, closed, httpClosed, call>>
      BY <1>4, <2>1 DEF stopVars, deliveryVars, lifecycleVars
    <2>3. \A c \in Closers : pc'[c] = pc[c]
      BY <1>4, <2>1 DEF Goto, PCInv, Threads
    <2>4. QED
      BY <1>1, <2>2, <2>3
  <1>5. ASSUME NEW d \in Deliverers, Deliver(d) PROVE CloseInv'
    <2>1. UNCHANGED <<clientClosed, closed, httpClosed, pc, call>>
      BY <1>5, DeliverFacts DEF vars, stopVars, lifecycleVars
    <2>2. QED
      BY <1>1, <2>1
  <1>6. ASSUME NEW w \in Workers, WorkerBegins(w) \/ WorkerEndsTask(w) \/ WorkerWaits(w)
        PROVE  CloseInv'
    <2>1. UNCHANGED <<clientClosed, closed, httpClosed, call>>
      BY <1>6 DEF WorkerBegins, WorkerEndsTask, WorkerWaits, WorkerGets, WorkerCounts, RunTask,
                  WorkerFindsEmpty, WorkerChecksStopping, stopVars, deliveryVars, lifecycleVars
    <2>2. \A c \in Closers : pc'[c] = pc[c]
      BY <1>6 DEF WorkerBegins, WorkerEndsTask, WorkerWaits, WorkerGets, WorkerCounts, RunTask,
                  WorkerFindsEmpty, WorkerChecksStopping, Goto, PCInv, Threads
    <2>3. QED
      BY <1>1, <2>1, <2>2
  <1>7. ASSUME NEW c \in Closers, ClientCloseBegins(c) PROVE CloseInv'
    <2>1. clientClosed' /\ UNCHANGED <<closed, httpClosed, pc>>
      BY <1>7 DEF ClientCloseBegins, vars, stopVars, deliveryVars
    <2>2. /\ call[c] = "idle"
          /\ call' = [call EXCEPT ![c] = IF clientClosed THEN "returned" ELSE "draining"]
      BY <1>7 DEF ClientCloseBegins, Step
    <2>3. QED
      BY <2>1, <2>2 DEF CloseInv, Closing, ClientType
  <1>8. ASSUME NEW c \in Closers, LifecycleDrains(c) PROVE CloseInv'
    <2>1. UNCHANGED <<clientClosed, closed, httpClosed, pc>>
      BY <1>8 DEF LifecycleDrains, vars, stopVars, deliveryVars
    <2>2. call[c] = "draining" /\ call' = [call EXCEPT ![c] = "dispatcher"]
      BY <1>8 DEF LifecycleDrains, Step
    <2>3. QED
      BY <2>1, <2>2 DEF CloseInv, Closing, ClientType
  <1>9. ASSUME NEW c \in Closers, DispatcherCloses(c) PROVE CloseInv'
    <2>1. call[c] = "dispatcher" /\ UNCHANGED <<clientClosed, httpClosed, call>>
      BY <1>9 DEF DispatcherCloses, deliveryVars, lifecycleVars
    <2>2. Counting(c) => UNCHANGED pc /\ pc[c] # "call"
      BY CountingFacts DEF Threads, StepInv
    <2>3. \A d \in Closers \ {c} : pc'[d] = pc[d]
      BY <1>9, <2>2 DEF DispatcherCloses, Closer, CloseBegin, CloseStops, CloseJoins, CloseDrains,
                  CloseReturns, Goto, At, PCInv, Threads
    <2>4. pc'[c] # "call"
      BY <1>9, <2>2 DEF DispatcherCloses, Closer, CloseBegin, CloseStops, CloseJoins, CloseDrains,
                  CloseReturns, Goto, At, PCInv, Threads
    <2>5. QED
      BY <2>1, <2>3, <2>4 DEF CloseInv, Closing
  <1>10. ASSUME NEW c \in Closers, HttpCloses(c) PROVE CloseInv'
    <2>1. httpClosed' /\ pc[c] = "returned" /\ UNCHANGED <<clientClosed, closed, pc>>
      BY <1>10 DEF HttpCloses, vars, stopVars, lifecycleVars
    <2>2. call[c] = "dispatcher" /\ call' = [call EXCEPT ![c] = "returned"]
      BY <1>10 DEF HttpCloses, Step
    <2>3. QED
      BY <2>1, <2>2 DEF CloseInv, Closing, ClientType
  <1>11. CASE UNCHANGED allVars
    BY <1>1, <1>11 DEF allVars, vars, stopVars, lifecycleVars, deliveryVars
  <1>12. QED
    BY <1>2, <1>3, <1>4, <1>5, <1>6, <1>7, <1>8, <1>9, <1>10, <1>11 DEF ClientNext

\* A task that close owes has been submitted, so it leaves the queue and never returns;
\* only the close that has stopped the dispatcher drains it.
LEMMA DrainedStep == ASSUME DispatcherInv, ClientInv, [ClientNext]_allVars PROVE DrainedInv'
  <1> USE PythonAssumption DEF DispatcherInv, ClientInv
  <1>1. ASSUME UNCHANGED owed,
               \A t \in owed : fate[t] # "queued" => fate'[t] # "queued",
               \A c \in Closers : pc'[c] \in {"forced_join", "returned"}
                                    => pc[c] \in {"forced_join", "returned"}
        PROVE  DrainedInv'
    BY <1>1 DEF DrainedInv
  <1>2. queue # <<>> => Head(queue) \in Tasks
    BY RestOfQueue
  <1>3. ASSUME NEW t \in Tasks, AsyncCaller(t) PROVE DrainedInv'
    <2> USE DEF AsyncCaller, Caller, SubmitRefused, SubmitCounts, SubmitOffers, SubmitPolls,
                SubmitChecksAgain, SubmitOffersAgain, SubmitUnlocks, At
    <2>1. Counting(t) => UNCHANGED <<stopVars, pc, fate>> /\ step[t] # "none"
      BY CountingFacts DEF Threads
    <2>2. UNCHANGED owed
      BY <1>3, <2>1 DEF stopVars
    <2>3. \A c \in Closers : pc'[c] = pc[c]
      BY <1>3, <2>1 DEF Goto, PCInv, Threads
    <2>4. \A u \in Tasks : fate'[u] = "queued" => fate[u] = "queued" \/ u = t
      BY <1>2, <1>3, <2>1 DEF Drop, DataInv
    <2>5. pc[t] # "returned"
      BY <1>3, <2>1 DEF StepInv, Threads
    <2>6. QED
      BY <1>1, <2>2, <2>3, <2>4, <2>5 DEF OwedInv
  <1>4. ASSUME NEW w \in Workers, WorkerBegins(w) \/ WorkerEndsTask(w) \/ WorkerWaits(w)
        PROVE  DrainedInv'
    <2> USE DEF WorkerBegins, WorkerEndsTask, WorkerWaits, WorkerGets, WorkerCounts, RunTask,
                WorkerFindsEmpty, WorkerChecksStopping
    <2>1. UNCHANGED owed
      BY <1>4 DEF stopVars
    <2>2. \A c \in Closers : pc'[c] = pc[c]
      BY <1>4 DEF Goto, PCInv, Threads
    <2>3. \A u \in Tasks : fate'[u] = "queued" => fate[u] = "queued"
      BY <1>2, <1>4 DEF DataInv
    <2>4. QED
      BY <1>1, <2>1, <2>2, <2>3 DEF OwedInv
  <1>5. ASSUME NEW c \in Closers, DispatcherCloses(c) PROVE DrainedInv'
    <2>1. call[c] = "dispatcher" /\ Closer(c) /\ ~httpClosed
      BY <1>5 DEF DispatcherCloses, CloseInv, Closing
    <2>2. \A d \in Closers : pc[d] # "call" => d = c
      BY <2>1 DEF CloseInv, Closing
    <2>3. CASE CloseBegin(c)
      <3>1. ~closed
        BY <2>2, <2>3 DEF CloseBegin, CloseInv
      <3>2. QED
        BY <1>1, <2>3, <3>1 DEF CloseBegin, Goto, PCInv, Threads
    <2>4. CASE CloseStops(c)
      <3>1. \A d \in Closers : pc'[d] \notin {"forced_join", "returned"}
        BY <2>2, <2>4 DEF CloseStops, Goto, PCInv, Threads
      <3>2. QED
        BY <3>1 DEF DrainedInv
    <2>5. CASE CloseJoins(c)
      BY <1>1, <2>5 DEF CloseJoins, Goto, PCInv, Threads
    <2>6. CASE CloseDrains(c)
      <3>1. CASE queue # <<>>
        <4>1. UNCHANGED <<pc, owed>> /\ fate' = [fate EXCEPT ![Head(queue)] = "abandoned"]
          BY <2>6, <3>1 DEF CloseDrains, Drop, stopVars
        <4>2. \A u \in Tasks : fate'[u] = "queued" => fate[u] = "queued"
          BY <1>2, <3>1, <4>1 DEF DataInv
        <4>3. QED
          BY <1>1, <4>1, <4>2 DEF OwedInv
      <3>2. CASE queue = <<>>
        <4>1. UNCHANGED <<owed, fate>>
          BY <2>6, <3>2 DEF CloseDrains, stopVars
        <4>2. \A u \in Tasks : fate[u] # "queued"
          BY <3>2 DEF QueueInv
        <4>3. QED
          BY <4>1, <4>2 DEF DrainedInv, OwedInv
      <3>3. QED
        BY <3>1, <3>2
    <2>7. CASE CloseReturns(c)
      BY <1>1, <2>7 DEF CloseReturns, Goto, PCInv, Threads, stopVars
    <2>8. CASE Counting(c)
      BY <1>1, <2>8, CountingFacts DEF stopVars, Threads
    <2>9. QED
      BY <2>1, <2>3, <2>4, <2>5, <2>6, <2>7, <2>8 DEF Closer
  <1>6. CASE UNCHANGED vars
    BY <1>1, <1>6 DEF vars, stopVars
  <1>7. ASSUME NEW p \in Posters, PostBegin(p) \/ PostReturns(p) PROVE UNCHANGED vars
    BY <1>7 DEF PostBegin, PostReturns
  <1>8. ASSUME NEW t \in Tasks, SubmitChecksLifecycle(t) PROVE UNCHANGED vars
    BY <1>8 DEF SubmitChecksLifecycle
  <1>9. ASSUME NEW d \in Deliverers, Deliver(d) PROVE UNCHANGED vars
    BY <1>9, DeliverFacts
  <1>10. ASSUME NEW c \in Closers, ClientCloseBegins(c) \/ LifecycleDrains(c) \/ HttpCloses(c)
         PROVE  UNCHANGED vars
    BY <1>10 DEF ClientCloseBegins, LifecycleDrains, HttpCloses
  <1>11. CASE UNCHANGED allVars
    BY <1>6, <1>11 DEF allVars
  <1>12. QED
    BY <1>3, <1>4, <1>5, <1>6, <1>7, <1>8, <1>9, <1>10, <1>11 DEF ClientNext

\* The lifecycle admits no post once it is closed, and counts every one before that.
LEMMA LifecycleStep == ASSUME ClientInv, [ClientNext]_allVars PROVE LifecycleInv'
  <1> USE PythonAssumption, PythonClientAssumption DEF ClientInv
  <1>1. IsFiniteSet(Posting) /\ Cardinality(Posting) \in Nat
    BY FS_Subset, FS_CardinalityType DEF Posting
  <1>2. ASSUME UNCHANGED <<active, drainExpired, httpClosed>>,
               \A x \in Posters \cup Closers : call'[x] = call[x]
        PROVE  LifecycleInv'
    <2>1. Posting' = Posting
      BY <1>2 DEF Posting
    <2>2. QED
      BY <1>2, <2>1 DEF LifecycleInv
  <1>3. ASSUME NEW p \in Posters, PostBegin(p) PROVE LifecycleInv'
    <2>1. call[p] = "idle" /\ UNCHANGED <<clientClosed, drainExpired, httpClosed>>
      BY <1>3 DEF PostBegin
    <2>2. CASE clientClosed
      <3>1. call' = [call EXCEPT ![p] = "refused"] /\ UNCHANGED active
        BY <1>3, <2>2 DEF PostBegin, Step
      <3>2. \A c \in Closers : call'[c] = call[c]
        BY <3>1 DEF ClientType, Threads
      <3>3. Posting' = Posting
        BY <2>1, <3>1 DEF Posting, ClientType, Requests
      <3>4. QED
        BY <2>1, <3>1, <3>2, <3>3 DEF LifecycleInv
    <2>3. CASE ~clientClosed
      <3>1. call' = [call EXCEPT ![p] = "posting"] /\ active' = active + 1
        BY <1>3, <2>3 DEF PostBegin, Step
      <3>2. \A c \in Closers : call'[c] = call[c]
        BY <3>1 DEF ClientType, Threads
      <3>3. Posting' = Posting \cup {p} /\ p \notin Posting
        BY <2>1, <3>1 DEF Posting, ClientType, Requests
      <3>4. Cardinality(Posting') = Cardinality(Posting) + 1
        BY <1>1, <3>3, FS_AddElement
      <3>5. ~httpClosed' /\ \A c \in Closers : call'[c] # "dispatcher"
        BY <2>1, <2>3, <3>2 DEF CloseInv, Closing
      <3>6. QED
        BY <3>1, <3>4, <3>5 DEF LifecycleInv
    <2>4. QED
      BY <2>2, <2>3
  <1>4. ASSUME NEW p \in Posters, PostReturns(p) PROVE LifecycleInv'
    <2>1. /\ call[p] = "posting" /\ call' = [call EXCEPT ![p] = "returned"] /\ active' = active - 1
          /\ UNCHANGED <<drainExpired, httpClosed>>
      BY <1>4 DEF PostReturns, Step, deliveryVars
    <2>2. \A c \in Closers : call'[c] = call[c]
      BY <2>1 DEF ClientType, Threads
    <2>3. Posting' = Posting \ {p} /\ p \in Posting
      BY <2>1 DEF Posting, ClientType, Requests
    <2>4. Cardinality(Posting') = Cardinality(Posting) - 1
      BY <1>1, <2>3, FS_RemoveElement
    <2>5. QED
      BY <2>1, <2>2, <2>3, <2>4 DEF LifecycleInv
  <1>5. ASSUME NEW t \in Tasks, SubmitChecksLifecycle(t) \/ AsyncCaller(t) PROVE LifecycleInv'
    <2>1. UNCHANGED <<active, drainExpired, httpClosed>>
      BY <1>5 DEF SubmitChecksLifecycle, AsyncCaller, lifecycleVars, deliveryVars
    <2>2. \A x \in Posters \cup Closers : call'[x] = call[x]
      <3>1. t \notin Posters \cup Closers
        BY DEF Threads
      <3>2. UNCHANGED call \/ \E l \in Calls : call' = [call EXCEPT ![t] = l]
        BY <1>5 DEF SubmitChecksLifecycle, AsyncCaller, Step, Calls
      <3>3. QED
        BY <3>1, <3>2 DEF ClientType, Requests
    <2>3. QED
      BY <1>2, <2>1, <2>2
  <1>6. ASSUME NEW d \in Deliverers, Deliver(d) PROVE LifecycleInv'
    BY <1>2, <1>6, DeliverFacts DEF lifecycleVars
  <1>7. ASSUME NEW w \in Workers, WorkerBegins(w) \/ WorkerEndsTask(w) \/ WorkerWaits(w)
        PROVE  LifecycleInv'
    BY <1>2, <1>7 DEF WorkerBegins, WorkerEndsTask, WorkerWaits, lifecycleVars, deliveryVars
  <1>8. ASSUME NEW c \in Closers, ClientCloseBegins(c) PROVE LifecycleInv'
    <2>1. UNCHANGED <<active, drainExpired, httpClosed>>
      BY <1>8 DEF ClientCloseBegins, deliveryVars
    <2>2. \A p \in Posters : call'[p] = call[p]
      BY <1>8 DEF ClientCloseBegins, Step, ClientType, Threads
    <2>3. \A d \in Closers : call'[d] = "dispatcher" => call[d] = "dispatcher"
      BY <1>8 DEF ClientCloseBegins, Step, ClientType
    <2>4. Posting' = Posting
      BY <2>2 DEF Posting
    <2>5. QED
      BY <2>1, <2>3, <2>4 DEF LifecycleInv
  <1>9. ASSUME NEW c \in Closers, LifecycleDrains(c) PROVE LifecycleInv'
    <2>1. UNCHANGED <<active, httpClosed>> /\ drainExpired' = (active > 0)
      BY <1>9 DEF LifecycleDrains, deliveryVars
    <2>2. \A p \in Posters : call'[p] = call[p]
      BY <1>9 DEF LifecycleDrains, Step, ClientType, Threads
    <2>3. Posting' = Posting
      BY <2>2 DEF Posting
    <2>4. ~drainExpired' => Cardinality(Posting) = 0
      <3>1. ~drainExpired' => ~(active > 0)
        BY <2>1, Zenon
      <3>2. ~(active > 0) => Cardinality(Posting) = 0
        BY <1>1 DEF LifecycleInv
      <3>3. QED
        BY <3>1, <3>2
    <2>5. ~drainExpired' => Posting = {}
      BY <1>1, <2>4, FS_EmptySet
    <2>6. QED
      BY <2>1, <2>3, <2>5 DEF LifecycleInv
  <1>10. ASSUME NEW c \in Closers, DispatcherCloses(c) PROVE LifecycleInv'
    BY <1>2, <1>10 DEF DispatcherCloses, lifecycleVars, deliveryVars
  <1>11. ASSUME NEW c \in Closers, HttpCloses(c) PROVE LifecycleInv'
    <2>1. call[c] = "dispatcher" /\ UNCHANGED <<active, drainExpired>>
      BY <1>11 DEF HttpCloses, lifecycleVars
    <2>2. \A p \in Posters : call'[p] = call[p]
      BY <1>11 DEF HttpCloses, Step, ClientType, Threads
    <2>3. Posting' = Posting
      BY <2>2 DEF Posting
    <2>4. QED
      BY <2>1, <2>3 DEF LifecycleInv
  <1>12. CASE UNCHANGED allVars
    BY <1>2, <1>12 DEF allVars, lifecycleVars, deliveryVars
  <1>13. QED
    BY <1>3, <1>4, <1>5, <1>6, <1>7, <1>8, <1>9, <1>10, <1>11, <1>12 DEF ClientNext

\* A request is sent from "reuse" or from "open".  After the executor has been closed an
\* attempt gets to the first once at most, and from there to the second once at most.
LEMMA LateStep == ASSUME ClientInv, [ClientNext]_allVars PROVE LateInv'
  <1> USE PythonClientAssumption DEF ClientInv, ClientType, Leg
  <1>1. ASSUME UNCHANGED httpClosed, UNCHANGED late, NEW d \in Deliverers, NEW l,
               leg' = [leg EXCEPT ![d] = l],
               l \in {"take", "reuse"} => ~httpClosed \/ leg[d] \in {"take", "reuse"},
               l \in {"open", "pooled"} => leg[d] \in {"take", "reuse", "pooled"}
        PROVE  LateInv'
    BY <1>1 DEF LateInv
  <1>2. ASSUME UNCHANGED httpClosed, NEW d \in Deliverers, NEW l,
               \/ l = "pooled" /\ leg[d] = "reuse"
               \/ l = "fresh" /\ leg[d] = "open",
               Send(d, l)
        PROVE  LateInv'
    BY <1>2 DEF LateInv, Send
  <1>3. ASSUME UNCHANGED <<httpClosed, leg, late>> PROVE LateInv'
    BY <1>3 DEF LateInv
  <1>4. ASSUME NEW p \in Posters, PostBegin(p) \/ PostReturns(p) PROVE LateInv'
    BY <1>1, <1>3, <1>4 DEF PostBegin, PostReturns, Deliverers, deliveryVars
  <1>5. ASSUME NEW t \in Tasks, SubmitChecksLifecycle(t) \/ AsyncCaller(t) PROVE LateInv'
    BY <1>3, <1>5 DEF SubmitChecksLifecycle, AsyncCaller, deliveryVars
  <1>6. ASSUME NEW d \in Deliverers, Deliver(d) PROVE LateInv'
    <2>1. CASE Execute(d)
      BY <1>1, <2>1 DEF Execute
    <2>2. CASE TakePooled(d)
      BY <1>1, <2>2 DEF TakePooled
    <2>3. CASE SendPooled(d) \/ OpenConnection(d)
      BY <1>2, <2>3 DEF SendPooled, OpenConnection
    <2>4. ASSUME NEW outcome \in {"delivered", "failed", "retryable"}, NEW reusable \in BOOLEAN,
                 ExchangeAnswered(d, outcome, reusable)
          PROVE  LateInv'
      BY <1>1, <2>4 DEF ExchangeAnswered
    <2>5. CASE ExchangeBreaks(d)
      <3>1. PICK l : /\ leg' = [leg EXCEPT ![d] = l]
                     /\ l = IF leg[d] \in {"reuse", "pooled"} THEN "open"
                            ELSE IF Retries(d) THEN "backoff" ELSE "failed"
        BY <2>5 DEF ExchangeBreaks
      <3>2. /\ l = "open" => leg[d] \in {"reuse", "pooled"}
            /\ l \in {"open", "backoff", "failed"} /\ UNCHANGED <<httpClosed, late>>
        BY <2>5, <3>1 DEF ExchangeBreaks
      <3>3. QED
        BY <1>1, <3>1, <3>2
    <2>6. CASE BackoffElapses(d) \/ BackoffInterrupted(d)
      BY <1>1, <2>6 DEF BackoffElapses, BackoffInterrupted
    <2>7. QED
      BY <1>6, <2>1, <2>2, <2>3, <2>4, <2>5, <2>6 DEF Deliver
  <1>7. ASSUME NEW w \in Workers, WorkerBegins(w) \/ WorkerEndsTask(w) PROVE LateInv'
    BY <1>1, <1>7 DEF WorkerBegins, WorkerEndsTask, Deliverers
  <1>8. ASSUME NEW w \in Workers, WorkerWaits(w) PROVE LateInv'
    BY <1>3, <1>8 DEF WorkerWaits, deliveryVars
  <1>9. ASSUME NEW c \in Closers, ClientCloseBegins(c) \/ LifecycleDrains(c) \/ DispatcherCloses(c)
        PROVE  LateInv'
    BY <1>3, <1>9 DEF ClientCloseBegins, LifecycleDrains, DispatcherCloses, deliveryVars
  <1>10. ASSUME NEW c \in Closers, HttpCloses(c) PROVE LateInv'
    <2>1. httpClosed' /\ ~httpClosed /\ UNCHANGED <<leg, late>>
      BY <1>10 DEF HttpCloses, CloseInv, Closing
    <2>2. QED
      BY <2>1 DEF LateInv
  <1>11. CASE UNCHANGED allVars
    BY <1>3, <1>11 DEF allVars, deliveryVars
  <1>12. QED
    BY <1>4, <1>5, <1>6, <1>7, <1>8, <1>9, <1>10, <1>11 DEF ClientNext

\* The invariant of the client on top of the dispatcher's.
THEOREM ClientInvariance == ClientSpec => [](DispatcherInv /\ ClientInv)
  <1>1. ClientInit => ClientInv
    BY ClientInitInv
  <1>2. DispatcherInv /\ ClientInv /\ [ClientNext]_allVars => ClientInv'
    BY ClientTypeStep, CloseStep, DrainedStep, LifecycleStep, LateStep DEF ClientInv, DispatcherInv
  <1>3. ClientSpec => []DispatcherInv
    BY ClientImplementsDispatcher, Invariance, PTL
  <1>4. QED
    BY <1>1, <1>2, <1>3, PTL DEF ClientSpec

\* When close has closed the connections, nothing that had been accepted before it
\* began is still queued (dispatcher.py:139).
THEOREM NothingStaysQueued == ClientSpec => []AcceptedIsResolved
  <1>1. ClientInv => AcceptedIsResolved
    BY DEF ClientInv, CloseInv, DrainedInv, AcceptedIsResolved
  <1>2. QED
    BY <1>1, ClientInvariance, PTL

\* After close a deliverer sends at most the request it was about to send on a pooled
\* connection and the one that replaces it on a fresh connection (http_executor.py:64-76).
THEOREM TwoLateRequestsAtMost == ClientSpec => []AtMostTwoLateRequests
  <1>1. ClientInv => AtMostTwoLateRequests
    BY DEF ClientInv, LateInv, AtMostTwoLateRequests
  <1>2. QED
    BY <1>1, ClientInvariance, PTL

\* The connections are closed under no post that the lifecycle has seen off
\* (lifecycle.py:13-20).
THEOREM PostsKeepConnections == ClientSpec => []ConnectionsOutlivePosts
  <1>1. ClientInv => ConnectionsOutlivePosts
    BY DEF ClientInv, LifecycleInv, Posting, ConnectionsOutlivePosts
  <1>2. QED
    BY <1>1, ClientInvariance, PTL
=============================================================================
