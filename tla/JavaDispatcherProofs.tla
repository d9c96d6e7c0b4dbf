------------------------ MODULE JavaDispatcherProofs ------------------------
(***************************************************************************)
(* Proofs about the Java dispatcher, for any number of submits, pool       *)
(* threads and closing threads and any capacity.                           *)
(***************************************************************************)
EXTENDS JavaDispatcher, FiniteSetTheorems, TLAPS

-----------------------------------------------------------------------------
(* The inductive invariant *)

Fates == {"new", "refused", "submitted", "queued", "held", "done", "dropped", "abandoned"}
RunStates == {"RUNNING", "SHUTDOWN", "STOP", "TERMINATED"}
Steps == {"none", "decrement", "increment", "record", "summarise"}

\* Past the attempt to start a thread, before submit has returned.
Offering == {"offer", "recheck", "rejected", "poll", "second_check", "second_offer"}
Submitting == {"execute"} \cup (Offering \ {"recheck"})

DataInv ==
  /\ queue \in Seq(Tasks) /\ pending \in Seq(Tasks)
  /\ runState \in RunStates
  /\ current \in [Workers -> Tasks \cup {NoTask}]
  /\ queued \in Int /\ dropped \in Nat /\ interval \in Nat /\ logged \in Nat
  /\ claimed \subseteq Tasks
  /\ fate \in [Tasks -> Fates]
  /\ step \in [Threads -> Steps]
  /\ \A w \in Workers : step[w] = "none"

\* Each kind of thread moves through its own part of the program.
PCInv ==
  /\ pc \in [Threads -> {"call", "execute", "returned", "unborn", "starting", "counting", "take",
                         "running", "exited", "shutdown", "awaiting", "dropping"} \cup Offering]
  /\ \A t \in Tasks : pc[t] \in {"call", "execute", "returned"} \cup Offering
  /\ \A w \in Workers : pc[w] \in {"unborn", "starting", "counting", "take", "running", "exited"}
  /\ \A c \in Closers : pc[c] \in {"call", "shutdown", "awaiting", "dropping", "returned"}

\* A task is new until submit has counted it, and submitted until submit has placed it.
CallerInv ==
  \A t \in Tasks : /\ fate[t] = "new" <=> pc[t] = "call"
                   /\ fate[t] = "submitted" <=> pc[t] \in Submitting

\* The queued tasks are in the queue or in the list of shutdownNow, each once.
QueueInv ==
  /\ \A i \in 1 .. Len(queue) : fate[queue[i]] = "queued"
  /\ \A i \in 1 .. Len(pending) : fate[pending[i]] = "queued"
  /\ \A i, j \in 1 .. Len(queue) : queue[i] = queue[j] => i = j
  /\ \A i, j \in 1 .. Len(pending) : pending[i] = pending[j] => i = j
  /\ \A i \in 1 .. Len(queue), j \in 1 .. Len(pending) : queue[i] # pending[j]
  /\ \A t \in Tasks : fate[t] = "queued" =>
       \/ \E i \in 1 .. Len(queue) : queue[i] = t
       \/ \E i \in 1 .. Len(pending) : pending[i] = t

Holding(w) == pc[w] \in {"starting", "counting", "running"}

\* Every held task is in the hands of one thread of the pool.
HandInv ==
  /\ \A w \in Workers : Holding(w) => current[w] \in Tasks /\ fate[current[w]] = "held"
  /\ \A v, w \in Workers : Holding(v) /\ Holding(w) /\ current[v] = current[w] => v = w
  /\ \A t \in Tasks : fate[t] = "held" => \E w \in Workers : Holding(w) /\ current[w] = t

\* startedOrDropped is set by the one thread that starts the task or drops it.
ClaimInv ==
  /\ \A t \in claimed : fate[t] \in {"held", "done", "dropped", "abandoned"}
  /\ \A t \in Tasks : fate[t] \in {"done", "dropped", "abandoned"} => t \in claimed
  /\ \A w \in Workers : pc[w] \in {"counting", "running"} => current[w] \in claimed
  /\ \A w \in Workers : pc[w] = "starting" => current[w] \notin claimed

Waiting == {t \in Tasks : fate[t] \in {"submitted", "queued", "held"}} \ claimed
Dropped == {t \in Tasks : fate[t] \in {"dropped", "abandoned"}}

\* Every counter lacks what the threads on their way to it are about to add.
CountInv ==
  /\ queued = Cardinality(Waiting) + Cardinality(ToDecrement)
  /\ dropped + Cardinality(ToIncrement) = Cardinality(Dropped)
  /\ interval + logged + Cardinality(ToRecord) = Cardinality(Dropped)

\* While the pool runs none of its threads leaves, and it queues a task only when all of
\* them exist; the last one to leave a pool that is shut down terminates it.
PoolInv ==
  /\ runState = "RUNNING" => \A w \in Workers : pc[w] # "exited"
  /\ runState = "RUNNING" /\ (queue # <<>> \/ \E t \in Tasks : pc[t] \in Offering)
       => \A w \in Workers : pc[w] # "unborn"
  /\ runState \in {"SHUTDOWN", "STOP"} => LiveWorkers # {}
  /\ runState = "TERMINATED" => LiveWorkers = {}

ClosePast(c) == pc[c] \in {"shutdown", "awaiting", "dropping"}

\* One close shuts the pool down, and forces it if it must.
CloseInv ==
  /\ \A c, d \in Closers : ClosePast(c) /\ ClosePast(d) => c = d
  /\ ~closed => (\A c \in Closers : pc[c] = "call") /\ runState = "RUNNING"
  /\ \A c \in Closers : pc[c] = "shutdown" => runState = "RUNNING"
  /\ \A c \in Closers : pc[c] = "awaiting" => ~forced
  /\ \A c \in Closers : pc[c] = "dropping" => forced
  /\ forced => runState \in {"STOP", "TERMINATED"}
  /\ runState = "STOP" => forced
  /\ pending # <<>> => \E c \in Closers : pc[c] = "dropping"
  /\ \A t \in Tasks : fate[t] = "abandoned" => forced

\* What close owes has been submitted, and is not left in a pool that went by itself.
OwedInv ==
  /\ \A t \in owed : t \in Tasks /\ pc[t] = "returned"
                       /\ fate[t] \in {"queued", "held", "done", "dropped", "abandoned"}
  /\ runState = "TERMINATED" /\ ~forced => \A t \in owed : fate[t] # "queued"

DispatcherInv ==
  /\ DataInv /\ PCInv /\ CallerInv /\ QueueInv /\ HandInv /\ ClaimInv /\ CountInv
  /\ PoolInv /\ CloseInv /\ OwedInv

-----------------------------------------------------------------------------
(* Sequences, counting, drops *)

\* What is left of a non-empty sequence when its head is removed.
LEMMA TailFacts ==
  ASSUME NEW S, NEW q \in Seq(S), q # <<>>
  PROVE  /\ Len(q) \in Nat \ {0}
         /\ Head(q) = q[1] /\ Head(q) \in S
         /\ Tail(q) \in Seq(S)
         /\ Len(Tail(q)) = Len(q) - 1
         /\ \A i \in 1 .. (Len(q) - 1) : Tail(q)[i] = q[i + 1]
  OBVIOUS

\* A sequence without its k-th element.
LEMMA RemoveAtFacts ==
  ASSUME NEW S, NEW q \in Seq(S), NEW k \in 1 .. Len(q)
  PROVE  /\ RemoveAt(q, k) \in Seq(S)
         /\ Len(RemoveAt(q, k)) = Len(q) - 1
         /\ \A i \in 1 .. (Len(q) - 1) : RemoveAt(q, k)[i] = IF i < k THEN q[i] ELSE q[i + 1]
  <1>1. /\ SubSeq(q, 1, k - 1) \in Seq(S) /\ Len(SubSeq(q, 1, k - 1)) = k - 1
        /\ \A i \in 1 .. (k - 1) : SubSeq(q, 1, k - 1)[i] = q[i]
    OBVIOUS
  <1>2. /\ SubSeq(q, k + 1, Len(q)) \in Seq(S) /\ Len(SubSeq(q, k + 1, Len(q))) = Len(q) - k
        /\ \A i \in 1 .. (Len(q) - k) : SubSeq(q, k + 1, Len(q))[i] = q[k + i]
    OBVIOUS
  <1>3. PICK a \in Seq(S), b \in Seq(S) : a = SubSeq(q, 1, k - 1) /\ b = SubSeq(q, k + 1, Len(q))
    BY <1>1, <1>2
  <1>4. RemoveAt(q, k) = a \o b
    BY <1>3 DEF RemoveAt
  <1>5. /\ Len(a) = k - 1 /\ \A i \in 1 .. (k - 1) : a[i] = q[i]
        /\ Len(b) = Len(q) - k /\ \A i \in 1 .. (Len(q) - k) : b[i] = q[k + i]
    BY <1>1, <1>2, <1>3
  <1>6. /\ a \o b \in Seq(S) /\ Len(a \o b) = Len(q) - 1
        /\ \A i \in 1 .. (Len(q) - 1) : (a \o b)[i] = IF i < k THEN a[i] ELSE b[i - (k - 1)]
    <2>1. /\ a \o b \in Seq(S) /\ Len(a \o b) = Len(a) + Len(b)
          /\ \A i \in 1 .. (Len(a) + Len(b)) : (a \o b)[i] = IF i <= Len(a) THEN a[i] ELSE b[i - Len(a)]
      OBVIOUS
    <2>2. Len(q) \in Nat /\ Len(a) + Len(b) = Len(q) - 1 /\ \A i \in Nat : i <= Len(a) <=> i < k
      BY <1>5
    <2>3. QED
      BY <1>5, <2>1, <2>2
  <1>7. \A i \in 1 .. (Len(q) - 1) : (a \o b)[i] = IF i < k THEN q[i] ELSE q[i + 1]
    <2> TAKE i \in 1 .. (Len(q) - 1)
    <2>1. CASE i < k
      BY <1>5, <1>6, <2>1
    <2>2. CASE ~(i < k)
      <3>1. i - (k - 1) \in 1 .. (Len(q) - k) /\ k + (i - (k - 1)) = i + 1
        BY <2>2
      <3>2. QED
        BY <1>5, <1>6, <2>2, <3>1
    <2>3. QED
      BY <2>1, <2>2
  <1>8. QED
    BY <1>4, <1>6, <1>7

\* r is q without its k-th element, as a removal of the head or of a given task leaves it.
Without(q, r, k) ==
  /\ k \in 1 .. Len(q) /\ Len(r) = Len(q) - 1
  /\ \A i \in 1 .. (Len(q) - 1) : r[i] = IF i < k THEN q[i] ELSE q[i + 1]

LEMMA WithoutFacts ==
  ASSUME NEW S, NEW q \in Seq(S), NEW r \in Seq(S), NEW k, Without(q, r, k),
         \A i, j \in 1 .. Len(q) : q[i] = q[j] => i = j
  PROVE  /\ \A i, j \in 1 .. Len(r) : r[i] = r[j] => i = j
         /\ \A i \in 1 .. Len(r) : \E j \in 1 .. Len(q) : j # k /\ r[i] = q[j]
         /\ \A j \in 1 .. Len(q) : j # k => \E i \in 1 .. Len(r) : r[i] = q[j]
  <1>1. Len(q) \in Nat /\ k \in 1 .. Len(q) /\ Len(r) = Len(q) - 1
    BY DEF Without
  <1>2. ASSUME NEW i \in 1 .. Len(r), i < k PROVE r[i] = q[i] /\ i \in 1 .. Len(q)
    BY <1>1, <1>2 DEF Without
  <1>3. ASSUME NEW i \in 1 .. Len(r), ~(i < k) PROVE r[i] = q[i + 1] /\ i + 1 \in 1 .. Len(q)
    BY <1>1, <1>3 DEF Without
  <1>4. \A i, j \in 1 .. Len(r) : r[i] = r[j] => i = j
    <2> SUFFICES ASSUME NEW i \in 1 .. Len(r), NEW j \in 1 .. Len(r), r[i] = r[j] PROVE i = j
      OBVIOUS
    <2>1. CASE i < k /\ j < k
      BY <1>2, <2>1
    <2>2. CASE i < k /\ ~(j < k)
      BY <1>1, <1>2, <1>3, <2>2
    <2>3. CASE ~(i < k) /\ j < k
      BY <1>1, <1>2, <1>3, <2>3
    <2>4. CASE ~(i < k) /\ ~(j < k)
      <3>1. i + 1 = j + 1
        BY <1>3, <2>4
      <3>2. QED
        BY <1>1, <3>1
    <2>5. QED
      BY <2>1, <2>2, <2>3, <2>4
  <1>5. \A i \in 1 .. Len(r) : \E j \in 1 .. Len(q) : j # k /\ r[i] = q[j]
    <2> TAKE i \in 1 .. Len(r)
    <2>1. CASE i < k
      BY <1>1, <1>2, <2>1
    <2>2. CASE ~(i < k)
      <3>1. i + 1 # k
        BY <1>1, <2>2
      <3>2. QED
        BY <1>3, <2>2, <3>1
    <2>3. QED
      BY <2>1, <2>2
  <1>6. \A j \in 1 .. Len(q) : j # k => \E i \in 1 .. Len(r) : r[i] = q[j]
    <2> SUFFICES ASSUME NEW j \in 1 .. Len(q), j # k PROVE \E i \in 1 .. Len(r) : r[i] = q[j]
      OBVIOUS
    <2>1. CASE j < k
      <3>1. j \in 1 .. Len(r)
        BY <1>1, <2>1
      <3>2. QED
        BY <1>2, <2>1, <3>1
    <2>2. CASE ~(j < k)
      <3>1. j - 1 \in 1 .. Len(r) /\ ~(j - 1 < k) /\ (j - 1) + 1 = j
        BY <1>1, <2>2
      <3>2. QED
        BY <1>3, <3>1
    <2>3. QED
      BY <2>1, <2>2
  <1>7. QED
    BY <1>4, <1>5, <1>6

\* Taking the head is taking the first element.
LEMMA TailWithout ==
  ASSUME NEW S, NEW q \in Seq(S), q # <<>>
  PROVE  Without(q, Tail(q), 1) /\ Head(q) = q[1] /\ Tail(q) \in Seq(S)
  <1>1. \A i \in 1 .. (Len(q) - 1) : ~(i < 1)
    BY TailFacts
  <1>2. QED
    BY <1>1, TailFacts DEF Without

\* The sets that the metrics count, and the threads that are in the middle of counting.
LEMMA Finite ==
  /\ IsFiniteSet(Waiting) /\ Cardinality(Waiting) \in Nat
  /\ IsFiniteSet(Dropped) /\ Cardinality(Dropped) \in Nat
  /\ IsFiniteSet(ToDecrement) /\ Cardinality(ToDecrement) \in Nat
  /\ IsFiniteSet(ToIncrement) /\ Cardinality(ToIncrement) \in Nat
  /\ IsFiniteSet(ToRecord) /\ Cardinality(ToRecord) \in Nat
  <1>1. IsFiniteSet(Tasks) /\ IsFiniteSet(Threads)
    BY JavaAssumption, FS_Union DEF Threads
  <1>2. /\ Waiting \subseteq Tasks /\ Dropped \subseteq Tasks
        /\ ToDecrement \subseteq Threads /\ ToIncrement \subseteq Threads /\ ToRecord \subseteq Threads
    BY DEF Waiting, Dropped, ToDecrement, ToIncrement, ToRecord, Threads
  <1>3. QED
    BY <1>1, <1>2, FS_Subset, FS_CardinalityType

\* A counter's update takes its thread out of the set that owes it; the claim of a drop
\* puts the thread into all three.
LEMMA Owing ==
  ASSUME DataInv, NEW x \in Threads \ Workers, NEW s \in Steps, step' = [step EXCEPT ![x] = s],
         \A w \in Workers : pc'[w] = "counting" <=> pc[w] = "counting"
  PROVE  /\ ToDecrement' = IF s = "decrement" THEN ToDecrement \cup {x} ELSE ToDecrement \ {x}
         /\ ToIncrement' = IF s \in {"decrement", "increment"} THEN ToIncrement \cup {x}
                           ELSE ToIncrement \ {x}
         /\ ToRecord' = IF s \in {"decrement", "increment", "record"} THEN ToRecord \cup {x}
                        ELSE ToRecord \ {x}
         /\ x \in ToDecrement <=> step[x] = "decrement"
         /\ x \in ToIncrement <=> step[x] \in {"decrement", "increment"}
         /\ x \in ToRecord <=> step[x] \in {"decrement", "increment", "record"}
  BY DEF DataInv, ToDecrement, ToIncrement, ToRecord, Threads

\* The oldest task is queued and nobody has claimed it.
LEMMA HeadFacts ==
  ASSUME DataInv, QueueInv
  PROVE  /\ queue # <<>> => /\ Head(queue) \in Tasks /\ fate[Head(queue)] = "queued"
                            /\ Tail(queue) \in Seq(Tasks)
         /\ pending # <<>> => /\ Head(pending) \in Tasks /\ fate[Head(pending)] = "queued"
                              /\ Tail(pending) \in Seq(Tasks)
  <1>1. ASSUME NEW q \in {queue, pending}, q # <<>>
        PROVE  Head(q) = q[1] /\ Head(q) \in Tasks /\ Tail(q) \in Seq(Tasks) /\ 1 \in 1 .. Len(q)
    BY <1>1, TailFacts DEF DataInv
  <1>2. QED
    BY <1>1 DEF QueueInv

\* What thread x does when it drops a task that it has just got hold of.
Drops(x, t) ==
  /\ t \notin claimed /\ claimed' = claimed \cup {t}
  /\ UNCHANGED <<queued, dropped, interval, logged>>
  /\ step' = [step EXCEPT ![x] = "decrement"]
  /\ fate' = [fate EXCEPT ![t] = IF x \in Closers THEN "abandoned" ELSE "dropped"]

\* The claim of a task that is neither held nor finished never fails.
LEMMA DropFacts ==
  ASSUME ClaimInv, NEW x, NEW t \in Tasks, fate[t] \in {"submitted", "queued"}, Drop(x, t)
  PROVE  Drops(x, t)
  BY DEF ClaimInv, Drop, Drops, StepTo

-----------------------------------------------------------------------------
(* Each part of the invariant *)

LEMMA InitInv == ASSUME Init PROVE DispatcherInv
  <1> USE JavaAssumption DEF Init
  <1>1. DataInv
    BY DEF DataInv, Fates, RunStates, Steps, Threads
  <1>2. PCInv
    BY DEF PCInv, Threads
  <1>3. CallerInv
    BY DEF CallerInv, Threads, Submitting, Offering
  <1>4. QueueInv
    BY DEF QueueInv
  <1>5. HandInv
    BY DEF HandInv, Holding, Threads
  <1>6. ClaimInv
    BY DEF ClaimInv, Threads
  <1>7. CountInv
    <2>1. Waiting = {} /\ Dropped = {} /\ ToDecrement = {} /\ ToIncrement = {} /\ ToRecord = {}
      BY DEF Waiting, Dropped, ToDecrement, ToIncrement, ToRecord, Threads
    <2>2. QED
      BY <2>1, FS_EmptySet DEF CountInv
  <1>8. PoolInv
    <2>1. \A w \in Workers : pc[w] = "unborn"
      BY DEF Threads
    <2>2. \A t \in Tasks : pc[t] = "call"
      BY DEF Threads
    <2>3. QED
      BY <2>1, <2>2 DEF PoolInv, Offering
  <1>9. CloseInv
    BY DEF CloseInv, ClosePast, Threads
  <1>10. OwedInv
    BY DEF OwedInv
  <1>11. QED
    BY <1>1, <1>2, <1>3, <1>4, <1>5, <1>6, <1>7, <1>8, <1>9, <1>10 DEF DispatcherInv

LEMMA PCStep == ASSUME DispatcherInv, [Next]_vars PROVE PCInv'
  <1> USE JavaAssumption DEF DispatcherInv, PCInv, Threads, Goto, Offering
  <1>1. ASSUME NEW t \in Tasks, Caller(t) PROVE PCInv'
    BY <1>1 DEF Caller, SubmitRefused, SubmitCounts, ExecuteStartsWorker, ExecuteFindsPool,
                ExecuteOffers, Recheck, RejectedFirstCheck, RejectedPolls, RejectedSecondCheck,
                RejectedOffers
  <1>2. ASSUME NEW w \in Workers, Worker(w) PROVE PCInv'
    BY <1>2 DEF Worker, Take, Claim, CountStarted, RunTask, Exit
  <1>3. ASSUME NEW c \in Closers, Closer(c) PROVE PCInv'
    BY <1>3 DEF Closer, CloseBegin, CloseShutdown, CloseTerminated, CloseForces, DropPending, CloseEnds
  <1>4. ASSUME NEW x \in Threads, Counting(x) PROVE PCInv'
    BY <1>4 DEF Counting, DecrementQueued, IncrementDropped, RecordDrop, LogSummary
  <1>5. CASE UNCHANGED vars
    BY <1>5 DEF vars
  <1>6. QED
    BY <1>1, <1>2, <1>3, <1>4, <1>5 DEF Next

LEMMA DataStep == ASSUME DispatcherInv, [Next]_vars PROVE DataInv'
  <1> USE JavaAssumption DEF DispatcherInv, poolVars, dropVars, closeVars, At
  <1>1. ASSUME UNCHANGED <<queue, pending, runState, current, queued, dropped, interval, logged, claimed, fate, step>>
        PROVE  DataInv'
    BY <1>1 DEF DataInv
  <1>2. ASSUME NEW x \in Tasks \cup Closers, NEW t \in Tasks, Drops(x, t), queue' \in Seq(Tasks), pending' \in Seq(Tasks),
               UNCHANGED <<runState, current>>
        PROVE  DataInv'
    BY <1>2 DEF DataInv, Drops, Fates, Steps, Threads
  <1>3. ASSUME NEW t \in Tasks, SubmitRefused(t) PROVE DataInv'
    BY <1>3 DEF SubmitRefused, DataInv, Fates
  <1>4. ASSUME NEW t \in Tasks, SubmitCounts(t) PROVE DataInv'
    BY <1>4 DEF SubmitCounts, DataInv, Fates
  <1>5. ASSUME NEW t \in Tasks, ExecuteStartsWorker(t) PROVE DataInv'
    BY <1>5 DEF ExecuteStartsWorker, DataInv, Fates
  <1>6. ASSUME NEW t \in Tasks, ExecuteFindsPool(t) PROVE DataInv'
    BY <1>1, <1>6 DEF ExecuteFindsPool
  <1>7. ASSUME NEW t \in Tasks, ExecuteOffers(t) PROVE DataInv'
    <2>1. CASE Len(queue) < Capacity
      <3>1. queue' = Append(queue, t) /\ fate' = [fate EXCEPT ![t] = "queued"]
            /\ UNCHANGED <<runState, current, pending, queued, dropped, interval, logged, claimed, step>>
        BY <1>7, <2>1 DEF ExecuteOffers
      <3>2. queue' \in Seq(Tasks)
        BY <3>1 DEF DataInv
      <3>3. fate' \in [Tasks -> Fates]
        BY <3>1 DEF DataInv, Fates
      <3>4. QED
        BY <3>1, <3>2, <3>3 DEF DataInv
    <2>2. CASE ~(Len(queue) < Capacity)
      BY <1>1, <1>7, <2>2 DEF ExecuteOffers
    <2>3. QED
      BY <2>1, <2>2
  <1>8. ASSUME NEW t \in Tasks, Recheck(t) PROVE DataInv'
    <2>1. CASE runState # "RUNNING" /\ Contains(queue, t)
      <3>1. PICK i \in 1 .. Len(queue) : queue' = RemoveAt(queue, i)
        BY <1>8, <2>1 DEF Recheck
      <3>2. queue' \in Seq(Tasks)
        BY <3>1, RemoveAtFacts DEF DataInv
      <3>3. runState' \in RunStates
        BY <1>8, <2>1 DEF Recheck, DataInv, RunStates
      <3>4. fate' \in [Tasks -> Fates]
        BY <1>8, <2>1 DEF Recheck, DataInv, Fates
      <3>5. QED
        BY <1>8, <3>2, <3>3, <3>4 DEF Recheck, DataInv
    <2>2. CASE ~(runState # "RUNNING" /\ Contains(queue, t))
      BY <1>1, <1>8, <2>2 DEF Recheck
    <2>3. QED
      BY <2>1, <2>2
  <1>9. ASSUME NEW t \in Tasks, RejectedFirstCheck(t) \/ RejectedSecondCheck(t) PROVE DataInv'
    <2>1. fate[t] = "submitted"
      BY <1>9 DEF RejectedFirstCheck, RejectedSecondCheck, CallerInv, Submitting, Offering
    <2>2. CASE IsShutdown
      <3>1. Drops(t, t) /\ UNCHANGED <<queue, pending, runState, current>>
        BY <1>9, <2>1, <2>2, DropFacts DEF RejectedFirstCheck, RejectedSecondCheck
      <3>2. QED
        BY <1>2, <3>1 DEF DataInv
    <2>3. CASE ~IsShutdown
      BY <1>1, <1>9, <2>3 DEF RejectedFirstCheck, RejectedSecondCheck
    <2>4. QED
      BY <2>2, <2>3
  <1>10. ASSUME NEW t \in Tasks, RejectedPolls(t) PROVE DataInv'
    <2>1. CASE queue # <<>>
      <3>1. Drops(t, Head(queue)) /\ queue' = Tail(queue) /\ UNCHANGED <<pending, runState, current>>
        BY <1>10, <2>1, HeadFacts, DropFacts DEF RejectedPolls
      <3>2. QED
        BY <1>2, <2>1, <3>1, HeadFacts DEF DataInv
    <2>2. CASE queue = <<>>
      BY <1>1, <1>10, <2>2 DEF RejectedPolls
    <2>3. QED
      BY <2>1, <2>2
  <1>11. ASSUME NEW t \in Tasks, RejectedOffers(t) PROVE DataInv'
    <2>1. CASE Len(queue) < Capacity
      <3>1. queue' = Append(queue, t) /\ fate' = [fate EXCEPT ![t] = "queued"]
            /\ UNCHANGED <<runState, current, pending, queued, dropped, interval, logged, claimed, step>>
        BY <1>11, <2>1 DEF RejectedOffers
      <3>2. queue' \in Seq(Tasks)
        BY <3>1 DEF DataInv
      <3>3. fate' \in [Tasks -> Fates]
        BY <3>1 DEF DataInv, Fates
      <3>4. QED
        BY <3>1, <3>2, <3>3 DEF DataInv
    <2>2. CASE ~(Len(queue) < Capacity)
      <3>1. fate[t] = "submitted"
        BY <1>11 DEF RejectedOffers, CallerInv, Submitting, Offering
      <3>2. Drops(t, t) /\ UNCHANGED <<queue, pending, runState, current>>
        BY <1>11, <2>2, <3>1, DropFacts DEF RejectedOffers
      <3>3. QED
        BY <1>2, <3>2 DEF DataInv
    <2>3. QED
      BY <2>1, <2>2
  <1>12. ASSUME NEW w \in Workers, Take(w) PROVE DataInv'
    BY <1>12, HeadFacts DEF Take, DataInv, Fates
  <1>13. ASSUME NEW w \in Workers, Claim(w) \/ CountStarted(w) PROVE DataInv'
    BY <1>13 DEF Claim, CountStarted, DataInv, HandInv, Holding
  <1>14. ASSUME NEW w \in Workers, RunTask(w) PROVE DataInv'
    BY <1>14 DEF RunTask, DataInv, Fates
  <1>15. ASSUME NEW w \in Workers, Exit(w) PROVE DataInv'
    BY <1>15 DEF Exit, DataInv, RunStates
  <1>16. ASSUME NEW c \in Closers, CloseBegin(c) \/ CloseTerminated(c) \/ CloseEnds(c) PROVE DataInv'
    BY <1>1, <1>16 DEF CloseBegin, CloseTerminated, CloseEnds
  <1>17. ASSUME NEW c \in Closers, CloseShutdown(c) PROVE DataInv'
    BY <1>17 DEF CloseShutdown, DataInv, RunStates
  <1>18. ASSUME NEW c \in Closers, CloseForces(c) PROVE DataInv'
    BY <1>18 DEF CloseForces, DataInv, RunStates
  <1>19. ASSUME NEW c \in Closers, DropPending(c) PROVE DataInv'
    <2>1. Drops(c, Head(pending)) /\ pending' = Tail(pending) /\ UNCHANGED <<queue, runState, current>>
      BY <1>19, HeadFacts, DropFacts DEF DropPending
    <2>2. QED
      BY <1>2, <1>19, <2>1, HeadFacts DEF DataInv, DropPending
  <1>20. ASSUME NEW x \in Threads, Counting(x) PROVE DataInv'
    BY <1>20 DEF Counting, DecrementQueued, IncrementDropped, RecordDrop, LogSummary, StepTo, Steps,
                Threads, DataInv
  <1>21. CASE UNCHANGED vars
    BY <1>1, <1>21 DEF vars
  <1>22. QED
    BY <1>3, <1>4, <1>5, <1>6, <1>7, <1>8, <1>9, <1>10, <1>11, <1>12, <1>13, <1>14, <1>15, <1>16,
       <1>17, <1>18, <1>19, <1>20, <1>21 DEF Next, Caller, Worker, Closer

\* The owner of a task moves it from new to submitted and out of it, and nobody else.
LEMMA CallerStep == ASSUME DispatcherInv, [Next]_vars PROVE CallerInv'
  <1> USE JavaAssumption DEF DispatcherInv, DataInv, PCInv, CallerInv, Threads, Goto, Submitting,
          Offering, At
  <1>1. ASSUME NEW t \in Tasks, \/ SubmitRefused(t) \/ SubmitCounts(t) \/ ExecuteStartsWorker(t)
                                \/ ExecuteFindsPool(t) \/ ExecuteOffers(t)
        PROVE  CallerInv'
    BY <1>1 DEF SubmitRefused, SubmitCounts, ExecuteStartsWorker, ExecuteFindsPool, ExecuteOffers
  <1>2. ASSUME NEW t \in Tasks, Recheck(t) PROVE CallerInv'
    BY <1>2 DEF Recheck
  <1>3. ASSUME NEW t \in Tasks, \/ RejectedFirstCheck(t) \/ RejectedSecondCheck(t) \/ RejectedOffers(t)
        PROVE  CallerInv'
    BY <1>3, DropFacts DEF RejectedFirstCheck, RejectedSecondCheck, RejectedOffers, Drops
  <1>4. ASSUME NEW t \in Tasks, RejectedPolls(t) PROVE CallerInv'
    BY <1>4, DropFacts, HeadFacts DEF RejectedPolls, Drops
  <1>5. ASSUME NEW w \in Workers, Worker(w) PROVE CallerInv'
    BY <1>5, HeadFacts DEF Worker, Take, Claim, CountStarted, RunTask, Exit, HandInv, Holding
  <1>6. ASSUME NEW c \in Closers, CloseBegin(c) \/ CloseShutdown(c) \/ CloseTerminated(c)
                                    \/ CloseForces(c) \/ CloseEnds(c)
        PROVE  CallerInv'
    BY <1>6 DEF CloseBegin, CloseShutdown, CloseTerminated, CloseForces, CloseEnds
  <1>7. ASSUME NEW c \in Closers, DropPending(c) PROVE CallerInv'
    BY <1>7, DropFacts, HeadFacts DEF DropPending, Drops
  <1>8. ASSUME NEW x \in Threads, Counting(x) PROVE CallerInv'
    BY <1>8 DEF Counting, DecrementQueued, IncrementDropped, RecordDrop, LogSummary
  <1>9. CASE UNCHANGED vars
    BY <1>9 DEF vars
  <1>10. QED
    BY <1>1, <1>2, <1>3, <1>4, <1>5, <1>6, <1>7, <1>8, <1>9 DEF Next, Caller, Closer

\* The ways to change the queue and the list of shutdownNow.
LEMMA QueueStep == ASSUME DispatcherInv, [Next]_vars PROVE QueueInv'
  <1> USE JavaAssumption DEF DispatcherInv, DataInv, poolVars, dropVars, closeVars, At
  <1>1. ASSUME UNCHANGED <<queue, pending>>,
               \A t \in Tasks : fate'[t] = "queued" <=> fate[t] = "queued"
        PROVE  QueueInv'
    <2>1. /\ \A i \in 1 .. Len(queue) : queue[i] \in Tasks
          /\ \A i \in 1 .. Len(pending) : pending[i] \in Tasks
      OBVIOUS
    <2>2. queue' = queue /\ pending' = pending
      BY <1>1
    <2>3. /\ \A i \in 1 .. Len(queue) : fate'[queue[i]] = "queued"
          /\ \A i \in 1 .. Len(pending) : fate'[pending[i]] = "queued"
      BY <1>1, <2>1 DEF QueueInv
    <2>4. \A t \in Tasks : fate'[t] = "queued" =>
            \/ \E i \in 1 .. Len(queue) : queue[i] = t
            \/ \E i \in 1 .. Len(pending) : pending[i] = t
      BY <1>1 DEF QueueInv
    <2> HIDE DEF DataInv
    <2>5. QED
      BY <2>2, <2>3, <2>4 DEF QueueInv
  <1>2. ASSUME NEW t \in Tasks, fate[t] = "submitted", queue' = Append(queue, t), UNCHANGED pending,
               fate' = [fate EXCEPT ![t] = "queued"]
        PROVE  QueueInv'
    <2>1. /\ \A i \in 1 .. Len(queue) : queue[i] \in Tasks /\ queue[i] # t
          /\ \A i \in 1 .. Len(pending) : pending[i] \in Tasks /\ pending[i] # t
      BY <1>2 DEF QueueInv
    <2>2. /\ Len(queue') = Len(queue) + 1 /\ queue'[Len(queue) + 1] = t
          /\ \A i \in 1 .. Len(queue) : queue'[i] = queue[i]
      BY <1>2
    <2>3. \A u \in Tasks : fate'[u] = "queued" <=> fate[u] = "queued" \/ u = t
      BY <1>2
    <2>4. Len(queue) \in Nat
      OBVIOUS
    <2>5. QueueInv /\ pending' = pending
      BY <1>2
    <2> HIDE DEF DispatcherInv, DataInv
    <2>6. /\ \A i \in 1 .. Len(queue') : i \in 1 .. Len(queue) \/ i = Len(queue) + 1
          /\ \A i \in 1 .. Len(queue) : i \in 1 .. Len(queue') /\ i # Len(queue) + 1
          /\ Len(queue) + 1 \in 1 .. Len(queue')
      BY <2>2, <2>4
    <2>7. /\ \A i \in 1 .. Len(queue') : fate'[queue'[i]] = "queued"
          /\ \A i \in 1 .. Len(pending) : fate'[pending[i]] = "queued"
      BY <1>2, <2>1, <2>2, <2>3, <2>5, <2>6 DEF QueueInv
    <2>8. /\ \A i, j \in 1 .. Len(queue') : queue'[i] = queue'[j] => i = j
          /\ \A i \in 1 .. Len(queue'), j \in 1 .. Len(pending) : queue'[i] # pending[j]
      <3>1. ASSUME NEW i \in 1 .. Len(queue'), NEW j \in 1 .. Len(queue'), queue'[i] = queue'[j]
            PROVE  i = j
        <4>1. \A k \in 1 .. Len(queue) : queue'[k] # t
          BY <2>1, <2>2
        <4>2. CASE i \in 1 .. Len(queue) /\ j \in 1 .. Len(queue)
          BY <2>2, <2>5, <3>1, <4>2 DEF QueueInv
        <4>3. QED
          BY <2>2, <2>6, <3>1, <4>1, <4>2
      <3>2. ASSUME NEW i \in 1 .. Len(queue'), NEW j \in 1 .. Len(pending) PROVE queue'[i] # pending[j]
        BY <2>1, <2>2, <2>5, <2>6 DEF QueueInv
      <3>3. QED
        BY <3>1, <3>2
    <2>9. \A u \in Tasks : fate'[u] = "queued" =>
            \/ \E i \in 1 .. Len(queue') : queue'[i] = u
            \/ \E i \in 1 .. Len(pending) : pending[i] = u
      <3> SUFFICES ASSUME NEW u \in Tasks, fate'[u] = "queued"
                   PROVE  \/ \E i \in 1 .. Len(queue') : queue'[i] = u
                          \/ \E i \in 1 .. Len(pending) : pending[i] = u
        OBVIOUS
      <3>1. CASE u = t
        BY <2>2, <2>6, <3>1
      <3>2. CASE fate[u] = "queued"
        BY <2>2, <2>5, <2>6, <3>2 DEF QueueInv
      <3>3. QED
        BY <2>3, <3>1, <3>2
    <2>10. QED
      BY <2>5, <2>7, <2>8, <2>9 DEF QueueInv
  <1>3. ASSUME NEW k, Without(queue, queue', k), queue' \in Seq(Tasks), UNCHANGED pending,
               NEW f \in Fates \ {"queued"}, fate' = [fate EXCEPT ![queue[k]] = f]
        PROVE  QueueInv'
    <2>1. k \in 1 .. Len(queue) /\ queue[k] \in Tasks
      BY <1>3 DEF Without
    <2>2. \A u \in Tasks : fate'[u] = "queued" <=> fate[u] = "queued" /\ u # queue[k]
      BY <1>3, <2>1
    <2>3. /\ \A i, j \in 1 .. Len(queue') : queue'[i] = queue'[j] => i = j
          /\ \A i \in 1 .. Len(queue') : \E j \in 1 .. Len(queue) : j # k /\ queue'[i] = queue[j]
          /\ \A j \in 1 .. Len(queue) : j # k => \E i \in 1 .. Len(queue') : queue'[i] = queue[j]
      BY <1>3, WithoutFacts DEF QueueInv
    <2>4. /\ \A i \in 1 .. Len(queue) : queue[i] \in Tasks /\ (queue[i] = queue[k] => i = k)
          /\ \A i \in 1 .. Len(pending) : pending[i] \in Tasks /\ pending[i] # queue[k]
      <3>1. /\ \A i \in 1 .. Len(queue) : queue[i] \in Tasks
            /\ \A i \in 1 .. Len(pending) : pending[i] \in Tasks
        OBVIOUS
      <3>2. QED
        BY <2>1, <3>1 DEF QueueInv
    <2>5. \A i \in 1 .. Len(queue') : fate'[queue'[i]] = "queued"
      BY <2>2, <2>3, <2>4 DEF QueueInv
    <2>6. \A i \in 1 .. Len(pending) : fate'[pending[i]] = "queued"
      BY <2>2, <2>4 DEF QueueInv
    <2>7. \A i \in 1 .. Len(queue'), j \in 1 .. Len(pending) : queue'[i] # pending[j]
      BY <2>3 DEF QueueInv
    <2>8. \A u \in Tasks : fate'[u] = "queued" =>
            \/ \E i \in 1 .. Len(queue') : queue'[i] = u
            \/ \E i \in 1 .. Len(pending) : pending[i] = u
      <3> SUFFICES ASSUME NEW u \in Tasks, fate'[u] = "queued", NEW j \in 1 .. Len(queue), queue[j] = u
                   PROVE  \E i \in 1 .. Len(queue') : queue'[i] = u
        BY <2>2 DEF QueueInv
      <3>1. j # k
        BY <2>2
      <3>2. QED
        BY <2>3, <3>1
    <2> HIDE DEF DataInv
    <2>9. QED
      BY <1>3, <2>3, <2>5, <2>6, <2>7, <2>8 DEF QueueInv
  <1>4. ASSUME NEW k, Without(pending, pending', k), pending' \in Seq(Tasks), UNCHANGED queue,
               NEW f \in Fates \ {"queued"}, fate' = [fate EXCEPT ![pending[k]] = f]
        PROVE  QueueInv'
    <2>1. k \in 1 .. Len(pending) /\ pending[k] \in Tasks
      BY <1>4 DEF Without
    <2>2. \A u \in Tasks : fate'[u] = "queued" <=> fate[u] = "queued" /\ u # pending[k]
      BY <1>4, <2>1
    <2>3. /\ \A i, j \in 1 .. Len(pending') : pending'[i] = pending'[j] => i = j
          /\ \A i \in 1 .. Len(pending') : \E j \in 1 .. Len(pending) : j # k /\ pending'[i] = pending[j]
          /\ \A j \in 1 .. Len(pending) : j # k => \E i \in 1 .. Len(pending') : pending'[i] = pending[j]
      BY <1>4, WithoutFacts DEF QueueInv
    <2>4. /\ \A i \in 1 .. Len(pending) : pending[i] \in Tasks /\ (pending[i] = pending[k] => i = k)
          /\ \A i \in 1 .. Len(queue) : queue[i] \in Tasks /\ queue[i] # pending[k]
      <3>1. /\ \A i \in 1 .. Len(pending) : pending[i] \in Tasks
            /\ \A i \in 1 .. Len(queue) : queue[i] \in Tasks
        OBVIOUS
      <3>2. QED
        BY <2>1, <3>1 DEF QueueInv
    <2>5. \A i \in 1 .. Len(pending') : fate'[pending'[i]] = "queued"
      BY <2>2, <2>3, <2>4 DEF QueueInv
    <2>6. \A i \in 1 .. Len(queue) : fate'[queue[i]] = "queued"
      BY <2>2, <2>4 DEF QueueInv
    <2>7. \A i \in 1 .. Len(queue), j \in 1 .. Len(pending') : queue[i] # pending'[j]
      BY <2>3 DEF QueueInv
    <2>8. \A u \in Tasks : fate'[u] = "queued" =>
            \/ \E i \in 1 .. Len(queue) : queue[i] = u
            \/ \E i \in 1 .. Len(pending') : pending'[i] = u
      <3> SUFFICES ASSUME NEW u \in Tasks, fate'[u] = "queued", NEW j \in 1 .. Len(pending), pending[j] = u
                   PROVE  \E i \in 1 .. Len(pending') : pending'[i] = u
        BY <2>2 DEF QueueInv
      <3>1. j # k
        BY <2>2
      <3>2. QED
        BY <2>3, <3>1
    <2>9. QED
      BY <1>4, <2>3, <2>5, <2>6, <2>7, <2>8 DEF QueueInv
  <1>5. "dropped" \in Fates \ {"queued"} /\ "abandoned" \in Fates \ {"queued"}
        /\ "held" \in Fates \ {"queued"} /\ "submitted" \in Fates \ {"queued"}
    BY DEF Fates
  <1>6. ASSUME NEW t \in Tasks, SubmitRefused(t) \/ SubmitCounts(t) \/ ExecuteStartsWorker(t)
        PROVE  QueueInv'
    <2>1. /\ fate[t] # "queued" /\ UNCHANGED <<queue, pending>>
          /\ \E f \in Fates \ {"queued"} : fate' = [fate EXCEPT ![t] = f]
      BY <1>6 DEF SubmitRefused, SubmitCounts, ExecuteStartsWorker, CallerInv, Submitting, Fates
    <2>2. QED
      BY <1>1, <2>1
  <1>7. ASSUME NEW t \in Tasks, ExecuteFindsPool(t) PROVE QueueInv'
    BY <1>1, <1>7 DEF ExecuteFindsPool
  <1>8. ASSUME NEW t \in Tasks, ExecuteOffers(t) PROVE QueueInv'
    <2>1. fate[t] = "submitted"
      BY <1>8 DEF ExecuteOffers, CallerInv, Submitting, Offering
    <2>2. QED
      BY <1>1, <1>2, <1>8, <2>1 DEF ExecuteOffers
  <1>9. ASSUME NEW t \in Tasks, Recheck(t) PROVE QueueInv'
    <2>1. CASE runState # "RUNNING" /\ Contains(queue, t)
      <3>1. PICK k \in 1 .. Len(queue) : queue[k] = t /\ queue' = RemoveAt(queue, k)
        BY <1>9, <2>1 DEF Recheck
      <3>2. UNCHANGED pending /\ fate' = [fate EXCEPT ![queue[k]] = "submitted"]
        BY <1>9, <2>1, <3>1 DEF Recheck
      <3>3. Without(queue, queue', k) /\ queue' \in Seq(Tasks)
        <4>1. queue \in Seq(Tasks)
          OBVIOUS
        <4> HIDE DEF DispatcherInv, DataInv
        <4>2. QED
          BY <3>1, <4>1, RemoveAtFacts DEF Without
      <3>4. QED
        BY <1>3, <1>5, <3>2, <3>3
    <2>2. CASE ~(runState # "RUNNING" /\ Contains(queue, t))
      BY <1>1, <1>9, <2>2 DEF Recheck
    <2>3. QED
      BY <2>1, <2>2
  <1>10. ASSUME NEW t \in Tasks, RejectedFirstCheck(t) \/ RejectedSecondCheck(t) PROVE QueueInv'
    <2>1. fate[t] = "submitted"
      BY <1>10 DEF RejectedFirstCheck, RejectedSecondCheck, CallerInv, Submitting, Offering
    <2>2. QED
      BY <1>1, <1>10, <2>1, DropFacts DEF RejectedFirstCheck, RejectedSecondCheck, Drops
  <1>11. ASSUME NEW t \in Tasks, RejectedPolls(t) PROVE QueueInv'
    <2>1. CASE queue # <<>>
      <3>1. Drops(t, Head(queue)) /\ queue' = Tail(queue) /\ UNCHANGED pending
        BY <1>11, <2>1, HeadFacts, DropFacts DEF RejectedPolls
      <3>2. fate' = [fate EXCEPT ![queue[1]] = "dropped"]
        BY <2>1, <3>1, TailWithout DEF Drops
      <3>3. Without(queue, queue', 1) /\ queue' \in Seq(Tasks)
        BY <2>1, <3>1, TailWithout
      <3>4. QED
        BY <1>3, <1>5, <3>1, <3>2, <3>3
    <2>2. CASE queue = <<>>
      BY <1>1, <1>11, <2>2 DEF RejectedPolls
    <2>3. QED
      BY <2>1, <2>2
  <1>12. ASSUME NEW t \in Tasks, RejectedOffers(t) PROVE QueueInv'
    <2>1. fate[t] = "submitted"
      BY <1>12 DEF RejectedOffers, CallerInv, Submitting, Offering
    <2>2. QED
      BY <1>1, <1>2, <1>12, <2>1, DropFacts DEF RejectedOffers, Drops
  <1>13. ASSUME NEW w \in Workers, Take(w) PROVE QueueInv'
    <2>1. /\ fate' = [fate EXCEPT ![queue[1]] = "held"] /\ UNCHANGED pending
          /\ Without(queue, queue', 1) /\ queue' \in Seq(Tasks)
      BY <1>13, TailWithout DEF Take
    <2>2. QED
      BY <1>3, <1>5, <2>1
  <1>14. ASSUME NEW w \in Workers, Claim(w) \/ CountStarted(w) \/ Exit(w) PROVE QueueInv'
    BY <1>1, <1>14 DEF Claim, CountStarted, Exit
  <1>15. ASSUME NEW w \in Workers, RunTask(w) PROVE QueueInv'
    BY <1>1, <1>15 DEF RunTask, HandInv, Holding
  <1>16. ASSUME NEW c \in Closers, CloseBegin(c) \/ CloseShutdown(c) \/ CloseTerminated(c) \/ CloseEnds(c)
         PROVE  QueueInv'
    BY <1>1, <1>16 DEF CloseBegin, CloseShutdown, CloseTerminated, CloseEnds
  <1>17. ASSUME NEW c \in Closers, CloseForces(c) PROVE QueueInv'
    <2>1. pc[c] = "awaiting" /\ pending' = queue /\ queue' = <<>> /\ UNCHANGED fate
      BY <1>17 DEF CloseForces
    <2>2. pending = <<>>
      BY <2>1 DEF CloseInv
    <2>3. QED
      BY <2>1, <2>2 DEF QueueInv
  <1>18. ASSUME NEW c \in Closers, DropPending(c) PROVE QueueInv'
    <2>1. Drops(c, Head(pending)) /\ pending # <<>> /\ pending' = Tail(pending) /\ UNCHANGED queue
      BY <1>18, HeadFacts, DropFacts DEF DropPending
    <2>2. fate' = [fate EXCEPT ![pending[1]] = "abandoned"]
      BY <2>1, TailWithout DEF Drops
    <2>3. Without(pending, pending', 1) /\ pending' \in Seq(Tasks)
      BY <2>1, TailWithout
    <2>4. QED
      BY <1>4, <1>5, <2>1, <2>2, <2>3
  <1>19. ASSUME NEW x \in Threads, Counting(x) PROVE QueueInv'
    BY <1>1, <1>19 DEF Counting, DecrementQueued, IncrementDropped, RecordDrop, LogSummary
  <1>20. CASE UNCHANGED vars
    BY <1>1, <1>20 DEF vars
  <1>21. QED
    BY <1>6, <1>7, <1>8, <1>9, <1>10, <1>11, <1>12, <1>13, <1>14, <1>15, <1>16, <1>17, <1>18, <1>19,
       <1>20 DEF Next, Caller, Worker, Closer

\* A task enters the hands of a thread of the pool from its caller or from the queue.
LEMMA HandStep == ASSUME DispatcherInv, [Next]_vars PROVE HandInv'
  <1> USE JavaAssumption DEF DispatcherInv, DataInv, PCInv, Threads, Goto, At, poolVars, dropVars
  <1>1. ASSUME UNCHANGED current, \A w \in Workers : Holding(w)' <=> Holding(w),
               \A t \in Tasks : fate'[t] = "held" <=> fate[t] = "held"
        PROVE  HandInv'
    BY <1>1 DEF HandInv
  <1>2. ASSUME NEW w \in Workers, NEW t \in Tasks, ~Holding(w), fate[t] # "held",
               current' = [current EXCEPT ![w] = t], fate' = [fate EXCEPT ![t] = "held"],
               pc'[w] = "starting", \A v \in Workers \ {w} : pc'[v] = pc[v]
        PROVE  HandInv'
    BY <1>2 DEF HandInv, Holding
  <1>3. ASSUME NEW t \in Tasks, \/ SubmitRefused(t) \/ SubmitCounts(t) \/ ExecuteFindsPool(t)
                                \/ ExecuteOffers(t)
        PROVE  HandInv'
    BY <1>1, <1>3 DEF SubmitRefused, SubmitCounts, ExecuteFindsPool, ExecuteOffers, CallerInv,
                      Submitting, Offering, Holding
  <1>4. ASSUME NEW t \in Tasks, ExecuteStartsWorker(t) PROVE HandInv'
    <2>1. fate[t] = "submitted"
      BY <1>4 DEF ExecuteStartsWorker, CallerInv, Submitting
    <2>2. PICK w \in Workers : /\ pc[w] = "unborn"
                               /\ pc' = [pc EXCEPT ![w] = "starting", ![t] = "returned"]
                               /\ current' = [current EXCEPT ![w] = t]
      BY <1>4 DEF ExecuteStartsWorker
    <2>3. fate' = [fate EXCEPT ![t] = "held"] /\ ~Holding(w)
      BY <1>4, <2>2 DEF ExecuteStartsWorker, Holding
    <2>4. pc'[w] = "starting" /\ \A v \in Workers \ {w} : pc'[v] = pc[v]
      BY <2>2
    <2>5. QED
      BY <1>2, <2>1, <2>2, <2>3, <2>4
  <1>5. ASSUME NEW t \in Tasks, Recheck(t) PROVE HandInv'
    <2>1. UNCHANGED current /\ \A w \in Workers : Holding(w)' <=> Holding(w)
      BY <1>5 DEF Recheck, Holding
    <2>2. CASE runState # "RUNNING" /\ Contains(queue, t)
      <3>1. PICK i \in 1 .. Len(queue) : queue[i] = t
        BY <2>2 DEF Contains
      <3>2. fate[t] = "queued" /\ fate' = [fate EXCEPT ![t] = "submitted"]
        BY <1>5, <2>2, <3>1 DEF Recheck, QueueInv
      <3>3. QED
        BY <1>1, <2>1, <3>2
    <2>3. CASE ~(runState # "RUNNING" /\ Contains(queue, t))
      BY <1>1, <1>5, <2>1, <2>3 DEF Recheck
    <2>4. QED
      BY <2>2, <2>3
  <1>6. ASSUME NEW t \in Tasks, RejectedFirstCheck(t) \/ RejectedSecondCheck(t) \/ RejectedOffers(t)
        PROVE  HandInv'
    <2>1. UNCHANGED current /\ \A w \in Workers : Holding(w)' <=> Holding(w)
      BY <1>6 DEF RejectedFirstCheck, RejectedSecondCheck, RejectedOffers, Holding
    <2>2. fate[t] = "submitted"
      BY <1>6 DEF RejectedFirstCheck, RejectedSecondCheck, RejectedOffers, CallerInv, Submitting, Offering
    <2>3. UNCHANGED fate \/ \E f \in Fates \ {"held"} : fate' = [fate EXCEPT ![t] = f]
      BY <1>6, <2>2, DropFacts DEF RejectedFirstCheck, RejectedSecondCheck, RejectedOffers, Drops, Fates
    <2>4. QED
      BY <1>1, <2>1, <2>2, <2>3
  <1>7. ASSUME NEW t \in Tasks, RejectedPolls(t) PROVE HandInv'
    <2>1. UNCHANGED current /\ \A w \in Workers : Holding(w)' <=> Holding(w)
      BY <1>7 DEF RejectedPolls, Holding
    <2>2. \A u \in Tasks : fate'[u] = "held" <=> fate[u] = "held"
      BY <1>7, HeadFacts, DropFacts DEF RejectedPolls, Drops
    <2>3. QED
      BY <1>1, <2>1, <2>2
  <1>8. ASSUME NEW w \in Workers, Take(w) PROVE HandInv'
    <2>1. /\ queue # <<>> /\ current' = [current EXCEPT ![w] = Head(queue)] /\ pc[w] = "take"
          /\ fate' = [fate EXCEPT ![Head(queue)] = "held"] /\ pc' = [pc EXCEPT ![w] = "starting"]
      BY <1>8 DEF Take
    <2>2. PICK t \in Tasks : t = Head(queue) /\ fate[t] = "queued"
      BY <2>1, HeadFacts
    <2>3. ~Holding(w) /\ pc'[w] = "starting" /\ \A v \in Workers \ {w} : pc'[v] = pc[v]
      BY <2>1 DEF Holding
    <2>4. QED
      BY <1>2, <2>1, <2>2, <2>3
  <1>9. ASSUME NEW w \in Workers, Claim(w) \/ CountStarted(w) PROVE HandInv'
    <2>1. pc[w] = "starting" => current[w] \notin claimed
      BY DEF ClaimInv
    <2>2. /\ pc[w] \in {"starting", "counting"} /\ UNCHANGED <<current, fate>>
          /\ \E l \in {"counting", "running"} : pc' = [pc EXCEPT ![w] = l]
      BY <1>9, <2>1 DEF Claim, CountStarted
    <2>3. QED
      BY <1>1, <2>2 DEF Holding
  <1>10. ASSUME NEW w \in Workers, RunTask(w) PROVE HandInv'
    BY <1>10 DEF RunTask, HandInv, Holding
  <1>11. ASSUME NEW w \in Workers, Exit(w) PROVE HandInv'
    BY <1>1, <1>11 DEF Exit, Holding
  <1>12. ASSUME NEW c \in Closers, CloseBegin(c) \/ CloseShutdown(c) \/ CloseTerminated(c)
                                     \/ CloseForces(c) \/ CloseEnds(c)
         PROVE  HandInv'
    BY <1>1, <1>12 DEF CloseBegin, CloseShutdown, CloseTerminated, CloseForces, CloseEnds, Holding
  <1>13. ASSUME NEW c \in Closers, DropPending(c) PROVE HandInv'
    <2>1. UNCHANGED <<current, pc>>
      BY <1>13 DEF DropPending
    <2>2. \A u \in Tasks : fate'[u] = "held" <=> fate[u] = "held"
      BY <1>13, HeadFacts, DropFacts DEF DropPending, Drops
    <2>3. QED
      BY <1>1, <2>1, <2>2 DEF Holding
  <1>14. ASSUME NEW x \in Threads, Counting(x) PROVE HandInv'
    BY <1>1, <1>14 DEF Counting, DecrementQueued, IncrementDropped, RecordDrop, LogSummary, Holding
  <1>15. CASE UNCHANGED vars
    BY <1>1, <1>15 DEF vars, Holding
  <1>16. QED
    BY <1>3, <1>4, <1>5, <1>6, <1>7, <1>8, <1>9, <1>10, <1>11, <1>12, <1>13, <1>14, <1>15
       DEF Next, Caller, Worker, Closer

\* The claim and what it does to the counters.
LEMMA ClaimCountStep == ASSUME DispatcherInv, [Next]_vars PROVE ClaimInv' /\ CountInv'
  <1> USE JavaAssumption DEF DispatcherInv, DataInv, PCInv, Threads, Goto, At, poolVars, dropVars
  <1> DEFINE Live == {"submitted", "queued", "held"}
             Over == {"dropped", "abandoned"}
             Hands(w) == /\ pc'[w] \in {"starting", "counting", "running"} =>
                              pc'[w] = pc[w] /\ current'[w] = current[w]
                         /\ pc[w] = "counting" => pc'[w] = "counting"
  <1>1. ASSUME UNCHANGED <<claimed, queued, dropped, step>>,
               interval' + logged' = interval + logged,
               \A t \in Tasks \ claimed : fate'[t] \in Live <=> fate[t] \in Live,
               \A t \in Tasks : fate'[t] \in Over <=> fate[t] \in Over,
               \A t \in Tasks \ claimed : fate'[t] # "done",
               \A t \in claimed : fate'[t] = fate[t] \/ fate'[t] = "done",
               \A w \in Workers : Hands(w)
        PROVE  ClaimInv' /\ CountInv'
    <2>1. /\ Waiting' = Waiting /\ Dropped' = Dropped /\ ToDecrement' = ToDecrement
          /\ ToIncrement' = ToIncrement /\ ToRecord' = ToRecord
      BY <1>1 DEF Waiting, Dropped, ToDecrement, ToIncrement, ToRecord
    <2>2. CountInv'
      BY <1>1, <2>1 DEF CountInv
    <2>3. ClaimInv'
      BY <1>1 DEF ClaimInv
    <2>4. QED
      BY <2>2, <2>3
  <1>2. ASSUME NEW x \in Tasks \cup Closers, NEW t \in Tasks, step[x] = "none",
               fate[t] \in {"submitted", "queued"}, Drop(x, t), \A w \in Workers : Hands(w)
        PROVE  ClaimInv' /\ CountInv'
    <2>1. Drops(x, t)
      BY <1>2, DropFacts
    <2>2. PICK f \in Over : fate' = [fate EXCEPT ![t] = f]
      BY <2>1 DEF Drops
    <2>3. Waiting' = Waiting \ {t} /\ t \in Waiting /\ Dropped' = Dropped \cup {t} /\ t \notin Dropped
      BY <1>2, <2>1, <2>2 DEF Drops, Waiting, Dropped
    <2>4. Cardinality(Waiting') = Cardinality(Waiting) - 1
      BY <2>3, Finite, FS_RemoveElement
    <2>5. Cardinality(Dropped') = Cardinality(Dropped) + 1
      BY <2>3, Finite, FS_AddElement
    <2>6. CountInv'
      <3>1. /\ ToDecrement' = ToDecrement \cup {x} /\ x \notin ToDecrement
            /\ ToIncrement' = ToIncrement \cup {x} /\ x \notin ToIncrement
            /\ ToRecord' = ToRecord \cup {x} /\ x \notin ToRecord
        BY <1>2, <2>1, Owing DEF Drops, Steps
      <3>2. /\ Cardinality(ToDecrement') = Cardinality(ToDecrement) + 1
            /\ Cardinality(ToIncrement') = Cardinality(ToIncrement) + 1
            /\ Cardinality(ToRecord') = Cardinality(ToRecord) + 1
        BY <3>1, Finite, FS_AddElement
      <3>3. UNCHANGED <<queued, dropped, interval, logged>>
        BY <2>1 DEF Drops
      <3>4. dropped \in Nat /\ interval \in Nat /\ logged \in Nat
        OBVIOUS
      <3> HIDE DEF DispatcherInv, DataInv, PCInv, dropVars, poolVars
      <3>5. CountInv
        BY DEF DispatcherInv
      <3>6. QED
        BY <2>4, <2>5, <3>2, <3>3, <3>4, <3>5, Finite DEF CountInv
    <2>7. \A w \in Workers : Holding(w) => current[w] # t
      BY <1>2 DEF HandInv
    <2>8. ClaimInv'
      BY <1>2, <2>1, <2>2, <2>7 DEF Drops, ClaimInv, Holding
    <2>9. QED
      BY <2>6, <2>8
  <1>3. ASSUME NEW t \in Tasks, SubmitRefused(t) PROVE ClaimInv' /\ CountInv'
    <2>1. fate[t] = "new" /\ t \notin claimed
      BY <1>3 DEF SubmitRefused, CallerInv, ClaimInv
    <2>2. QED
      BY <1>1, <1>3, <2>1 DEF SubmitRefused, ClaimInv
  <1>4. ASSUME NEW t \in Tasks, SubmitCounts(t) PROVE ClaimInv' /\ CountInv'
    <2>1. /\ fate[t] = "new" /\ fate' = [fate EXCEPT ![t] = "submitted"] /\ queued' = queued + 1
          /\ UNCHANGED <<claimed, dropped, interval, logged, current, step>>
      BY <1>4 DEF SubmitCounts, CallerInv
    <2>2. t \notin claimed /\ \A w \in Workers : pc'[w] = pc[w]
      BY <1>4, <2>1 DEF SubmitCounts, ClaimInv
    <2>3. Waiting' = Waiting \cup {t} /\ t \notin Waiting /\ Dropped' = Dropped
      BY <2>1, <2>2 DEF Waiting, Dropped
    <2>4. Cardinality(Waiting') = Cardinality(Waiting) + 1
      BY <2>3, Finite, FS_AddElement
    <2>5. CountInv'
      <3>1. ToDecrement' = ToDecrement /\ ToIncrement' = ToIncrement /\ ToRecord' = ToRecord
        BY <2>1, <2>2 DEF ToDecrement, ToIncrement, ToRecord
      <3>2. QED
        BY <2>1, <2>3, <2>4, <3>1, Finite DEF CountInv
    <2>6. ClaimInv'
      BY <2>1, <2>2 DEF ClaimInv
    <2>7. QED
      BY <2>5, <2>6
  <1>5. ASSUME NEW t \in Tasks, ExecuteStartsWorker(t) PROVE ClaimInv' /\ CountInv'
    <2>1. fate[t] = "submitted" /\ t \notin claimed
      BY <1>5 DEF ExecuteStartsWorker, CallerInv, ClaimInv, Submitting
    <2>2. PICK w \in Workers : /\ pc[w] = "unborn"
                               /\ pc' = [pc EXCEPT ![w] = "starting", ![t] = "returned"]
                               /\ current' = [current EXCEPT ![w] = t]
      BY <1>5 DEF ExecuteStartsWorker
    <2>3. fate' = [fate EXCEPT ![t] = "held"] /\ UNCHANGED <<claimed, queued, dropped, interval, logged, step>>
      BY <1>5 DEF ExecuteStartsWorker
    <2>4. /\ Waiting' = Waiting /\ Dropped' = Dropped
          /\ ToDecrement' = ToDecrement /\ ToIncrement' = ToIncrement /\ ToRecord' = ToRecord
      BY <2>1, <2>2, <2>3 DEF Waiting, Dropped, ToDecrement, ToIncrement, ToRecord
    <2>5. CountInv'
      BY <2>3, <2>4 DEF CountInv
    <2>6. ClaimInv'
      BY <2>1, <2>2, <2>3 DEF ClaimInv
    <2>7. QED
      BY <2>5, <2>6
  <1>6. ASSUME NEW t \in Tasks, ExecuteFindsPool(t) PROVE ClaimInv' /\ CountInv'
    BY <1>1, <1>6 DEF ExecuteFindsPool, ClaimInv
  <1>7. ASSUME NEW t \in Tasks, ExecuteOffers(t) PROVE ClaimInv' /\ CountInv'
    <2>1. fate[t] = "submitted" /\ t \notin claimed
      BY <1>7 DEF ExecuteOffers, CallerInv, ClaimInv, Submitting, Offering
    <2>2. QED
      BY <1>1, <1>7, <2>1 DEF ExecuteOffers, ClaimInv
  <1>8. ASSUME NEW t \in Tasks, Recheck(t) PROVE ClaimInv' /\ CountInv'
    <2>1. CASE runState # "RUNNING" /\ Contains(queue, t)
      <3>1. PICK i \in 1 .. Len(queue) : queue[i] = t
        BY <2>1 DEF Contains
      <3>2. fate[t] = "queued" /\ fate' = [fate EXCEPT ![t] = "submitted"]
        BY <1>8, <2>1, <3>1 DEF Recheck, QueueInv
      <3>3. t \notin claimed
        BY <3>2 DEF ClaimInv
      <3>4. QED
        BY <1>1, <1>8, <3>2, <3>3 DEF Recheck, ClaimInv
    <2>2. CASE ~(runState # "RUNNING" /\ Contains(queue, t))
      BY <1>1, <1>8, <2>2 DEF Recheck, ClaimInv
    <2>3. QED
      BY <2>1, <2>2
  <1>9. ASSUME NEW t \in Tasks, RejectedFirstCheck(t) \/ RejectedSecondCheck(t)
        PROVE  ClaimInv' /\ CountInv'
    <2>1. fate[t] = "submitted" /\ step[t] = "none" /\ \A w \in Workers : Hands(w)
      BY <1>9 DEF RejectedFirstCheck, RejectedSecondCheck, CallerInv, Submitting, Offering
    <2>2. CASE IsShutdown
      <3>1. Drop(t, t)
        BY <1>9, <2>2 DEF RejectedFirstCheck, RejectedSecondCheck
      <3>2. QED
        BY <1>2, <2>1, <3>1
    <2>3. CASE ~IsShutdown
      BY <1>1, <1>9, <2>1, <2>3 DEF RejectedFirstCheck, RejectedSecondCheck, ClaimInv
    <2>4. QED
      BY <2>2, <2>3
  <1>10. ASSUME NEW t \in Tasks, RejectedPolls(t) PROVE ClaimInv' /\ CountInv'
    <2>1. step[t] = "none" /\ \A w \in Workers : Hands(w)
      BY <1>10 DEF RejectedPolls
    <2>2. CASE queue # <<>>
      BY <1>2, <1>10, <2>1, <2>2, HeadFacts DEF RejectedPolls
    <2>3. CASE queue = <<>>
      BY <1>1, <1>10, <2>1, <2>3 DEF RejectedPolls, ClaimInv
    <2>4. QED
      BY <2>2, <2>3
  <1>11. ASSUME NEW t \in Tasks, RejectedOffers(t) PROVE ClaimInv' /\ CountInv'
    <2>1. fate[t] = "submitted" /\ step[t] = "none" /\ \A w \in Workers : Hands(w)
      BY <1>11 DEF RejectedOffers, CallerInv, Submitting, Offering
    <2>2. CASE Len(queue) < Capacity
      <3>1. fate' = [fate EXCEPT ![t] = "queued"] /\ UNCHANGED <<claimed, queued, dropped, interval, logged, step>>
        BY <1>11, <2>2 DEF RejectedOffers
      <3>2. t \notin claimed
        BY <2>1 DEF ClaimInv
      <3>3. QED
        BY <1>1, <2>1, <3>1, <3>2 DEF ClaimInv
    <2>3. CASE ~(Len(queue) < Capacity)
      BY <1>2, <1>11, <2>1, <2>3 DEF RejectedOffers
    <2>4. QED
      BY <2>2, <2>3
  <1>12. ASSUME NEW w \in Workers, Take(w) PROVE ClaimInv' /\ CountInv'
    <2>1. /\ queue # <<>> /\ current' = [current EXCEPT ![w] = Head(queue)] /\ pc[w] = "take"
          /\ fate' = [fate EXCEPT ![Head(queue)] = "held"] /\ pc' = [pc EXCEPT ![w] = "starting"]
          /\ UNCHANGED <<claimed, queued, dropped, interval, logged, step>>
      BY <1>12 DEF Take
    <2>2. PICK t \in Tasks : t = Head(queue) /\ fate[t] = "queued" /\ t \notin claimed
      BY <2>1, HeadFacts DEF ClaimInv
    <2>3. /\ Waiting' = Waiting /\ Dropped' = Dropped
          /\ ToDecrement' = ToDecrement /\ ToIncrement' = ToIncrement /\ ToRecord' = ToRecord
      BY <2>1, <2>2 DEF Waiting, Dropped, ToDecrement, ToIncrement, ToRecord
    <2>4. CountInv'
      BY <2>1, <2>3 DEF CountInv
    <2>5. ClaimInv'
      BY <2>1, <2>2 DEF ClaimInv
    <2>6. QED
      BY <2>4, <2>5
  <1>13. ASSUME NEW w \in Workers, Claim(w) PROVE ClaimInv' /\ CountInv'
    <2>1. PICK t \in Tasks : t = current[w] /\ t \notin claimed /\ fate[t] = "held"
      BY <1>13 DEF Claim, ClaimInv, HandInv, Holding
    <2>2. /\ pc[w] = "starting" /\ pc' = [pc EXCEPT ![w] = "counting"] /\ claimed' = claimed \cup {t}
          /\ UNCHANGED <<current, fate, queued, dropped, interval, logged, step>>
      BY <1>13, <2>1 DEF Claim
    <2>3. Waiting' = Waiting \ {t} /\ t \in Waiting /\ Dropped' = Dropped
      BY <2>1, <2>2 DEF Waiting, Dropped
    <2>4. Cardinality(Waiting') = Cardinality(Waiting) - 1
      BY <2>3, Finite, FS_RemoveElement
    <2>5. CountInv'
      <3>1. /\ ToDecrement' = ToDecrement \cup {w} /\ w \notin ToDecrement
            /\ ToIncrement' = ToIncrement /\ ToRecord' = ToRecord
        BY <2>2 DEF ToDecrement, ToIncrement, ToRecord
      <3>2. Cardinality(ToDecrement') = Cardinality(ToDecrement) + 1
        BY <3>1, Finite, FS_AddElement
      <3>3. QED
        BY <2>2, <2>3, <2>4, <3>1, <3>2, Finite DEF CountInv
    <2>6. \A v \in Workers : pc[v] = "starting" /\ v # w => current[v] # t
      BY <2>1, <2>2 DEF HandInv, Holding
    <2>7. ClaimInv'
      BY <2>1, <2>2, <2>6 DEF ClaimInv
    <2>8. QED
      BY <2>5, <2>7
  <1>14. ASSUME NEW w \in Workers, RunTask(w) PROVE ClaimInv' /\ CountInv'
    <2>1. PICK t \in Tasks : t = current[w] /\ t \in claimed /\ fate[t] = "held"
      BY <1>14 DEF RunTask, ClaimInv, HandInv, Holding
    <2>2. /\ pc' = [pc EXCEPT ![w] = "take"] /\ fate' = [fate EXCEPT ![t] = "done"]
          /\ UNCHANGED <<claimed, queued, dropped, interval, logged, step>>
          /\ current' = [current EXCEPT ![w] = NoTask]
      BY <1>14, <2>1 DEF RunTask
    <2>3. pc[w] = "running" /\ \A v \in Workers : Hands(v)
      BY <1>14, <2>2 DEF RunTask
    <2>4. QED
      BY <1>1, <2>1, <2>2, <2>3 DEF ClaimInv
  <1>15. ASSUME NEW w \in Workers, Exit(w) PROVE ClaimInv' /\ CountInv'
    BY <1>1, <1>15 DEF Exit, ClaimInv
  <1>16. ASSUME NEW c \in Closers, CloseBegin(c) \/ CloseShutdown(c) \/ CloseTerminated(c)
                                     \/ CloseForces(c) \/ CloseEnds(c)
         PROVE  ClaimInv' /\ CountInv'
    BY <1>1, <1>16 DEF CloseBegin, CloseShutdown, CloseTerminated, CloseForces, CloseEnds, ClaimInv
  <1>17. ASSUME NEW c \in Closers, DropPending(c) PROVE ClaimInv' /\ CountInv'
    <2>1. UNCHANGED <<pc, current>> /\ pending # <<>> /\ Drop(c, Head(pending)) /\ step[c] = "none"
      BY <1>17 DEF DropPending
    <2>2. QED
      BY <1>2, <2>1, HeadFacts
  <1>18. ASSUME NEW x \in Threads, Counting(x) PROVE ClaimInv' /\ CountInv'
    <2>1. /\ UNCHANGED <<pc, claimed, fate, current>> /\ step[x] # "none"
          /\ \E s \in Steps : step' = [step EXCEPT ![x] = s]
      BY <1>18 DEF Counting, DecrementQueued, IncrementDropped, RecordDrop, LogSummary, StepTo, Steps
    <2>2. ClaimInv' /\ Waiting' = Waiting /\ Dropped' = Dropped /\ x \in Threads \ Workers
      BY <2>1 DEF ClaimInv, Waiting, Dropped
    <2>3. CASE DecrementQueued(x)
      <3>1. step[x] = "decrement" /\ step' = [step EXCEPT ![x] = "increment"]
            /\ queued' = queued - 1 /\ UNCHANGED <<dropped, interval, logged>>
        BY <2>3 DEF DecrementQueued, StepTo
      <3>2. /\ x \in ToDecrement /\ ToDecrement' = ToDecrement \ {x}
            /\ ToIncrement' = ToIncrement /\ ToRecord' = ToRecord
        <4>1. /\ x \in ToDecrement /\ ToDecrement' = ToDecrement \ {x}
              /\ x \in ToIncrement /\ ToIncrement' = ToIncrement \cup {x}
              /\ x \in ToRecord /\ ToRecord' = ToRecord \cup {x}
          BY <2>1, <2>2, <3>1, Owing DEF Steps
        <4>2. QED
          BY <4>1
      <3>3. Cardinality(ToDecrement') = Cardinality(ToDecrement) - 1
        BY <3>2, Finite, FS_RemoveElement
      <3>4. QED
        BY <2>2, <3>1, <3>2, <3>3, Finite DEF CountInv
    <2>4. CASE IncrementDropped(x)
      <3>1. step[x] = "increment" /\ step' = [step EXCEPT ![x] = "record"]
            /\ dropped' = dropped + 1 /\ UNCHANGED <<queued, interval, logged>>
        BY <2>4 DEF IncrementDropped, StepTo
      <3>2. /\ x \in ToIncrement /\ ToIncrement' = ToIncrement \ {x}
            /\ ToDecrement' = ToDecrement /\ ToRecord' = ToRecord
        <4>1. /\ x \notin ToDecrement /\ ToDecrement' = ToDecrement \ {x}
              /\ x \in ToIncrement /\ ToIncrement' = ToIncrement \ {x}
              /\ x \in ToRecord /\ ToRecord' = ToRecord \cup {x}
          BY <2>1, <2>2, <3>1, Owing DEF Steps
        <4>2. QED
          BY <4>1
      <3>3. Cardinality(ToIncrement') = Cardinality(ToIncrement) - 1
        BY <3>2, Finite, FS_RemoveElement
      <3>4. QED
        BY <2>2, <3>1, <3>2, <3>3, Finite DEF CountInv
    <2>5. CASE RecordDrop(x)
      <3>1. PICK s \in {"none", "summarise"} : step' = [step EXCEPT ![x] = s]
        BY <2>5 DEF RecordDrop, StepTo
      <3>2. step[x] = "record" /\ interval' = interval + 1 /\ UNCHANGED <<queued, dropped, logged>>
        BY <2>5 DEF RecordDrop
      <3>3. /\ x \in ToRecord /\ ToRecord' = ToRecord \ {x}
            /\ ToDecrement' = ToDecrement /\ ToIncrement' = ToIncrement
        <4>1. /\ x \notin ToDecrement /\ ToDecrement' = ToDecrement \ {x}
              /\ x \notin ToIncrement /\ ToIncrement' = ToIncrement \ {x}
              /\ x \in ToRecord /\ ToRecord' = ToRecord \ {x}
          BY <2>1, <2>2, <3>1, <3>2, Owing DEF Steps
        <4>2. QED
          BY <4>1
      <3>4. Cardinality(ToRecord') = Cardinality(ToRecord) - 1
        BY <3>3, Finite, FS_RemoveElement
      <3>5. QED
        BY <2>2, <3>2, <3>3, <3>4, Finite DEF CountInv
    <2>6. CASE LogSummary(x)
      <3>1. step[x] = "summarise" /\ step' = [step EXCEPT ![x] = "none"]
            /\ logged' = logged + interval /\ interval' = 0 /\ UNCHANGED <<queued, dropped>>
        BY <2>6 DEF LogSummary, StepTo
      <3>2. ToRecord' = ToRecord /\ ToDecrement' = ToDecrement /\ ToIncrement' = ToIncrement
        <4>1. /\ x \notin ToDecrement /\ ToDecrement' = ToDecrement \ {x}
              /\ x \notin ToIncrement /\ ToIncrement' = ToIncrement \ {x}
              /\ x \notin ToRecord /\ ToRecord' = ToRecord \ {x}
          BY <2>1, <2>2, <3>1, Owing DEF Steps
        <4>2. QED
          BY <4>1
      <3>3. QED
        BY <2>2, <3>1, <3>2, Finite DEF CountInv
    <2>7. QED
      BY <1>18, <2>2, <2>3, <2>4, <2>5, <2>6 DEF Counting
  <1>19. CASE UNCHANGED vars
    BY <1>1, <1>19 DEF vars, ClaimInv
  <1>20. ASSUME NEW w \in Workers, CountStarted(w) PROVE ClaimInv' /\ CountInv'
    <2>1. /\ pc[w] = "counting" /\ pc' = [pc EXCEPT ![w] = "running"] /\ queued' = queued - 1
          /\ UNCHANGED <<claimed, current, fate, dropped, interval, logged, step>>
      BY <1>20 DEF CountStarted
    <2>2. /\ Waiting' = Waiting /\ Dropped' = Dropped
          /\ ToDecrement' = ToDecrement \ {w} /\ w \in ToDecrement
          /\ ToIncrement' = ToIncrement /\ ToRecord' = ToRecord
      BY <2>1 DEF Waiting, Dropped, ToDecrement, ToIncrement, ToRecord
    <2>3. Cardinality(ToDecrement') = Cardinality(ToDecrement) - 1
      BY <2>2, Finite, FS_RemoveElement
    <2>4. CountInv'
      BY <2>1, <2>2, <2>3, Finite DEF CountInv
    <2>5. ClaimInv'
      BY <2>1 DEF ClaimInv
    <2>6. QED
      BY <2>4, <2>5
  <1>21. QED
    BY <1>3, <1>4, <1>5, <1>6, <1>7, <1>8, <1>9, <1>10, <1>11, <1>12, <1>13, <1>14, <1>15, <1>16,
       <1>17, <1>18, <1>19, <1>20 DEF Next, Caller, Worker, Closer

\* The pool's threads come and go with its run state.
LEMMA PoolStep == ASSUME DispatcherInv, [Next]_vars PROVE PoolInv'
  <1> USE JavaAssumption DEF DispatcherInv, PCInv, Threads, Goto, At, poolVars
  <1> DEFINE Busy == queue # <<>> \/ \E t \in Tasks : pc[t] \in Offering
  <1>1. ASSUME UNCHANGED runState, \A w \in Workers : pc'[w] = pc[w],
               runState = "RUNNING" /\ Busy' => Busy \/ \A w \in Workers : pc[w] # "unborn"
        PROVE  PoolInv'
    <2>1. LiveWorkers' = LiveWorkers
      BY <1>1 DEF LiveWorkers
    <2>2. QED
      BY <1>1, <2>1 DEF PoolInv
  <1>2. ASSUME UNCHANGED runState, NEW w \in Workers, pc[w] \in {"starting", "counting", "take", "running"},
               pc'[w] \in {"starting", "counting", "take", "running"}, \A x \in Threads \ {w} : pc'[x] = pc[x],
               Busy' => Busy
        PROVE  PoolInv'
    <2>1. LiveWorkers' = LiveWorkers
      BY <1>2 DEF LiveWorkers
    <2>2. QED
      BY <1>2, <2>1 DEF PoolInv
  <1>3. ASSUME NEW t \in Tasks, SubmitRefused(t) \/ SubmitCounts(t) PROVE PoolInv'
    <2>1. UNCHANGED runState /\ \A w \in Workers : pc'[w] = pc[w]
      BY <1>3 DEF SubmitRefused, SubmitCounts
    <2>2. Busy' => Busy
      BY <1>3 DEF SubmitRefused, SubmitCounts, Offering
    <2>3. QED
      BY <1>1, <2>1, <2>2
  <1>4. ASSUME NEW t \in Tasks, ExecuteStartsWorker(t) PROVE PoolInv'
    <2>1. PICK w \in Workers : pc[w] = "unborn" /\ pc' = [pc EXCEPT ![w] = "starting", ![t] = "returned"]
      BY <1>4 DEF ExecuteStartsWorker
    <2>2. runState = "RUNNING" /\ UNCHANGED <<runState, queue>>
      BY <1>4 DEF ExecuteStartsWorker
    <2>3. Busy' => Busy
      BY <2>1, <2>2 DEF Offering
    <2>4. QED
      BY <2>1, <2>2, <2>3 DEF PoolInv
  <1>5. ASSUME NEW t \in Tasks, ExecuteFindsPool(t) PROVE PoolInv'
    BY <1>1, <1>5 DEF ExecuteFindsPool
  <1>6. ASSUME NEW t \in Tasks, ExecuteOffers(t) \/ RejectedPolls(t) \/ RejectedOffers(t) PROVE PoolInv'
    <2>1. UNCHANGED runState /\ \A w \in Workers : pc'[w] = pc[w]
      BY <1>6 DEF ExecuteOffers, RejectedPolls, RejectedOffers
    <2>2. Busy
      BY <1>6 DEF ExecuteOffers, RejectedPolls, RejectedOffers, Offering
    <2>3. QED
      BY <1>1, <2>1, <2>2
  <1>7. ASSUME NEW t \in Tasks, RejectedFirstCheck(t) \/ RejectedSecondCheck(t) PROVE PoolInv'
    <2>1. UNCHANGED runState /\ \A w \in Workers : pc'[w] = pc[w]
      BY <1>7 DEF RejectedFirstCheck, RejectedSecondCheck
    <2>2. Busy
      BY <1>7 DEF RejectedFirstCheck, RejectedSecondCheck, Offering
    <2>3. QED
      BY <1>1, <2>1, <2>2
  <1>8. ASSUME NEW t \in Tasks, Recheck(t) PROVE PoolInv'
    <2>1. Busy /\ \A w \in Workers : pc'[w] = pc[w]
      BY <1>8 DEF Recheck, Offering
    <2>2. CASE UNCHANGED runState
      BY <1>1, <2>1, <2>2
    <2>3. CASE ~UNCHANGED runState
      <3>1. runState' = "TERMINATED" /\ LiveWorkers = {}
        BY <1>8, <2>3 DEF Recheck, Terminates
      <3>2. LiveWorkers' = {}
        BY <2>1, <3>1 DEF LiveWorkers
      <3>3. QED
        BY <3>1, <3>2 DEF PoolInv
    <2>4. QED
      BY <2>2, <2>3
  <1>9. ASSUME NEW w \in Workers, Take(w) PROVE PoolInv'
    <2>1. queue # <<>> /\ pc[w] = "take" /\ pc' = [pc EXCEPT ![w] = "starting"] /\ UNCHANGED runState
      BY <1>9 DEF Take
    <2>2. QED
      BY <1>2, <2>1
  <1>10. ASSUME NEW w \in Workers, Claim(w) \/ CountStarted(w) \/ RunTask(w) PROVE PoolInv'
    <2>1. /\ pc[w] \in {"starting", "counting", "running"} /\ UNCHANGED <<runState, queue>>
          /\ \E l \in {"take", "counting", "running"} : pc' = [pc EXCEPT ![w] = l]
      BY <1>10 DEF Claim, CountStarted, RunTask
    <2>2. QED
      BY <1>2, <2>1
  <1>11. ASSUME NEW w \in Workers, Exit(w) PROVE PoolInv'
    <2>1. /\ pc[w] = "take" /\ pc' = [pc EXCEPT ![w] = "exited"]
          /\ runState = "STOP" \/ (runState = "SHUTDOWN" /\ queue = <<>>)
          /\ runState' = IF LiveWorkers \ {w} = {} THEN "TERMINATED" ELSE runState
      BY <1>11 DEF Exit, Terminates
    <2>2. LiveWorkers' = LiveWorkers \ {w}
      BY <2>1 DEF LiveWorkers
    <2>3. QED
      BY <2>1, <2>2 DEF PoolInv
  <1>12. ASSUME NEW c \in Closers, CloseBegin(c) \/ CloseTerminated(c) \/ CloseEnds(c) \/ DropPending(c)
         PROVE  PoolInv'
    <2>1. UNCHANGED <<runState, queue>> /\ \A x \in Tasks \cup Workers : pc'[x] = pc[x]
      BY <1>12 DEF CloseBegin, CloseTerminated, CloseEnds, DropPending
    <2>2. QED
      BY <1>1, <2>1
  <1>13. ASSUME NEW c \in Closers, CloseShutdown(c) PROVE PoolInv'
    <2>1. /\ runState = "RUNNING"
          /\ runState' = IF LiveWorkers = {} /\ queue = <<>> THEN "TERMINATED" ELSE "SHUTDOWN"
      BY <1>13 DEF CloseShutdown, CloseInv
    <2>2. LiveWorkers' = LiveWorkers
      BY <1>13 DEF CloseShutdown, LiveWorkers
    <2>3. queue # <<>> => LiveWorkers # {}
      <3>1. PICK w \in Workers : TRUE
        OBVIOUS
      <3>2. queue # <<>> => w \in LiveWorkers
        BY <2>1 DEF PoolInv, LiveWorkers
      <3>3. QED
        BY <3>2
    <2>4. QED
      BY <2>1, <2>2, <2>3 DEF PoolInv
  <1>14. ASSUME NEW c \in Closers, CloseForces(c) PROVE PoolInv'
    <2>1. runState' = IF LiveWorkers = {} \/ runState = "TERMINATED" THEN "TERMINATED" ELSE "STOP"
      BY <1>14 DEF CloseForces
    <2>2. LiveWorkers' = LiveWorkers
      BY <1>14 DEF CloseForces, LiveWorkers
    <2>3. QED
      BY <2>1, <2>2 DEF PoolInv
  <1>15. ASSUME NEW x \in Threads, Counting(x) PROVE PoolInv'
    BY <1>1, <1>15 DEF Counting, DecrementQueued, IncrementDropped, RecordDrop, LogSummary
  <1>16. CASE UNCHANGED vars
    BY <1>1, <1>16 DEF vars
  <1>17. QED
    BY <1>3, <1>4, <1>5, <1>6, <1>7, <1>8, <1>9, <1>10, <1>11, <1>12, <1>13, <1>14, <1>15, <1>16
       DEF Next, Caller, Worker, Closer

\* Only the one close that gets past the flag shuts the pool down, forces it and drops.
LEMMA CloseStep == ASSUME DispatcherInv, [Next]_vars PROVE CloseInv'
  <1> USE JavaAssumption DEF DispatcherInv, PCInv, Threads, Goto, At, poolVars, closeVars
  <1>1. ASSUME UNCHANGED <<closed, forced, pending>>, \A c \in Closers : pc'[c] = pc[c],
               runState' = runState \/ (runState' = "TERMINATED" /\ runState \in {"SHUTDOWN", "STOP"}),
               \A t \in Tasks : fate'[t] = "abandoned" => fate[t] = "abandoned"
        PROVE  CloseInv'
    BY <1>1 DEF CloseInv, ClosePast
  <1>2. ASSUME NEW t \in Tasks, SubmitRefused(t) \/ SubmitCounts(t) \/ ExecuteStartsWorker(t)
                                  \/ ExecuteFindsPool(t) \/ ExecuteOffers(t)
        PROVE  CloseInv'
    <2>1. UNCHANGED <<closed, forced, pending, runState>> /\ \A c \in Closers : pc'[c] = pc[c]
      BY <1>2 DEF SubmitRefused, SubmitCounts, ExecuteStartsWorker, ExecuteFindsPool, ExecuteOffers
    <2>2. UNCHANGED fate \/ \E f \in Fates \ {"abandoned"} : fate' = [fate EXCEPT ![t] = f]
      BY <1>2 DEF SubmitRefused, SubmitCounts, ExecuteStartsWorker, ExecuteFindsPool, ExecuteOffers, Fates
    <2>3. QED
      BY <1>1, <2>1, <2>2 DEF DataInv
  <1>3. ASSUME NEW t \in Tasks, Recheck(t) PROVE CloseInv'
    <2>1. UNCHANGED <<closed, forced, pending>> /\ \A c \in Closers : pc'[c] = pc[c]
      BY <1>3 DEF Recheck
    <2>2. UNCHANGED fate \/ fate' = [fate EXCEPT ![t] = "submitted"]
      BY <1>3 DEF Recheck
    <2>3. runState' = runState \/ (runState' = "TERMINATED" /\ runState \in {"SHUTDOWN", "STOP"})
      BY <1>3 DEF Recheck, Terminates
    <2>4. QED
      BY <1>1, <2>1, <2>2, <2>3 DEF DataInv
  <1>4. ASSUME NEW t \in Tasks, RejectedFirstCheck(t) \/ RejectedSecondCheck(t) \/ RejectedOffers(t)
        PROVE  CloseInv'
    <2>1. UNCHANGED <<closed, forced, pending, runState>> /\ \A c \in Closers : pc'[c] = pc[c]
      BY <1>4 DEF RejectedFirstCheck, RejectedSecondCheck, RejectedOffers
    <2>2. fate[t] = "submitted"
      BY <1>4 DEF RejectedFirstCheck, RejectedSecondCheck, RejectedOffers, CallerInv, Submitting, Offering
    <2>3. UNCHANGED fate \/ \E f \in Fates \ {"abandoned"} : fate' = [fate EXCEPT ![t] = f]
      BY <1>4, <2>2, DropFacts DEF RejectedFirstCheck, RejectedSecondCheck, RejectedOffers, Drops,
                                   dropVars, Fates
    <2>4. QED
      BY <1>1, <2>1, <2>3 DEF DataInv
  <1>5. ASSUME NEW t \in Tasks, RejectedPolls(t) PROVE CloseInv'
    <2>1. UNCHANGED <<closed, forced, pending, runState>> /\ \A c \in Closers : pc'[c] = pc[c]
      BY <1>5 DEF RejectedPolls
    <2>2. \A u \in Tasks : fate'[u] = "abandoned" => fate[u] = "abandoned"
      BY <1>5, HeadFacts, DropFacts DEF RejectedPolls, Drops, dropVars, DataInv
    <2>3. QED
      BY <1>1, <2>1, <2>2
  <1>6. ASSUME NEW w \in Workers, Worker(w) PROVE CloseInv'
    <2>1. UNCHANGED <<closed, forced, pending>> /\ \A c \in Closers : pc'[c] = pc[c]
      BY <1>6 DEF Worker, Take, Claim, CountStarted, RunTask, Exit
    <2>2. runState' = runState \/ (runState' = "TERMINATED" /\ runState \in {"SHUTDOWN", "STOP"})
      BY <1>6 DEF Worker, Take, Claim, CountStarted, RunTask, Exit, Terminates
    <2>3. \A u \in Tasks : fate'[u] = "abandoned" => fate[u] = "abandoned"
      BY <1>6 DEF Worker, Take, Claim, CountStarted, RunTask, Exit, DataInv
    <2>4. QED
      BY <1>1, <2>1, <2>2, <2>3
  <1>7. ASSUME NEW c \in Closers, CloseBegin(c) PROVE CloseInv'
    <2>1. /\ closed' /\ UNCHANGED <<runState, forced, pending, fate>> /\ pc[c] = "call"
          /\ pc' = [pc EXCEPT ![c] = IF closed THEN "returned" ELSE "shutdown"]
      BY <1>7 DEF CloseBegin
    <2>2. CASE closed
      BY <2>1, <2>2 DEF CloseInv, ClosePast
    <2>3. CASE ~closed
      BY <2>1, <2>3 DEF CloseInv, ClosePast
    <2>4. QED
      BY <2>2, <2>3
  <1>8. ASSUME NEW c \in Closers, CloseShutdown(c) PROVE CloseInv'
    <2>1. /\ pc[c] = "shutdown" /\ pc' = [pc EXCEPT ![c] = "awaiting"] /\ closed /\ runState = "RUNNING"
          /\ UNCHANGED <<closed, forced, pending, fate>> /\ runState' \in {"SHUTDOWN", "TERMINATED"}
      BY <1>8 DEF CloseShutdown, CloseInv
    <2>2. QED
      BY <2>1 DEF CloseInv, ClosePast
  <1>9. ASSUME NEW c \in Closers, CloseTerminated(c) PROVE CloseInv'
    <2>1. /\ pc[c] = "awaiting" /\ pc' = [pc EXCEPT ![c] = "returned"]
          /\ UNCHANGED <<closed, forced, pending, fate, runState>>
      BY <1>9 DEF CloseTerminated
    <2>2. QED
      BY <2>1 DEF CloseInv, ClosePast
  <1>10. ASSUME NEW c \in Closers, CloseForces(c) PROVE CloseInv'
    <2>1. /\ pc[c] = "awaiting" /\ pc' = [pc EXCEPT ![c] = "dropping"] /\ forced'
          /\ UNCHANGED <<closed, fate>> /\ runState' \in {"STOP", "TERMINATED"}
      BY <1>10 DEF CloseForces
    <2>2. closed
      BY <2>1 DEF CloseInv
    <2>3. QED
      BY <2>1, <2>2 DEF CloseInv, ClosePast
  <1>11. ASSUME NEW c \in Closers, DropPending(c) PROVE CloseInv'
    <2>1. pc[c] = "dropping" /\ UNCHANGED <<pc, closed, forced, runState>>
      BY <1>11 DEF DropPending
    <2>2. QED
      BY <2>1 DEF CloseInv, ClosePast
  <1>12. ASSUME NEW c \in Closers, CloseEnds(c) PROVE CloseInv'
    <2>1. /\ pc[c] = "dropping" /\ pc' = [pc EXCEPT ![c] = "returned"] /\ pending = <<>>
          /\ UNCHANGED <<closed, forced, pending, fate, runState>>
      BY <1>12 DEF CloseEnds
    <2>2. QED
      BY <2>1 DEF CloseInv, ClosePast
  <1>13. ASSUME NEW x \in Threads, Counting(x) PROVE CloseInv'
    BY <1>1, <1>13 DEF Counting, DecrementQueued, IncrementDropped, RecordDrop, LogSummary
  <1>14. CASE UNCHANGED vars
    BY <1>1, <1>14 DEF vars
  <1>15. QED
    BY <1>2, <1>3, <1>4, <1>5, <1>6, <1>7, <1>8, <1>9, <1>10, <1>11, <1>12, <1>13, <1>14
       DEF Next, Caller, Closer

\* A task that close owes never gets back to its caller or into the queue.
LEMMA OwedStep == ASSUME DispatcherInv, [Next]_vars PROVE OwedInv'
  <1> USE JavaAssumption DEF DispatcherInv, PCInv, Threads, Goto, At, poolVars, closeVars
  <1> DEFINE Kept == {"queued", "held", "done", "dropped", "abandoned"}
             NoneQueued == \A t \in owed : fate[t] # "queued"
  <1>1. ASSUME UNCHANGED owed, \A t \in owed : pc'[t] = pc[t] /\ fate'[t] \in Kept,
               runState' = "TERMINATED" /\ ~forced' =>
                 NoneQueued' \/ (/\ runState = "TERMINATED" /\ ~forced
                                 /\ \A t \in owed : fate'[t] = "queued" => fate[t] = "queued")
        PROVE  OwedInv'
    BY <1>1 DEF OwedInv
  <1>2. ASSUME NEW t \in Tasks, SubmitRefused(t) \/ SubmitCounts(t) \/ ExecuteStartsWorker(t)
                                  \/ ExecuteFindsPool(t) \/ ExecuteOffers(t)
        PROVE  OwedInv'
    <2>1. UNCHANGED <<owed, runState, forced>> /\ pc[t] # "returned"
      BY <1>2 DEF SubmitRefused, SubmitCounts, ExecuteStartsWorker, ExecuteFindsPool, ExecuteOffers
    <2>2. \A u \in Tasks \ {t} : pc'[u] = pc[u] /\ fate'[u] = fate[u]
      BY <1>2 DEF SubmitRefused, SubmitCounts, ExecuteStartsWorker, ExecuteFindsPool, ExecuteOffers,
                  DataInv
    <2>3. QED
      BY <1>1, <2>1, <2>2 DEF OwedInv
  <1>3. ASSUME NEW t \in Tasks, Recheck(t) PROVE OwedInv'
    <2>1. UNCHANGED <<owed, forced>> /\ pc[t] = "recheck"
      BY <1>3 DEF Recheck
    <2>2. \A u \in Tasks \ {t} : pc'[u] = pc[u] /\ fate'[u] = fate[u]
      BY <1>3 DEF Recheck, DataInv
    <2>3. CASE UNCHANGED runState
      BY <1>1, <2>1, <2>2, <2>3 DEF OwedInv
    <2>4. CASE ~UNCHANGED runState
      <3>1. runState = "STOP" \/ queue' = <<>>
        BY <1>3, <2>4 DEF Recheck, Terminates
      <3>2. ~forced => queue' = <<>>
        BY <3>1 DEF CloseInv
      <3>3. ~forced => pending = <<>>
        BY DEF CloseInv
      <3>4. ~forced /\ queue' = <<>> /\ pending' = <<>> => \A u \in Tasks : fate'[u] # "queued"
        <4>1. QueueInv'
          BY QueueStep
        <4>2. QED
          BY <4>1 DEF QueueInv
      <3>5. UNCHANGED pending
        BY <1>3 DEF Recheck
      <3>6. ~forced => NoneQueued'
        BY <2>1, <3>2, <3>3, <3>4, <3>5 DEF OwedInv
      <3>7. QED
        BY <1>1, <2>1, <2>2, <3>6 DEF OwedInv
    <2>5. QED
      BY <2>3, <2>4
  <1>4. ASSUME NEW t \in Tasks, RejectedFirstCheck(t) \/ RejectedSecondCheck(t) \/ RejectedOffers(t)
        PROVE  OwedInv'
    <2>1. UNCHANGED <<owed, runState, forced>> /\ pc[t] # "returned"
      BY <1>4 DEF RejectedFirstCheck, RejectedSecondCheck, RejectedOffers
    <2>2. fate[t] = "submitted"
      BY <1>4 DEF RejectedFirstCheck, RejectedSecondCheck, RejectedOffers, CallerInv, Submitting, Offering
    <2>3. UNCHANGED fate \/ \E f \in Fates : fate' = [fate EXCEPT ![t] = f]
      BY <1>4, <2>2, DropFacts DEF RejectedFirstCheck, RejectedSecondCheck, RejectedOffers, Drops,
                                   dropVars, Fates
    <2>4. \A u \in Tasks \ {t} : pc'[u] = pc[u]
      BY <1>4 DEF RejectedFirstCheck, RejectedSecondCheck, RejectedOffers
    <2>5. QED
      BY <1>1, <2>1, <2>3, <2>4 DEF OwedInv, DataInv
  <1>5. ASSUME NEW t \in Tasks, RejectedPolls(t) PROVE OwedInv'
    <2>1. UNCHANGED <<owed, runState, forced>> /\ pc[t] # "returned"
      BY <1>5 DEF RejectedPolls
    <2>2. \A u \in Tasks : fate'[u] = fate[u] \/ fate'[u] = "dropped"
      BY <1>5, HeadFacts, DropFacts DEF RejectedPolls, Drops, dropVars, DataInv
    <2>3. \A u \in Tasks \ {t} : pc'[u] = pc[u]
      BY <1>5 DEF RejectedPolls
    <2>4. QED
      BY <1>1, <2>1, <2>2, <2>3 DEF OwedInv
  <1>6. ASSUME NEW w \in Workers, Take(w) \/ Claim(w) \/ CountStarted(w) \/ RunTask(w)
        PROVE  OwedInv'
    <2>1. UNCHANGED <<owed, runState, forced>> /\ \A u \in Tasks : pc'[u] = pc[u]
      BY <1>6 DEF Take, Claim, CountStarted, RunTask
    <2>2. \A u \in Tasks : fate'[u] = fate[u] \/ fate'[u] \in {"held", "done"}
      BY <1>6 DEF Take, Claim, CountStarted, RunTask, DataInv
    <2>3. QED
      BY <1>1, <2>1, <2>2 DEF OwedInv
  <1>7. ASSUME NEW w \in Workers, Exit(w) PROVE OwedInv'
    <2>1. UNCHANGED <<owed, forced, fate>> /\ \A u \in Tasks : pc'[u] = pc[u]
      BY <1>7 DEF Exit
    <2>2. ~forced => queue = <<>> /\ pending = <<>>
      BY <1>7 DEF Exit, CloseInv
    <2>3. ~forced => NoneQueued
      BY <2>2 DEF QueueInv, OwedInv
    <2>4. QED
      BY <1>1, <2>1, <2>3 DEF OwedInv
  <1>8. ASSUME NEW c \in Closers, CloseBegin(c) \/ CloseTerminated(c) \/ CloseEnds(c) PROVE OwedInv'
    <2>1. UNCHANGED <<owed, runState, forced, fate>> /\ \A u \in Tasks : pc'[u] = pc[u]
      BY <1>8 DEF CloseBegin, CloseTerminated, CloseEnds
    <2>2. QED
      BY <1>1, <2>1 DEF OwedInv
  <1>9. ASSUME NEW c \in Closers, CloseShutdown(c) PROVE OwedInv'
    <2>1. /\ owed' = {t \in Tasks : pc[t] = "returned" /\ fate[t] \in {"queued", "held"}}
          /\ UNCHANGED fate /\ \A u \in Tasks : pc'[u] = pc[u]
          /\ runState = "RUNNING" /\ (runState' = "TERMINATED" => queue = <<>>)
      BY <1>9 DEF CloseShutdown, CloseInv
    <2>2. pending = <<>>
      BY <2>1 DEF CloseInv
    <2>3. runState' = "TERMINATED" => \A u \in Tasks : fate[u] # "queued"
      BY <2>1, <2>2 DEF QueueInv
    <2>4. QED
      BY <2>1, <2>3 DEF OwedInv
  <1>10. ASSUME NEW c \in Closers, CloseForces(c) PROVE OwedInv'
    <2>1. UNCHANGED <<owed, fate>> /\ forced' /\ \A u \in Tasks : pc'[u] = pc[u]
      BY <1>10 DEF CloseForces
    <2>2. QED
      BY <1>1, <2>1 DEF OwedInv
  <1>11. ASSUME NEW c \in Closers, DropPending(c) PROVE OwedInv'
    <2>1. UNCHANGED <<owed, forced, runState, pc>>
      BY <1>11 DEF DropPending
    <2>2. \A u \in Tasks : fate'[u] = fate[u] \/ fate'[u] = "abandoned"
      BY <1>11, HeadFacts, DropFacts DEF DropPending, Drops, DataInv
    <2>3. QED
      BY <1>1, <2>1, <2>2 DEF OwedInv
  <1>12. ASSUME NEW x \in Threads, Counting(x) PROVE OwedInv'
    BY <1>1, <1>12 DEF Counting, DecrementQueued, IncrementDropped, RecordDrop, LogSummary, OwedInv
  <1>13. CASE UNCHANGED vars
    BY <1>1, <1>13 DEF vars, OwedInv
  <1>14. QED
    BY <1>2, <1>3, <1>4, <1>5, <1>6, <1>7, <1>8, <1>9, <1>10, <1>11, <1>12, <1>13
       DEF Next, Caller, Worker, Closer

LEMMA NextInv == ASSUME DispatcherInv, [Next]_vars PROVE DispatcherInv'
  BY DataStep, PCStep, CallerStep, QueueStep, HandStep, ClaimCountStep, PoolStep, CloseStep, OwedStep
     DEF DispatcherInv

-----------------------------------------------------------------------------
(* Theorems *)

\* The invariant of the Java dispatcher.
THEOREM Invariance == Spec => []DispatcherInv
  <1>1. Init => DispatcherInv
    BY InitInv
  <1>2. DispatcherInv /\ [Next]_vars => DispatcherInv'
    BY NextInv
  <1>3. QED
    BY <1>1, <1>2, PTL DEF Spec

\* The gauge and the counters are off by the threads in the middle of an update and by
\* nothing else: a task is claimed once, by the thread that starts it or the one that drops
\* it (TrackedTask.java:19-34), and no drop is lost between the CAS that ends an interval
\* and the getAndSet that reports it (RateLimitedDropLogger.java:35-46).
THEOREM MetricsAreExact == Spec => []MetricsExact
  <1>1. DispatcherInv => MetricsExact
    BY DEF DispatcherInv, CountInv, MetricsExact, Waiting, Dropped
  <1>2. QED
    BY <1>1, Invariance, PTL

\* A close that ends without force leaves nothing that it owed undone
\* (AsyncDispatcher.java:55-61).
THEOREM CleanClose == Spec => []OwedDelivered
  <1>1. DispatcherInv => OwedDelivered
    <2> SUFFICES ASSUME DispatcherInv, runState = "TERMINATED", ~forced, NEW t \in owed
                 PROVE  fate[t] \in {"done", "dropped"}
      BY DEF OwedDelivered
    <2>1. t \in Tasks /\ fate[t] \in {"held", "done", "dropped", "abandoned"}
      BY DEF DispatcherInv, OwedInv
    <2>2. fate[t] # "abandoned"
      BY <2>1 DEF DispatcherInv, CloseInv
    <2>3. fate[t] # "held"
      BY <2>1 DEF DispatcherInv, HandInv, Holding, PoolInv, LiveWorkers
    <2>4. QED
      BY <2>1, <2>2, <2>3
  <1>2. QED
    BY <1>1, Invariance, PTL

\* After shutdownNow no thread of the pool gets another task: neither from a caller nor
\* from the queue, whatever a late rejection handler puts there.
THEOREM ForceIsFinal == Spec => ForcedStaysForced
  <1> DEFINE G == forced => \A w \in Workers : current'[w] # NoTask => current'[w] = current[w]
  <1>1. DispatcherInv /\ [Next]_vars => [G]_vars
    <2> SUFFICES ASSUME DispatcherInv, Next, forced
                 PROVE  \A w \in Workers : current'[w] # NoTask => current'[w] = current[w]
      OBVIOUS
    <2>1. runState \in {"STOP", "TERMINATED"}
      BY DEF DispatcherInv, CloseInv
    <2>2. ASSUME NEW t \in Tasks, Caller(t) PROVE UNCHANGED current
      BY <2>1, <2>2 DEF Caller, SubmitRefused, SubmitCounts, ExecuteStartsWorker, ExecuteFindsPool,
                        ExecuteOffers, Recheck, RejectedFirstCheck, RejectedPolls,
                        RejectedSecondCheck, RejectedOffers, poolVars
    <2>3. ASSUME NEW w \in Workers, Worker(w)
          PROVE  UNCHANGED current \/ current' = [current EXCEPT ![w] = NoTask]
      BY <2>1, <2>3 DEF Worker, Take, Claim, CountStarted, RunTask, Exit, poolVars
    <2>4. ASSUME NEW c \in Closers, Closer(c) PROVE UNCHANGED current
      BY <2>4 DEF Closer, CloseBegin, CloseShutdown, CloseTerminated, CloseForces, DropPending,
                  CloseEnds, poolVars
    <2>5. ASSUME NEW x \in Threads, Counting(x) PROVE UNCHANGED current
      BY <2>5 DEF Counting, DecrementQueued, IncrementDropped, RecordDrop, LogSummary, poolVars
    <2>6. QED
      BY <2>2, <2>3, <2>4, <2>5 DEF Next, DispatcherInv, DataInv
  <1>2. QED
    BY <1>1, Invariance, PTL DEF Spec, ForcedStaysForced

\* When the threads have come to rest, the one task that can be neither run nor dropped
\* is one that the handler offered to a terminated pool.
THEOREM RestIsResolved == Spec => []RestResolved
  <1>1. DispatcherInv => RestResolved
    <2> SUFFICES ASSUME DispatcherInv, Quiet, NEW t \in Tasks,
                        fate[t] \notin {"new", "refused", "done", "dropped", "abandoned"}
                 PROVE  runState = "TERMINATED" /\ Contains(queue, t)
      BY DEF RestResolved
    <2>1. fate[t] # "submitted"
      BY DEF DispatcherInv, CallerInv, Quiet, Submitting, Offering
    <2>2. fate[t] # "held"
      BY DEF DispatcherInv, HandInv, Holding, Quiet
    <2>3. fate[t] = "queued"
      BY <2>1, <2>2 DEF DispatcherInv, DataInv, Fates
    <2>4. pending = <<>>
      BY DEF DispatcherInv, CloseInv, Quiet
    <2>5. PICK i \in 1 .. Len(queue) : queue[i] = t
      BY <2>3, <2>4 DEF DispatcherInv, QueueInv
    <2>6. queue # <<>>
      BY <2>5
    <2>7. LiveWorkers = {}
      BY <2>6 DEF Quiet, LiveWorkers
    <2>8. runState # "RUNNING"
      <3>1. PICK w \in Workers : TRUE
        BY JavaAssumption
      <3>2. pc[w] \in {"unborn", "exited"}
        BY <2>6 DEF Quiet
      <3>3. QED
        BY <2>6, <3>2 DEF DispatcherInv, PoolInv
    <2>9. runState = "TERMINATED"
      BY <2>7, <2>8 DEF DispatcherInv, DataInv, RunStates, PoolInv
    <2>10. QED
      BY <2>5, <2>9 DEF Contains
  <1>2. QED
    BY <1>1, Invariance, PTL
=============================================================================
