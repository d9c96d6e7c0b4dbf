------------------------ MODULE ClientTeardownProofs ------------------------
(***************************************************************************)
(* Proofs about the teardown of the Ruby, the .NET and the Node client,    *)
(* for any number of posts, workers and closing threads, any capacity and  *)
(* any number of retries.                                                  *)
(***************************************************************************)
EXTENDS ClientTeardown, FiniteSetTheorems, TLAPS

-----------------------------------------------------------------------------
(* The inductive invariant *)

Phases == {"idle", "admitted", "refused", "queued", "displaced", "taken", "sending", "backoff",
           "due", "over", "lost", "abandoned"}
Stages == {"idle", "tested", "ignored", "signalling", "dispatcher", "draining", "counted",
           "drained", "threw", "returned"}

DataInv ==
  /\ sdk \in {"ruby", "dotnet", "node"}
  /\ queue \in Seq(Tasks)
  /\ hand \in [Workers -> Tasks \cup {NoTask, Exited, Died}]
  /\ phase \in [All -> Phases]
  /\ tries \in [All -> Nat]
  /\ pc \in [Closers -> Stages]
  /\ told \in Nat

\* The closes that found the client open.  Ruby and Node let one through.
Active == {c \in Closers : pc[c] \notin {"idle", "tested", "ignored"}}
Alone == \A c, d \in Active : c = d

\* A close that has got past the dispatcher's flag, and one that is done with draining.
Past == {c \in Closers : pc[c] \in {"draining", "counted", "drained", "threw", "returned"}}
Drained == {c \in Closers : pc[c] \in {"drained", "returned"}}

CloseInv ==
  /\ Active # {} => closed
  /\ sdk # "dotnet" => Alone
  /\ accepting <=> Past = {}
  /\ released => \E c \in Closers : pc[c] = "returned"
  /\ cancelled => Drained # {}
  /\ \A c \in Closers : pc[c] = "counted" => sdk = "dotnet"

\* The queue holds the queued tasks, each once; behind the drain of Ruby and of Node
\* it is empty for good.
QueueInv ==
  /\ \A i \in 1 .. Len(queue) : phase[queue[i]] = "queued"
  /\ \A i, j \in 1 .. Len(queue) : queue[i] = queue[j] => i = j
  /\ \A t \in Tasks : phase[t] = "queued" => \E i \in 1 .. Len(queue) : queue[i] = t
  /\ sdk # "dotnet" /\ Drained # {} => queue = <<>>

\* Attempts are counted inside the retry loop.
TriesInv == \A x \in All : tries[x] > 0 <=> phase[x] \in {"sending", "backoff", "due"}

\* Node releases its transport in a turn of its own, so nothing is about to begin then.
NodeInv ==
  sdk = "node" /\ released => \A x \in All : phase[x] \notin {"admitted", "taken"}

Queued == {t \in Tasks : phase[t] = "queued"}
Abandoned == {t \in Tasks : phase[t] = "abandoned"}
Lost == {t \in Tasks : phase[t] = "lost"}
Dead == {w \in Workers : hand[w] = Died}

\* Ruby and Node abandon what they have counted.
AbandonInv ==
  /\ sdk = "dotnet" \/ Drained = {} => Abandoned = {}
  /\ Cardinality(Abandoned) <= told \/ Abandoned = {}

\* .NET: a worker that lost its task is dead; unless two disposals overlap, the one that
\* is done has counted what is left, or has met workers that are all dead, or has met
\* one that had found the completed channel empty.
LostInv ==
  /\ sdk # "dotnet" => Lost = {}
  /\ Cardinality(Lost) <= Cardinality(Dead)
  /\ sdk = "dotnet" /\ Alone /\ ~cancelled /\ (\E w \in Workers : hand[w] = Exited) =>
       queue = <<>> /\ ~accepting
  /\ sdk = "dotnet" /\ Alone => \A c \in Closers : pc[c] \in {"counted", "drained", "returned"} =>
       Len(queue) <= told \/ AllDied

Inv == DataInv /\ CloseInv /\ QueueInv /\ TriesInv /\ NodeInv /\ AbandonInv /\ LostInv

-----------------------------------------------------------------------------
(* Sequences and counting *)

\* What is left of a non-empty queue when its head is removed.
LEMMA TailFacts ==
  ASSUME NEW S, NEW q \in Seq(S), q # <<>>
  PROVE  /\ Len(q) \in Nat \ {0}
         /\ Head(q) = q[1] /\ Head(q) \in S
         /\ Tail(q) \in Seq(S)
         /\ Len(Tail(q)) = Len(q) - 1
         /\ \A i \in 1 .. (Len(q) - 1) : Tail(q)[i] = q[i + 1]
  OBVIOUS

\* The queue without its oldest task.
LEMMA RestOfQueue ==
  ASSUME DataInv, QueueInv, queue # <<>>
  PROVE  /\ Len(queue) \in Nat \ {0} /\ Len(Tail(queue)) = Len(queue) - 1
         /\ Head(queue) \in Tasks /\ Tail(queue) \in Seq(Tasks)
         /\ phase[Head(queue)] = "queued"
         /\ \A i \in 1 .. Len(Tail(queue)) :
              Tail(queue)[i] # Head(queue) /\ phase[Tail(queue)[i]] = "queued"
         /\ \A i, j \in 1 .. Len(Tail(queue)) : Tail(queue)[i] = Tail(queue)[j] => i = j
         /\ \A t \in Tasks : phase[t] = "queued" /\ t # Head(queue) =>
              \E i \in 1 .. Len(Tail(queue)) : Tail(queue)[i] = t
  <1> DEFINE n == Len(queue)
             r == Tail(queue)
  <1>1. /\ n \in Nat \ {0} /\ Head(queue) = queue[1] /\ Head(queue) \in Tasks
        /\ r \in Seq(Tasks) /\ Len(r) = n - 1 /\ \A i \in 1 .. (n - 1) : r[i] = queue[i + 1]
    BY TailFacts DEF DataInv
  <1>2. /\ \A i \in 1 .. n : phase[queue[i]] = "queued"
        /\ \A i, j \in 1 .. n : queue[i] = queue[j] => i = j
        /\ \A t \in Tasks : phase[t] = "queued" => \E i \in 1 .. n : queue[i] = t
    BY DEF QueueInv
  <1> HIDE DEF n, r
  <1>3. ASSUME NEW i \in 1 .. Len(r) PROVE r[i] # Head(queue) /\ phase[r[i]] = "queued"
    <2>1. i + 1 \in 1 .. n /\ 1 \in 1 .. n /\ i + 1 # 1 /\ r[i] = queue[i + 1]
      BY <1>1
    <2>2. QED
      BY <1>1, <1>2, <2>1
  <1>4. ASSUME NEW i \in 1 .. Len(r), NEW j \in 1 .. Len(r), r[i] = r[j] PROVE i = j
    <2>1. /\ i + 1 \in 1 .. n /\ j + 1 \in 1 .. n /\ i \in Int /\ j \in Int
          /\ queue[i + 1] = queue[j + 1]
      BY <1>1, <1>4
    <2>2. i + 1 = j + 1
      BY <1>2, <2>1
    <2>3. QED
      BY <2>1, <2>2
  <1>5. ASSUME NEW t \in Tasks, phase[t] = "queued", t # Head(queue)
        PROVE  \E i \in 1 .. Len(r) : r[i] = t
    <2>1. PICK i \in 1 .. n : queue[i] = t
      BY <1>2, <1>5
    <2>2. i - 1 \in 1 .. Len(r) /\ r[i - 1] = t
      BY <1>1, <1>5, <2>1
    <2>3. QED
      BY <2>2
  <1>6. QED
    BY <1>1, <1>2, <1>3, <1>4, <1>5 DEF n, r

LEMMA Finite ==
  /\ IsFiniteSet(Queued) /\ Cardinality(Queued) \in Nat
  /\ IsFiniteSet(Abandoned) /\ Cardinality(Abandoned) \in Nat
  /\ IsFiniteSet(Lost) /\ Cardinality(Lost) \in Nat
  /\ IsFiniteSet(Dead) /\ Cardinality(Dead) \in Nat
  <1>1. IsFiniteSet(Tasks) /\ IsFiniteSet(Workers)
    BY TeardownAssumption
  <1>2. Queued \subseteq Tasks /\ Abandoned \subseteq Tasks /\ Lost \subseteq Tasks
        /\ Dead \subseteq Workers
    BY DEF Queued, Abandoned, Lost, Dead
  <1>3. IsFiniteSet(Queued) /\ IsFiniteSet(Abandoned) /\ IsFiniteSet(Lost) /\ IsFiniteSet(Dead)
    BY <1>1, <1>2, FS_Subset
  <1>4. QED
    BY <1>3, FS_CardinalityType

\* There are at most as many queued tasks as the queue is long.
LEMMA QueuedAtMost ==
  ASSUME DataInv, QueueInv
  PROVE  Cardinality(Queued) <= Len(queue)
  <1> DEFINE I == {i \in 1 .. Len(queue) : queue[i] \in Queued}
             f == [i \in I |-> queue[i]]
  <1>1. f \in Surjection(I, Queued)
    BY DEF QueueInv, Queued, Surjection
  <1>2. Len(queue) \in Nat /\ I \subseteq 1 .. Len(queue)
    BY DEF DataInv
  <1> HIDE DEF I, f
  <1>3. IsFiniteSet(1 .. Len(queue)) /\ Cardinality(1 .. Len(queue)) = Len(queue)
    BY <1>2, FS_Interval
  <1>4. IsFiniteSet(I) /\ Cardinality(I) <= Len(queue)
    BY <1>2, <1>3, FS_Subset
  <1>5. Cardinality(Queued) <= Cardinality(I)
    BY <1>1, <1>4, FS_Surjection
  <1>6. Cardinality(I) \in Nat /\ Cardinality(Queued) \in Nat
    BY <1>4, Finite, FS_CardinalityType
  <1>7. QED
    BY <1>2, <1>4, <1>5, <1>6

\* Two closes that got through make an overlap of .NET disposals.
LEMMA NotOverlapped == ASSUME CloseInv, ~Overlapped PROVE Alone
  <1>1. CASE sdk # "dotnet"
    BY <1>1 DEF CloseInv
  <1>2. CASE sdk = "dotnet"
    <2>1. IsFiniteSet(Active) /\ Cardinality(Active) \in Nat
      BY TeardownAssumption, FS_Subset, FS_CardinalityType DEF Active
    <2>2. ~(Cardinality(Active) > 1)
      BY <1>2 DEF Overlapped, Active
    <2>3. Cardinality(Active) = 0 \/ Cardinality(Active) = 1
      BY <2>1, <2>2
    <2>4. Active = {} \/ \E c : Active = {c}
      BY <2>1, <2>3, FS_EmptySet, FS_Singleton
    <2>5. QED
      BY <2>4 DEF Alone
  <1>3. QED
    BY <1>1, <1>2

-----------------------------------------------------------------------------
(* The initial state *)

LEMMA InitInv == ASSUME Init PROVE Inv
  <1> USE TeardownAssumption DEF Init
  <1>1. DataInv
    BY DEF DataInv, Phases, Stages
  <1>2. CloseInv /\ Drained = {}
    BY DEF CloseInv, Active, Alone, Past, Drained
  <1>3. QueueInv /\ TriesInv /\ NodeInv
    BY DEF QueueInv, TriesInv, NodeInv, All
  <1>4. Abandoned = {} /\ Lost = {} /\ \A w \in Workers : hand[w] = NoTask
    BY DEF Abandoned, Lost, All
  <1>5. Cardinality(Lost) = 0
    BY <1>4, FS_EmptySet
  <1>6. Cardinality(Lost) <= Cardinality(Dead)
    BY <1>5, Finite
  <1>7. AbandonInv
    BY <1>4 DEF AbandonInv
  <1>8. LostInv
    BY <1>4, <1>6 DEF LostInv
  <1>9. QED
    BY <1>1, <1>2, <1>3, <1>7, <1>8 DEF Inv

-----------------------------------------------------------------------------
(* One lemma per part of the invariant *)

LEMMA DataStep == ASSUME Inv, [Next]_vars PROVE DataInv'
  <1> USE TeardownAssumption DEF Inv, DataInv, All
  <1>1. queue # <<>> => Head(queue) \in Tasks /\ Tail(queue) \in Seq(Tasks)
    BY TailFacts
  <1>2. ASSUME NEW x \in All, Call(x) PROVE DataInv'
    <2>1. \E p \in Phases : phase' = [phase EXCEPT ![x] = p]
      BY <1>2 DEF Call, Phases
    <2>2. QED
      BY <1>2, <2>1 DEF Call
  <1>3. ASSUME NEW t \in Tasks, Submit(t) PROVE DataInv'
    <2>1. UNCHANGED <<sdk, hand, tries, pc, told>>
      BY <1>3 DEF Submit
    <2>2. phase' \in [All -> Phases]
      <3>1. "refused" \in Phases /\ "queued" \in Phases /\ "displaced" \in Phases
        BY DEF Phases
      <3>2. QED
        BY <1>3, <3>1 DEF Submit
    <2>3. Full => queue # <<>>
      BY DEF Full
    <2>4. queue' \in Seq(Tasks)
      <3>1. queue' = queue \/ (Full /\ queue' = Append(Tail(queue), t)) \/ queue' = Append(queue, t)
        BY <1>3 DEF Submit, Pushed
      <3>2. CASE queue' = queue \/ queue' = Append(queue, t)
        BY <3>2
      <3>3. CASE Full /\ queue' = Append(Tail(queue), t)
        <4>1. Tail(queue) \in Seq(Tasks)
          BY <1>1, <2>3, <3>3
        <4>2. QED
          BY <3>3, <4>1
      <3>4. QED
        BY <3>1, <3>2, <3>3
    <2>5. QED
      BY <2>1, <2>2, <2>4
  <1>4. ASSUME NEW w \in Workers, WorkerTakes(w) PROVE DataInv'
    BY <1>1, <1>4 DEF WorkerTakes, Phases
  <1>5. ASSUME NEW w \in Workers, WorkerExits(w) PROVE DataInv'
    BY <1>5 DEF WorkerExits
  <1>6. ASSUME NEW w \in Workers, NEW throws \in BOOLEAN, WorkerEndsTask(w, throws) PROVE DataInv'
    BY <1>6 DEF WorkerEndsTask
  <1>7. ASSUME NEW w \in Workers, WorkerLosesTask(w) PROVE DataInv'
    BY <1>7 DEF WorkerLosesTask, EndsAs, Phases
  <1>8. ASSUME NEW x \in All, DelayEnds(x) \/ AttemptBegins(x) PROVE DataInv'
    BY <1>8 DEF DelayEnds, AttemptBegins, Phases
  <1>9. ASSUME NEW x \in All, NEW retries \in BOOLEAN, AttemptEnds(x, retries) PROVE DataInv'
    <2>1. \E p \in Phases : phase' = [phase EXCEPT ![x] = p]
      BY <1>9 DEF AttemptEnds, EndsAs, Phases
    <2>2. tries' = tries \/ tries' = [tries EXCEPT ![x] = 0]
      BY <1>9 DEF AttemptEnds, EndsAs
    <2>3. UNCHANGED <<sdk, queue, hand, pc, told>>
      BY <1>9 DEF AttemptEnds
    <2>4. QED
      BY <2>1, <2>2, <2>3
  <1>10. ASSUME NEW x \in All, CutShort(x) PROVE DataInv'
    BY <1>10 DEF CutShort, EndsAs, Phases
  <1>11. ASSUME NEW c \in Closers,
                DisposeTests(c) \/ CloseSets(c) \/ CloseSignals(c) \/ DispatcherCloses(c) \/ Releases(c)
         PROVE  DataInv'
    <2>1. \E l \in Stages : pc' = [pc EXCEPT ![c] = l]
      BY <1>11 DEF DisposeTests, CloseSets, CloseSignals, DispatcherCloses, Releases, Stages
    <2>2. UNCHANGED <<sdk, queue, hand, phase, tries, told>>
      BY <1>11 DEF DisposeTests, CloseSets, CloseSignals, DispatcherCloses, Releases
    <2>3. QED
      BY <2>1, <2>2
  <1>12. ASSUME NEW c \in Closers, Cancels(c) PROVE DataInv'
    <2>1. \E l \in Stages : pc' = [pc EXCEPT ![c] = l]
      BY <1>12 DEF Cancels, Stages
    <2>2. UNCHANGED <<sdk, queue, hand, phase, tries>> /\ told' \in Nat
      BY <1>12 DEF Cancels
    <2>3. QED
      BY <2>1, <2>2
  <1>13. ASSUME NEW c \in Closers, NEW timeIsUp \in BOOLEAN, DrainEnds(c, timeIsUp) PROVE DataInv'
    <2>1. \E l \in Stages : pc' = [pc EXCEPT ![c] = l]
      BY <1>13 DEF DrainEnds, Stages
    <2>2. UNCHANGED <<sdk, hand, tries>> /\ (queue' = queue \/ queue' = <<>>)
      BY <1>13 DEF DrainEnds
    <2>3. phase' \in [All -> Phases]
      <3>1. "abandoned" \in Phases
        BY DEF Phases
      <3>2. QED
        BY <1>13, <3>1 DEF DrainEnds
    <2>4. told' \in Nat
      BY <1>13 DEF DrainEnds, Counted
    <2>5. queue' \in Seq(Tasks)
      <3>1. CASE queue' = queue
        BY <3>1
      <3>2. CASE queue' = <<>>
        BY <3>2
      <3>3. QED
        BY <2>2, <3>1, <3>2
    <2>6. QED
      BY <2>1, <2>2, <2>3, <2>4, <2>5
  <1>14. CASE UNCHANGED vars
    BY <1>14 DEF vars
  <1>15. QED
    BY <1>2, <1>3, <1>4, <1>5, <1>6, <1>7, <1>8, <1>9, <1>10, <1>11, <1>12, <1>13, <1>14
       DEF Next, Worker, Delivery, Closing

\* Only a close moves a close; Ruby and Node test and set their flag in one step.
LEMMA CloseStep == ASSUME Inv, [Next]_vars PROVE CloseInv'
  <1> USE DEF Inv, DataInv, CloseInv, Active, Alone, Past, Drained
  <1>1. ASSUME UNCHANGED <<sdk, closed, accepting, pc, cancelled, released>> PROVE CloseInv'
    BY <1>1
  <1>2. ASSUME NEW x \in All, Call(x) \/ Delivery(x) PROVE CloseInv'
    BY <1>1, <1>2 DEF Call, Delivery, DelayEnds, AttemptBegins, AttemptEnds, CutShort
  <1>3. ASSUME NEW t \in Tasks, Submit(t) PROVE CloseInv'
    BY <1>1, <1>3 DEF Submit
  <1>4. ASSUME NEW w \in Workers, Worker(w) PROVE CloseInv'
    BY <1>1, <1>4 DEF Worker, WorkerTakes, WorkerExits, WorkerEndsTask, WorkerLosesTask
  <1>5. ASSUME NEW c \in Closers, DisposeTests(c) PROVE CloseInv'
    BY <1>5 DEF DisposeTests
  <1>6. ASSUME NEW c \in Closers, CloseSets(c) PROVE CloseInv'
    BY <1>6 DEF CloseSets, ClosedBefore
  <1>7. ASSUME NEW c \in Closers, CloseSignals(c) \/ DispatcherCloses(c) PROVE CloseInv'
    BY <1>7 DEF CloseSignals, DispatcherCloses
  <1>8. ASSUME NEW c \in Closers, Cancels(c) PROVE CloseInv'
    BY <1>8 DEF Cancels
  <1>9. ASSUME NEW c \in Closers, Releases(c) PROVE CloseInv'
    BY <1>9 DEF Releases
  <1>10. ASSUME NEW c \in Closers, NEW timeIsUp \in BOOLEAN, DrainEnds(c, timeIsUp) PROVE CloseInv'
    <2>1. pc[c] = "draining" /\ \E l \in {"counted", "drained"} : pc' = [pc EXCEPT ![c] = l]
      BY <1>10 DEF DrainEnds
    <2>2. QED
      BY <1>10, <2>1 DEF DrainEnds
  <1>11. CASE UNCHANGED vars
    BY <1>1, <1>11 DEF vars
  <1>12. QED
    BY <1>2, <1>3, <1>4, <1>5, <1>6, <1>7, <1>8, <1>9, <1>10, <1>11 DEF Next, Closing

\* Outside of .NET a close that reaches the dispatcher finds it open.
LEMMA FirstCloses ==
  ASSUME CloseInv, NEW c \in Closers, DispatcherCloses(c), sdk # "dotnet"
  PROVE  accepting
  BY DEF CloseInv, DispatcherCloses, Active, Alone, Past

\* Every task in the queue is queued, and a task is queued only in the queue.
LEMMA QueueStep == ASSUME Inv, [Next]_vars PROVE QueueInv'
  <1> USE TeardownAssumption DEF Inv, DataInv, All
  <1>1. ASSUME NEW x \in All, NEW p \in Phases \ {"queued"}, phase[x] # "queued",
               phase' = [phase EXCEPT ![x] = p] \/ phase' = phase,
               UNCHANGED <<sdk, queue, pc>>
        PROVE  QueueInv'
    BY <1>1 DEF QueueInv, Drained
  <1>2. ASSUME UNCHANGED <<sdk, queue, phase>>, sdk # "dotnet" /\ Drained' # {} => Drained # {}
        PROVE  QueueInv'
    BY <1>2 DEF QueueInv
  <1>3. ASSUME NEW x \in All, Call(x) PROVE QueueInv'
    <2>1. /\ phase[x] = "idle" /\ UNCHANGED <<sdk, queue, pc>>
          /\ \E p \in Phases \ {"queued"} : phase' = [phase EXCEPT ![x] = p]
      BY <1>3 DEF Call, Phases
    <2>2. QED
      BY <1>1, <2>1
  <1>4. ASSUME NEW x \in All, Delivery(x) PROVE QueueInv'
    <2>1. phase[x] # "queued" /\ UNCHANGED <<sdk, queue, pc>>
      BY <1>4 DEF Delivery, DelayEnds, AttemptBegins, AttemptEnds, CutShort
    <2>2. \E p \in Phases \ {"queued"} : phase' = [phase EXCEPT ![x] = p]
      BY <1>4 DEF Delivery, DelayEnds, AttemptBegins, AttemptEnds, CutShort, EndsAs, Phases
    <2>3. QED
      BY <1>1, <2>1, <2>2
  <1>5. ASSUME NEW t \in Tasks, Submit(t) PROVE QueueInv'
    <2>1. phase[t] = "admitted" /\ UNCHANGED <<sdk, pc>>
      BY <1>5 DEF Submit
    <2>2. CASE ~accepting
      <3>1. "refused" \in Phases \ {"queued"} /\ t \in All
        BY DEF Phases
      <3>2. UNCHANGED queue /\ phase' = [phase EXCEPT ![t] = "refused"]
        BY <1>5, <2>2 DEF Submit
      <3>3. QED
        BY <1>1, <2>1, <3>1, <3>2
    <2>3. CASE accepting
      <3>1. Drained = {} /\ Drained' = {}
        BY <2>1, <2>3 DEF CloseInv, Past, Drained
      <3>2. CASE ~Full
        <4>1. queue' = Append(queue, t) /\ phase' = [phase EXCEPT ![t] = "queued"]
          BY <1>5, <2>3, <3>2 DEF Submit, Pushed
        <4>2. QED
          BY <2>1, <3>1, <4>1 DEF QueueInv
      <3>3. CASE Full
        <4>1. queue # <<>>
          BY <3>3 DEF Full
        <4>2. /\ queue' = Append(Tail(queue), t)
              /\ phase' = [x \in All |-> IF x = t THEN "queued"
                             ELSE IF x = Head(queue) THEN "displaced" ELSE phase[x]]
          BY <1>5, <2>3, <3>3 DEF Submit, Pushed
        <4> DEFINE r == Tail(queue)
        <4>3. /\ r \in Seq(Tasks) /\ Head(queue) # t
              /\ \A i \in 1 .. Len(r) : r[i] \in Tasks /\ r[i] # Head(queue) /\ phase[r[i]] = "queued"
              /\ \A i, j \in 1 .. Len(r) : r[i] = r[j] => i = j
              /\ \A u \in Tasks : phase[u] = "queued" /\ u # Head(queue) =>
                   \E i \in 1 .. Len(r) : r[i] = u
          <5>1. /\ r \in Seq(Tasks) /\ phase[Head(queue)] = "queued"
                /\ \A i \in 1 .. Len(r) : r[i] # Head(queue) /\ phase[r[i]] = "queued"
                /\ \A i, j \in 1 .. Len(r) : r[i] = r[j] => i = j
                /\ \A u \in Tasks : phase[u] = "queued" /\ u # Head(queue) =>
                     \E i \in 1 .. Len(r) : r[i] = u
            BY <4>1, RestOfQueue
          <5> HIDE DEF r
          <5>2. \A i \in 1 .. Len(r) : r[i] \in Tasks
            BY <5>1
          <5>3. QED
            BY <2>1, <5>1, <5>2
        <4>4. queue' = Append(r, t)
          BY <4>2
        <4> HIDE DEF r
        <4>5. \A i \in 1 .. Len(queue') : phase'[queue'[i]] = "queued"
          <5>1. \A i \in 1 .. Len(queue') : queue'[i] = t \/ \E j \in 1 .. Len(r) : queue'[i] = r[j]
            BY <4>3, <4>4
          <5>2. \A j \in 1 .. Len(r) : phase'[r[j]] = "queued"
            BY <4>2, <4>3
          <5>3. phase'[t] = "queued"
            BY <4>2
          <5>4. QED
            BY <5>1, <5>2, <5>3
        <4>6. \A i, j \in 1 .. Len(queue') : queue'[i] = queue'[j] => i = j
          BY <2>1, <4>3, <4>4
        <4>7. ASSUME NEW u \in Tasks, phase'[u] = "queued"
              PROVE  \E i \in 1 .. Len(queue') : queue'[i] = u
          <5>1. CASE u = t
            BY <4>3, <4>4, <5>1
          <5>2. CASE u # t
            <6>1. phase[u] = "queued" /\ u # Head(queue)
              BY <4>2, <4>7, <5>2
            <6>2. QED
              BY <4>3, <4>4, <6>1
          <5>3. QED
            BY <5>1, <5>2
        <4>8. QED
          BY <3>1, <4>5, <4>6, <4>7 DEF QueueInv
      <3>4. QED
        BY <3>2, <3>3
    <2>4. QED
      BY <2>2, <2>3
  <1>6. ASSUME NEW w \in Workers, WorkerTakes(w) PROVE QueueInv'
    <2>1. /\ queue # <<>> /\ queue' = Tail(queue) /\ UNCHANGED <<sdk, pc>>
          /\ phase' = [phase EXCEPT ![Head(queue)] = "taken"]
      BY <1>6 DEF WorkerTakes
    <2>2. sdk # "dotnet" /\ Drained' # {} => queue = <<>>
      BY <2>1 DEF QueueInv, Drained
    <2>3. QED
      BY <2>1, <2>2, RestOfQueue DEF QueueInv
  <1>7. ASSUME NEW w \in Workers, WorkerExits(w) PROVE QueueInv'
    BY <1>2, <1>7 DEF WorkerExits, Drained
  <1>8. ASSUME NEW w \in Workers, NEW throws \in BOOLEAN, WorkerEndsTask(w, throws) PROVE QueueInv'
    BY <1>2, <1>8 DEF WorkerEndsTask, Drained
  <1>9. ASSUME NEW w \in Workers, WorkerLosesTask(w) PROVE QueueInv'
    <2>1. /\ hand[w] \in All /\ phase[hand[w]] # "queued" /\ UNCHANGED <<sdk, queue, pc>>
          /\ phase' = [phase EXCEPT ![hand[w]] = "lost"] /\ "lost" \in Phases \ {"queued"}
      BY <1>9 DEF WorkerLosesTask, EndsAs, Phases
    <2>2. QED
      BY <1>1, <2>1
  <1>10. ASSUME NEW c \in Closers, DisposeTests(c) PROVE QueueInv'
    <2>1. Drained' = Drained
      BY <1>10 DEF DisposeTests, Drained
    <2>2. QED
      BY <1>2, <1>10, <2>1 DEF DisposeTests
  <1>11. ASSUME NEW c \in Closers, CloseSets(c) \/ CloseSignals(c) PROVE QueueInv'
    <2>1. Drained' = Drained
      BY <1>11 DEF CloseSets, CloseSignals, Drained
    <2>2. QED
      BY <1>2, <1>11, <2>1 DEF CloseSets, CloseSignals
  <1>12. ASSUME NEW c \in Closers, DispatcherCloses(c) PROVE QueueInv'
    <2>1. sdk # "dotnet" => Drained' = Drained
      BY <1>12, FirstCloses DEF DispatcherCloses, Drained
    <2>2. QED
      BY <1>2, <1>12, <2>1 DEF DispatcherCloses
  <1>13. ASSUME NEW c \in Closers, Cancels(c) PROVE QueueInv'
    <2>1. sdk = "dotnet"
      BY <1>13 DEF Cancels, CloseInv
    <2>2. QED
      BY <1>2, <1>13, <2>1 DEF Cancels
  <1>14. ASSUME NEW c \in Closers, Releases(c) PROVE QueueInv'
    <2>1. Drained # {}
      BY <1>14 DEF Releases, Drained
    <2>2. QED
      BY <1>2, <1>14, <2>1 DEF Releases
  <1>15. ASSUME NEW c \in Closers, NEW timeIsUp \in BOOLEAN, DrainEnds(c, timeIsUp) PROVE QueueInv'
    <2>1. CASE sdk = "dotnet"
      BY <1>2, <1>15, <2>1 DEF DrainEnds
    <2>2. CASE sdk # "dotnet"
      <3>1. /\ queue' = <<>>
            /\ phase' = [x \in All |-> IF phase[x] = "queued" THEN "abandoned" ELSE phase[x]]
        BY <1>15, <2>2 DEF DrainEnds
      <3>2. QED
        BY <3>1 DEF QueueInv
    <2>3. QED
      BY <2>1, <2>2
  <1>16. CASE UNCHANGED vars
    BY <1>2, <1>16 DEF vars, Drained
  <1>17. QED
    BY <1>3, <1>4, <1>5, <1>6, <1>7, <1>8, <1>9, <1>10, <1>11, <1>12, <1>13, <1>14, <1>15, <1>16
       DEF Next, Worker, Closing

\* The retry loop counts its attempts and forgets them when it ends.
LEMMA TriesStep == ASSUME Inv, [Next]_vars PROVE TriesInv'
  <1> USE TeardownAssumption DEF Inv, DataInv, All, TriesInv
  <1>1. ASSUME NEW x \in All, Call(x) PROVE TriesInv'
    BY <1>1 DEF Call
  <1>2. ASSUME NEW x \in All, DelayEnds(x) \/ AttemptBegins(x) PROVE TriesInv'
    <2>1. CASE DelayEnds(x)
      BY <2>1 DEF DelayEnds
    <2>2. CASE AttemptBegins(x)
      BY <2>2 DEF AttemptBegins
    <2>3. QED
      BY <1>2, <2>1, <2>2
  <1>3. ASSUME NEW x \in All, NEW retries \in BOOLEAN, AttemptEnds(x, retries) PROVE TriesInv'
    <2>1. CASE retries
      BY <1>3, <2>1 DEF AttemptEnds
    <2>2. CASE ~retries
      BY <1>3, <2>2 DEF AttemptEnds, EndsAs
    <2>3. QED
      BY <2>1, <2>2
  <1>4. ASSUME NEW x \in All, CutShort(x) PROVE TriesInv'
    BY <1>4 DEF CutShort, EndsAs
  <1>5. ASSUME NEW t \in Tasks, Submit(t) PROVE TriesInv'
    <2>1. phase[t] = "admitted" /\ (Full => phase[Head(queue)] = "queued") /\ UNCHANGED tries
      BY <1>5, RestOfQueue DEF Submit, Full
    <2>2. \A x \in All : phase'[x] = phase[x] \/ {phase[x], phase'[x]} \cap {"sending", "backoff", "due"} = {}
      BY <1>5, <2>1 DEF Submit
    <2>3. QED
      BY <2>1, <2>2
  <1>6. ASSUME NEW w \in Workers, WorkerTakes(w) PROVE TriesInv'
    BY <1>6, RestOfQueue DEF WorkerTakes
  <1>7. ASSUME NEW w \in Workers, WorkerLosesTask(w) PROVE TriesInv'
    BY <1>7 DEF WorkerLosesTask, EndsAs
  <1>8. ASSUME NEW c \in Closers, NEW timeIsUp \in BOOLEAN, DrainEnds(c, timeIsUp) PROVE TriesInv'
    <2>1. UNCHANGED tries /\ \A x \in All : phase'[x] = phase[x]
                               \/ (phase[x] = "queued" /\ phase'[x] = "abandoned")
      BY <1>8 DEF DrainEnds
    <2>2. QED
      BY <2>1
  <1>9. CASE UNCHANGED <<phase, tries>>
    BY <1>9
  <1>10. QED
    BY <1>1, <1>2, <1>3, <1>4, <1>5, <1>6, <1>7, <1>8, <1>9
       DEF Next, Worker, Delivery, Closing, vars, WorkerExits, WorkerEndsTask, DisposeTests,
           CloseSets, CloseSignals, DispatcherCloses, Cancels, Releases

\* Behind the release nobody is let in and no task is left to take.
LEMMA NodeStep == ASSUME Inv, [Next]_vars PROVE NodeInv'
  <1> USE TeardownAssumption DEF Inv, DataInv, All, NodeInv
  <1>1. ASSUME sdk = "node", released PROVE closed /\ ~accepting /\ queue = <<>>
    BY <1>1 DEF CloseInv, QueueInv, Active, Past, Drained
  <1>2. ASSUME NEW x \in All, Call(x) PROVE NodeInv'
    BY <1>1, <1>2 DEF Call
  <1>3. ASSUME NEW x \in All, DelayEnds(x) \/ AttemptBegins(x) PROVE NodeInv'
    BY <1>3 DEF DelayEnds, AttemptBegins
  <1>4. ASSUME NEW x \in All, NEW retries \in BOOLEAN, AttemptEnds(x, retries) PROVE NodeInv'
    BY <1>4 DEF AttemptEnds, EndsAs
  <1>5. ASSUME NEW x \in All, CutShort(x) PROVE NodeInv'
    BY <1>5 DEF CutShort, EndsAs
  <1>6. ASSUME NEW t \in Tasks, Submit(t) PROVE NodeInv'
    BY <1>6 DEF Submit
  <1>7. ASSUME NEW w \in Workers, WorkerTakes(w) PROVE NodeInv'
    BY <1>1, <1>7 DEF WorkerTakes
  <1>8. ASSUME NEW w \in Workers, WorkerLosesTask(w) PROVE NodeInv'
    BY <1>8 DEF WorkerLosesTask
  <1>9. ASSUME NEW c \in Closers, NEW timeIsUp \in BOOLEAN, DrainEnds(c, timeIsUp) PROVE NodeInv'
    <2>1. UNCHANGED <<sdk, released>> /\ \A x \in All : phase'[x] \in {phase[x], "abandoned"}
      BY <1>9 DEF DrainEnds
    <2>2. QED
      BY <2>1
  <1>10. ASSUME NEW c \in Closers, Releases(c) PROVE NodeInv'
    BY <1>10 DEF Releases, Turn
  <1>11. CASE UNCHANGED <<sdk, phase, released>>
    BY <1>11
  <1>12. QED
    BY <1>2, <1>3, <1>4, <1>5, <1>6, <1>7, <1>8, <1>9, <1>10, <1>11
       DEF Next, Worker, Delivery, Closing, vars, WorkerExits, WorkerEndsTask, DisposeTests,
           CloseSets, CloseSignals, DispatcherCloses, Cancels

\* A close that has begun stays begun, and one that has drained stays drained.
LEMMA Monotone ==
  ASSUME Inv, [Next]_vars
  PROVE  UNCHANGED sdk /\ (Alone' => Alone) /\ (Drained # {} => Drained' # {})
  <1> USE DEF Inv, DataInv, Active, Alone, Drained
  <1>1. CASE UNCHANGED <<sdk, pc>>
    BY <1>1
  <1>2. ASSUME NEW c \in Closers, DisposeTests(c) \/ CloseSets(c) \/ CloseSignals(c) \/ DispatcherCloses(c)
                                  \/ Cancels(c) \/ Releases(c)
        PROVE  UNCHANGED sdk /\ (Alone' => Alone) /\ (Drained # {} => Drained' # {})
    <2>1. /\ UNCHANGED sdk
          /\ \E l \in Stages : /\ pc' = [pc EXCEPT ![c] = l]
                               /\ c \in Active => l \notin {"idle", "tested", "ignored"}
                               /\ c \in Drained => l = "returned"
      BY <1>2 DEF DisposeTests, CloseSets, CloseSignals, DispatcherCloses, Cancels, Releases, Stages
    <2>2. QED
      BY <2>1
  <1>3. ASSUME NEW c \in Closers, NEW timeIsUp \in BOOLEAN, DrainEnds(c, timeIsUp)
        PROVE  UNCHANGED sdk /\ (Alone' => Alone) /\ (Drained # {} => Drained' # {})
    <2>1. /\ UNCHANGED sdk /\ pc[c] = "draining"
          /\ \E l \in {"counted", "drained"} : pc' = [pc EXCEPT ![c] = l]
      BY <1>3 DEF DrainEnds
    <2>2. QED
      BY <2>1
  <1>4. QED
    BY <1>1, <1>2, <1>3 DEF Next, vars, Worker, Delivery, Closing, Call, Submit, WorkerTakes,
       WorkerExits, WorkerEndsTask, WorkerLosesTask, DelayEnds, AttemptBegins, AttemptEnds, CutShort

\* How each step moves the tasks that are abandoned or lost.
LEMMA LossesMove ==
  ASSUME Inv, [Next]_vars
  PROVE  \/ Abandoned' = Abandoned /\ Lost' = Lost
         \/ \E w \in Workers : WorkerLosesTask(w)
         \/ \E c \in Closers, timeIsUp \in BOOLEAN : DrainEnds(c, timeIsUp)
  <1> USE TeardownAssumption DEF Inv, DataInv, All, Abandoned, Lost
  <1>1. ASSUME NEW x \in All, Call(x) \/ Delivery(x) PROVE Abandoned' = Abandoned /\ Lost' = Lost
    <2>1. /\ phase[x] \notin {"abandoned", "lost"}
          /\ \E p \in Phases \ {"abandoned", "lost"} : phase' = [phase EXCEPT ![x] = p]
      BY <1>1 DEF Call, Delivery, DelayEnds, AttemptBegins, AttemptEnds, CutShort, EndsAs, Phases
    <2>2. QED
      BY <2>1
  <1>2. ASSUME NEW t \in Tasks, Submit(t) PROVE Abandoned' = Abandoned /\ Lost' = Lost
    <2>1. phase[t] = "admitted" /\ (Full => phase[Head(queue)] = "queued")
      BY <1>2, RestOfQueue DEF Submit, Full
    <2>2. \A x \in All : phase'[x] = phase[x]
            \/ {phase[x], phase'[x]} \cap {"abandoned", "lost"} = {}
      BY <1>2, <2>1 DEF Submit
    <2>3. QED
      BY <2>2
  <1>3. ASSUME NEW w \in Workers, WorkerTakes(w) PROVE Abandoned' = Abandoned /\ Lost' = Lost
    BY <1>3, RestOfQueue DEF WorkerTakes
  <1>4. CASE UNCHANGED phase
    BY <1>4
  <1>5. QED
    BY <1>1, <1>2, <1>3, <1>4 DEF Next, vars, Worker, Closing, WorkerExits, WorkerEndsTask,
       DisposeTests, CloseSets, CloseSignals, DispatcherCloses, Cancels, Releases

LEMMA AbandonStep == ASSUME Inv, [Next]_vars PROVE AbandonInv'
  <1>1. UNCHANGED sdk /\ (Drained # {} => Drained' # {})
    BY Monotone
  <1>2. ASSUME Abandoned' = Abandoned, UNCHANGED told PROVE AbandonInv'
    BY <1>1, <1>2 DEF Inv, AbandonInv
  <1>3. ASSUME NEW c \in Closers, Cancels(c) PROVE AbandonInv'
    <2>1. Abandoned = {}
      BY <1>3 DEF Inv, CloseInv, AbandonInv, Cancels
    <2>2. Abandoned' = Abandoned
      BY <1>3 DEF Cancels, Abandoned
    <2>3. QED
      BY <2>1, <2>2 DEF AbandonInv
  <1>4. ASSUME NEW w \in Workers, WorkerLosesTask(w) PROVE AbandonInv'
    <2>1. Abandoned' = Abandoned /\ UNCHANGED told
      BY <1>4 DEF WorkerLosesTask, EndsAs, Abandoned, Inv, DataInv, All
    <2>2. QED
      BY <1>2, <2>1
  <1>5. ASSUME NEW c \in Closers, NEW timeIsUp \in BOOLEAN, DrainEnds(c, timeIsUp) PROVE AbandonInv'
    <2>1. CASE sdk = "dotnet"
      <3>1. Abandoned' = Abandoned /\ Abandoned = {}
        BY <1>5, <2>1 DEF DrainEnds, Abandoned, Inv, AbandonInv
      <3>2. QED
        BY <3>1 DEF AbandonInv
    <2>2. CASE sdk # "dotnet"
      <3>1. Drained = {}
        BY <1>5, <2>2 DEF DrainEnds, Inv, CloseInv, Alone, Active, Drained
      <3>2. Abandoned = {}
        BY <3>1 DEF Inv, AbandonInv
      <3>3. Abandoned' = Queued
        BY <1>5, <2>2, <3>2 DEF DrainEnds, Abandoned, Queued, All, Inv, DataInv
      <3>4. told' = Len(queue) /\ c \in Drained'
        BY <1>5, <2>2 DEF DrainEnds, Counted, Drained, Inv, DataInv
      <3>5. Cardinality(Queued) <= Len(queue)
        BY QueuedAtMost DEF Inv
      <3>6. QED
        BY <1>1, <2>2, <3>3, <3>4, <3>5 DEF AbandonInv
    <2>3. QED
      BY <2>1, <2>2
  <1>6. CASE UNCHANGED told
    BY <1>2, <1>4, <1>5, <1>6, LossesMove
  <1>7. QED
    BY <1>3, <1>5, <1>6 DEF Next, vars, Worker, Delivery, Closing, Call, Submit, WorkerTakes,
       WorkerExits, WorkerEndsTask, WorkerLosesTask, DelayEnds, AttemptBegins, AttemptEnds, CutShort,
       DisposeTests, CloseSets, CloseSignals, DispatcherCloses, Releases

\* A worker that loses its task dies of it, and the dead stay dead.
LEMMA DeadStep ==
  ASSUME Inv, [Next]_vars
  PROVE  /\ sdk # "dotnet" => Lost' = {}
         /\ Cardinality(Lost') <= Cardinality(Dead')
         /\ AllDied => AllDied'
  <1> USE TeardownAssumption DEF Inv, DataInv
  <1>1. /\ \A w \in Workers : hand[w] = Died => hand'[w] = Died
        /\ Dead \subseteq Dead'
    <2> DEFINE Moves == \E w \in Workers, h \in {NoTask, Exited, Died} \cup Tasks :
                          hand[w] # Died /\ hand' = [hand EXCEPT ![w] = h]
    <2>1. UNCHANGED hand \/ Moves
      <3>1. ASSUME NEW w \in Workers, WorkerTakes(w) PROVE Moves
        BY <3>1, RestOfQueue DEF WorkerTakes
      <3>2. ASSUME NEW w \in Workers, WorkerExits(w) PROVE Moves
        BY <3>2 DEF WorkerExits
      <3>3. ASSUME NEW w \in Workers, NEW throws \in BOOLEAN, WorkerEndsTask(w, throws) PROVE Moves
        BY <3>3 DEF WorkerEndsTask
      <3>4. ASSUME NEW w \in Workers, WorkerLosesTask(w) PROVE Moves
        BY <3>4 DEF WorkerLosesTask
      <3> HIDE DEF Moves
      <3>5. QED
        BY <3>1, <3>2, <3>3, <3>4 DEF Next, vars, Worker, Delivery, Closing, Call, Submit,
           DelayEnds, AttemptBegins, AttemptEnds, CutShort, DisposeTests, CloseSets,
           CloseSignals, DispatcherCloses, Releases, Cancels, DrainEnds
    <2>2. QED
      BY <2>1 DEF Dead
  <1>2. IsFiniteSet(Dead') /\ Cardinality(Dead') \in Nat
    BY TeardownAssumption, FS_Subset, FS_CardinalityType DEF Dead
  <1>3. Cardinality(Dead) <= Cardinality(Dead')
    BY <1>1, <1>2, FS_Subset
  <1>4. CASE Lost' = Lost
    BY <1>1, <1>2, <1>3, <1>4, Finite DEF LostInv, AllDied
  <1>5. ASSUME NEW w \in Workers, WorkerLosesTask(w)
        PROVE  sdk = "dotnet" /\ Cardinality(Lost') <= Cardinality(Dead')
    <2>1. /\ hand[w] \in Tasks /\ sdk = "dotnet"
          /\ phase' = [phase EXCEPT ![hand[w]] = "lost"]
          /\ hand' = [hand EXCEPT ![w] = Died]
      BY <1>5 DEF WorkerLosesTask, EndsAs
    <2>2. Lost' = Lost \cup {hand[w]} /\ Dead' = Dead \cup {w} /\ w \notin Dead
      BY <2>1 DEF Lost, Dead, All
    <2>3. /\ Cardinality(Lost') \in {Cardinality(Lost), Cardinality(Lost) + 1}
          /\ Cardinality(Dead') = Cardinality(Dead) + 1
      BY <2>2, Finite, FS_AddElement
    <2>4. QED
      BY <2>1, <2>3, Finite DEF LostInv
  <1>6. ASSUME NEW c \in Closers, NEW timeIsUp \in BOOLEAN, DrainEnds(c, timeIsUp)
        PROVE  Lost' = Lost
    <2>1. \A t \in Tasks : phase'[t] = phase[t] \/ (phase[t] = "queued" /\ phase'[t] = "abandoned")
      BY <1>6 DEF DrainEnds, All
    <2>2. QED
      BY <2>1 DEF Lost
  <1>7. AllDied => AllDied'
    BY <1>1 DEF AllDied
  <1>8. QED
    BY <1>4, <1>5, <1>6, <1>7, LossesMove

\* .NET: what follows once a worker has left a dispatcher that nobody has abandoned ...
ExitedInv ==
  sdk = "dotnet" /\ Alone /\ ~cancelled /\ (\E w \in Workers : hand[w] = Exited) =>
    queue = <<>> /\ ~accepting

\* ... and once a disposal has decided about what is left.
CountedInv ==
  sdk = "dotnet" /\ Alone => \A c \in Closers : pc[c] \in {"counted", "drained", "returned"} =>
    Len(queue) <= told \/ AllDied

\* The only disposal under way finds the token source alive.
LEMMA AloneCancels ==
  ASSUME Inv, Alone, NEW c \in Closers, Cancels(c)
  PROVE  ~released
  BY DEF Inv, CloseInv, Alone, Active, Cancels

LEMMA ExitedStep == ASSUME Inv, [Next]_vars PROVE ExitedInv'
  <1> SUFFICES ASSUME sdk = "dotnet", Alone', ~cancelled', NEW v \in Workers, hand'[v] = Exited
               PROVE  (queue = <<>> /\ ~accepting)'
    BY Monotone DEF ExitedInv
  <1> USE TeardownAssumption DEF Inv, DataInv, LostInv
  <1>1. Alone
    BY Monotone
  <1>2. ASSUME hand[v] = Exited, ~cancelled PROVE (queue = <<>> /\ ~accepting)'
    <2>1. queue = <<>> /\ ~accepting
      BY <1>1, <1>2
    <2>2. ~accepting'
      BY <2>1 DEF Next, vars, Worker, Delivery, Closing, Call, Submit, WorkerTakes,
         WorkerExits, WorkerEndsTask, WorkerLosesTask, DelayEnds, AttemptBegins, AttemptEnds, CutShort,
         DisposeTests, CloseSets, CloseSignals, DispatcherCloses, Releases, Cancels, DrainEnds
    <2>3. queue' = <<>>
      BY <2>1 DEF Next, vars, Worker, Delivery, Closing, Call, Submit, WorkerTakes,
         WorkerExits, WorkerEndsTask, WorkerLosesTask, DelayEnds, AttemptBegins, AttemptEnds, CutShort,
         DisposeTests, CloseSets, CloseSignals, DispatcherCloses, Releases, Cancels, DrainEnds
    <2>4. QED
      BY <2>2, <2>3
  <1>3. ASSUME NEW w \in Workers, WorkerExits(w) PROVE (queue = <<>> /\ ~accepting)'
    BY <1>3 DEF WorkerExits
  <1>4. ASSUME NEW c \in Closers, Cancels(c) PROVE (queue = <<>> /\ ~accepting)'
    BY <1>1, <1>4, AloneCancels DEF Cancels
  <1>5. ASSUME NEW w \in Workers, WorkerTakes(w) PROVE hand[v] = Exited /\ UNCHANGED cancelled
    BY <1>5, RestOfQueue DEF WorkerTakes
  <1>6. ASSUME NEW w \in Workers, NEW throws \in BOOLEAN, WorkerEndsTask(w, throws)
        PROVE  hand[v] = Exited /\ UNCHANGED cancelled
    BY <1>6 DEF WorkerEndsTask
  <1>7. ASSUME NEW w \in Workers, WorkerLosesTask(w) PROVE hand[v] = Exited /\ UNCHANGED cancelled
    BY <1>7 DEF WorkerLosesTask
  <1>8. CASE UNCHANGED <<hand, cancelled>>
    BY <1>2, <1>8
  <1>9. QED
    BY <1>2, <1>3, <1>4, <1>5, <1>6, <1>7, <1>8 DEF Next, vars, Worker, Delivery, Closing, Call,
       Submit, DelayEnds, AttemptBegins, AttemptEnds, CutShort, DisposeTests, CloseSets,
       CloseSignals, DispatcherCloses, Releases, DrainEnds

LEMMA CountedStep == ASSUME Inv, [Next]_vars PROVE CountedInv'
  <1> SUFFICES ASSUME sdk = "dotnet", Alone', NEW c \in Closers,
                      pc'[c] \in {"counted", "drained", "returned"}
               PROVE  (Len(queue) <= told \/ AllDied)'
    BY Monotone DEF CountedInv
  <1> DEFINE P == pc[c] \in {"counted", "drained", "returned"}
             G == (Len(queue) <= told \/ AllDied)'
  <1>1. Alone /\ (AllDied => AllDied') /\ (P => Len(queue) <= told \/ AllDied)
    BY Monotone, DeadStep DEF Inv, LostInv
  <1>2. Len(queue) \in Nat /\ told \in Nat
    BY DEF Inv, DataInv
  <1>3. ASSUME P, UNCHANGED told, queue' = Tail(queue), queue # <<>> PROVE G
    <2>1. Len(queue') \in Nat /\ Len(queue') <= Len(queue)
      BY <1>2, <1>3, RestOfQueue DEF Inv, DataInv
    <2>2. QED
      BY <1>1, <1>2, <1>3, <2>1
  <1>4. ASSUME P, UNCHANGED <<told, queue>> PROVE G
    BY <1>1, <1>4
  <1>5. ASSUME P PROVE ~accepting
    BY <1>5 DEF Inv, CloseInv, Past
  <1>6. CASE UNCHANGED <<pc, told, queue>>
    BY <1>4, <1>6
  <1>7. ASSUME NEW t \in Tasks, Submit(t) PROVE (Len(queue) <= told \/ AllDied)'
    <2>1. P /\ UNCHANGED told
      BY <1>7 DEF Submit
    <2>2. UNCHANGED queue
      BY <1>5, <1>7, <2>1 DEF Submit
    <2>3. QED
      BY <1>4, <2>1, <2>2
  <1>8. ASSUME NEW w \in Workers, WorkerTakes(w) PROVE (Len(queue) <= told \/ AllDied)'
    BY <1>3, <1>8 DEF WorkerTakes
  <1>9. ASSUME NEW d \in Closers, DisposeTests(d) \/ CloseSets(d) \/ CloseSignals(d)
        PROVE  (Len(queue) <= told \/ AllDied)'
    <2>1. P /\ UNCHANGED <<told, queue>>
      BY <1>9 DEF DisposeTests, CloseSets, CloseSignals, Inv, DataInv
    <2>2. QED
      BY <1>4, <2>1
  <1>10. ASSUME NEW d \in Closers, DispatcherCloses(d) PROVE (Len(queue) <= told \/ AllDied)'
    <2>1. accepting
      BY <1>1, <1>10 DEF DispatcherCloses, Inv, CloseInv, Past, Alone, Active
    <2>2. P
      BY <1>10, <2>1 DEF DispatcherCloses, Inv, DataInv
    <2>3. QED
      BY <1>5, <2>1, <2>2
  <1>11. ASSUME NEW d \in Closers, Cancels(d) PROVE (Len(queue) <= told \/ AllDied)'
    <2>1. P /\ UNCHANGED <<told, queue>>
      BY <1>1, <1>11, AloneCancels DEF Cancels, Inv, DataInv
    <2>2. QED
      BY <1>4, <2>1
  <1>12. ASSUME NEW d \in Closers, Releases(d) PROVE (Len(queue) <= told \/ AllDied)'
    <2>1. P /\ UNCHANGED <<told, queue>>
      BY <1>12 DEF Releases, Inv, DataInv
    <2>2. QED
      BY <1>4, <2>1
  <1>13. ASSUME NEW d \in Closers, NEW timeIsUp \in BOOLEAN, DrainEnds(d, timeIsUp)
         PROVE  (Len(queue) <= told \/ AllDied)'
    <2>1. UNCHANGED queue /\ told' = (IF timeIsUp THEN Len(queue) ELSE 0) /\ (timeIsUp \/ Idle)
      BY <1>13 DEF DrainEnds, DrainOver, Counted
    <2>2. CASE timeIsUp
      BY <1>2, <2>1, <2>2
    <2>3. CASE ~timeIsUp
      <3>1. \A w \in Workers : hand[w] \in {Exited, Died}
        BY <2>1, <2>3 DEF Idle
      <3>2. ~cancelled
        BY <1>1, <1>13 DEF DrainEnds, Inv, CloseInv, Drained, Alone, Active
      <3>3. AllDied \/ queue = <<>>
        BY <1>1, <3>1, <3>2 DEF Inv, LostInv, AllDied
      <3>4. QED
        BY <1>1, <2>1, <2>3, <3>3
    <2>4. QED
      BY <2>2, <2>3
  <1> HIDE DEF P
  <1>14. QED
    BY <1>6, <1>7, <1>8, <1>9, <1>10, <1>11, <1>12, <1>13 DEF Next, vars, Worker, Delivery,
       Closing, Call, WorkerExits, WorkerEndsTask, WorkerLosesTask, DelayEnds, AttemptBegins, AttemptEnds,
       CutShort

LEMMA NextInv == ASSUME Inv, [Next]_vars PROVE Inv'
  <1>1. LostInv'
    BY Monotone, DeadStep, ExitedStep, CountedStep DEF LostInv, ExitedInv, CountedInv
  <1>2. QED
    BY <1>1, DataStep, CloseStep, QueueStep, TriesStep, NodeStep, AbandonStep DEF Inv

\* The invariant of the teardown of the three clients.
THEOREM Invariance == Spec => []Inv
  <1>1. Init => Inv
    BY InitInv
  <1>2. Inv /\ [Next]_vars => Inv'
    BY NextInv
  <1>3. QED
    BY <1>1, <1>2, PTL DEF Spec

-----------------------------------------------------------------------------
(* What the clients promise *)

\* No transport is taken away from under a drain, however many threads close the
\* client, except by two .NET disposals that have both found the flag clear
\* (IncidentClient.cs:144-154).
THEOREM ReleaseComesLast == Spec => []ReleaseFollowsDrain
  <1>1. ASSUME Inv PROVE ReleaseFollowsDrain
    <2>1. SUFFICES ASSUME released, ~Overlapped, NEW c \in Closers
                   PROVE  pc[c] \in {"idle", "tested", "ignored", "returned"}
      BY DEF ReleaseFollowsDrain
    <2>2. Alone /\ \E d \in Closers : pc[d] = "returned"
      BY <1>1, <2>1, NotOverlapped DEF Inv, CloseInv
    <2>3. QED
      BY <2>2 DEF Alone, Active
  <1>2. QED
    BY <1>1, Invariance, PTL

\* When a close is over its warning and the workers that died cover every task that is
\* still queued, was abandoned or was lost (async_dispatcher.rb:63-84, AsyncDispatcher.ts:114-136).
THEOREM LossesAreTold == Spec => []LossesTold
  <1>1. ASSUME Inv PROVE LossesTold
    <2> DEFINE Gone == {t \in Tasks : phase[t] \in {"queued", "abandoned", "lost"}}
    <2>1. SUFFICES ASSUME released, ~Overlapped, ~(sdk = "dotnet" /\ AllDied)
                   PROVE  Cardinality(Gone) <= told + Cardinality(Dead)
      BY DEF LossesTold, Dead
    <2>2. PICK c \in Closers : pc[c] = "returned"
      BY <1>1, <2>1 DEF Inv, CloseInv
    <2>3. told \in Nat /\ Len(queue) \in Nat /\ Cardinality(Queued) <= Len(queue)
      BY <1>1, QueuedAtMost DEF Inv, DataInv
    <2>4. CASE sdk = "dotnet"
      <3>1. Abandoned = {} /\ Alone
        BY <1>1, <2>1, <2>4, NotOverlapped DEF Inv, AbandonInv
      <3>2. Gone = Queued \cup Lost /\ Queued \cap Lost = {}
        BY <3>1 DEF Queued, Lost, Abandoned
      <3>3. Cardinality(Gone) = Cardinality(Queued) + Cardinality(Lost)
        <4>1. Cardinality(Queued \cap Lost) = 0
          BY <3>2, FS_EmptySet
        <4>2. Cardinality(Queued \cup Lost) =
                Cardinality(Queued) + Cardinality(Lost) - Cardinality(Queued \cap Lost)
          BY Finite, FS_Union
        <4>3. Cardinality(Queued) \in Nat /\ Cardinality(Lost) \in Nat
          BY Finite
        <4>4. Cardinality(Gone) = Cardinality(Queued \cup Lost)
          BY <3>2
        <4> HIDE DEF Gone
        <4>5. QED
          BY <4>1, <4>2, <4>3, <4>4
      <3>4. Len(queue) <= told /\ Cardinality(Lost) <= Cardinality(Dead)
        BY <1>1, <2>1, <2>2, <2>4, <3>1 DEF Inv, LostInv
      <3>5. QED
        BY <2>3, <3>3, <3>4, Finite
    <2>5. CASE sdk # "dotnet"
      <3>1. Lost = {} /\ queue = <<>>
        BY <1>1, <2>2, <2>5 DEF Inv, LostInv, QueueInv, Drained
      <3>2. Gone = Abandoned
        BY <1>1, <3>1 DEF Lost, Abandoned, Inv, QueueInv
      <3>3. Cardinality(Abandoned) <= told
        <4>1. Abandoned = {} => Cardinality(Abandoned) = 0
          BY FS_EmptySet
        <4>2. Cardinality(Abandoned) <= told \/ Abandoned = {}
          BY <1>1 DEF Inv, AbandonInv
        <4>3. told \in Nat
          BY <2>3
        <4>4. QED
          BY <4>1, <4>2, <4>3
      <3>4. QED
        <4>1. Cardinality(Gone) <= told
          BY <3>2, <3>3
        <4>2. Cardinality(Gone) \in Nat
          BY <3>2, Finite
        <4> HIDE DEF Gone
        <4>3. QED
          BY <2>3, <4>1, <4>2, Finite
    <2>6. QED
      BY <2>4, <2>5
  <1>2. QED
    BY <1>1, Invariance, PTL

\* Behind the release of Ruby its client is closed, its interrupt signalled and its
\* queue empty.
LEMMA RubyReleased ==
  ASSUME Inv, sdk = "ruby", released
  PROVE  closed /\ queue = <<>> /\ \A x \in All : Interrupted(x)
  BY DEF Inv, CloseInv, QueueInv, Active, Drained, Interrupted

\* Who begins an attempt behind the release: in Ruby a delivery that is due, in Node one
\* that retries, in .NET nobody.
LEMMA BeginsLate ==
  ASSUME Inv, [Next]_vars, NEW x \in All, released, tries'[x] > tries[x]
  PROVE  \/ sdk = "ruby" /\ Due(x)
         \/ sdk = "node" /\ tries[x] > 0
  <1> USE TeardownAssumption DEF Inv, DataInv
  <1>1. ASSUME NEW y \in All, AttemptBegins(y)
        PROVE  (sdk = "ruby" /\ Due(x)) \/ (sdk = "node" /\ tries[x] > 0)
    <2>1. x = y /\ sdk # "dotnet"
      BY <1>1 DEF AttemptBegins
    <2>2. CASE sdk = "ruby"
      BY <1>1, <2>1, <2>2 DEF AttemptBegins, Due
    <2>3. CASE sdk = "node"
      <3>1. phase[x] \in {"backoff", "due"}
        BY <1>1, <2>1, <2>3 DEF AttemptBegins, NodeInv
      <3>2. QED
        BY <2>3, <3>1 DEF TriesInv
    <2>4. QED
      BY <2>1, <2>2, <2>3
  <1>2. ASSUME UNCHANGED tries PROVE FALSE
    BY <1>2
  <1>3. ASSUME NEW y \in All, NEW how, EndsAs(y, how) PROVE FALSE
    BY <1>3 DEF EndsAs
  <1>4. ASSUME NEW w \in Workers, WorkerLosesTask(w) PROVE FALSE
    <2>1. PICK y \in All : y = hand[w] /\ tries' = [tries EXCEPT ![y] = 0]
      BY <1>4 DEF WorkerLosesTask, EndsAs, All
    <2>2. QED
      BY <2>1
  <1>5. QED
    BY <1>1, <1>2, <1>3, <1>4 DEF Next, vars, Worker, Delivery, Closing, Call, Submit, WorkerTakes,
       WorkerExits, WorkerEndsTask, DelayEnds, AttemptEnds, CutShort, DisposeTests, CloseSets,
       CloseSignals, DispatcherCloses, Cancels, Releases, DrainEnds

\* Behind the release of Ruby nothing becomes due.
LEMMA NothingBecomesDue ==
  ASSUME Inv, [Next]_vars, NEW x \in All, released, sdk = "ruby", Due(x)'
  PROVE  Due(x)
  <1> USE TeardownAssumption DEF Inv, DataInv, Due
  <1>1. closed /\ queue = <<>> /\ \A y \in All : Interrupted(y)
    BY RubyReleased
  <1>2. ASSUME NEW y \in All, Call(y) PROVE Due(x)
    BY <1>1, <1>2 DEF Call
  <1>3. ASSUME NEW y \in All, Delivery(y) PROVE Due(x)
    <2>1. ~DelayEnds(y)
      BY <1>1 DEF DelayEnds
    <2>2. \E p \in {"sending", "backoff", "over"} : phase' = [phase EXCEPT ![y] = p]
      BY <1>3, <2>1 DEF Delivery, AttemptBegins, AttemptEnds, CutShort, EndsAs
    <2>3. QED
      BY <2>2
  <1>4. ASSUME NEW t \in Tasks, Submit(t) PROVE Due(x)
    BY <1>4 DEF Submit
  <1>5. ASSUME NEW w \in Workers, Worker(w) PROVE Due(x)
    BY <1>1, <1>5 DEF Worker, WorkerTakes, WorkerExits, WorkerLosesTask, WorkerEndsTask
  <1>6. ASSUME NEW c \in Closers, NEW timeIsUp \in BOOLEAN, DrainEnds(c, timeIsUp) PROVE Due(x)
    <2>1. phase'[x] \in {phase[x], "abandoned"}
      BY <1>6 DEF DrainEnds
    <2>2. QED
      BY <2>1
  <1>7. CASE UNCHANGED phase
    BY <1>7
  <1>8. QED
    BY <1>2, <1>3, <1>4, <1>5, <1>6, <1>7 DEF Next, vars, Closing, DisposeTests, CloseSets,
       CloseSignals, DispatcherCloses, Cancels, Releases

\* What a client still sends when its close is over, for each SDK: Ruby one attempt at
\* most of a delivery that was due, Node retries alone, .NET nothing
\* (incident_client.rb:114-126, IncidentClient.ts:228-239, IncidentClient.cs:144-154).
THEOREM QuietBehindRelease == Spec => QuietAfterClose
  <1> DEFINE Quiet(x) ==
        /\ sdk = "ruby" => (tries'[x] > tries[x] => Due(x)) /\ (Due(x)' => Due(x))
        /\ sdk = "node" => (tries'[x] > tries[x] => tries[x] > 0)
        /\ sdk = "dotnet" => ~(tries'[x] > tries[x])
  <1>1. ASSUME Inv, [Next]_vars, released, NEW x \in All PROVE Quiet(x)
    <2>1. tries'[x] > tries[x] => (sdk = "ruby" /\ Due(x)) \/ (sdk = "node" /\ tries[x] > 0)
      BY <1>1, BeginsLate
    <2>2. sdk = "ruby" => (Due(x)' => Due(x))
      BY <1>1, NothingBecomesDue
    <2>3. QED
      BY <2>1, <2>2
  <1>2. Inv /\ [Next]_vars => [released => \A x \in All : Quiet(x)]_vars
    BY <1>1
  <1>3. QED
    BY <1>2, Invariance, PTL DEF Spec, QuietAfterClose
=============================================================================
