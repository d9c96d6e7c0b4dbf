------------------------ MODULE RustDispatcherProofs ------------------------
(***************************************************************************)
(* Proofs about the Rust dispatcher, for any number of tasks, workers and  *)
(* closing threads and any capacity, tasks that panic included.            *)
(***************************************************************************)
EXTENDS RustDispatcher, FiniteSetTheorems, TLAPS

-----------------------------------------------------------------------------
(* The inductive invariant *)

\* Each kind of thread moves through its own part of the program.
PCInv ==
  /\ \A t \in Tasks : pc[t] \in {"call", "notify_one", "returned"}
  /\ \A w \in Workers : pc[w] \in {"ready", "waiting", "running", "ran",
                                   "notify_all", "exited", "unwound"}
  /\ \A c \in Closers : pc[c] \in {"call", "ready", "waiting", "notify_all", "returned"}

\* accepting is cleared first and draining second, by the one closer that
\* drains; nothing is queued once draining is cleared.
PhaseInv ==
  /\ accepting => draining /\ \A c \in Closers : pc[c] = "call"
  /\ ~draining => tasks = <<>>
  /\ \A c \in Closers : pc[c] \in {"ready", "waiting"} => draining /\ ~accepting
  /\ \A c, d \in Closers :
       pc[c] \in {"ready", "waiting"} /\ pc[d] \in {"ready", "waiting"} => c = d
  /\ draining => \A w \in Workers : pc[w] # "exited"

\* The queue holds the queued tasks, each once, and never more than it may.
QueueInv ==
  /\ Len(tasks) <= Capacity
  /\ \A i \in 1..Len(tasks) : fate[tasks[i]] = "queued"
  /\ \A i, j \in 1..Len(tasks) : tasks[i] = tasks[j] => i = j
  /\ \A t \in Tasks : fate[t] = "queued" => \E i \in 1..Len(tasks) : tasks[i] = t

\* A task is new exactly as long as its submit call has not taken the lock.
NewInv == \A t \in Tasks : fate[t] = "new" <=> pc[t] = "call"

\* A running task is the current one of exactly one worker, and vice versa.
RunningInv ==
  /\ \A w \in Workers : pc[w] = "running" =>
       current[w] \in Tasks /\ fate[current[w]] = "running"
  /\ \A v, w \in Workers :
       pc[v] = "running" /\ pc[w] = "running" /\ current[v] = current[w] => v = w
  /\ \A t \in Tasks : fate[t] = "running" =>
       \E w \in Workers : pc[w] = "running" /\ current[w] = t

\* active counts the workers that have a task, the ones it killed included.
ActiveInv == active = Cardinality(Busy)

\* Nothing is abandoned before close gives up.
LossInv ==
  draining => \A t \in Tasks : fate[t] # "abandoned"

IInv ==
  /\ TypeOK /\ PCInv /\ PhaseInv /\ QueueInv /\ NewInv /\ RunningInv
  /\ ActiveInv /\ LossInv
  /\ CleanCloseRanEverything
  /\ CloserNotForgotten
  /\ WorkerNotForgotten
  /\ OpenTaskIsFetched

\* TypeOK without pc, by kind of variable.
TypeData ==
  /\ tasks \in Seq(Tasks)
  /\ active \in Nat
  /\ current \in [Workers -> Tasks \cup {NoTask}]
  /\ fate \in [Tasks -> Fates]

TypeLog ==
  /\ dropped \in Nat
  /\ summary \in [Tasks -> Nat]
  /\ logged \in Nat

TypeFlags ==
  /\ accepting \in BOOLEAN
  /\ draining \in BOOLEAN
  /\ expired \in BOOLEAN

-----------------------------------------------------------------------------
(* Sequences *)

\* What is left of a non-empty queue when its head is removed.
LEMMA TailFacts ==
  ASSUME NEW S, NEW q \in Seq(S), q # <<>>
  PROVE  /\ Len(q) \in Nat \ {0}
         /\ Head(q) = q[1]
         /\ Tail(q) \in Seq(S)
         /\ Len(Tail(q)) = Len(q) - 1
         /\ \A i \in 1..(Len(q) - 1) : Tail(q)[i] = q[i + 1]
  OBVIOUS

\* The queue after a displacement: everything moves up one place and the newest
\* task is last.
LEMMA ShiftFacts ==
  ASSUME NEW S, NEW q \in Seq(S), q # <<>>, NEW e \in S, NEW r, r = Append(Tail(q), e)
  PROVE  /\ r \in Seq(S)
         /\ Len(r) = Len(q)
         /\ \A i \in 1..(Len(q) - 1) : r[i] = q[i + 1]
         /\ r[Len(q)] = e
  <1>1. /\ Tail(q) \in Seq(S) /\ Len(Tail(q)) = Len(q) - 1 /\ Len(q) \in Nat \ {0}
        /\ \A i \in 1..(Len(q) - 1) : Tail(q)[i] = q[i + 1]
    BY TailFacts
  <1>2. QED
    BY <1>1

-----------------------------------------------------------------------------
(* The initial state *)

LEMMA InitIInv == ASSUME Init PROVE IInv
  <1> USE RustAssumption DEF Init
  <1>1. TypeOK
    <2>1. TypeData
      BY DEF TypeData, Fates
    <2>2. TypeLog /\ TypeFlags
      BY DEF TypeLog, TypeFlags
    <2>3. pc \in [Threads -> PC]
      BY DEF PC
    <2>4. QED
      BY <2>1, <2>2, <2>3 DEF TypeOK, TypeData, TypeLog, TypeFlags
  <1>2. PCInv /\ PhaseInv /\ NewInv
    BY DEF PCInv, PhaseInv, NewInv, Threads
  <1>3. QueueInv
    BY DEF QueueInv
  <1>4. RunningInv /\ LossInv
    BY DEF RunningInv, LossInv, Threads
  <1>5. ActiveInv
    <2>1. Busy = {}
      BY DEF Busy, Threads
    <2>2. QED
      BY <2>1, FS_EmptySet DEF ActiveInv
  <1>6. CleanCloseRanEverything /\ WorkerNotForgotten /\ OpenTaskIsFetched
    BY DEF CleanCloseRanEverything, WorkerNotForgotten, OpenTaskIsFetched, TaskIsFetched
  <1>7. CloserNotForgotten
    BY DEF CloserNotForgotten, Threads
  <1>8. QED
    BY <1>1, <1>2, <1>3, <1>4, <1>5, <1>6, <1>7 DEF IInv

-----------------------------------------------------------------------------
(* One lemma per part of the invariant, one step per action *)

\* The workers are finitely many, so `active' can count them.
LEMMA BusyFinite == IsFiniteSet(Busy) /\ Cardinality(Busy) \in Nat
  BY RustAssumption, FS_Subset, FS_CardinalityType DEF Busy

\* `active' is zero exactly when no worker has a task.
LEMMA ActiveZero ==
  ASSUME IInv
  PROVE  /\ active = 0 => \A t \in Tasks : fate[t] # "running"
         /\ \A w \in Workers : pc[w] \in {"running", "ran", "unwound"} => active > 0
  <1>1. active = 0 <=> Busy = {}
    BY BusyFinite, FS_EmptySet, RustAssumption DEF IInv, ActiveInv
  <1>2. active = 0 => \A w \in Workers : pc[w] # "running"
    BY <1>1 DEF Busy
  <1>3. active = 0 => \A t \in Tasks : fate[t] # "running"
    BY <1>2 DEF IInv, RunningInv
  <1>4. ASSUME NEW w \in Workers, pc[w] \in {"running", "ran", "unwound"} PROVE active > 0
    <2>1. Busy # {}
      BY <1>4 DEF Busy
    <2>2. QED
      BY <1>1, <2>1 DEF IInv, TypeOK
  <1>5. QED
    BY <1>3, <1>4

\* No action takes a thread out of its own part of the program.
LEMMA PCStep ==
  ASSUME IInv, [Next]_vars PROVE pc' \in [Threads -> PC] /\ PCInv'
  <1> USE RustAssumption DEF IInv, vars, queueVars, logVars, PCInv, TypeOK,
           Goto, NotifyAll, Waiting, Threads, PC
  <1>1. ASSUME NEW t \in Tasks, SubmitRoom(t) PROVE pc' \in [Threads -> PC] /\ PCInv'
    BY <1>1 DEF SubmitRoom
  <1>2. ASSUME NEW t \in Tasks, SubmitFull(t) PROVE pc' \in [Threads -> PC] /\ PCInv'
    BY <1>2 DEF SubmitFull
  <1>3. ASSUME NEW t \in Tasks, SubmitRefused(t) PROVE pc' \in [Threads -> PC] /\ PCInv'
    BY <1>3 DEF SubmitRefused
  <1>4. ASSUME NEW t \in Tasks, NotifyOne(t) PROVE pc' \in [Threads -> PC] /\ PCInv'
    BY <1>4 DEF NotifyOne
  <1>5. ASSUME NEW w \in Workers, Take(w) PROVE pc' \in [Threads -> PC] /\ PCInv'
    BY <1>5 DEF Take
  <1>6. ASSUME NEW w \in Workers, Exit(w) PROVE pc' \in [Threads -> PC] /\ PCInv'
    BY <1>6 DEF Exit
  <1>7. ASSUME NEW w \in Workers, Wait(w) PROVE pc' \in [Threads -> PC] /\ PCInv'
    BY <1>7 DEF Wait
  <1>8. ASSUME NEW w \in Workers, RunTask(w) PROVE pc' \in [Threads -> PC] /\ PCInv'
    BY <1>8 DEF RunTask
  <1>9. ASSUME NEW w \in Workers, PanicTask(w) PROVE pc' \in [Threads -> PC] /\ PCInv'
    BY <1>9 DEF PanicTask
  <1>10. ASSUME NEW w \in Workers, Release(w) PROVE pc' \in [Threads -> PC] /\ PCInv'
    BY <1>10 DEF Release
  <1>11. ASSUME NEW w \in Workers, WorkerNotifyAll(w) PROVE pc' \in [Threads -> PC] /\ PCInv'
    BY <1>11 DEF WorkerNotifyAll
  <1>12. ASSUME NEW c \in Closers, CloseBegin(c) PROVE pc' \in [Threads -> PC] /\ PCInv'
    BY <1>12 DEF CloseBegin
  <1>13. ASSUME NEW c \in Closers, CloseAgain(c) PROVE pc' \in [Threads -> PC] /\ PCInv'
    BY <1>13 DEF CloseAgain
  <1>14. ASSUME NEW c \in Closers, DrainWait(c) PROVE pc' \in [Threads -> PC] /\ PCInv'
    BY <1>14 DEF DrainWait
  <1>15. ASSUME NEW c \in Closers, DrainEnd(c) PROVE pc' \in [Threads -> PC] /\ PCInv'
    BY <1>15 DEF DrainEnd
  <1>16. ASSUME NEW c \in Closers, CloserNotifyAll(c) PROVE pc' \in [Threads -> PC] /\ PCInv'
    BY <1>16 DEF CloserNotifyAll
  <1>17. ASSUME NEW c \in Closers, WaitTimesOut(c) PROVE pc' \in [Threads -> PC] /\ PCInv'
    BY <1>17 DEF WaitTimesOut
  <1>18. ASSUME DeadlinePasses PROVE pc' \in [Threads -> PC] /\ PCInv'
    BY <1>18 DEF DeadlinePasses
  <1>19. ASSUME NEW x \in Workers \cup Closers, SpuriousWakeup(x) PROVE pc' \in [Threads -> PC] /\ PCInv'
    BY <1>19 DEF SpuriousWakeup
  <1>20. CASE UNCHANGED vars
    BY <1>20
  <1>21. QED
    BY <1>1, <1>2, <1>3, <1>4, <1>5, <1>6, <1>7, <1>8, <1>9, <1>10, <1>11,
       <1>12, <1>13, <1>14, <1>15, <1>16, <1>17, <1>18, <1>19, <1>20 DEF
       Next, Caller, Worker, Closer

\* Only CloseBegin clears accepting, only the closer that did so clears draining.
LEMMA PhaseStep ==
  ASSUME IInv, [Next]_vars PROVE PhaseInv'
  <1> USE RustAssumption DEF IInv, vars, queueVars, logVars, PCInv, TypeOK,
           Goto, NotifyAll, Waiting, Threads, PhaseInv
  <1>1. ASSUME NEW t \in Tasks, SubmitRoom(t) PROVE PhaseInv'
    BY <1>1 DEF SubmitRoom
  <1>2. ASSUME NEW t \in Tasks, SubmitFull(t) PROVE PhaseInv'
    BY <1>2 DEF SubmitFull
  <1>3. ASSUME NEW t \in Tasks, SubmitRefused(t) PROVE PhaseInv'
    BY <1>3 DEF SubmitRefused
  <1>4. ASSUME NEW t \in Tasks, NotifyOne(t) PROVE PhaseInv'
    BY <1>4 DEF NotifyOne
  <1>5. ASSUME NEW w \in Workers, Take(w) PROVE PhaseInv'
    BY <1>5 DEF Take
  <1>6. ASSUME NEW w \in Workers, Exit(w) PROVE PhaseInv'
    BY <1>6 DEF Exit
  <1>7. ASSUME NEW w \in Workers, Wait(w) PROVE PhaseInv'
    BY <1>7 DEF Wait
  <1>8. ASSUME NEW w \in Workers, RunTask(w) PROVE PhaseInv'
    BY <1>8 DEF RunTask
  <1>9. ASSUME NEW w \in Workers, PanicTask(w) PROVE PhaseInv'
    BY <1>9 DEF PanicTask
  <1>10. ASSUME NEW w \in Workers, Release(w) PROVE PhaseInv'
    BY <1>10 DEF Release
  <1>11. ASSUME NEW w \in Workers, WorkerNotifyAll(w) PROVE PhaseInv'
    BY <1>11 DEF WorkerNotifyAll
  <1>12. ASSUME NEW c \in Closers, CloseBegin(c) PROVE PhaseInv'
    BY <1>12 DEF CloseBegin
  <1>13. ASSUME NEW c \in Closers, CloseAgain(c) PROVE PhaseInv'
    BY <1>13 DEF CloseAgain
  <1>14. ASSUME NEW c \in Closers, DrainWait(c) PROVE PhaseInv'
    BY <1>14 DEF DrainWait
  <1>15. ASSUME NEW c \in Closers, DrainEnd(c) PROVE PhaseInv'
    BY <1>15 DEF DrainEnd
  <1>16. ASSUME NEW c \in Closers, CloserNotifyAll(c) PROVE PhaseInv'
    BY <1>16 DEF CloserNotifyAll
  <1>17. ASSUME NEW c \in Closers, WaitTimesOut(c) PROVE PhaseInv'
    BY <1>17 DEF WaitTimesOut
  <1>18. ASSUME DeadlinePasses PROVE PhaseInv'
    BY <1>18 DEF DeadlinePasses
  <1>19. ASSUME NEW x \in Workers \cup Closers, SpuriousWakeup(x) PROVE PhaseInv'
    BY <1>19 DEF SpuriousWakeup
  <1>20. CASE UNCHANGED vars
    BY <1>20
  <1>21. QED
    BY <1>1, <1>2, <1>3, <1>4, <1>5, <1>6, <1>7, <1>8, <1>9, <1>10, <1>11,
       <1>12, <1>13, <1>14, <1>15, <1>16, <1>17, <1>18, <1>19, <1>20 DEF
       Next, Caller, Worker, Closer

\* submit decides what becomes of a task in the step in which it takes the lock.
LEMMA NewStep ==
  ASSUME IInv, [Next]_vars PROVE NewInv'
  <1> USE RustAssumption DEF IInv, vars, queueVars, logVars, PCInv, TypeOK,
           Goto, NotifyAll, Waiting, Threads, NewInv, QueueInv, RunningInv
  <1>1. ASSUME NEW t \in Tasks, SubmitRoom(t) PROVE NewInv'
    BY <1>1 DEF SubmitRoom
  <1>2. ASSUME NEW t \in Tasks, SubmitFull(t) PROVE NewInv'
    BY <1>2 DEF SubmitFull
  <1>3. ASSUME NEW t \in Tasks, SubmitRefused(t) PROVE NewInv'
    BY <1>3 DEF SubmitRefused
  <1>4. ASSUME NEW t \in Tasks, NotifyOne(t) PROVE NewInv'
    BY <1>4 DEF NotifyOne
  <1>5. ASSUME NEW w \in Workers, Take(w) PROVE NewInv'
    BY <1>5 DEF Take
  <1>6. ASSUME NEW w \in Workers, Exit(w) PROVE NewInv'
    BY <1>6 DEF Exit
  <1>7. ASSUME NEW w \in Workers, Wait(w) PROVE NewInv'
    BY <1>7 DEF Wait
  <1>8. ASSUME NEW w \in Workers, RunTask(w) PROVE NewInv'
    BY <1>8 DEF RunTask
  <1>9. ASSUME NEW w \in Workers, PanicTask(w) PROVE NewInv'
    BY <1>9 DEF PanicTask
  <1>10. ASSUME NEW w \in Workers, Release(w) PROVE NewInv'
    BY <1>10 DEF Release
  <1>11. ASSUME NEW w \in Workers, WorkerNotifyAll(w) PROVE NewInv'
    BY <1>11 DEF WorkerNotifyAll
  <1>12. ASSUME NEW c \in Closers, CloseBegin(c) PROVE NewInv'
    BY <1>12 DEF CloseBegin
  <1>13. ASSUME NEW c \in Closers, CloseAgain(c) PROVE NewInv'
    BY <1>13 DEF CloseAgain
  <1>14. ASSUME NEW c \in Closers, DrainWait(c) PROVE NewInv'
    BY <1>14 DEF DrainWait
  <1>15. ASSUME NEW c \in Closers, DrainEnd(c) PROVE NewInv'
    BY <1>15 DEF DrainEnd
  <1>16. ASSUME NEW c \in Closers, CloserNotifyAll(c) PROVE NewInv'
    BY <1>16 DEF CloserNotifyAll
  <1>17. ASSUME NEW c \in Closers, WaitTimesOut(c) PROVE NewInv'
    BY <1>17 DEF WaitTimesOut
  <1>18. ASSUME DeadlinePasses PROVE NewInv'
    BY <1>18 DEF DeadlinePasses
  <1>19. ASSUME NEW x \in Workers \cup Closers, SpuriousWakeup(x) PROVE NewInv'
    BY <1>19 DEF SpuriousWakeup
  <1>20. CASE UNCHANGED vars
    BY <1>20
  <1>21. QED
    BY <1>1, <1>2, <1>3, <1>4, <1>5, <1>6, <1>7, <1>8, <1>9, <1>10, <1>11,
       <1>12, <1>13, <1>14, <1>15, <1>16, <1>17, <1>18, <1>19, <1>20 DEF
       Next, Caller, Worker, Closer

LEMMA DataStep ==
  ASSUME IInv, [Next]_vars PROVE TypeData'
  <1> USE RustAssumption DEF IInv, vars, queueVars, logVars, TypeOK,
           TypeData, PCInv, QueueInv, NewInv, RunningInv, Fates
  <1>1. ASSUME NEW t \in Tasks, SubmitRoom(t) PROVE TypeData'
    BY <1>1 DEF SubmitRoom
  <1>2. ASSUME NEW t \in Tasks, SubmitFull(t) PROVE TypeData'
    <2>1. tasks # <<>> /\ Head(tasks) \in Tasks
      BY <1>2 DEF SubmitFull
    <2>2. tasks' \in Seq(Tasks)
      BY <1>2, <2>1, ShiftFacts DEF SubmitFull
    <2>3. fate' \in [Tasks -> Fates]
      BY <1>2, <2>1 DEF SubmitFull
    <2>4. QED
      BY <1>2, <2>2, <2>3 DEF SubmitFull
  <1>3. ASSUME NEW t \in Tasks, SubmitRefused(t) PROVE TypeData'
    BY <1>3 DEF SubmitRefused
  <1>4. ASSUME NEW t \in Tasks, NotifyOne(t) PROVE TypeData'
    BY <1>4 DEF NotifyOne
  <1>5. ASSUME NEW w \in Workers, Take(w) PROVE TypeData'
    BY <1>5 DEF Take
  <1>6. ASSUME NEW w \in Workers, Exit(w) PROVE TypeData'
    BY <1>6 DEF Exit
  <1>7. ASSUME NEW w \in Workers, Wait(w) PROVE TypeData'
    BY <1>7 DEF Wait
  <1>8. ASSUME NEW w \in Workers, RunTask(w) PROVE TypeData'
    BY <1>8 DEF RunTask
  <1>9. ASSUME NEW w \in Workers, PanicTask(w) PROVE TypeData'
    BY <1>9 DEF PanicTask
  <1>10. ASSUME NEW w \in Workers, Release(w) PROVE TypeData'
    <2>1. active - 1 \in Nat
      BY <1>10, ActiveZero DEF Release
    <2>2. current' \in [Workers -> Tasks \cup {NoTask}]
      BY <1>10 DEF Release
    <2>3. QED
      BY <1>10, <2>1, <2>2 DEF Release
  <1>11. ASSUME NEW w \in Workers, WorkerNotifyAll(w) PROVE TypeData'
    BY <1>11 DEF WorkerNotifyAll
  <1>12. ASSUME NEW c \in Closers, CloseBegin(c) PROVE TypeData'
    BY <1>12 DEF CloseBegin
  <1>13. ASSUME NEW c \in Closers, CloseAgain(c) PROVE TypeData'
    BY <1>13 DEF CloseAgain
  <1>14. ASSUME NEW c \in Closers, DrainWait(c) PROVE TypeData'
    BY <1>14 DEF DrainWait
  <1>15. ASSUME NEW c \in Closers, DrainEnd(c) PROVE TypeData'
    BY <1>15 DEF DrainEnd
  <1>16. ASSUME NEW c \in Closers, CloserNotifyAll(c) PROVE TypeData'
    BY <1>16 DEF CloserNotifyAll
  <1>17. ASSUME NEW c \in Closers, WaitTimesOut(c) PROVE TypeData'
    BY <1>17 DEF WaitTimesOut
  <1>18. ASSUME DeadlinePasses PROVE TypeData'
    BY <1>18 DEF DeadlinePasses
  <1>19. ASSUME NEW x \in Workers \cup Closers, SpuriousWakeup(x) PROVE TypeData'
    BY <1>19 DEF SpuriousWakeup
  <1>20. CASE UNCHANGED vars
    BY <1>20
  <1>21. QED
    BY <1>1, <1>2, <1>3, <1>4, <1>5, <1>6, <1>7, <1>8, <1>9, <1>10, <1>11,
       <1>12, <1>13, <1>14, <1>15, <1>16, <1>17, <1>18, <1>19, <1>20 DEF
       Next, Caller, Worker, Closer

LEMMA LogStep ==
  ASSUME IInv, [Next]_vars PROVE TypeLog'
  <1> USE RustAssumption DEF IInv, vars, queueVars, logVars, TypeOK,
           TypeLog, RecordDrop
  <1>1. ASSUME NEW t \in Tasks, SubmitRoom(t) PROVE TypeLog'
    BY <1>1 DEF SubmitRoom
  <1>2. ASSUME NEW t \in Tasks, SubmitFull(t) PROVE TypeLog'
    BY <1>2 DEF SubmitFull
  <1>3. ASSUME NEW t \in Tasks, SubmitRefused(t) PROVE TypeLog'
    BY <1>3 DEF SubmitRefused
  <1>4. ASSUME NEW t \in Tasks, NotifyOne(t) PROVE TypeLog'
    BY <1>4 DEF NotifyOne
  <1>5. ASSUME NEW w \in Workers, Take(w) PROVE TypeLog'
    BY <1>5 DEF Take
  <1>6. ASSUME NEW w \in Workers, Exit(w) PROVE TypeLog'
    BY <1>6 DEF Exit
  <1>7. ASSUME NEW w \in Workers, Wait(w) PROVE TypeLog'
    BY <1>7 DEF Wait
  <1>8. ASSUME NEW w \in Workers, RunTask(w) PROVE TypeLog'
    BY <1>8 DEF RunTask
  <1>9. ASSUME NEW w \in Workers, PanicTask(w) PROVE TypeLog'
    BY <1>9 DEF PanicTask
  <1>10. ASSUME NEW w \in Workers, Release(w) PROVE TypeLog'
    BY <1>10 DEF Release
  <1>11. ASSUME NEW w \in Workers, WorkerNotifyAll(w) PROVE TypeLog'
    BY <1>11 DEF WorkerNotifyAll
  <1>12. ASSUME NEW c \in Closers, CloseBegin(c) PROVE TypeLog'
    BY <1>12 DEF CloseBegin
  <1>13. ASSUME NEW c \in Closers, CloseAgain(c) PROVE TypeLog'
    BY <1>13 DEF CloseAgain
  <1>14. ASSUME NEW c \in Closers, DrainWait(c) PROVE TypeLog'
    BY <1>14 DEF DrainWait
  <1>15. ASSUME NEW c \in Closers, DrainEnd(c) PROVE TypeLog'
    BY <1>15 DEF DrainEnd
  <1>16. ASSUME NEW c \in Closers, CloserNotifyAll(c) PROVE TypeLog'
    BY <1>16 DEF CloserNotifyAll
  <1>17. ASSUME NEW c \in Closers, WaitTimesOut(c) PROVE TypeLog'
    BY <1>17 DEF WaitTimesOut
  <1>18. ASSUME DeadlinePasses PROVE TypeLog'
    BY <1>18 DEF DeadlinePasses
  <1>19. ASSUME NEW x \in Workers \cup Closers, SpuriousWakeup(x) PROVE TypeLog'
    BY <1>19 DEF SpuriousWakeup
  <1>20. CASE UNCHANGED vars
    BY <1>20
  <1>21. QED
    BY <1>1, <1>2, <1>3, <1>4, <1>5, <1>6, <1>7, <1>8, <1>9, <1>10, <1>11,
       <1>12, <1>13, <1>14, <1>15, <1>16, <1>17, <1>18, <1>19, <1>20 DEF
       Next, Caller, Worker, Closer

LEMMA FlagStep ==
  ASSUME IInv, [Next]_vars PROVE TypeFlags'
  <1> USE RustAssumption DEF IInv, vars, queueVars, logVars, TypeOK,
           TypeFlags
  <1>1. ASSUME NEW t \in Tasks, SubmitRoom(t) PROVE TypeFlags'
    BY <1>1 DEF SubmitRoom
  <1>2. ASSUME NEW t \in Tasks, SubmitFull(t) PROVE TypeFlags'
    BY <1>2 DEF SubmitFull
  <1>3. ASSUME NEW t \in Tasks, SubmitRefused(t) PROVE TypeFlags'
    BY <1>3 DEF SubmitRefused
  <1>4. ASSUME NEW t \in Tasks, NotifyOne(t) PROVE TypeFlags'
    BY <1>4 DEF NotifyOne
  <1>5. ASSUME NEW w \in Workers, Take(w) PROVE TypeFlags'
    BY <1>5 DEF Take
  <1>6. ASSUME NEW w \in Workers, Exit(w) PROVE TypeFlags'
    BY <1>6 DEF Exit
  <1>7. ASSUME NEW w \in Workers, Wait(w) PROVE TypeFlags'
    BY <1>7 DEF Wait
  <1>8. ASSUME NEW w \in Workers, RunTask(w) PROVE TypeFlags'
    BY <1>8 DEF RunTask
  <1>9. ASSUME NEW w \in Workers, PanicTask(w) PROVE TypeFlags'
    BY <1>9 DEF PanicTask
  <1>10. ASSUME NEW w \in Workers, Release(w) PROVE TypeFlags'
    BY <1>10 DEF Release
  <1>11. ASSUME NEW w \in Workers, WorkerNotifyAll(w) PROVE TypeFlags'
    BY <1>11 DEF WorkerNotifyAll
  <1>12. ASSUME NEW c \in Closers, CloseBegin(c) PROVE TypeFlags'
    BY <1>12 DEF CloseBegin
  <1>13. ASSUME NEW c \in Closers, CloseAgain(c) PROVE TypeFlags'
    BY <1>13 DEF CloseAgain
  <1>14. ASSUME NEW c \in Closers, DrainWait(c) PROVE TypeFlags'
    BY <1>14 DEF DrainWait
  <1>15. ASSUME NEW c \in Closers, DrainEnd(c) PROVE TypeFlags'
    BY <1>15 DEF DrainEnd
  <1>16. ASSUME NEW c \in Closers, CloserNotifyAll(c) PROVE TypeFlags'
    BY <1>16 DEF CloserNotifyAll
  <1>17. ASSUME NEW c \in Closers, WaitTimesOut(c) PROVE TypeFlags'
    BY <1>17 DEF WaitTimesOut
  <1>18. ASSUME DeadlinePasses PROVE TypeFlags'
    BY <1>18 DEF DeadlinePasses
  <1>19. ASSUME NEW x \in Workers \cup Closers, SpuriousWakeup(x) PROVE TypeFlags'
    BY <1>19 DEF SpuriousWakeup
  <1>20. CASE UNCHANGED vars
    BY <1>20
  <1>21. QED
    BY <1>1, <1>2, <1>3, <1>4, <1>5, <1>6, <1>7, <1>8, <1>9, <1>10, <1>11,
       <1>12, <1>13, <1>14, <1>15, <1>16, <1>17, <1>18, <1>19, <1>20 DEF
       Next, Caller, Worker, Closer

\* The queue stays bounded, free of duplicates and equal to the set of queued tasks.
LEMMA QueueStep ==
  ASSUME IInv, [Next]_vars PROVE QueueInv'
  <1> USE RustAssumption DEF IInv, vars, queueVars, logVars, PCInv, TypeOK,
           Goto, NotifyAll, Waiting, Threads, QueueInv, NewInv, RunningInv,
           PhaseInv, Fates
  <1>1. ASSUME NEW t \in Tasks, SubmitRoom(t) PROVE QueueInv'
    BY <1>1 DEF SubmitRoom
  <1>2. ASSUME NEW t \in Tasks, SubmitFull(t) PROVE QueueInv'
    <2> DEFINE n == Len(tasks)
    <2>1. tasks # <<>> /\ n \in Nat \ {0} /\ n = Capacity
      BY <1>2 DEF SubmitFull
    <2>2. /\ tasks' \in Seq(Tasks) /\ Len(tasks') = n /\ tasks'[n] = t
          /\ \A i \in 1..(n - 1) : tasks'[i] = tasks[i + 1]
      BY <1>2, <2>1, ShiftFacts DEF SubmitFull
    <2>3. Head(tasks) = tasks[1] /\ tasks[1] \in Tasks
      BY <2>1
    <2>4. fate' = [fate EXCEPT ![t] = "queued", ![tasks[1]] = "dropped"]
      BY <1>2, <2>3 DEF SubmitFull
    <2>5. fate[t] = "new" /\ \A i \in 1..n : tasks[i] \in Tasks /\ tasks[i] # t
      BY <1>2 DEF SubmitFull
    <2>6. t # tasks[1] /\ fate'[t] = "queued" /\ fate'[tasks[1]] = "dropped"
      BY <2>1, <2>4, <2>5
    <2>7. ASSUME NEW i \in 1..n PROVE fate'[tasks'[i]] = "queued"
      <3>1. CASE i = n
        BY <2>2, <2>6, <3>1
      <3>2. CASE i # n
        <4>1. i \in 1..(n - 1) /\ i + 1 \in 1..n /\ 1 \in 1..n /\ i + 1 # 1
          BY <2>1, <3>2
        <4>2. tasks'[i] = tasks[i + 1] /\ tasks[i + 1] # tasks[1] /\ fate[tasks[i + 1]] = "queued"
          BY <2>2, <4>1
        <4>3. QED
          BY <2>3, <2>4, <2>5, <4>1, <4>2
      <3>3. QED
        BY <3>1, <3>2
    <2>8. ASSUME NEW i \in 1..n, NEW j \in 1..n, tasks'[i] = tasks'[j] PROVE i = j
      <3>1. \A k \in 1..(n - 1) : k + 1 \in 1..n /\ tasks'[k] = tasks[k + 1] /\ tasks'[k] # t
        BY <2>1, <2>2, <2>5
      <3>2. (i = n \/ i \in 1..(n - 1)) /\ (j = n \/ j \in 1..(n - 1))
        BY <2>1
      <3>3. CASE i \in 1..(n - 1) /\ j \in 1..(n - 1)
        <4>1. tasks[i + 1] = tasks[j + 1] /\ i + 1 \in 1..n /\ j + 1 \in 1..n
          BY <3>1, <3>3, <2>8
        <4>2. i + 1 = j + 1
          BY <4>1
        <4>3. QED
          BY <4>2
      <3>4. CASE i = n /\ j \in 1..(n - 1)
        BY <3>1, <3>4, <2>2, <2>8
      <3>5. CASE j = n /\ i \in 1..(n - 1)
        BY <3>1, <3>5, <2>2, <2>8
      <3>6. QED
        BY <3>2, <3>3, <3>4, <3>5
    <2>9. ASSUME NEW u \in Tasks, fate'[u] = "queued"
          PROVE  \E i \in 1..n : tasks'[i] = u
      <3>1. CASE u = t
        BY <3>1, <2>1, <2>2
      <3>2. CASE u # t
        <4>1. fate[u] = "queued" /\ u # tasks[1]
          BY <3>2, <2>4, <2>6, <2>9
        <4>2. PICK k \in 1..n : tasks[k] = u
          BY <4>1
        <4>3. k - 1 \in 1..(n - 1) /\ tasks'[k - 1] = u
          BY <4>1, <4>2, <2>1, <2>2
        <4>4. QED
          BY <4>3, <2>1
      <3>3. QED
        BY <3>1, <3>2
    <2>10. QED
      BY <2>1, <2>2, <2>7, <2>8, <2>9
  <1>3. ASSUME NEW t \in Tasks, SubmitRefused(t) PROVE QueueInv'
    BY <1>3 DEF SubmitRefused
  <1>4. ASSUME NEW t \in Tasks, NotifyOne(t) PROVE QueueInv'
    BY <1>4 DEF NotifyOne
  <1>5. ASSUME NEW w \in Workers, Take(w) PROVE QueueInv'
    <2> DEFINE n == Len(tasks)
    <2>1. /\ n \in Nat \ {0} /\ Head(tasks) = tasks[1] /\ tasks[1] \in Tasks
          /\ Len(tasks') = n - 1
          /\ \A i \in 1..(n - 1) : tasks'[i] = tasks[i + 1]
      BY <1>5, TailFacts DEF Take
    <2>2. fate' = [fate EXCEPT ![tasks[1]] = "running"]
      BY <1>5, <2>1 DEF Take
    <2>3. ASSUME NEW i \in 1..(n - 1) PROVE fate'[tasks'[i]] = "queued"
      <3>1. i + 1 \in 1..n /\ i + 1 # 1 /\ tasks'[i] = tasks[i + 1]
        BY <2>1
      <3>2. tasks[i + 1] # tasks[1] /\ fate[tasks[i + 1]] = "queued" /\ tasks[i + 1] \in Tasks
        BY <3>1, <2>1
      <3>3. QED
        BY <3>1, <3>2, <2>2
    <2>4. ASSUME NEW i \in 1..(n - 1), NEW j \in 1..(n - 1), tasks'[i] = tasks'[j]
          PROVE  i = j
      <3>1. i + 1 \in 1..n /\ j + 1 \in 1..n
        BY <2>1
      <3>2. tasks[i + 1] = tasks[j + 1]
        BY <2>1, <2>4
      <3>3. i + 1 = j + 1
        BY <3>1, <3>2
      <3>4. QED
        BY <3>3
    <2>5. ASSUME NEW u \in Tasks, fate'[u] = "queued"
          PROVE  \E i \in 1..(n - 1) : tasks'[i] = u
      <3>1. fate[u] = "queued" /\ u # tasks[1]
        BY <2>1, <2>2, <2>5
      <3>2. PICK k \in 1..n : tasks[k] = u
        BY <3>1
      <3>3. k - 1 \in 1..(n - 1) /\ tasks'[k - 1] = u
        BY <3>1, <3>2, <2>1
      <3>4. QED
        BY <3>3
    <2>6. n - 1 <= Capacity
      BY <2>1
    <2>7. QED
      BY <2>1, <2>3, <2>4, <2>5, <2>6
  <1>6. ASSUME NEW w \in Workers, Exit(w) PROVE QueueInv'
    BY <1>6 DEF Exit
  <1>7. ASSUME NEW w \in Workers, Wait(w) PROVE QueueInv'
    BY <1>7 DEF Wait
  <1>8. ASSUME NEW w \in Workers, RunTask(w) PROVE QueueInv'
    BY <1>8 DEF RunTask
  <1>9. ASSUME NEW w \in Workers, PanicTask(w) PROVE QueueInv'
    BY <1>9 DEF PanicTask
  <1>10. ASSUME NEW w \in Workers, Release(w) PROVE QueueInv'
    BY <1>10 DEF Release
  <1>11. ASSUME NEW w \in Workers, WorkerNotifyAll(w) PROVE QueueInv'
    BY <1>11 DEF WorkerNotifyAll
  <1>12. ASSUME NEW c \in Closers, CloseBegin(c) PROVE QueueInv'
    BY <1>12 DEF CloseBegin
  <1>13. ASSUME NEW c \in Closers, CloseAgain(c) PROVE QueueInv'
    BY <1>13 DEF CloseAgain
  <1>14. ASSUME NEW c \in Closers, DrainWait(c) PROVE QueueInv'
    BY <1>14 DEF DrainWait
  <1>15. ASSUME NEW c \in Closers, DrainEnd(c) PROVE QueueInv'
    BY <1>15 DEF DrainEnd
  <1>16. ASSUME NEW c \in Closers, CloserNotifyAll(c) PROVE QueueInv'
    BY <1>16 DEF CloserNotifyAll
  <1>17. ASSUME NEW c \in Closers, WaitTimesOut(c) PROVE QueueInv'
    BY <1>17 DEF WaitTimesOut
  <1>18. ASSUME DeadlinePasses PROVE QueueInv'
    BY <1>18 DEF DeadlinePasses
  <1>19. ASSUME NEW x \in Workers \cup Closers, SpuriousWakeup(x) PROVE QueueInv'
    BY <1>19 DEF SpuriousWakeup
  <1>20. CASE UNCHANGED vars
    BY <1>20
  <1>21. QED
    BY <1>1, <1>2, <1>3, <1>4, <1>5, <1>6, <1>7, <1>8, <1>9, <1>10, <1>11,
       <1>12, <1>13, <1>14, <1>15, <1>16, <1>17, <1>18, <1>19, <1>20 DEF
       Next, Caller, Worker, Closer

\* RunningInv only depends on who runs what.
LEMMA RunningUnchanged ==
  ASSUME RunningInv,
         \A u \in Tasks : fate'[u] = "running" <=> fate[u] = "running",
         \A w \in Workers : /\ pc'[w] = "running" <=> pc[w] = "running"
                            /\ pc[w] = "running" => current'[w] = current[w]
  PROVE  RunningInv'
  BY DEF RunningInv

\* No task is ever in the hands of two workers.
LEMMA RunningStep ==
  ASSUME IInv, [Next]_vars PROVE RunningInv'
  <1> USE RustAssumption DEF IInv, vars, queueVars, logVars, PCInv, TypeOK,
           Goto, NotifyAll, Waiting, Threads, QueueInv, NewInv, RunningInv,
           Fates
  <1>1. ASSUME NEW t \in Tasks, SubmitRoom(t) PROVE RunningInv'
    BY <1>1 DEF SubmitRoom
  <1>2. ASSUME NEW t \in Tasks, SubmitFull(t) PROVE RunningInv'
    <2>1. tasks # <<>> /\ Head(tasks) = tasks[1] /\ tasks[1] \in Tasks
      BY <1>2 DEF SubmitFull
    <2>2. fate[tasks[1]] = "queued" /\ fate[t] = "new"
      BY <1>2, <2>1 DEF SubmitFull
    <2>3. \A u \in Tasks : fate'[u] = "running" <=> fate[u] = "running"
      BY <1>2, <2>1, <2>2 DEF SubmitFull
    <2>4. \A w \in Workers : pc'[w] = pc[w] /\ current'[w] = current[w]
      BY <1>2 DEF SubmitFull
    <2>5. QED
      BY <2>3, <2>4, RunningUnchanged
  <1>3. ASSUME NEW t \in Tasks, SubmitRefused(t) PROVE RunningInv'
    BY <1>3 DEF SubmitRefused
  <1>4. ASSUME NEW t \in Tasks, NotifyOne(t) PROVE RunningInv'
    <2>1. fate' = fate /\ current' = current
      BY <1>4 DEF NotifyOne
    <2>2. CASE pc' = [pc EXCEPT ![t] = "returned"]
      BY <2>1, <2>2, RunningUnchanged
    <2>3. ASSUME NEW x \in Waiting, pc' = [pc EXCEPT ![t] = "returned", ![x] = "ready"]
          PROVE  RunningInv'
      <3>1. \A w \in Workers : pc'[w] = "running" <=> pc[w] = "running"
        BY <2>3
      <3>2. QED
        BY <2>1, <3>1, RunningUnchanged
    <2>4. QED
      BY <1>4, <2>2, <2>3 DEF NotifyOne
  <1>5. ASSUME NEW w \in Workers, Take(w) PROVE RunningInv'
    BY <1>5 DEF Take
  <1>6. ASSUME NEW w \in Workers, Exit(w) PROVE RunningInv'
    BY <1>6 DEF Exit
  <1>7. ASSUME NEW w \in Workers, Wait(w) PROVE RunningInv'
    BY <1>7 DEF Wait
  <1>8. ASSUME NEW w \in Workers, RunTask(w) PROVE RunningInv'
    BY <1>8 DEF RunTask
  <1>9. ASSUME NEW w \in Workers, PanicTask(w) PROVE RunningInv'
    BY <1>9 DEF PanicTask
  <1>10. ASSUME NEW w \in Workers, Release(w) PROVE RunningInv'
    <2>1. fate' = fate /\ \A v \in Workers : pc'[v] = "running" <=> pc[v] = "running"
      BY <1>10 DEF Release
    <2>2. \A v \in Workers : pc[v] = "running" => current'[v] = current[v]
      BY <1>10 DEF Release
    <2>3. QED
      BY <2>1, <2>2, RunningUnchanged
  <1>11. ASSUME NEW w \in Workers, WorkerNotifyAll(w) PROVE RunningInv'
    <2>1. fate' = fate /\ \A v \in Workers : pc'[v] = "running" <=> pc[v] = "running"
      BY <1>11 DEF WorkerNotifyAll
    <2>2. \A v \in Workers : pc[v] = "running" => current'[v] = current[v]
      BY <1>11 DEF WorkerNotifyAll
    <2>3. QED
      BY <2>1, <2>2, RunningUnchanged
  <1>12. ASSUME NEW c \in Closers, CloseBegin(c) PROVE RunningInv'
    BY <1>12 DEF CloseBegin
  <1>13. ASSUME NEW c \in Closers, CloseAgain(c) PROVE RunningInv'
    BY <1>13 DEF CloseAgain
  <1>14. ASSUME NEW c \in Closers, DrainWait(c) PROVE RunningInv'
    BY <1>14 DEF DrainWait
  <1>15. ASSUME NEW c \in Closers, DrainEnd(c) PROVE RunningInv'
    BY <1>15 DEF DrainEnd
  <1>16. ASSUME NEW c \in Closers, CloserNotifyAll(c) PROVE RunningInv'
    BY <1>16 DEF CloserNotifyAll
  <1>17. ASSUME NEW c \in Closers, WaitTimesOut(c) PROVE RunningInv'
    BY <1>17 DEF WaitTimesOut
  <1>18. ASSUME DeadlinePasses PROVE RunningInv'
    BY <1>18 DEF DeadlinePasses
  <1>19. ASSUME NEW x \in Workers \cup Closers, SpuriousWakeup(x) PROVE RunningInv'
    BY <1>19 DEF SpuriousWakeup
  <1>20. CASE UNCHANGED vars
    BY <1>20
  <1>21. QED
    BY <1>1, <1>2, <1>3, <1>4, <1>5, <1>6, <1>7, <1>8, <1>9, <1>10, <1>11,
       <1>12, <1>13, <1>14, <1>15, <1>16, <1>17, <1>18, <1>19, <1>20 DEF
       Next, Caller, Worker, Closer

\* `active' moves with the set of busy workers.
LEMMA ActiveStep ==
  ASSUME IInv, [Next]_vars PROVE ActiveInv'
  <1> USE RustAssumption DEF IInv, vars, queueVars, logVars, PCInv, TypeOK,
           Goto, NotifyAll, Waiting, Threads, ActiveInv
  <1>1. ASSUME NEW t \in Tasks, SubmitRoom(t) PROVE ActiveInv'
    <2>1. Busy' = Busy
      BY <1>1 DEF SubmitRoom, Busy
    <2>2. QED
      BY <1>1, <2>1 DEF SubmitRoom
  <1>2. ASSUME NEW t \in Tasks, SubmitFull(t) PROVE ActiveInv'
    <2>1. Busy' = Busy
      BY <1>2 DEF SubmitFull, Busy
    <2>2. QED
      BY <1>2, <2>1 DEF SubmitFull
  <1>3. ASSUME NEW t \in Tasks, SubmitRefused(t) PROVE ActiveInv'
    <2>1. Busy' = Busy
      BY <1>3 DEF SubmitRefused, Busy
    <2>2. QED
      BY <1>3, <2>1 DEF SubmitRefused
  <1>4. ASSUME NEW t \in Tasks, NotifyOne(t) PROVE ActiveInv'
    <2>1. Busy' = Busy
      BY <1>4 DEF NotifyOne, Busy
    <2>2. QED
      BY <1>4, <2>1 DEF NotifyOne
  <1>5. ASSUME NEW w \in Workers, Take(w) PROVE ActiveInv'
    <2>1. Busy' = Busy \cup {w} /\ w \notin Busy
      BY <1>5 DEF Take, Busy
    <2>2. Cardinality(Busy') = Cardinality(Busy) + 1
      BY <2>1, BusyFinite, FS_AddElement
    <2>3. QED
      BY <1>5, <2>2 DEF Take
  <1>6. ASSUME NEW w \in Workers, Exit(w) PROVE ActiveInv'
    <2>1. Busy' = Busy
      BY <1>6 DEF Exit, Busy
    <2>2. QED
      BY <1>6, <2>1 DEF Exit
  <1>7. ASSUME NEW w \in Workers, Wait(w) PROVE ActiveInv'
    <2>1. Busy' = Busy
      BY <1>7 DEF Wait, Busy
    <2>2. QED
      BY <1>7, <2>1 DEF Wait
  <1>8. ASSUME NEW w \in Workers, RunTask(w) PROVE ActiveInv'
    <2>1. Busy' = Busy
      BY <1>8 DEF RunTask, Busy
    <2>2. QED
      BY <1>8, <2>1 DEF RunTask
  <1>9. ASSUME NEW w \in Workers, PanicTask(w) PROVE ActiveInv'
    <2>1. Busy' = Busy
      BY <1>9 DEF PanicTask, Busy
    <2>2. QED
      BY <1>9, <2>1 DEF PanicTask
  <1>10. ASSUME NEW w \in Workers, Release(w) PROVE ActiveInv'
    <2>1. Busy' = Busy \ {w} /\ w \in Busy
      BY <1>10 DEF Release, Busy
    <2>2. Cardinality(Busy') = Cardinality(Busy) - 1
      BY <2>1, BusyFinite, FS_RemoveElement
    <2>3. QED
      BY <1>10, <2>2 DEF Release
  <1>11. ASSUME NEW w \in Workers, WorkerNotifyAll(w) PROVE ActiveInv'
    <2>1. Busy' = Busy
      BY <1>11 DEF WorkerNotifyAll, Busy
    <2>2. QED
      BY <1>11, <2>1 DEF WorkerNotifyAll
  <1>12. ASSUME NEW c \in Closers, CloseBegin(c) PROVE ActiveInv'
    <2>1. Busy' = Busy
      BY <1>12 DEF CloseBegin, Busy
    <2>2. QED
      BY <1>12, <2>1 DEF CloseBegin
  <1>13. ASSUME NEW c \in Closers, CloseAgain(c) PROVE ActiveInv'
    <2>1. Busy' = Busy
      BY <1>13 DEF CloseAgain, Busy
    <2>2. QED
      BY <1>13, <2>1 DEF CloseAgain
  <1>14. ASSUME NEW c \in Closers, DrainWait(c) PROVE ActiveInv'
    <2>1. Busy' = Busy
      BY <1>14 DEF DrainWait, Busy
    <2>2. QED
      BY <1>14, <2>1 DEF DrainWait
  <1>15. ASSUME NEW c \in Closers, DrainEnd(c) PROVE ActiveInv'
    <2>1. Busy' = Busy
      BY <1>15 DEF DrainEnd, Busy
    <2>2. QED
      BY <1>15, <2>1 DEF DrainEnd
  <1>16. ASSUME NEW c \in Closers, CloserNotifyAll(c) PROVE ActiveInv'
    <2>1. Busy' = Busy
      BY <1>16 DEF CloserNotifyAll, Busy
    <2>2. QED
      BY <1>16, <2>1 DEF CloserNotifyAll
  <1>17. ASSUME NEW c \in Closers, WaitTimesOut(c) PROVE ActiveInv'
    <2>1. Busy' = Busy
      BY <1>17 DEF WaitTimesOut, Busy
    <2>2. QED
      BY <1>17, <2>1 DEF WaitTimesOut
  <1>18. ASSUME DeadlinePasses PROVE ActiveInv'
    <2>1. Busy' = Busy
      BY <1>18 DEF DeadlinePasses, Busy
    <2>2. QED
      BY <1>18, <2>1 DEF DeadlinePasses
  <1>19. ASSUME NEW x \in Workers \cup Closers, SpuriousWakeup(x) PROVE ActiveInv'
    <2>1. Busy' = Busy
      BY <1>19 DEF SpuriousWakeup, Busy
    <2>2. QED
      BY <1>19, <2>1 DEF SpuriousWakeup
  <1>20. CASE UNCHANGED vars
    BY <1>20 DEF Busy
  <1>21. QED
    BY <1>1, <1>2, <1>3, <1>4, <1>5, <1>6, <1>7, <1>8, <1>9, <1>10, <1>11,
       <1>12, <1>13, <1>14, <1>15, <1>16, <1>17, <1>18, <1>19, <1>20 DEF
       Next, Caller, Worker, Closer

LEMMA LossStep ==
  ASSUME IInv, [Next]_vars PROVE LossInv'
  <1> USE RustAssumption DEF IInv, vars, queueVars, logVars, PCInv, TypeOK,
           Goto, NotifyAll, Waiting, Threads, LossInv, PhaseInv, QueueInv,
           NewInv, RunningInv, Fates
  <1>1. ASSUME NEW t \in Tasks, SubmitRoom(t) PROVE LossInv'
    BY <1>1 DEF SubmitRoom
  <1>2. ASSUME NEW t \in Tasks, SubmitFull(t) PROVE LossInv'
    BY <1>2 DEF SubmitFull
  <1>3. ASSUME NEW t \in Tasks, SubmitRefused(t) PROVE LossInv'
    BY <1>3 DEF SubmitRefused
  <1>4. ASSUME NEW t \in Tasks, NotifyOne(t) PROVE LossInv'
    BY <1>4 DEF NotifyOne
  <1>5. ASSUME NEW w \in Workers, Take(w) PROVE LossInv'
    BY <1>5 DEF Take
  <1>6. ASSUME NEW w \in Workers, Exit(w) PROVE LossInv'
    BY <1>6 DEF Exit
  <1>7. ASSUME NEW w \in Workers, Wait(w) PROVE LossInv'
    BY <1>7 DEF Wait
  <1>8. ASSUME NEW w \in Workers, RunTask(w) PROVE LossInv'
    BY <1>8 DEF RunTask
  <1>9. ASSUME NEW w \in Workers, PanicTask(w) PROVE LossInv'
    BY <1>9 DEF PanicTask
  <1>10. ASSUME NEW w \in Workers, Release(w) PROVE LossInv'
    BY <1>10 DEF Release
  <1>11. ASSUME NEW w \in Workers, WorkerNotifyAll(w) PROVE LossInv'
    BY <1>11 DEF WorkerNotifyAll
  <1>12. ASSUME NEW c \in Closers, CloseBegin(c) PROVE LossInv'
    BY <1>12 DEF CloseBegin
  <1>13. ASSUME NEW c \in Closers, CloseAgain(c) PROVE LossInv'
    BY <1>13 DEF CloseAgain
  <1>14. ASSUME NEW c \in Closers, DrainWait(c) PROVE LossInv'
    BY <1>14 DEF DrainWait
  <1>15. ASSUME NEW c \in Closers, DrainEnd(c) PROVE LossInv'
    BY <1>15 DEF DrainEnd
  <1>16. ASSUME NEW c \in Closers, CloserNotifyAll(c) PROVE LossInv'
    BY <1>16 DEF CloserNotifyAll
  <1>17. ASSUME NEW c \in Closers, WaitTimesOut(c) PROVE LossInv'
    BY <1>17 DEF WaitTimesOut
  <1>18. ASSUME DeadlinePasses PROVE LossInv'
    BY <1>18 DEF DeadlinePasses
  <1>19. ASSUME NEW x \in Workers \cup Closers, SpuriousWakeup(x) PROVE LossInv'
    BY <1>19 DEF SpuriousWakeup
  <1>20. CASE UNCHANGED vars
    BY <1>20
  <1>21. QED
    BY <1>1, <1>2, <1>3, <1>4, <1>5, <1>6, <1>7, <1>8, <1>9, <1>10, <1>11,
       <1>12, <1>13, <1>14, <1>15, <1>16, <1>17, <1>18, <1>19, <1>20 DEF
       Next, Caller, Worker, Closer

\* Only a drain that ran to its end, or out of time, clears draining.
LEMMA CleanStep ==
  ASSUME IInv, [Next]_vars PROVE CleanCloseRanEverything'
  <1> USE RustAssumption DEF IInv, vars, queueVars, logVars, PCInv, TypeOK,
           Goto, NotifyAll, Waiting, Threads, PhaseInv,
           CleanCloseRanEverything, LossInv, QueueInv, NewInv, RunningInv,
           Fates, Drained
  <1>1. ASSUME NEW t \in Tasks, SubmitRoom(t) PROVE CleanCloseRanEverything'
    BY <1>1 DEF SubmitRoom
  <1>2. ASSUME NEW t \in Tasks, SubmitFull(t) PROVE CleanCloseRanEverything'
    BY <1>2 DEF SubmitFull
  <1>3. ASSUME NEW t \in Tasks, SubmitRefused(t) PROVE CleanCloseRanEverything'
    BY <1>3 DEF SubmitRefused
  <1>4. ASSUME NEW t \in Tasks, NotifyOne(t) PROVE CleanCloseRanEverything'
    BY <1>4 DEF NotifyOne
  <1>5. ASSUME NEW w \in Workers, Take(w) PROVE CleanCloseRanEverything'
    BY <1>5 DEF Take
  <1>6. ASSUME NEW w \in Workers, Exit(w) PROVE CleanCloseRanEverything'
    BY <1>6 DEF Exit
  <1>7. ASSUME NEW w \in Workers, Wait(w) PROVE CleanCloseRanEverything'
    BY <1>7 DEF Wait
  <1>8. ASSUME NEW w \in Workers, RunTask(w) PROVE CleanCloseRanEverything'
    BY <1>8 DEF RunTask
  <1>9. ASSUME NEW w \in Workers, PanicTask(w) PROVE CleanCloseRanEverything'
    BY <1>9 DEF PanicTask
  <1>10. ASSUME NEW w \in Workers, Release(w) PROVE CleanCloseRanEverything'
    BY <1>10 DEF Release
  <1>11. ASSUME NEW w \in Workers, WorkerNotifyAll(w) PROVE CleanCloseRanEverything'
    BY <1>11 DEF WorkerNotifyAll
  <1>12. ASSUME NEW c \in Closers, CloseBegin(c) PROVE CleanCloseRanEverything'
    BY <1>12 DEF CloseBegin
  <1>13. ASSUME NEW c \in Closers, CloseAgain(c) PROVE CleanCloseRanEverything'
    BY <1>13 DEF CloseAgain
  <1>14. ASSUME NEW c \in Closers, DrainWait(c) PROVE CleanCloseRanEverything'
    BY <1>14 DEF DrainWait
  <1>15. ASSUME NEW c \in Closers, DrainEnd(c) PROVE CleanCloseRanEverything'
    <2>1. ASSUME ~expired, NEW t \in Tasks
          PROVE  fate'[t] \in {"new", "refused", "done", "dropped"}
      <3>1. Drained /\ draining
        BY <1>15, <2>1 DEF DrainEnd
      <3>2. fate[t] \notin {"queued", "running", "abandoned"}
        BY <3>1, ActiveZero
      <3>3. fate'[t] = fate[t]
        BY <1>15, <3>2 DEF DrainEnd
      <3>4. QED
        BY <3>2, <3>3
    <2>2. expired' = expired
      BY <1>15 DEF DrainEnd
    <2>3. QED
      BY <2>1, <2>2
  <1>16. ASSUME NEW c \in Closers, CloserNotifyAll(c) PROVE CleanCloseRanEverything'
    BY <1>16 DEF CloserNotifyAll
  <1>17. ASSUME NEW c \in Closers, WaitTimesOut(c) PROVE CleanCloseRanEverything'
    BY <1>17 DEF WaitTimesOut
  <1>18. ASSUME DeadlinePasses PROVE CleanCloseRanEverything'
    BY <1>18 DEF DeadlinePasses
  <1>19. ASSUME NEW x \in Workers \cup Closers, SpuriousWakeup(x) PROVE CleanCloseRanEverything'
    BY <1>19 DEF SpuriousWakeup
  <1>20. CASE UNCHANGED vars
    BY <1>20
  <1>21. QED
    BY <1>1, <1>2, <1>3, <1>4, <1>5, <1>6, <1>7, <1>8, <1>9, <1>10, <1>11,
       <1>12, <1>13, <1>14, <1>15, <1>16, <1>17, <1>18, <1>19, <1>20 DEF
       Next, Caller, Worker, Closer

\* Whatever empties the drain's condition goes on to notify_all.
LEMMA CloserStep ==
  ASSUME IInv, [Next]_vars PROVE CloserNotForgotten'
  <1> USE RustAssumption DEF IInv, vars, queueVars, logVars, PCInv, TypeOK,
           Goto, NotifyAll, Waiting, Threads, PhaseInv, CloserNotForgotten,
           Drained
  <1>1. ASSUME NEW t \in Tasks, SubmitRoom(t) PROVE CloserNotForgotten'
    BY <1>1 DEF SubmitRoom
  <1>2. ASSUME NEW t \in Tasks, SubmitFull(t) PROVE CloserNotForgotten'
    BY <1>2 DEF SubmitFull
  <1>3. ASSUME NEW t \in Tasks, SubmitRefused(t) PROVE CloserNotForgotten'
    BY <1>3 DEF SubmitRefused
  <1>4. ASSUME NEW t \in Tasks, NotifyOne(t) PROVE CloserNotForgotten'
    BY <1>4 DEF NotifyOne
  <1>5. ASSUME NEW w \in Workers, Take(w) PROVE CloserNotForgotten'
    BY <1>5 DEF Take
  <1>6. ASSUME NEW w \in Workers, Exit(w) PROVE CloserNotForgotten'
    BY <1>6 DEF Exit
  <1>7. ASSUME NEW w \in Workers, Wait(w) PROVE CloserNotForgotten'
    BY <1>7 DEF Wait
  <1>8. ASSUME NEW w \in Workers, RunTask(w) PROVE CloserNotForgotten'
    BY <1>8 DEF RunTask
  <1>9. ASSUME NEW w \in Workers, PanicTask(w) PROVE CloserNotForgotten'
    BY <1>9 DEF PanicTask
  <1>10. ASSUME NEW w \in Workers, Release(w) PROVE CloserNotForgotten'
    BY <1>10 DEF Release
  <1>11. ASSUME NEW w \in Workers, WorkerNotifyAll(w) PROVE CloserNotForgotten'
    BY <1>11 DEF WorkerNotifyAll
  <1>12. ASSUME NEW c \in Closers, CloseBegin(c) PROVE CloserNotForgotten'
    BY <1>12 DEF CloseBegin
  <1>13. ASSUME NEW c \in Closers, CloseAgain(c) PROVE CloserNotForgotten'
    BY <1>13 DEF CloseAgain
  <1>14. ASSUME NEW c \in Closers, DrainWait(c) PROVE CloserNotForgotten'
    BY <1>14 DEF DrainWait
  <1>15. ASSUME NEW c \in Closers, DrainEnd(c) PROVE CloserNotForgotten'
    BY <1>15 DEF DrainEnd
  <1>16. ASSUME NEW c \in Closers, CloserNotifyAll(c) PROVE CloserNotForgotten'
    BY <1>16 DEF CloserNotifyAll
  <1>17. ASSUME NEW c \in Closers, WaitTimesOut(c) PROVE CloserNotForgotten'
    BY <1>17 DEF WaitTimesOut
  <1>18. ASSUME DeadlinePasses PROVE CloserNotForgotten'
    BY <1>18 DEF DeadlinePasses
  <1>19. ASSUME NEW x \in Workers \cup Closers, SpuriousWakeup(x) PROVE CloserNotForgotten'
    BY <1>19 DEF SpuriousWakeup
  <1>20. CASE UNCHANGED vars
    BY <1>20
  <1>21. QED
    BY <1>1, <1>2, <1>3, <1>4, <1>5, <1>6, <1>7, <1>8, <1>9, <1>10, <1>11,
       <1>12, <1>13, <1>14, <1>15, <1>16, <1>17, <1>18, <1>19, <1>20 DEF
       Next, Caller, Worker, Closer

\* No worker goes to sleep after draining is cleared.
LEMMA WorkerStep ==
  ASSUME IInv, [Next]_vars PROVE WorkerNotForgotten'
  <1> USE RustAssumption DEF IInv, vars, queueVars, logVars, PCInv, TypeOK,
           Goto, NotifyAll, Waiting, Threads, PhaseInv, WorkerNotForgotten
  <1>1. ASSUME NEW t \in Tasks, SubmitRoom(t) PROVE WorkerNotForgotten'
    BY <1>1 DEF SubmitRoom
  <1>2. ASSUME NEW t \in Tasks, SubmitFull(t) PROVE WorkerNotForgotten'
    BY <1>2 DEF SubmitFull
  <1>3. ASSUME NEW t \in Tasks, SubmitRefused(t) PROVE WorkerNotForgotten'
    BY <1>3 DEF SubmitRefused
  <1>4. ASSUME NEW t \in Tasks, NotifyOne(t) PROVE WorkerNotForgotten'
    BY <1>4 DEF NotifyOne
  <1>5. ASSUME NEW w \in Workers, Take(w) PROVE WorkerNotForgotten'
    BY <1>5 DEF Take
  <1>6. ASSUME NEW w \in Workers, Exit(w) PROVE WorkerNotForgotten'
    BY <1>6 DEF Exit
  <1>7. ASSUME NEW w \in Workers, Wait(w) PROVE WorkerNotForgotten'
    BY <1>7 DEF Wait
  <1>8. ASSUME NEW w \in Workers, RunTask(w) PROVE WorkerNotForgotten'
    BY <1>8 DEF RunTask
  <1>9. ASSUME NEW w \in Workers, PanicTask(w) PROVE WorkerNotForgotten'
    BY <1>9 DEF PanicTask
  <1>10. ASSUME NEW w \in Workers, Release(w) PROVE WorkerNotForgotten'
    BY <1>10 DEF Release
  <1>11. ASSUME NEW w \in Workers, WorkerNotifyAll(w) PROVE WorkerNotForgotten'
    BY <1>11 DEF WorkerNotifyAll
  <1>12. ASSUME NEW c \in Closers, CloseBegin(c) PROVE WorkerNotForgotten'
    BY <1>12 DEF CloseBegin
  <1>13. ASSUME NEW c \in Closers, CloseAgain(c) PROVE WorkerNotForgotten'
    BY <1>13 DEF CloseAgain
  <1>14. ASSUME NEW c \in Closers, DrainWait(c) PROVE WorkerNotForgotten'
    BY <1>14 DEF DrainWait
  <1>15. ASSUME NEW c \in Closers, DrainEnd(c) PROVE WorkerNotForgotten'
    BY <1>15 DEF DrainEnd
  <1>16. ASSUME NEW c \in Closers, CloserNotifyAll(c) PROVE WorkerNotForgotten'
    BY <1>16 DEF CloserNotifyAll
  <1>17. ASSUME NEW c \in Closers, WaitTimesOut(c) PROVE WorkerNotForgotten'
    BY <1>17 DEF WaitTimesOut
  <1>18. ASSUME DeadlinePasses PROVE WorkerNotForgotten'
    BY <1>18 DEF DeadlinePasses
  <1>19. ASSUME NEW x \in Workers \cup Closers, SpuriousWakeup(x) PROVE WorkerNotForgotten'
    BY <1>19 DEF SpuriousWakeup
  <1>20. CASE UNCHANGED vars
    BY <1>20
  <1>21. QED
    BY <1>1, <1>2, <1>3, <1>4, <1>5, <1>6, <1>7, <1>8, <1>9, <1>10, <1>11,
       <1>12, <1>13, <1>14, <1>15, <1>16, <1>17, <1>18, <1>19, <1>20 DEF
       Next, Caller, Worker, Closer

\* While accepting, notify_one can only reach a worker.
LEMMA FetchStep ==
  ASSUME IInv, [Next]_vars PROVE OpenTaskIsFetched'
  <1> USE RustAssumption DEF IInv, vars, queueVars, logVars, PCInv, TypeOK,
           Goto, NotifyAll, Waiting, Threads, PhaseInv, OpenTaskIsFetched,
           TaskIsFetched
  <1>1. ASSUME NEW t \in Tasks, SubmitRoom(t) PROVE OpenTaskIsFetched'
    BY <1>1 DEF SubmitRoom
  <1>2. ASSUME NEW t \in Tasks, SubmitFull(t) PROVE OpenTaskIsFetched'
    BY <1>2 DEF SubmitFull
  <1>3. ASSUME NEW t \in Tasks, SubmitRefused(t) PROVE OpenTaskIsFetched'
    BY <1>3 DEF SubmitRefused
  <1>4. ASSUME NEW t \in Tasks, NotifyOne(t) PROVE OpenTaskIsFetched'
    <2> SUFFICES ASSUME accepting, \A w \in Workers : pc'[w] # "unwound", tasks # <<>>
                 PROVE  \E w \in Workers : pc'[w] \in {"ready", "running", "ran", "notify_all"}
      BY <1>4 DEF NotifyOne
    <2>1. CASE Waiting = {}
      <3>1. \A w \in Workers : pc'[w] = pc[w] /\ pc[w] # "waiting" /\ pc[w] # "exited"
        BY <1>4, <2>1 DEF NotifyOne
      <3>2. QED
        BY <3>1
    <2>2. CASE \E x \in Waiting : pc' = [pc EXCEPT ![t] = "returned", ![x] = "ready"]
      <3>1. PICK x \in Waiting : pc' = [pc EXCEPT ![t] = "returned", ![x] = "ready"]
        BY <2>2
      <3>2. x \in Workers /\ pc'[x] = "ready"
        BY <3>1
      <3>3. QED
        BY <3>2
    <2>3. QED
      BY <1>4, <2>1, <2>2 DEF NotifyOne
  <1>5. ASSUME NEW w \in Workers, Take(w) PROVE OpenTaskIsFetched'
    BY <1>5 DEF Take
  <1>6. ASSUME NEW w \in Workers, Exit(w) PROVE OpenTaskIsFetched'
    BY <1>6 DEF Exit
  <1>7. ASSUME NEW w \in Workers, Wait(w) PROVE OpenTaskIsFetched'
    BY <1>7 DEF Wait
  <1>8. ASSUME NEW w \in Workers, RunTask(w) PROVE OpenTaskIsFetched'
    BY <1>8 DEF RunTask
  <1>9. ASSUME NEW w \in Workers, PanicTask(w) PROVE OpenTaskIsFetched'
    BY <1>9 DEF PanicTask
  <1>10. ASSUME NEW w \in Workers, Release(w) PROVE OpenTaskIsFetched'
    BY <1>10 DEF Release
  <1>11. ASSUME NEW w \in Workers, WorkerNotifyAll(w) PROVE OpenTaskIsFetched'
    BY <1>11 DEF WorkerNotifyAll
  <1>12. ASSUME NEW c \in Closers, CloseBegin(c) PROVE OpenTaskIsFetched'
    BY <1>12 DEF CloseBegin
  <1>13. ASSUME NEW c \in Closers, CloseAgain(c) PROVE OpenTaskIsFetched'
    BY <1>13 DEF CloseAgain
  <1>14. ASSUME NEW c \in Closers, DrainWait(c) PROVE OpenTaskIsFetched'
    BY <1>14 DEF DrainWait
  <1>15. ASSUME NEW c \in Closers, DrainEnd(c) PROVE OpenTaskIsFetched'
    BY <1>15 DEF DrainEnd
  <1>16. ASSUME NEW c \in Closers, CloserNotifyAll(c) PROVE OpenTaskIsFetched'
    BY <1>16 DEF CloserNotifyAll
  <1>17. ASSUME NEW c \in Closers, WaitTimesOut(c) PROVE OpenTaskIsFetched'
    BY <1>17 DEF WaitTimesOut
  <1>18. ASSUME DeadlinePasses PROVE OpenTaskIsFetched'
    BY <1>18 DEF DeadlinePasses
  <1>19. ASSUME NEW x \in Workers \cup Closers, SpuriousWakeup(x) PROVE OpenTaskIsFetched'
    BY <1>19 DEF SpuriousWakeup
  <1>20. CASE UNCHANGED vars
    BY <1>20
  <1>21. QED
    BY <1>1, <1>2, <1>3, <1>4, <1>5, <1>6, <1>7, <1>8, <1>9, <1>10, <1>11,
       <1>12, <1>13, <1>14, <1>15, <1>16, <1>17, <1>18, <1>19, <1>20 DEF
       Next, Caller, Worker, Closer

LEMMA NextIInv == ASSUME IInv, [Next]_vars PROVE IInv'
  <1>1. TypeOK'
    BY PCStep, DataStep, LogStep, FlagStep DEF TypeOK, TypeData, TypeLog, TypeFlags
  <1>2. PCInv' /\ PhaseInv' /\ QueueInv' /\ NewInv' /\ RunningInv' /\ ActiveInv' /\ LossInv'
    BY PCStep, PhaseStep, QueueStep, NewStep, RunningStep, ActiveStep, LossStep
  <1>3. QED
    BY <1>1, <1>2, CleanStep, CloserStep, WorkerStep, FetchStep DEF IInv

\* IInv is an invariant of the dispatcher.
THEOREM Invariance == Spec => []IInv
  <1>1. Init => IInv
    BY InitIInv
  <1>2. IInv /\ [Next]_vars => IInv'
    BY NextIInv
  <1>3. QED
    BY <1>1, <1>2, PTL DEF Spec

-----------------------------------------------------------------------------
(* What the invariant says *)

\* Type correctness of submit, work and close; that `active -= 1' never
\* underflows is part of it.
THEOREM TypeCorrect == Spec => []TypeOK
  <1>1. IInv => TypeOK
    BY DEF IInv
  <1>2. QED
    BY <1>1, Invariance, PTL

\* A close that beats its deadline has run every task it had admitted and not
\* displaced (drain_until).
THEOREM CleanClose == Spec => []CleanCloseRanEverything
  <1>1. IInv => CleanCloseRanEverything
    BY DEF IInv
  <1>2. QED
    BY <1>1, Invariance, PTL

\* Neither the closing thread nor a worker misses the notify_all it waits for.
THEOREM NoLostNotifyAll == Spec => [](CloserNotForgotten /\ WorkerNotForgotten)
  <1>1. IInv => CloserNotForgotten /\ WorkerNotForgotten
    BY DEF IInv
  <1>2. QED
    BY <1>1, Invariance, PTL

\* A worker that sleeps although draining is over has the wake-up of close still
\* coming (dispatcher.rs:17-18).
THEOREM WorkersWoken == Spec => []WorkerNotForgotten
  <1>1. QED
    BY NoLostNotifyAll, PTL

\* While the dispatcher is open, the notify_one of submit is enough.
THEOREM OpenNotifyOne == Spec => []OpenTaskIsFetched
  <1>1. IInv => OpenTaskIsFetched
    BY DEF IInv
  <1>2. QED
    BY <1>1, Invariance, PTL

-----------------------------------------------------------------------------
(* The drop logger *)

Dropped == {t \in Tasks : fate[t] = "dropped"}

\* Finitely many tasks have been displaced, though there may be infinitely many; only
\* a submit that has left the lock and not yet returned has a summary to log.
DropInv ==
  /\ IsFiniteSet(Dropped) /\ IsFiniteSet(ToBeLogged)
  /\ \A t \in Tasks : pc[t] # "notify_one" => summary[t] = 0
  /\ DropsAccounted

\* A summary of n drops.
LEMMA SummarySize ==
  ASSUME NEW t, NEW n \in Nat
  PROVE  IsFiniteSet({t} \X (1 .. n)) /\ Cardinality({t} \X (1 .. n)) = n
  <1>1. IsFiniteSet(1 .. n) /\ Cardinality(1 .. n) = n
    BY FS_Interval
  <1>2. IsFiniteSet({t}) /\ Cardinality({t}) = 1
    BY FS_Singleton
  <1>3. /\ IsFiniteSet({t} \X (1 .. n))
        /\ Cardinality({t} \X (1 .. n)) = Cardinality({t}) * Cardinality(1 .. n)
    BY <1>1, <1>2, FS_Product
  <1>4. QED
    BY <1>1, <1>2, <1>3

\* When the summary of one caller changes, what is to be logged changes by as much.
LEMMA SummaryChanges ==
  ASSUME TypeOK, IsFiniteSet(ToBeLogged), NEW t \in Tasks, NEW n \in Nat,
         summary' = [summary EXCEPT ![t] = n]
  PROVE  /\ IsFiniteSet(ToBeLogged') /\ Cardinality(ToBeLogged) \in Nat
         /\ Cardinality(ToBeLogged') = Cardinality(ToBeLogged) - summary[t] + n
  <1> DEFINE old == {t} \X (1 .. summary[t])
             new == {t} \X (1 .. n)
             rest == ToBeLogged \ old
  <1>1. summary[t] \in Nat /\ summary \in [Tasks -> Nat]
    BY DEF TypeOK
  <1>2. /\ IsFiniteSet(old) /\ Cardinality(old) = summary[t]
        /\ IsFiniteSet(new) /\ Cardinality(new) = n
    BY <1>1, SummarySize
  <1>3. old \subseteq ToBeLogged
    BY DEF ToBeLogged
  <1>4. rest = UNION {{u} \X (1 .. summary[u]) : u \in Tasks \ {t}}
    <2>1. ASSUME NEW x \in rest PROVE x \in UNION {{u} \X (1 .. summary[u]) : u \in Tasks \ {t}}
      <3>1. PICK u \in Tasks : x \in {u} \X (1 .. summary[u])
        BY DEF ToBeLogged
      <3>2. u # t
        BY <3>1
      <3>3. QED
        BY <3>1, <3>2
    <2>2. ASSUME NEW u \in Tasks \ {t}, NEW x \in {u} \X (1 .. summary[u]) PROVE x \in rest
      <3>1. x \in ToBeLogged
        BY DEF ToBeLogged
      <3>2. x[1] = u /\ x \notin old
        OBVIOUS
      <3>3. QED
        BY <3>1, <3>2
    <2>3. QED
      BY <2>1, <2>2
  <1>5. ToBeLogged' = rest \cup new
    <2>1. summary'[t] = n /\ \A u \in Tasks \ {t} : summary'[u] = summary[u]
      BY <1>1
    <2>2. ToBeLogged' = UNION {{u} \X (1 .. summary'[u]) : u \in Tasks}
      BY DEF ToBeLogged
    <2>3. ToBeLogged' = new \cup UNION {{u} \X (1 .. summary'[u]) : u \in Tasks \ {t}}
      BY <2>1, <2>2
    <2>4. QED
      BY <1>4, <2>1, <2>3
  <1>6. rest \cap new = {}
    <2>1. ASSUME NEW x \in rest PROVE x \notin new
      <3>1. PICK u \in Tasks \ {t} : x \in {u} \X (1 .. summary[u])
        BY <1>4
      <3>2. QED
        BY <3>1
    <2>2. QED
      BY <2>1
  <1> HIDE DEF old, new, rest
  <1>7. ToBeLogged \cap old = old
    BY <1>3
  <1>8. IsFiniteSet(rest) /\ Cardinality(rest) = Cardinality(ToBeLogged) - summary[t]
    <2>1. /\ IsFiniteSet(ToBeLogged \ old)
          /\ Cardinality(ToBeLogged \ old) = Cardinality(ToBeLogged) - Cardinality(ToBeLogged \cap old)
      BY FS_Difference
    <2>2. QED
      BY <1>2, <1>7, <2>1, Zenon DEF rest
  <1>9. /\ IsFiniteSet(rest \cup new)
        /\ Cardinality(rest \cup new) = Cardinality(rest) + Cardinality(new) - Cardinality({})
    BY <1>2, <1>6, <1>8, FS_Union
  <1>10. Cardinality(ToBeLogged) \in Nat
    BY FS_CardinalityType
  <1>11. QED
    BY <1>1, <1>2, <1>5, <1>8, <1>9, <1>10, FS_EmptySet

\* A step that displaces nothing and logs nothing.
LEMMA DropUnchanged ==
  ASSUME DropInv, UNCHANGED logVars,
         \A t \in Tasks : fate'[t] = "dropped" <=> fate[t] = "dropped",
         \A t \in Tasks : pc'[t] # "notify_one" => pc[t] # "notify_one"
  PROVE  DropInv'
  <1>1. Dropped' = Dropped
    BY DEF Dropped
  <1>2. ToBeLogged' = ToBeLogged /\ UNCHANGED <<dropped, logged, summary>>
    BY DEF ToBeLogged, logVars
  <1>3. DropsAccounted'
    BY <1>1, <1>2 DEF DropInv, DropsAccounted, Dropped
  <1>4. QED
    BY <1>1, <1>2, <1>3 DEF DropInv

LEMMA DropInvInit == ASSUME Init PROVE DropInv
  <1>1. Dropped = {}
    BY DEF Init, Dropped
  <1>2. ToBeLogged = {}
    <2>1. ASSUME NEW t \in Tasks PROVE {t} \X (1 .. summary[t]) = {}
      BY DEF Init
    <2>2. QED
      BY <2>1 DEF ToBeLogged
  <1>3. DropsAccounted
    <2>1. Cardinality(Dropped) = 0 /\ Cardinality(ToBeLogged) = 0
      BY <1>1, <1>2, FS_EmptySet
    <2>2. dropped = 0 /\ logged = 0
      BY DEF Init
    <2>3. dropped + logged + Cardinality(ToBeLogged) = Cardinality(Dropped)
      BY <2>1, <2>2
    <2>4. QED
      BY <2>3 DEF DropsAccounted, Dropped
  <1>4. QED
    BY <1>1, <1>2, <1>3, FS_EmptySet DEF Init, DropInv

LEMMA DropStep == ASSUME IInv, DropInv, [Next]_vars PROVE DropInv'
  <1> USE RustAssumption DEF IInv, vars, queueVars, TypeOK, PCInv, Goto, NotifyAll, Waiting,
           Threads, Fates
  <1>1. ASSUME NEW t \in Tasks, SubmitRoom(t) PROVE DropInv'
    BY <1>1, DropUnchanged DEF SubmitRoom, NewInv
  <1>2. ASSUME NEW t \in Tasks, SubmitFull(t) PROVE DropInv'
    <2> DEFINE h == Head(tasks)
    <2>1. PICK elapsed \in BOOLEAN : RecordDrop(t, elapsed)
      BY <1>2 DEF SubmitFull
    <2>2. tasks # <<>> /\ h \in Tasks /\ fate[h] = "queued" /\ fate[t] = "new" /\ pc[t] = "call"
      <3>1. tasks # <<>> /\ pc[t] = "call"
        BY <1>2 DEF SubmitFull
      <3>2. h = tasks[1] /\ 1 \in 1 .. Len(tasks) /\ h \in Tasks
        BY <3>1, TailFacts
      <3>3. QED
        BY <3>1, <3>2 DEF QueueInv, NewInv
    <2>3. fate' = [fate EXCEPT ![t] = "queued", ![h] = "dropped"]
      BY <1>2 DEF SubmitFull
    <2>4. pc' = [pc EXCEPT ![t] = "notify_one"]
      BY <1>2 DEF SubmitFull
    <2> HIDE DEF h
    <2>5. Dropped' = Dropped \cup {h} /\ h \notin Dropped
      BY <2>2, <2>3 DEF Dropped
    <2>6. /\ IsFiniteSet(Dropped') /\ Cardinality(Dropped') = Cardinality(Dropped) + 1
          /\ Cardinality(Dropped) \in Nat
      BY <2>5, FS_AddElement, FS_CardinalityType DEF DropInv
    <2> DEFINE n == IF elapsed THEN dropped + 1 ELSE 0
    <2>7. n \in Nat /\ summary[t] = 0 /\ summary' = [summary EXCEPT ![t] = n]
      BY <2>1, <2>2 DEF RecordDrop, DropInv
    <2>8. dropped' = (IF elapsed THEN 0 ELSE dropped + 1) /\ logged' = logged
      BY <2>1 DEF RecordDrop
    <2>9. /\ IsFiniteSet(ToBeLogged') /\ Cardinality(ToBeLogged) \in Nat
          /\ Cardinality(ToBeLogged') = Cardinality(ToBeLogged) - summary[t] + n
      <3> HIDE DEF n
      <3>1. QED
        BY <2>7, SummaryChanges DEF DropInv
    <2>10. dropped + logged + Cardinality(ToBeLogged) = Cardinality(Dropped)
      BY DEF DropInv, DropsAccounted, Dropped
    <2>11. dropped' + logged' + Cardinality(ToBeLogged') = Cardinality(Dropped')
      BY <2>6, <2>7, <2>8, <2>9, <2>10
    <2>12. \A u \in Tasks : pc'[u] # "notify_one" => summary'[u] = 0
      BY <2>4, <2>7 DEF DropInv
    <2>13. QED
      BY <2>6, <2>9, <2>11, <2>12 DEF DropInv, DropsAccounted, Dropped
  <1>3. ASSUME NEW t \in Tasks, SubmitRefused(t) PROVE DropInv'
    BY <1>3, DropUnchanged DEF SubmitRefused, NewInv
  <1>4. ASSUME NEW t \in Tasks, NotifyOne(t) PROVE DropInv'
    <2>1. /\ summary' = [summary EXCEPT ![t] = 0] /\ logged' = logged + summary[t]
          /\ dropped' = dropped /\ fate' = fate
      BY <1>4 DEF NotifyOne
    <2>2. Dropped' = Dropped
      BY <2>1 DEF Dropped
    <2>3. /\ IsFiniteSet(ToBeLogged') /\ Cardinality(ToBeLogged) \in Nat
          /\ Cardinality(ToBeLogged') = Cardinality(ToBeLogged) - summary[t] + 0
      BY <2>1, SummaryChanges DEF DropInv
    <2>4. dropped + logged + Cardinality(ToBeLogged) = Cardinality(Dropped)
      BY DEF DropInv, DropsAccounted, Dropped
    <2>5. dropped' + logged' + Cardinality(ToBeLogged') = Cardinality(Dropped')
      BY <2>1, <2>2, <2>3, <2>4
    <2>6. \A u \in Tasks : pc'[u] # "notify_one" => u = t \/ pc[u] # "notify_one"
      BY <1>4 DEF NotifyOne
    <2>7. \A u \in Tasks : pc'[u] # "notify_one" => summary'[u] = 0
      BY <2>1, <2>6 DEF DropInv
    <2>8. QED
      BY <2>2, <2>3, <2>5, <2>7 DEF DropInv, DropsAccounted, Dropped
  <1>5. ASSUME NEW w \in Workers, Take(w) PROVE DropInv'
    <2>1. Head(tasks) = tasks[1] /\ 1 \in 1 .. Len(tasks) /\ Head(tasks) \in Tasks
      BY <1>5, TailFacts DEF Take
    <2>2. fate[Head(tasks)] = "queued" /\ fate' = [fate EXCEPT ![Head(tasks)] = "running"]
      BY <1>5, <2>1 DEF Take, QueueInv
    <2>3. QED
      BY <1>5, <2>1, <2>2, DropUnchanged DEF Take
  <1>6. ASSUME NEW w \in Workers, Exit(w) PROVE DropInv'
    BY <1>6, DropUnchanged DEF Exit
  <1>7. ASSUME NEW w \in Workers, Wait(w) PROVE DropInv'
    BY <1>7, DropUnchanged DEF Wait
  <1>8. ASSUME NEW w \in Workers, RunTask(w) PROVE DropInv'
    BY <1>8, DropUnchanged DEF RunTask, RunningInv
  <1>9. ASSUME NEW w \in Workers, PanicTask(w) PROVE DropInv'
    BY <1>9, DropUnchanged DEF PanicTask, RunningInv
  <1>10. ASSUME NEW w \in Workers, Release(w) PROVE DropInv'
    BY <1>10, DropUnchanged DEF Release
  <1>11. ASSUME NEW w \in Workers, WorkerNotifyAll(w) PROVE DropInv'
    BY <1>11, DropUnchanged DEF WorkerNotifyAll
  <1>12. ASSUME NEW c \in Closers, CloseBegin(c) PROVE DropInv'
    BY <1>12, DropUnchanged DEF CloseBegin
  <1>13. ASSUME NEW c \in Closers, CloseAgain(c) PROVE DropInv'
    BY <1>13, DropUnchanged DEF CloseAgain
  <1>14. ASSUME NEW c \in Closers, DrainWait(c) PROVE DropInv'
    BY <1>14, DropUnchanged DEF DrainWait
  <1>15. ASSUME NEW c \in Closers, DrainEnd(c) PROVE DropInv'
    BY <1>15, DropUnchanged DEF DrainEnd
  <1>16. ASSUME NEW c \in Closers, CloserNotifyAll(c) PROVE DropInv'
    BY <1>16, DropUnchanged DEF CloserNotifyAll
  <1>17. ASSUME NEW c \in Closers, WaitTimesOut(c) PROVE DropInv'
    BY <1>17, DropUnchanged DEF WaitTimesOut
  <1>18. ASSUME DeadlinePasses PROVE DropInv'
    BY <1>18, DropUnchanged DEF DeadlinePasses
  <1>19. ASSUME NEW x \in Workers \cup Closers, SpuriousWakeup(x) PROVE DropInv'
    BY <1>19, DropUnchanged DEF SpuriousWakeup
  <1>20. CASE UNCHANGED vars
    BY <1>20, DropUnchanged DEF logVars
  <1>21. QED
    BY <1>1, <1>2, <1>3, <1>4, <1>5, <1>6, <1>7, <1>8, <1>9, <1>10, <1>11,
       <1>12, <1>13, <1>14, <1>15, <1>16, <1>17, <1>18, <1>19, <1>20 DEF
       Next, Caller, Worker, Closer

\* Every displaced task is still counted by the drop logger, in a summary that some
\* submit is about to log, or in the log: none is forgotten and none told twice.
THEOREM DropsAreAccounted == Spec => []DropsAccounted
  <1>1. Init => DropInv
    BY DropInvInit
  <1>2. IInv /\ DropInv /\ [Next]_vars => DropInv'
    BY DropStep
  <1>3. DropInv => DropsAccounted
    BY DEF DropInv
  <1>4. QED
    BY <1>1, <1>2, <1>3, Invariance, PTL DEF Spec

-----------------------------------------------------------------------------
(* Refinement *)

\* A worker about to take a task is idle, so fewer tasks run than there are workers.
LEMMA SpareWorker ==
  ASSUME IInv, NEW w \in Workers, pc[w] = "ready"
  PROVE  Cardinality({t \in Tasks : fate[t] = "running"}) < Cardinality(Workers)
  <1> DEFINE R == {v \in Workers : pc[v] = "running"}
             Run == {t \in Tasks : fate[t] = "running"}
             f == [v \in R |-> current[v]]
  <1>1. f \in Surjection(R, Run)
    BY DEF IInv, RunningInv, Surjection
  <1>2. R \subseteq Workers \ {w} /\ IsFiniteSet(Workers)
    BY RustAssumption
  <1>3. /\ IsFiniteSet(Workers \ {w})
        /\ Cardinality(Workers \ {w}) = Cardinality(Workers) - 1
    BY <1>2, FS_RemoveElement
  <1> HIDE DEF R, Run, f
  <1>4. IsFiniteSet(R) /\ Cardinality(R) <= Cardinality(Workers \ {w})
    BY <1>2, <1>3, FS_Subset
  <1>5. IsFiniteSet(Run) /\ Cardinality(Run) <= Cardinality(R)
    BY <1>1, <1>4, FS_Surjection
  <1>6. Cardinality(R) \in Nat /\ Cardinality(Workers) \in Nat /\ Cardinality(Run) \in Nat
    BY <1>2, <1>4, <1>5, FS_CardinalityType
  <1>7. Cardinality(Run) < Cardinality(Workers)
    BY <1>3, <1>4, <1>5, <1>6
  <1>8. QED
    BY <1>7 DEF Run

\* The contract's Cardinality is the standard one.
LEMMA SameCardinality == \A S : Contract!Cardinality(S) = Cardinality(S)
  BY DEF Contract!Cardinality, Cardinality

\* Every step of the dispatcher is a step of the contract or changes nothing in it.
LEMMA RefinementStep ==
  ASSUME IInv, [Next]_vars PROVE [Contract!Next]_(Contract!vars)
  <1> USE RustAssumption DEF IInv, vars, queueVars, logVars, TypeOK, PCInv,
           PhaseInv, QueueInv, NewInv, RunningInv, Fates, Contract!vars
  <1>1. ASSUME NEW t \in Tasks, SubmitRoom(t) PROVE [Contract!Next]_(Contract!vars)
    <2>1. Contract!Enqueue(t)
      BY <1>1 DEF SubmitRoom, Contract!Enqueue
    <2>2. QED
      BY <2>1 DEF Contract!Next
  <1>2. ASSUME NEW t \in Tasks, SubmitFull(t) PROVE [Contract!Next]_(Contract!vars)
    <2>1. Len(tasks) = Capacity /\ tasks # <<>> /\ fate[Head(tasks)] = "queued"
      BY <1>2 DEF SubmitFull
    <2>2. Contract!EnqueueDropOldest(t)
      BY <1>2, <2>1 DEF SubmitFull, Contract!EnqueueDropOldest
    <2>3. QED
      BY <2>2 DEF Contract!Next
  <1>3. ASSUME NEW t \in Tasks, SubmitRefused(t) PROVE [Contract!Next]_(Contract!vars)
    <2>1. Contract!Refuse(t)
      BY <1>3 DEF SubmitRefused, Contract!Refuse
    <2>2. QED
      BY <2>1 DEF Contract!Next
  <1>4. ASSUME NEW t \in Tasks, NotifyOne(t) PROVE [Contract!Next]_(Contract!vars)
    BY <1>4 DEF NotifyOne
  <1>5. ASSUME NEW w \in Workers, Take(w) PROVE [Contract!Next]_(Contract!vars)
    <2>1. fate[Head(tasks)] = "queued" /\ draining
      BY <1>5 DEF Take
    <2>2. Contract!Cardinality(Contract!Running) < Cardinality(Workers)
      BY <1>5, SpareWorker, SameCardinality DEF Take, Contract!Running
    <2>3. UNCHANGED <<accepting, draining>>
      BY <1>5 DEF Take
    <2>4. /\ tasks # <<>> /\ tasks' = Tail(tasks)
          /\ fate' = [fate EXCEPT ![Head(tasks)] = "running"]
      BY <1>5 DEF Take
    <2>5. Contract!Start
      BY <2>1, <2>2, <2>3, <2>4 DEF Contract!Start
    <2>6. QED
      BY <2>5 DEF Contract!Next
  <1>6. ASSUME NEW w \in Workers, Exit(w) PROVE [Contract!Next]_(Contract!vars)
    BY <1>6 DEF Exit
  <1>7. ASSUME NEW w \in Workers, Wait(w) PROVE [Contract!Next]_(Contract!vars)
    BY <1>7 DEF Wait
  <1>8. ASSUME NEW w \in Workers, RunTask(w) PROVE [Contract!Next]_(Contract!vars)
    <2>1. current[w] \in Tasks /\ Contract!Finish(current[w])
      BY <1>8 DEF RunTask, Contract!Finish
    <2>2. QED
      BY <2>1 DEF Contract!Next
  <1>9. ASSUME NEW w \in Workers, PanicTask(w) PROVE [Contract!Next]_(Contract!vars)
    <2>1. current[w] \in Tasks /\ Contract!Finish(current[w])
      BY <1>9 DEF PanicTask, Contract!Finish
    <2>2. QED
      BY <2>1 DEF Contract!Next
  <1>10. ASSUME NEW w \in Workers, Release(w) PROVE [Contract!Next]_(Contract!vars)
    BY <1>10 DEF Release
  <1>11. ASSUME NEW w \in Workers, WorkerNotifyAll(w) PROVE [Contract!Next]_(Contract!vars)
    BY <1>11 DEF WorkerNotifyAll
  <1>12. ASSUME NEW c \in Closers, CloseBegin(c) PROVE [Contract!Next]_(Contract!vars)
    <2>1. Contract!BeginClose
      BY <1>12 DEF CloseBegin, Contract!BeginClose
    <2>2. QED
      BY <2>1 DEF Contract!Next
  <1>13. ASSUME NEW c \in Closers, CloseAgain(c) PROVE [Contract!Next]_(Contract!vars)
    BY <1>13 DEF CloseAgain
  <1>14. ASSUME NEW c \in Closers, DrainWait(c) PROVE [Contract!Next]_(Contract!vars)
    BY <1>14 DEF DrainWait
  <1>15. ASSUME NEW c \in Closers, DrainEnd(c) PROVE [Contract!Next]_(Contract!vars)
    <2>1. Contract!GiveUp
      BY <1>15 DEF DrainEnd, Contract!GiveUp
    <2>2. QED
      BY <2>1 DEF Contract!Next
  <1>16. ASSUME NEW c \in Closers, CloserNotifyAll(c) PROVE [Contract!Next]_(Contract!vars)
    BY <1>16 DEF CloserNotifyAll
  <1>17. ASSUME NEW c \in Closers, WaitTimesOut(c) PROVE [Contract!Next]_(Contract!vars)
    BY <1>17 DEF WaitTimesOut
  <1>18. ASSUME DeadlinePasses PROVE [Contract!Next]_(Contract!vars)
    BY <1>18 DEF DeadlinePasses
  <1>19. ASSUME NEW x \in Workers \cup Closers, SpuriousWakeup(x) PROVE [Contract!Next]_(Contract!vars)
    BY <1>19 DEF SpuriousWakeup
  <1>20. CASE UNCHANGED vars
    BY <1>20
  <1>21. QED
    BY <1>1, <1>2, <1>3, <1>4, <1>5, <1>6, <1>7, <1>8, <1>9, <1>10, <1>11,
       <1>12, <1>13, <1>14, <1>15, <1>16, <1>17, <1>18, <1>19, <1>20 DEF
       Next, Caller, Worker, Closer

\* The dispatcher implements the contract: bounded, FIFO, oldest dropped, each task
\* run at most once, and nothing started after close has given up.
THEOREM Refinement == Spec => ImplementsContract
  <1>1. Init => Contract!Init
    BY DEF Init, Contract!Init
  <1>2. IInv /\ [Next]_vars => [Contract!Next]_(Contract!vars)
    BY RefinementStep
  <1>3. QED
    BY <1>1, <1>2, Invariance, PTL DEF Spec, ImplementsContract, Contract!Spec
=============================================================================
