--------------------------- MODULE ClientTeardown ---------------------------
(***************************************************************************)
(* Shutting down the Ruby, the .NET and the Node client beside the posts   *)
(* that are under way. The three share one design: a queue that displaces  *)
(* its oldest task, two workers, a drain with a deadline, a transport that *)
(* is released behind it. They differ in what a close cuts short:          *)
(*  - Ruby signals the backoffs at once and lets the attempts finish;      *)
(*  - .NET cancels the attempts and the backoffs of its workers when the   *)
(*    deadline has passed, and tests its disposed flag without a lock;     *)
(*  - Node cuts nothing short: a running task keeps its retries.           *)
(*                                                                         *)
(* Ruby broadcasts inside its mutex, so no wakeup is lost and the          *)
(* condition variable is left out. Node has one thread: what runs in one   *)
(* turn of its event loop is kept together by Turn. Its workers are the    *)
(* maxConcurrency deliveries it allows at a time.                          *)
(***************************************************************************)
EXTENDS Naturals, Sequences, FiniteSets

CONSTANTS SDKs, Tasks, Posts, Workers, Closers, Capacity, MaxRetries,
          NoTask, Exited, Died

ASSUME TeardownAssumption ==
  /\ SDKs \subseteq {"ruby", "dotnet", "node"}
  /\ IsFiniteSet(Tasks) /\ IsFiniteSet(Workers) /\ IsFiniteSet(Closers)
  /\ Tasks \cap Posts = {}
  /\ Capacity \in Nat \ {0} /\ MaxRetries \in Nat
  /\ NoTask # Exited /\ NoTask # Died /\ Exited # Died
  /\ {NoTask, Exited, Died} \cap Tasks = {}

VARIABLES
  sdk,
  closed,     \* the flag of the client
  accepting,  \* the dispatcher takes tasks
  queue,
  hand,       \* the task of each worker, or why there is none
  phase,      \* how far each post is
  tries,      \* attempts its retry loop has begun, 0 outside of it
  pc,         \* how far each close is
  told,       \* the number in the line about force-dropped incidents
  cancelled,  \* .NET: _abandon is cancelled
  released    \* the transport is released (.NET: and _abandon disposed)

vars == <<sdk, closed, accepting, queue, hand, phase, tries, pc, told, cancelled, released>>

All == Tasks \cup Posts

Init ==
  /\ sdk \in SDKs
  /\ closed = FALSE
  /\ accepting = TRUE
  /\ queue = <<>>
  /\ hand = [w \in Workers |-> NoTask]
  /\ phase = [x \in All |-> "idle"]
  /\ tries = [x \in All |-> 0]
  /\ pc = [c \in Closers |-> "idle"]
  /\ told = 0
  /\ cancelled = FALSE
  /\ released = FALSE

\* Node: what has to happen before the event loop turns to anything else.
Turn ==
  sdk = "node" =>
    /\ \A x \in All : phase[x] \notin {"admitted", "taken"}
    /\ \A c \in Closers : pc[c] # "dispatcher"
    /\ queue = <<>> \/ \A w \in Workers : hand[w] # NoTask

\* The retry loop of x is left.
EndsAs(x, how) ==
  /\ phase' = [phase EXCEPT ![x] = how]
  /\ tries' = [tries EXCEPT ![x] = 0]

-----------------------------------------------------------------------------
(* Posting *)

\* ensure_open!, Prepare, the test of this.closed. The request is valid.
Call(x) ==
  /\ phase[x] = "idle" /\ Turn
  /\ phase' = [phase EXCEPT ![x] = IF closed THEN "refused" ELSE "admitted"]
  /\ UNCHANGED <<sdk, closed, accepting, queue, hand, tries, pc, told, cancelled, released>>

Full == Len(queue) >= Capacity

\* Faulty: nothing is queued in place of the task that is displaced.
Pushed_OnlyDrops(t) == IF Full THEN Tail(queue) ELSE Append(queue, t)

\* Drop the oldest: the newest incident is the one most likely to matter.
Pushed(t) == Append(IF Full THEN Tail(queue) ELSE queue, t)

\* submit of the dispatcher, under its lock. Node runs the task at once when a
\* delivery is free; its queue is empty then and WorkerTakes comes next.
Submit(t) ==
  /\ phase[t] = "admitted"
  /\ IF ~accepting
     THEN phase' = [phase EXCEPT ![t] = "refused"] /\ UNCHANGED queue
     ELSE /\ queue' = Pushed(t)
          /\ phase' = [x \in All |-> IF x = t THEN "queued"
                         ELSE IF Full /\ x = Head(queue) THEN "displaced" ELSE phase[x]]
  /\ UNCHANGED <<sdk, closed, accepting, hand, tries, pc, told, cancelled, released>>

-----------------------------------------------------------------------------
(* Workers *)

WorkerTakes(w) ==
  /\ hand[w] = NoTask /\ queue # <<>>
  /\ hand' = [hand EXCEPT ![w] = Head(queue)]
  /\ phase' = [phase EXCEPT ![Head(queue)] = "taken"]
  /\ queue' = Tail(queue)
  /\ UNCHANGED <<sdk, closed, accepting, tries, pc, told, cancelled, released>>

\* Ruby: draining has been cleared, with the queue. .NET: the channel is complete
\* and empty, or waiting for it is cancelled.
WorkerExits(w) ==
  /\ hand[w] = NoTask
  /\ \/ sdk = "ruby" /\ queue = <<>> /\ \E c \in Closers : pc[c] \in {"drained", "returned"}
     \/ sdk = "dotnet" /\ ((queue = <<>> /\ ~accepting) \/ cancelled)
  /\ hand' = [hand EXCEPT ![w] = Exited]
  /\ UNCHANGED <<sdk, closed, accepting, queue, phase, tries, pc, told, cancelled, released>>

\* The task is over. What it throws beyond a delivery failure, like an error of the
\* host's logger while it reports one, ends a Ruby or .NET worker; Node swallows it.
\* Until then a callback of Node may have called the client again.
WorkerEndsTask(w, throws) ==
  /\ hand[w] \in Tasks /\ Turn
  /\ phase[hand[w]] = "over"
  /\ throws => sdk # "node"
  /\ hand' = [hand EXCEPT ![w] = IF throws THEN Died ELSE NoTask]
  /\ UNCHANGED <<sdk, closed, accepting, queue, phase, tries, pc, told, cancelled, released>>

\* .NET: neither the token source nor the transport can be used once disposed, and
\* nothing catches that: the worker dies with the task in its hand.
WorkerLosesTask(w) ==
  /\ sdk = "dotnet" /\ released
  /\ hand[w] \in Tasks
  /\ phase[hand[w]] = "taken" \/ (phase[hand[w]] = "backoff" /\ ~cancelled)
  /\ EndsAs(hand[w], "lost")
  /\ hand' = [hand EXCEPT ![w] = Died]
  /\ UNCHANGED <<sdk, closed, accepting, queue, pc, told, cancelled, released>>

-----------------------------------------------------------------------------
(* Deliveries *)

Aborted(x) == sdk = "dotnet" /\ x \in Tasks /\ cancelled

\* Faulty: closing does not reach a backoff.
Interrupted_Never(x) == FALSE

\* Ruby: a close has signalled, and interrupt.wait returns true at its next test.
Interrupted(x) ==
  sdk = "ruby" /\ \E c \in Closers : pc[c] \in {"dispatcher", "draining", "drained", "returned"}

\* Ruby: interrupt.wait returns false and lets go of its mutex. The retry is made
\* whatever happens from here on.
DelayEnds(x) ==
  /\ sdk = "ruby" /\ phase[x] = "backoff"
  /\ ~Interrupted(x)
  /\ phase' = [phase EXCEPT ![x] = "due"]
  /\ UNCHANGED <<sdk, closed, accepting, queue, hand, tries, pc, told, cancelled, released>>

\* The first attempt of a task or a post, or the next one after the delay.
AttemptBegins(x) ==
  /\ \/ phase[x] \in {"taken", "due"}
     \/ x \in Posts /\ phase[x] = "admitted"
     \/ sdk # "ruby" /\ phase[x] = "backoff" /\ Turn
  /\ ~Aborted(x) /\ ~(sdk = "dotnet" /\ released)
  /\ phase' = [phase EXCEPT ![x] = "sending"]
  /\ tries' = [tries EXCEPT ![x] = @ + 1]
  /\ UNCHANGED <<sdk, closed, accepting, queue, hand, pc, told, cancelled, released>>

\* With a response, with a failure for good or the last one, or with one to retry.
AttemptEnds(x, retries) ==
  /\ phase[x] = "sending" /\ Turn
  /\ retries => tries[x] <= MaxRetries
  /\ IF retries THEN phase' = [phase EXCEPT ![x] = "backoff"] /\ UNCHANGED tries
     ELSE EndsAs(x, "over")
  /\ UNCHANGED <<sdk, closed, accepting, queue, hand, pc, told, cancelled, released>>

\* A delivery is cut short: Ruby in a backoff, .NET by its token anywhere, a .NET
\* post by the disposed transport when it would begin an attempt.
CutShort(x) ==
  /\ \/ Interrupted(x) /\ phase[x] = "backoff"
     \/ Aborted(x) /\ ~released /\ phase[x] \in {"taken", "sending", "backoff"}
     \/ Aborted(x) /\ released /\ phase[x] \in {"sending", "backoff"}
     \/ sdk = "dotnet" /\ released /\ x \in Posts /\ phase[x] \in {"admitted", "backoff"}
  /\ EndsAs(x, "over")
  /\ UNCHANGED <<sdk, closed, accepting, queue, hand, pc, told, cancelled, released>>

-----------------------------------------------------------------------------
(* close, DisposeAsync *)

\* .NET looks at its flag first and sets it in a step of its own.
DisposeTests(c) ==
  /\ sdk = "dotnet" /\ pc[c] = "idle"
  /\ pc' = [pc EXCEPT ![c] = IF closed THEN "ignored" ELSE "tested"]
  /\ UNCHANGED <<sdk, closed, accepting, queue, hand, phase, tries, told, cancelled, released>>

\* Faulty: a close that is not the first goes on.
ClosedBefore_Ignored == FALSE

\* Tested and set under one lock, or in one turn, but for .NET.
ClosedBefore == closed /\ sdk # "dotnet"

CloseSets(c) ==
  /\ pc[c] = (IF sdk = "dotnet" THEN "tested" ELSE "idle") /\ Turn
  /\ pc' = [pc EXCEPT ![c] = IF ClosedBefore THEN "ignored"
                             ELSE IF sdk = "ruby" THEN "signalling" ELSE "dispatcher"]
  /\ closed' = TRUE
  /\ UNCHANGED <<sdk, accepting, queue, hand, phase, tries, told, cancelled, released>>

\* Ruby: @interrupt.signal, outside of the lock.
CloseSignals(c) ==
  /\ pc[c] = "signalling"
  /\ pc' = [pc EXCEPT ![c] = "dispatcher"]
  /\ UNCHANGED <<sdk, closed, accepting, queue, hand, phase, tries, told, cancelled, released>>

\* The dispatcher stops accepting; it is closed only once.
DispatcherCloses(c) ==
  /\ pc[c] = "dispatcher"
  /\ pc' = [pc EXCEPT ![c] = IF accepting THEN "draining" ELSE "drained"]
  /\ accepting' = FALSE
  /\ UNCHANGED <<sdk, closed, queue, hand, phase, tries, told, cancelled, released>>

Idle == IF sdk = "dotnet" THEN \A w \in Workers : hand[w] \in {Exited, Died}
        ELSE queue = <<>> /\ \A w \in Workers : hand[w] \notin Tasks

\* Faulty: the deadline does not end the wait.
DrainOver_Unbounded(timeIsUp) == Idle

DrainOver(timeIsUp) == timeIsUp \/ Idle

\* Faulty: what is left is forgotten without a count.
Counted_Nothing(timeIsUp) == 0

Counted(timeIsUp) == IF sdk = "dotnet" /\ ~timeIsUp THEN 0 ELSE Len(queue)

\* All is done, or the deadline has passed. Ruby and Node count and clear the queue;
\* .NET returns when its workers have ended, however they ended, and else counts.
DrainEnds(c, timeIsUp) ==
  /\ pc[c] = "draining" /\ Turn
  /\ DrainOver(timeIsUp)
  /\ told' = Counted(timeIsUp)
  /\ IF sdk = "dotnet"
     THEN /\ pc' = [pc EXCEPT ![c] = IF timeIsUp THEN "counted" ELSE "drained"]
          /\ UNCHANGED <<queue, phase>>
     ELSE /\ pc' = [pc EXCEPT ![c] = "drained"]
          /\ queue' = <<>>
          /\ phase' = [x \in All |-> IF phase[x] = "queued" THEN "abandoned" ELSE phase[x]]
  /\ UNCHANGED <<sdk, closed, accepting, hand, tries, cancelled, released>>

\* _abandon.CancelAsync, which throws when somebody has disposed of it: the count
\* is not logged then.
Cancels(c) ==
  /\ pc[c] = "counted"
  /\ pc' = [pc EXCEPT ![c] = IF released THEN "threw" ELSE "drained"]
  /\ cancelled' = ~released
  /\ told' = IF released THEN 0 ELSE told
  /\ UNCHANGED <<sdk, closed, accepting, queue, hand, phase, tries, released>>

\* http_executor.close; _abandon.Dispose and _transport.Dispose; closeTransport.
Releases(c) ==
  /\ pc[c] = "drained" /\ Turn
  /\ pc' = [pc EXCEPT ![c] = "returned"]
  /\ released' = TRUE
  /\ UNCHANGED <<sdk, closed, accepting, queue, hand, phase, tries, told, cancelled>>

-----------------------------------------------------------------------------
Worker(w) ==
  \/ WorkerTakes(w) \/ WorkerExits(w) \/ WorkerLosesTask(w)
  \/ \E throws \in BOOLEAN : WorkerEndsTask(w, throws)

Delivery(x) ==
  \/ DelayEnds(x) \/ AttemptBegins(x) \/ CutShort(x)
  \/ \E retries \in BOOLEAN : AttemptEnds(x, retries)

\* Once begun.
Closing(c) ==
  \/ pc[c] = "tested" /\ CloseSets(c)
  \/ CloseSignals(c) \/ DispatcherCloses(c) \/ Cancels(c) \/ Releases(c)
  \/ \E timeIsUp \in BOOLEAN : DrainEnds(c, timeIsUp)

Next ==
  \/ \E x \in All : Call(x) \/ Delivery(x)
  \/ \E t \in Tasks : Submit(t)
  \/ \E w \in Workers : Worker(w)
  \/ \E c \in Closers : DisposeTests(c) \/ (pc[c] = "idle" /\ CloseSets(c)) \/ Closing(c)

Spec == Init /\ [][Next]_vars

\* Threads and callbacks are scheduled, attempts time out, delays and deadlines pass.
\* Nobody has to post or to close.
FairSpec ==
  /\ Spec
  /\ \A t \in Tasks : WF_vars(Submit(t))
  /\ \A x \in All : WF_vars(Delivery(x))
  /\ \A w \in Workers : WF_vars(Worker(w))
  /\ \A c \in Closers : WF_vars(Closing(c))

-----------------------------------------------------------------------------
(* Properties *)

\* Two .NET disposals have both found the flag clear.
Overlapped ==
  sdk = "dotnet" /\ Cardinality({c \in Closers : pc[c] \notin {"idle", "tested", "ignored"}}) > 1

AllDied == \A w \in Workers : hand[w] = Died

\* The transport is released behind the drain, never beside it (incident_client.rb:124,
\* IncidentClient.ts:235, IncidentClient.cs:152-153), whoever else closes. The one
\* way around it are two .NET disposals that overlap.
ReleaseFollowsDrain ==
  released => Overlapped \/ \A c \in Closers : pc[c] \in {"idle", "tested", "ignored", "returned"}

\* Incidents do not vanish in silence: when a close is over, those that are still queued,
\* were abandoned by it or lost by a worker are covered by the number it logged, but for
\* the one in the hand of each worker that died. (Those displaced earlier are told by the
\* drop logger, those that failed by the delivery.) .NET takes workers that died for
\* workers that are done, and an overlapping disposal keeps the first from logging.
LossesTold ==
  released =>
    \/ Cardinality({t \in Tasks : phase[t] \in {"queued", "abandoned", "lost"}}) <=
         told + Cardinality({w \in Workers : hand[w] = Died})
    \/ Overlapped
    \/ sdk = "dotnet" /\ AllDied

\* About to send, with no test left in between.
Due(x) == phase[x] \in {"admitted", "taken", "due"}

\* What still goes out behind the release: from Ruby one attempt at most of a delivery
\* that was due when close signalled, its first or a retry whose delay was over, for
\* nothing becomes due any more; from Node the retries of deliveries that had begun, and
\* no first attempt; from .NET nothing.
QuietAfterClose ==
  [][released => \A x \in All :
       /\ sdk = "ruby" => (tries'[x] > tries[x] => Due(x)) /\ (Due(x)' => Due(x))
       /\ sdk = "node" => (tries'[x] > tries[x] => tries[x] > 0)
       /\ sdk = "dotnet" => ~(tries'[x] > tries[x])]_vars

\* A task that was let in comes to an end: it is delivered or fails (Node: which calls
\* onSuccess or onError), is refused, displaced or abandoned, lost with its worker, or
\* left to a disposed dispatcher, unless the workers have all died. Nothing calls back
\* for a task that is displaced, abandoned or lost.
AdmittedEnds ==
  \A t \in Tasks : phase[t] = "admitted" ~>
    \/ phase[t] \in {"over", "refused", "displaced", "abandoned", "lost"}
    \/ phase[t] = "queued" /\ (released \/ AllDied)

\* Every close comes back, whatever the workers do or however many have died; with an
\* exception only out of two disposals that overlap.
ClosesEnd ==
  \A c \in Closers : pc[c] \in {"signalling", "dispatcher"} ~>
    pc[c] = "returned" \/ (pc[c] = "threw" /\ Overlapped)
=============================================================================
