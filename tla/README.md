# TLA+ verification of the Oppex integration SDKs

The repository holds eight client libraries (Rust, Go, Java, Python, Node.js,
.NET, Ruby, C and C++) that post incidents to one HTTP endpoint. They are eight
independent programs with one intended behaviour: the root README says that they
post "with the same payload, severity scale, retry policy and lifecycle
guarantees". This directory models them in TLA+, checks the models with TLC and
proves theorems about them with TLAPS.

Contents: [the system](#the-system) · [plan](#plan) · [modules](#modules-and-the-code) ·
[runs](#runs) · [fairness](#fairness) · [proofs](#proofs) ·
[findings](#findings) · [what is left out](#not-modelled)

## The system

### Components

Every SDK has the same parts under different names.

| Part | State | Operations |
| --- | --- | --- |
| **Request model** (`IncidentRequest`, builder, `Severity`) | none: immutable | validate, fill in `priority` and `srcTimestamp` |
| **Client** (`IncidentClient`, `Client`) | closed flag, default service key; Go and Java a read-write lock, Python a `Lifecycle` guard | post, post with service routing, the asynchronous variant of each, close |
| **Dispatcher** (`AsyncDispatcher`, `dispatcher`) | bounded queue, two workers, a count of the tasks in flight, accepting/draining flags | submit, the worker loop, close with a drain of ten seconds |
| **Drop logger** (`RateLimitedDropLogger`) | drops since the last summary, time of that summary | record a drop, perhaps summarise |
| **Retry loop** | attempt number | attempt, classify, back off, give up |
| **Interrupt** (signal, context, cancellation token) | a flag | signal, interruptible wait |
| **Transport** | connection pool (Python's is its own, the others' is a library's) | one attempt of at most eight seconds |
| **Wire codec** | none | request to JSON, response envelope to result |

How they interact: a post checks the request and the closed flag on the caller's
thread. The synchronous kind runs the delivery (codec, retry loop, transport)
there; the asynchronous kind hands a closure to the dispatcher, whose worker runs
the same delivery later. `close` sets the flag, interrupts backoffs (Rust, C++,
Ruby), closes the dispatcher, which refuses new tasks, waits for the queue and
the workers or for its deadline and abandons the rest, and then releases the
transport.

### What is hard

* Submitters, workers and a closing thread interleave on one queue. Each language
  brings its own primitives: one condition variable for everybody (Rust, C++,
  Ruby), a channel and a context (Go), a `ThreadPoolExecutor` (Java), a polled
  `queue.Queue` (Python), a `Channel` (.NET), an event loop (Node).
* A wake-up can be lost, stolen or sent too late. A flag that was tested can be
  stale when its result is used.
* `close` races with everything: with a submit that has passed the closed test,
  with a worker between two tasks, with a retry about to start, with its own
  deadline.
* A full queue evicts its oldest task while workers take from the same end.
* A delivery can fail halfway; a response can be lost after the server has acted
  on the request; a retry then repeats it.
* Eight validators and eight parsers have to agree on zero, blank, null,
  lengths, integer widths and malformed answers.

`PROJECT.json` lists these hazards at the lines where they bite, with the
properties that cover them.

### What makes a component correct

| Component | Correct when |
| --- | --- |
| Dispatcher | it is a bounded FIFO queue that drops only its oldest entry; each task runs at most once; nothing starts after close has given up; a close that beats its deadline lost nothing; every loss is counted and reported; nobody sleeps through the wake-up meant for it; close returns |
| Client | after close nothing new is sent; the transport outlives the deliveries that use it; a backoff does not hold up close; each post returns; a routed incident never inherits the client's key |
| Retry loop | it retries exactly what is worth it, exactly as often as promised |
| Request model and codecs | the same call has the same payload in every SDK, and the same answer the same verdict; nobody is told of a success that was not read |

## Plan

The order follows the risk: first the dispatchers, where the hard interleavings
are, then the clients on top of them, then the agreement between the SDKs.

| Step | Modules | Status |
| --- | --- | --- |
| 1. What a dispatcher promises | `DispatcherContract` | done |
| 2. Rust dispatcher, refinement, proofs | `RustDispatcher`, `RustDispatcherProofs` | done |
| 3. Rust client | `RustClient` | done |
| 4. Go dispatcher and client | `GoDispatcher`, `GoClient` | done |
| 5. Java dispatcher | `JavaDispatcher` | done |
| 6. Python dispatcher, client, connection pool | `PythonDispatcher`, `PythonClient` | done |
| 7. Request and response path of all eight SDKs | `IncidentRequests`, `IncidentResponses`, `IncidentPath` | done |
| 8. Programs on the Rust API: builders, severities, errors, test endpoint, close and drop; the smoke program and the example | `RustSession` | done |
| 9. Ruby, .NET and Node: dispatcher and client shutting down beside posts | `ClientTeardown` | done |
| 10. Proofs about the clients and dispatchers of Rust, Go, Java and Python, the teardown, the session and the incident path | `RustClientProofs`, `GoClientProofs`, `JavaDispatcherProofs`, `PythonClientProofs`, `ClientTeardownProofs`, `RustSessionProofs`, `IncidentPathProofs` | done |
| 11. Proofs about the requests of the incident path, the drops of the Rust dispatcher and the smoke program | `IncidentPathProofs`, `RustDispatcherProofs`, `RustSessionProofs` | done |
| 12. Java client: the fair read-write lock above `JavaDispatcher`; the destructor of the C++ client | | not planned: the design is that of `GoClient` and of `RustClient` |

The theorems came in the order of the modules, dispatchers first. Every safety
property of a passing run is now stated by a theorem.

## Modules and the code

`PROJECT.json` maps each definition to its source lines. The composition is

```
DispatcherContract <--refines-- RustDispatcher <--extends-- RustClient
                   <--refines-- GoDispatcher   <--extends-- GoClient
                                JavaDispatcher
                                PythonDispatcher <--extends-- PythonClient
IncidentRequests, IncidentResponses <--extends-- IncidentPath
                                    <--extends-- RustSession
ClientTeardown

RustDispatcherProofs, RustClient <--extends-- RustClientProofs
```

and each of the other modules `<Module>Proofs` extends `<Module>`, where
`RustDispatcherProofs` extends RustDispatcher and the modules of the Go and the Python
client cover their dispatchers as well.

Modules that begin with `MC` give the constants their values for TLC. A
definition with an underscore in its name (`Take_Uncounted`) is a faulty variant
of the one it is named after: substituted for it, it makes TLC find a violation
of the property it is meant for, which shows that the property is sensitive to
the code.

**DispatcherContract.** A queue, the fate of every task and a phase
(open, closing, closed), with one action for everything that may happen to a
task. `EvictsEarly` is the one liberty an implementation may take: Go evicts after
it has found the queue full, and by then a worker may have made room.

**RustDispatcher** (`rust/src/internal/dispatcher.rs`, `drop_logger.rs`). The state
is that of the `State` struct behind the mutex, a program counter per thread, and
the drop logger. What the code does between `lock()` and the release is one
action; a notification sent after the release is an action of its own.
`notify_one` wakes any one of the threads that wait, which are workers or the
closer. The clock is the action `DeadlinePasses`; waits may wake spuriously. A
task in `Panicking` may unwind its worker. `fate` and `logged` record what the
properties speak about; no action reads them.

**RustClient** (`client.rs`, `retry.rs`, `interrupt.rs`) extends it: the atomic
`closed` flag, the checks of the four post operations, the delivery as a loop of
attempts and interruptible backoffs, `close` as swap, signal, drain. The step
`task()` of the dispatcher becomes the delivery, which may end in a panic of the
host's logger (client.rs:139) and unwind its worker. What the checks decide about keys
is in IncidentRequests, and a request is just valid or not here.

**RustSession** (`.github/smoke/rust/src/main.rs`, `rust/examples/plain.rs`, the
builders of `request.rs` and `client.rs`, `severity.rs`, `error.rs`, `endpoint()` of
`transport.rs`, `with_attempt_count` of `retry.rs`, `Drop`). A program is a sequence
of statements on one thread, each with what the program requires of its result; a
result that does not meet it ends the program, which drops the client. The smoke
program and the example are written out statement by statement; a third, free
program makes up its statements as it goes. Beside it run the deliveries of the
clients, with the attempts and answers of IncidentResponses. The dispatcher is
reduced to the order of its queue, the number of its workers and a drain that may
time out, which RustDispatcher examines.

**GoDispatcher** (`dispatcher.go`, `droplog.go`). A submit holds the mutex over its
three `select` statements, but workers receive without it, so they step in
between. The `default` of the third select cannot be taken (the mutex keeps other
senders out) and has no action. **GoClient** (`client.go`, `retry.go`) adds the
`RWMutex` with its rule that a waiting writer keeps readers out, contexts, and the
order of `Close`.

**JavaDispatcher** (`internal/async`). The `ThreadPoolExecutor` is external and
modelled from its use: core threads on demand, a bounded queue, the rejection
handler on the caller's thread, `shutdown`, `awaitTermination`, `shutdownNow`. The
SDK's own handler, `TrackedTask` and drop logger are modelled atomic by atomic: the
compare-and-set on `startedOrDropped`, each counter, the increment of the interval
(with the compare-and-set that may end it) and the `getAndSet`.

**PythonDispatcher** (`_internal/dispatcher.py`) and **PythonClient** (`client.py`,
`lifecycle.py`, `retry.py`, `http_executor.py`). Workers poll; submitters hold
`_submit_lock`; the closer holds no lock. Each `get` and `put` of the queue is a
step, and each counter is. The claim of a task is part of the step that takes it from
the queue, after which nobody else has it. The client adds the lifecycle guard with its deadline, the retry loop and
the pool of keep-alive connections with the one replacement of a stale one; taking a
connection and sending on it are two steps.

**ClientTeardown** models the Ruby, the .NET and the Node client with their
dispatchers, which share a design and differ in what a close cuts short; the variable
`sdk` says which one runs. For Ruby a section under the mutex is a step; its broadcasts
are sent inside the mutex, so the condition variable is left out. The end of a backoff
and the attempt that follows are two steps, and so are the flag and the signal of
close. For .NET the test
of `_disposed`, its assignment, the dispatcher's lock section, the end of the wait,
the cancellation and the disposals are steps of their own, and so are the ways in
which a worker meets a token source or a transport that is disposed already. For
Node `Turn` keeps together what runs in one turn of the event loop. A worker may die
of an exception that is no delivery failure (Ruby, .NET).

**IncidentRequests** and **IncidentResponses** hold one operator per SDK and stage:
validation with defaults, the client's key, serialisation, the post operations;
then retryable statuses, the parser, one attempt, the retry decision, the final
report. Data is abstract: a text is empty, blank in ASCII, blank in Unicode only,
or neither; a source is its length in code points, UTF-16 units and bytes; a body
is one of nine kinds. **IncidentPath** sends one incident through one SDK and
states the contract beside it (`ContractAccepts`, `ContractPayload`,
`ContractRetryable`, `ContractVerdict`). Where an SDK departs from the contract,
`Deviates` (calls), `Readable` (how an answer is reported) and `RetriesDiffer`
(whether it is retried) say so; the properties hold for everything else, so these
definitions, and the clauses on Node in `SameVerdict` and `NoFalseSuccess`, are the
complete list of differences within the model:

* Java, Ruby and C++ take Unicode-only white space for text.
* 255 characters are UTF-16 units in Java, Node and .NET, bytes in C++.
* Zero numbers mean absent in Go and C++; Go does not look at optional texts and
  own keys, and trims the client's key.
* Python and Ruby do not check a timestamp that they take from the clock.
* Node checks neither severity nor keys; `null` and `''` are sent as they are and
  mean automatic routing. It retries three times, the others five. It parses the
  body of any status it does not retry, and reads a torn body as an empty one.
* Rust, .NET and C++ treat a body over their limit as no response and try again;
  Go and Ruby cut it off and report a malformed response; Java, Python and Node
  read it.
* A `code` that does not fit 32 bits is wrapped by C++, refused by Java, replaced
  by the status in Rust and .NET, kept by the others. A mistyped member fails the
  whole response in Go and is ignored elsewhere.
* A body `null` is an empty one to Go and Node and a malformed one to the others.

## Runs

A run marked *violation* states what the code's own words promise and TLC finds a
behaviour of the code that breaks it; see [findings](#findings).

| Run | Bounds | Distinct states | Shows |
| --- | --- | --- | --- |
| `rust_dispatcher` | 4 tasks, 2 workers, 2 closers, capacity 2, 1 task may panic | 260,031 | the queue contract, clean close, wake-ups of closer and workers, drop accounting |
| `rust_client` | 2 async and 1 sync post, 2 workers, 1 close, capacity 1, 1 retry, 1 task may panic | 404,532 | silence of the workers after close; that close returns and an admitted incident is resolved |
| `rust_wakeup`, `rust_panic` | as `rust_dispatcher` | | violation |
| `rust_session` | the smoke program, the example, every program of 5 statements; 2 workers, 5 retries | 115,258 | where requests go, what failures tell, nothing after close; the smoke program succeeds |
| `go_client` | 2 async and 1 sync post, 1 worker, 2 Closes, capacity 1, 1 retry | 149,304 | the queue contract with early eviction, losses reported, clean close, lock order of deliveries and teardown, silence after cancellation, termination |
| `java_dispatcher` | 4 tasks, 1 worker, 1 close, capacity 1 | 2,017,564 | metrics, what a graceful and a forced close leave |
| `java_stranded` | 3 tasks, 1 worker, 1 close, capacity 1 | | violation |
| `python_client` | 2 async and 1 sync post, 1 worker, 2 closes, capacity, pool and retries 1 | 3,561,720 | metrics, resolution of tasks, connections and requests around close |
| `python_lost` | as `python_client` | | violation |
| `client_teardown` | Ruby, .NET and Node; 2 async and 1 sync post, 1 worker, 2 closes, capacity 1, 1 retry | 93,555 | order of drain and release, losses told, what goes out after close, termination |
| `incident_path` | all requests that differ from a plain one in a field, with every key; 244 answers per attempt | 183,751 | the eight SDKs keep one contract outside the listed differences |

Why these bounds are enough to be interesting. A queue that overflows needs one
task more than its capacity, and an eviction that races with a worker or with a
second submitter one or two more: four tasks on a capacity of two (one) with two
(one) workers have them all. The second closer is there for the idempotence of
close. One retry separates "first attempt", "retry left" and "schedule
exhausted"; larger schedules only repeat the middle. In `incident_path` the SDKs
treat fields independently, so one unusual field at a time, combined with all keys
(where fields do interact), covers the validation; what is made of an answer does
not depend on the request, so the plain request alone meets all answers. `IntMax`
stands in for 2^31 - 1; 2000 is beyond it. Five statements are enough for the free
program to change the environment around the building of a client, to post in two
ways and to close or drop it; the shipped programs run to their ends, with the
whole schedule of five retries. With one worker `client_teardown` reaches the state
in which every worker has died and a task is still queued. Three larger instances
take too long to be kept as runs and pass as well: `client_teardown` with two
workers (326,010 states) and with three tasks (689,298), `go_client` with three
tasks, so that two submits compete for an evicted slot, and one Close (648,204).

Symmetry is used in the Rust dispatcher's safety runs only, where tasks, workers
and closers are interchangeable (a panicking task is kept out of the permutations);
no run with liveness uses it. Deadlock checking is off in all runs because all of
these systems stop legitimately: every caller has returned and nothing is left to
do. That nobody is stuck is what the liveness and rest-state properties check.

What the runs say in the words of the code:

* `NetworkFree` and `SmokeSucceeds`: the smoke program never contacts the Oppex
  service, although two of its three clients would post there, and always ends with
  success. It depends on the override, on the order of the checks and on Severity.
* `EndpointPinned`: a client goes on posting to the endpoint it was built with.
* `QuietAfterClose` (Ruby, .NET, Node), `AsyncQuietAfterClose` and `ClosedForGood`
  (Rust), `QuietOnceAbandoned` (Go), `AtMostTwoLateRequests` (Python): what may still
  be sent when a close is over. It differs: nothing in .NET; in Ruby and Rust one attempt
  of a delivery that was past its last test, a first one or a retry; in Python a request
  and the replacement of a stale connection; all retries of what had begun in Node.
* `MetricsExact` (Java, Python): the gauge and the counters are updated one after the
  other, and are off by the threads in the middle of an update and by nothing else.
* `TaskResolved` and `ClientCloseReturns` (Rust): a panic may cost a worker. Tasks are
  taken up while one is left, and close returns, by its deadline if it must.
* `RetriesAsPromised`: every answer that the contract retries is retried to the end of
  the schedule, and no other is, whatever the body. Node stops at a torn body of a status
  it does not retry; Rust, .NET and C++ repeat a post whose answer is too large.
* `LossesTold` and `AdmittedEnds`: an incident that was let in is delivered, or
  somebody learns that it was not. The exceptions are named in the formulas: the task
  in the hand of a worker that died, and .NET once all workers have died or two
  disposals overlap.

## Fairness

Liveness is checked for the Rust, the Go, the Ruby, the .NET and the Node client and
for the programs of `RustSession`. The fairness assumed is weak
and only of steps the runtime owes:

* a thread, goroutine or callback inside a call, and a worker that can proceed, is
  eventually scheduled;
* an attempt ends: `ATTEMPT_TIMEOUT` (8 s) bounds it; which way it ends is open,
  so a server that always fails is included;
* a backoff ends, and the clock reaches the drain's deadline.

Nobody is obliged to post, to close or to cancel; no spurious wake-up ever has to
happen; and where a notification may reach one of several threads nothing says that
it reaches the useful one. Go's `RWMutex` is taken to admit a waiting writer once
the readers before it have left, as its documentation promises.

## Proofs

TLC looks at the instances above; the theorems hold for every set of tasks,
workers, posts and closers, every capacity, schedule and pool size, and every set of
calls and answers that the constants' assumptions admit. Theorems state 33 of the
properties of the runs: all of them but the liveness properties.

| Module | Theorems | Property of the run it proves |
| --- | --- | --- |
| `RustDispatcherProofs` | `TypeCorrect`, `CleanClose`, `NoLostNotifyAll`, `WorkersWoken`, `OpenNotifyOne`, `Refinement`, `DropsAreAccounted` | `TypeOK`, `CleanCloseRanEverything`, `CloserNotForgotten`, `WorkerNotForgotten`, `OpenTaskIsFetched`, `ImplementsContract`, `DropsAccounted` |
| `RustClientProofs` | `ClientImplementsDispatcher`, `ClientKeepsGuarantees`, `QuietAfterClientClose` | `AsyncQuietAfterClose` |
| `RustSessionProofs` | `OneEndpoint`, `AttemptsAreTold`, `CloseIsFinal`, `SmokeIsNetworkFree` | `EndpointPinned`, `AttemptsTold`, `ClosedForGood`, `NetworkFree` |
| `GoClientProofs` | `AllLossesReported`, `CleanClose`, `Refinement`, `ClientImplementsDispatcher`, `ClientKeepsGuarantees`, `TransportGoesLast`, `QuietAfterGivingUp` | `LossesReported`, `CleanCloseRanEverything`, `ImplementsContract`, `TransportOutlivesDeliveries`, `QuietOnceAbandoned` |
| `JavaDispatcherProofs` | `MetricsAreExact`, `CleanClose`, `ForceIsFinal`, `RestIsResolved` | `MetricsExact`, `OwedDelivered`, `ForcedStaysForced`, `RestResolved` |
| `PythonClientProofs` | `MetricsAreExact`, `ClientImplementsDispatcher`, `NothingStaysQueued`, `TwoLateRequestsAtMost`, `PostsKeepConnections` | `MetricsExact`, `AcceptedIsResolved`, `AtMostTwoLateRequests`, `ConnectionsOutlivePosts` |
| `ClientTeardownProofs` | `ReleaseComesLast`, `LossesAreTold`, `QuietBehindRelease` | `ReleaseFollowsDrain`, `LossesTold`, `QuietAfterClose` |
| `IncidentPathProofs` | `NoSuccessMadeUp`, `RetriesKeepPromise`, `VerdictsAgree`, `RequestsAgree`, `PayloadsAgree` | `NoFalseSuccess`, `RetriesAsPromised`, `SameVerdict`, `AcceptedIffValid`, `SamePayload` |

Each module also has a theorem `Invariance` (in `RustClientProofs` the lemma
`ClientInvariance`) for the inductive invariant; `DropInv`, `SmokeInv` and `WireInv` are
invariants of their own for the properties that the others do not need. TLC has checked
each of them on the instance of its run.

### Assumptions

The proofs rest on the named assumptions of the modules and on nothing else, and TLC
evaluates each in some run. They say of the dispatchers that the kinds of threads are
disjoint, that a capacity is at least one and that there is a worker and a finite
number of them (the teardown does without a worker); tasks are finite where losses are
counted. `MaxRetries` and `MaxPooled` are natural numbers. `PathAssumption` and
`SessionAssumption` say of the environment that calls name one of the eight SDKs and
that answers are HTTP answers: `IsAnswer` admits no status or one from 100 to 599,
the nine kinds of bodies and, inside an object, members of any kind. `IntMax` is at
least 599, as every status fits an `int`. A call has a request of the set `Incidents`:
each member is absent or any value of its type, and a source has no more characters
than UTF-16 units or bytes, as in every encoding. The clock is any integer. The marks
`Absent`, `Null` and `Refused` are no values of the languages (`MarksAssumption`), the
loopback address is a given one, and Node has no routed post.

### Arguments

No property is inductive as it stands. What has to be added says, in each
component, where a task is and who may move it.

*Rust dispatcher.* `active` is a counter, and that it is never decremented below zero,
or that zero means that no task is in flight, is invisible to `TypeOK`: `ActiveInv`
ties it to the number of workers between the increment and the decrement, those that a
panic has killed included. A clean close is clean because of `ActiveInv`, `QueueInv`
(the queue holds exactly the queued tasks, once each, within the capacity),
`RunningInv` (a running task has exactly one live worker) and `LossInv` (nothing is
abandoned while draining). `PhaseInv` says that `accepting` falls before `draining`
and that one closer drains; it makes `OpenTaskIsFetched` true, since while the
dispatcher is open no closer can be asleep on the condition variable to steal the
notification. `NewInv` links a task to its submit call, so a task is queued once only.
`PCInv` keeps each kind of thread in its part of the program. There is one lemma per
conjunct, with one step per action; the refinement follows with one step of the
contract, or a stutter, for each action. The drops need `DropInv` on top: a submit
that is not about to notify holds no summary, so a summary is never overwritten, and the
counts of the summaries that are held change for one submit at a time.

*Rust client.* Each step of the client is a step of the dispatcher or leaves its
variables alone, so the dispatcher's theorems carry over. The silence after close
needs `CloseInv`: a close that drains has signalled the interrupt, and returns when
`draining` has fallen.

*Rust session.* `ProgramInv` says what the statements that are left rely on: each post
has its client, or a statement that builds one comes first (`Covered`). With it,
`ClientInv` (a client has contacted its endpoint at most; a closed one has been
signalled), `DeliveryInv` (attempts within the schedule, failures as told) and
`DrainedInv` (the drain is over when close has returned) are inductive for the shipped
programs and for the free one. The smoke program needs `SmokeInv`, which follows it
statement by statement: at each of its 17 positions `Stage` says what environment,
client and request it has made so far. The client with the loopback address is the only
one that has a delivery; the second client is closed when it posts, and the third post
has a key of its own, so it cannot be routed.

*Go.* Workers receive between the three selects of a submit, so what a submit knows is
only what the mutex protects: `MutexInv` (who is past the first select owns it, and no
close begins meanwhile) and, in `QueueInv`, that the room made by an eviction stays.
`CloseInv` bounds what close will report by what the channel holds, `HandInv` puts
each running task into one hand and an abandoned one into the hand of at most one late
receiver, and `LossInv` counts: tasks abandoned plus workers still alive are at most
what was reported plus all workers. The client adds `LockInv` for the read-write lock
and `ReleaseInv` for the order of `Close`.

*Java.* `QueueInv` places each queued task once, in the executor's queue or in the list
that `shutdownNow` returned; `ClaimInv` makes `startedOrDropped` the one place where
a task is claimed; `CountInv` counts the threads between the claim and each of the
counters, and follows a drop through the compare-and-set and the `getAndSet` of the
logger; `PoolInv` says when the pool's threads are born and leave, `CloseInv` that a forced pool
stays forced, and `OwedInv` that a pool which ended by itself left nothing owed queued.

*Python.* `CountInv` says that `queued` is the number of tasks that `submit` has counted
and nobody has started or dropped, and that each drop is logged or waits for the next
summary, up to the threads between a claim and the counter after it; `OwedInv` that close owes only what was submitted when it began. In the client
`CloseInv` lets one close through, `DrainedInv` says that it leaves nothing owed in the
queue, `LifecycleInv` ties `_active` to the posts under way, and `LateInv` that a deliverer
which is to take or to use a pooled connection has sent nothing on a closed executor, and
one which may still open a fresh one has sent one request at most.

*Teardown.* One invariant covers Ruby, .NET and Node. `CloseInv` and `AbandonInv` speak
of the closes that found the client open, one for Ruby and Node; `LostInv` matches each
lost task with a dead worker and says what a .NET close without an overlap has counted
or met; `TriesInv` and `NodeInv` say which attempts can still begin. In Ruby nothing
becomes due behind the release, since the queue is empty, the client closed and its
interrupt signalled by then.

*Incident path.* `PathInv` has three parts: attempts stay within the schedule
(`ProgressInv`), the report is what the SDK makes of the last answer (`ReportInv`), and
the loop goes on only after what the SDK retries (`LoopInv`). What remains is about
the eight parsers and senders: one lemma each on what it returns (`Parsed`, `Shape`),
from which `Honest` (no success that was not read), `RetriedAlike` (the contract's
decision, save for `RetriesDiffer`) and `ReadAlike` (its verdict on a readable answer)
follow SDK by SDK. On the way out `WireInv` says
that the payload is what the SDK has made of the call, and `Keeps`, again one lemma per
SDK, what that is worth: `Alike` compares the checks of the SDKs with a builder, which
differ in blanks, lengths and timestamps, with those of the contract, and `Posted` treats
their choice of the key and their payload in common. Go, where zero values stand for what
is absent, and Node, which checks no key, have arguments of their own. Both theorems hold
with `Deviates` as it stands, so that list of differences is complete for every call of
the model and not only for those of the run.

### What the proofs changed in the model

* Operators of `IncidentResponses`, and `Admission` in `RustSession`, were `CASE`
  expressions with overlapping guards. TLA+ leaves open which arm is meant, so the
  early returns of the code are now `IF ... ELSE IF`.
* `Recheck` of `JavaDispatcher` removed every occurrence of a task where
  `workQueue.remove` removes one.
* Finite workers in `TeardownAssumption`, and the assumptions on answers, calls and
  requests, were implicit.
* `Builder` of `RustSession` folded over the chain of setters, and `DropsAccounted` over
  the summaries. Neither can be reasoned about without induction over data. The builder
  now takes the last setter of each field, and the property counts the set `ToBeLogged`.

### Only model-checked

* Liveness and fairness, out of the prover's reach: `ClientCloseReturns`, `TaskResolved`,
  `SmokeSucceeds`, `CloseTerminates`, `PostsTerminate`, `AdmittedEnds`, `ClosesEnd`.
* The four properties that are violated, of which there is nothing to prove.

## Findings

| Run | What the run shows |
| --- | --- |
| `rust_wakeup` | `submit` notifies after it has released the lock, on the condition variable that `close` waits on as well. A close in between can consume the one notification; the task stays queued beside an idle worker until the deadline abandons it. |
| `rust_panic` | A panicking task unwinds its worker with `active` still raised; every later close sits out its whole timeout, although the comment on `lock` says that one bad task does not wedge shutdown. |
| `java_stranded` | The rejection handler tests `isShutdown()` and then offers to the queue; a pool that terminates in between keeps the task for ever, neither run nor dropped, and the gauge stays raised. |
| `python_lost` | A worker whose `get` timed out tests `_stopping` without another look at the queue. An incident queued in between, followed by close, is dropped at once with the whole drain period unused. |

## Not modelled

* The lifecycle of the Java client: its read-write lock is held and waited for as in
  Go, whose client is modelled.
* The C++ dispatcher and client as modules of their own. `Submit`, `Close` and `Work`
  have the lock sections and notifications of the Rust dispatcher without panics, so
  what is checked there applies, the race of `rust_wakeup` included. The destructor,
  which joins the workers, and an exception of a task, which ends the process, are left
  out.
* The rate limit of the drop lines in Ruby, .NET and Node, and the cancellation
  tokens that a .NET caller may pass.
* Node's legacy transport: what it does with an aborted response depends on the
  events of old Node runtimes.
* The C API, a translation of structs around the C++ client without state of its own,
  and the C++ JSON parser, a sequential text parser.
* JSON text, escaping, messages and incident ids, headers, TLS, log wording, delay
  lengths and jitter; the endpoint override of the SDKs other than Rust.
* Values of a wrong type in the dynamic languages (a number for a title), which
  their constructors refuse.
* Examples and smoke tests of the other SDKs, build and release workflows.

Observations made while modelling that are no findings of a run:

* Go's `PostAsync`, which "returns immediately" (golang/README.md:69), takes the read
  lock behind a pending `Close` (client.go:152) and so waits for the deliveries that
  `Close` waits for. `PostsTerminate` shows that it returns.
* Rust's `close` "releases every owned resource" (client.rs:104), but the transport and
  its connections live as long as the client and the last worker that shares them.
* `NO_STATUS_CODE` is said to mean "before any HTTP status line was received"
  (error.rs:4-5); a body that is too large or breaks off and an interrupted backoff
  report it too. Java and Python report a malformed 2xx body with -1 as well.
* Two .NET disposals that overlap both pass the test of `_disposed`: the second
  releases the transport beside the drain of the first, against the comment at
  IncidentClient.cs:190-193, and the first then throws instead of logging the count.
  `ReleaseFollowsDrain`, `LossesTold` and `ClosesEnd` hold without an overlap.
* .NET takes workers that have faulted for a finished drain (AsyncDispatcher.cs:85) and
  gives up what is queued without a line. A Ruby or .NET worker faults when the host's
  logger throws.
* Node's retries go on after `closeTransport` when the drain has timed out, although
  IncidentClient.ts:181-183 counts on a live connection pool.
* Python's first offer does not look at `_stopping`: a submit that overlaps with close can
  queue its task behind the drain, where it stays for ever, against the comment at
  dispatcher.py:139 ("Nothing may stay queued once a close returns"). `AcceptedIsResolved`
  holds for the tasks whose submit was over when close began.
* A retry of a Ruby delivery whose delay ends just before close signals goes out after
  close has returned (`QuietAfterClose` allows it and nothing more); close does not wait
  for synchronous posts.
* The deadlines of Python's close add up (lifecycle, joins, forced joins); Java's drop
  logger uses a wall clock that may go backwards; Node's dispatcher lets its backing
  array grow while a full queue only drops and never dequeues.
