---------------------------- MODULE RustSession ----------------------------
(***************************************************************************)
(* Programs that use the Rust SDK through its public API: the two that the *)
(* repository ships (.github/smoke/rust/src/main.rs and                    *)
(* rust/examples/plain.rs) and any other short one.                        *)
(*                                                                         *)
(* A program is a sequence of statements, run by one thread beside the     *)
(* workers of its clients: it sets the environment, builds requests and    *)
(* clients through their builders, posts in the four ways, closes a client *)
(* and drops it. What the payload holds and how an answer is read is taken *)
(* from IncidentRequests and IncidentResponses; how the dispatcher queues, *)
(* wakes and drains is the matter of RustDispatcher.                       *)
(***************************************************************************)
EXTENDS IncidentRequests, IncidentResponses, Sequences, FiniteSets
LOCAL INSTANCE SequencesExt

CONSTANTS Running,        \* the programs to run: "smoke", "plain", "free"
          Statements,     \* what the free program may do next
          MaxSteps,       \* ... and how often
          DefaultEndpoint, Loopback,
          Answers(_),     \* Answers(e): what an attempt on endpoint e may get back
          WorkerCount     \* worker threads of a client

\* The endpoints that a client can be built with: an empty variable counts for none.
Endpoints ==
  {DefaultEndpoint, Loopback}
    \cup ({s.url : s \in {t \in Statements : t.op = "env"}} \ {Absent, ""})

ASSUME SessionAssumption ==
  /\ Running \subseteq {"smoke", "plain", "free"}
  /\ MaxSteps \in Nat /\ WorkerCount \in Nat \ {0}
  /\ DefaultEndpoint # Loopback /\ Loopback \notin {Absent, ""} /\ Absent # "key"
  /\ \A e \in Endpoints : \A a \in Answers(e) : IsAnswer(a)

VARIABLES
  program,    \* which program runs
  left,       \* its statements that are still to run
  steps,      \* statements the free program has begun
  pc,         \* ready, posting or closing
  outcome,    \* what the last statement returned
  failed,     \* a statement did not return what the program expects
  env,        \* OPPEX_TEST_ENDPOINT_URL
  request,    \* the request built last, when it is still there
  clients,    \* the clients built, in order; at most the last one is alive
  deliveries  \* the posts they accepted, in order

programVars == <<program, left, steps, pc, outcome, failed>>
vars == <<programVars, env, request, clients, deliveries>>

-----------------------------------------------------------------------------
(* What a call returns: Ok or one of the variants of IncidentError *)

Result(kind, status, counted) == [kind |-> kind, status |-> status, counted |-> counted]
Ok == Result("Ok", NoStatus, 0)
InvalidRequest == Result("InvalidRequest", NoStatus, 0)
ClientClosed == Result("ClientClosed", NoStatus, 0)

\* counted: the attempts that the message speaks of, 0 when it does not.
Delivery(status, counted) == Result("Delivery", status, counted)

StatusCode(o) == IF o.kind = "Delivery" /\ o.status # NoStatus THEN o.status ELSE Absent

\* Faulty: the retries are counted, not the attempts.
WithAttemptCount_Retries(status, attempts) ==
  Delivery(status, IF status = NoStatus /\ attempts > 1 THEN attempts - 1 ELSE 0)

WithAttemptCount(status, attempts) ==
  Delivery(status, IF status = NoStatus /\ attempts > 1 THEN attempts ELSE 0)

\* What a program requires of a call: it goes on only when this holds.
Meets(o, expect) ==
  CASE expect = "ok"         -> o.kind = "Ok"
    [] expect = "invalid"    -> o.kind = "InvalidRequest"
    [] expect = "closed"     -> o.kind = "ClientClosed"
    [] expect = "unanswered" -> o.kind = "Delivery" /\ StatusCode(o) = Absent /\ o.counted # 0
    [] expect = "anything"   -> TRUE

-----------------------------------------------------------------------------
(* The builders: a chain of setter calls, each a pair of a field and a value. *)

\* A builder begins with no field set, and a setter overwrites what an earlier one of its
\* field has set: the last one counts.
Builder(fields, chain) ==
  [f \in fields |->
     LET sets == {i \in DOMAIN chain : chain[i][1] = f}
     IN IF sets = {} THEN Absent ELSE chain[CHOOSE i \in sets : \A j \in sets : j <= i][2]]

\* Faulty: the discriminant of the enum, which begins with 0.
Severity_Discriminant == [Lowest |-> 0, Low |-> 1, Medium |-> 2, High |-> 3, Critical |-> 4]

Severity == [Lowest |-> 1, Low |-> 2, Medium |-> 3, High |-> 4, Critical |-> 5]
SeverityFromValue(n) ==
  IF \E s \in DOMAIN Severity : Severity[s] = n
    THEN CHOOSE s \in DOMAIN Severity : Severity[s] = n ELSE Refused

RequestFields ==
  {"title", "source", "severity", "priority", "srcTimestamp", "serviceKey", "details"}

\* The clock is after 1970. A severity is given as a Severity, which a program
\* that has a number gets from from_value, or fails to get.
BuildRequest(chain) ==
  LET b == Builder(RequestFields, chain)
  IN CASE b.severity = Refused -> Refused
       [] b.severity = Absent -> RustBuild(b, 1)
       [] OTHER -> RustBuild([b EXCEPT !.severity = Severity[b.severity]], 1)

Endpoint == IF env \in {Absent, ""} THEN DefaultEndpoint ELSE env

\* Faulty: the override is not looked at.
BuildClient_NoOverride(chain) ==
  LET b == Builder({"apiKey", "serviceKey"}, chain)
  IN IF ~Given(b.apiKey, UnicodeBlanks) THEN Refused
     ELSE [endpoint |-> DefaultEndpoint, serviceKey |-> RustClientKey(b.serviceKey),
           closed |-> FALSE, signalled |-> FALSE, alive |-> TRUE, contacted |-> {}]

\* The endpoint is read from the environment once, here.
BuildClient(chain) ==
  LET b == Builder({"apiKey", "serviceKey"}, chain)
  IN IF ~Given(b.apiKey, UnicodeBlanks) THEN Refused
     ELSE [endpoint |-> Endpoint, serviceKey |-> RustClientKey(b.serviceKey),
           closed |-> FALSE, signalled |-> FALSE, alive |-> TRUE, contacted |-> {}]

-----------------------------------------------------------------------------
(* The shipped programs *)

SetEnv(url) == [op |-> "env", url |-> url, expect |-> "ok"]
Check(holds) == [op |-> "check", holds |-> holds, expect |-> "ok"]
NewRequest(chain, expect) == [op |-> "request", chain |-> chain, expect |-> expect]
NewClient(chain, expect) == [op |-> "client", chain |-> chain, expect |-> expect]
PostIt(how, async, expect) == [op |-> "post", how |-> how, async |-> async, expect |-> expect]
CloseIt == [op |-> "close", expect |-> "ok"]
DropIt == [op |-> "drop", expect |-> "anything"]

Text(s) == [text |-> s, points |-> 9, units |-> 9, bytes |-> 9]
Incident(title, severity) ==
  <<<<"title", title>>, <<"source", Text("s")>>, <<"severity", severity>>>>

\* check_real_transport_failure: the client drops at the end of the function,
\* behind the removal of the variable.
SmokeTransport ==
  <<SetEnv(Loopback),
    NewClient(<<<<"apiKey", "wrong">>, <<"serviceKey", "wrong">>>>, "ok"),
    NewRequest(Incident("valid title", "Medium"), "ok"),
    PostIt("post", FALSE, "unanswered"),
    SetEnv(Absent), DropIt>>

SmokeValidation ==
  <<NewRequest(Incident("", "Medium"), "invalid"),
    NewClient(<<<<"apiKey", "key">>, <<"serviceKey", "key">>>>, "ok"),
    NewRequest(Incident("closed", "Low"), "ok"),
    CloseIt, PostIt("post", FALSE, "closed"), DropIt>>

SmokeRouting ==
  <<NewClient(<<<<"apiKey", "key">>>>, "ok"),
    NewRequest(Append(Incident("routed", "Low"), <<"serviceKey", "key">>), "ok"),
    PostIt("route", FALSE, "invalid"), DropIt>>

Smoke == <<Check(Severity["Medium"] = 3)>> \o SmokeTransport \o SmokeValidation \o SmokeRouting

\* The keys are in the environment.
Plain ==
  <<NewClient(<<<<"apiKey", "key">>, <<"serviceKey", "key">>>>, "ok"),
    NewRequest(Incident("latency", "High") \o <<<<"priority", 2>>, <<"details", "{}">>>>, "ok"),
    PostIt("post", FALSE, "ok"),
    NewRequest(Incident("queue", "Low"), "ok"),
    PostIt("post", TRUE, "ok"),
    CloseIt, DropIt>>

-----------------------------------------------------------------------------
Init ==
  /\ program \in Running
  /\ left = CASE program = "smoke" -> Smoke [] program = "plain" -> Plain [] OTHER -> <<>>
  /\ steps = 0
  /\ pc = "ready"
  /\ outcome = Ok
  /\ failed = FALSE
  /\ env = Absent
  /\ request = Absent
  /\ clients = <<>>
  /\ deliveries = <<>>

current == Len(clients)
Alive == current > 0 /\ clients[current].alive

\* Programs compile: a post needs a request and a client, and there is one client
\* at a time.
Compiles(s) ==
  /\ s.op = "client" => ~Alive
  /\ s.op \in {"post", "close", "drop"} => Alive
  /\ s.op = "post" => request # Absent

\* The free program decides on its next statement.
Improvise(s) ==
  /\ program = "free" /\ pc = "ready" /\ left = <<>> /\ ~failed
  /\ steps < MaxSteps
  /\ Compiles(s)
  /\ steps' = steps + 1
  /\ left' = <<s>>
  /\ UNCHANGED <<program, pc, outcome, failed, env, request, clients, deliveries>>

stmt == Head(left)
At(op) == pc = "ready" /\ left # <<>> /\ stmt.op = op

\* The statement is over. A program that meets what it does not expect returns,
\* which drops its client.
Returns(o) ==
  /\ outcome' = o
  /\ failed' = (failed \/ ~Meets(o, stmt.expect))
  /\ left' = IF Meets(o, stmt.expect) THEN Tail(left) ELSE <<DropIt>>
  /\ pc' = "ready"
  /\ UNCHANGED <<program, steps>>

Blocks(where) ==
  /\ pc' = where
  /\ UNCHANGED <<program, left, steps, outcome, failed>>

-----------------------------------------------------------------------------
(* Statements without a client *)

RunSetEnv ==
  /\ At("env")
  /\ env' = stmt.url
  /\ Returns(Ok)
  /\ UNCHANGED <<request, clients, deliveries>>

RunCheck ==
  /\ At("check")
  /\ Returns(IF stmt.holds THEN Ok ELSE InvalidRequest)
  /\ UNCHANGED <<env, request, clients, deliveries>>

RunRequest ==
  /\ At("request")
  /\ LET r == BuildRequest(stmt.chain)
     IN /\ request' = IF r = Refused THEN Absent ELSE r
        /\ Returns(IF r = Refused THEN InvalidRequest ELSE Ok)
  /\ UNCHANGED <<env, clients, deliveries>>

RunClient ==
  /\ At("client")
  /\ LET c == BuildClient(stmt.chain)
     IN /\ clients' = IF c = Refused THEN clients ELSE Append(clients, c)
        /\ Returns(IF c = Refused THEN InvalidRequest ELSE Ok)
  /\ UNCHANGED <<env, request, deliveries>>

-----------------------------------------------------------------------------
(* The four post operations *)

\* Faulty: the flag is not looked at.
Admission_SkipsClosed ==
  IF ~KeyAllowed(request.serviceKey, clients[current].serviceKey, stmt.how, Absent)
    THEN InvalidRequest ELSE Ok

\* ensure_open, then require_service_key or require_service_routable. With one
\* program thread the dispatcher accepts whenever the client is open.
Admission ==
  IF clients[current].closed THEN ClientClosed
  ELSE IF ~KeyAllowed(request.serviceKey, clients[current].serviceKey, stmt.how, Absent)
    THEN InvalidRequest ELSE Ok

\* post_async takes the request, post borrows it.
Consumed == IF stmt.async THEN Absent ELSE request

PostRefused ==
  /\ At("post")
  /\ Admission # Ok
  /\ request' = Consumed
  /\ Returns(Admission)
  /\ UNCHANGED <<env, clients, deliveries>>

PostAccepted ==
  /\ At("post")
  /\ Admission = Ok
  /\ request' = Consumed
  /\ deliveries' = Append(deliveries,
       [client |-> current, async |-> stmt.async, tries |-> 0, outcome |-> Ok,
        phase |-> IF stmt.async THEN "queued" ELSE "sending"])
  /\ IF stmt.async THEN Returns(Ok) ELSE Blocks("posting")
  /\ UNCHANGED <<env, clients>>

PostReturns ==
  /\ pc = "posting"
  /\ Last(deliveries).phase = "over"
  /\ Returns(Last(deliveries).outcome)
  /\ UNCHANGED <<env, request, clients, deliveries>>

-----------------------------------------------------------------------------
(* Deliveries: on the program's thread or on a worker *)

Of(c) == {k \in DOMAIN deliveries : deliveries[k].client = c}
Busy(c) == {k \in Of(c) : deliveries[k].async /\ deliveries[k].phase \in {"sending", "waiting"}}
Queued(c) == {k \in Of(c) : deliveries[k].phase = "queued"}

WorkerTakes(k) ==
  /\ deliveries[k].phase = "queued"
  /\ \A j \in Queued(deliveries[k].client) : k <= j
  /\ Cardinality(Busy(deliveries[k].client)) < WorkerCount
  /\ deliveries' = [deliveries EXCEPT ![k].phase = "sending"]
  /\ UNCHANGED <<programVars, env, request, clients>>

\* Faulty: the environment is read at every attempt.
Target_ReadsEnv(k) == Endpoint

Target(k) == clients[deliveries[k].client].endpoint

\* One attempt, and the decision of execute_with_retry.
Attempt(k, a) ==
  /\ deliveries[k].phase = "sending"
  /\ LET r == RustSend(a)
         n == deliveries[k].tries + 1
         again == ~r.response /\ RustRetries(r, n - 1)
     IN deliveries' = [deliveries EXCEPT
          ![k].tries = n,
          ![k].phase = IF again THEN "waiting" ELSE "over",
          ![k].outcome = IF again \/ r.response THEN Ok ELSE WithAttemptCount(r.code, n)]
  /\ clients' = [clients EXCEPT ![deliveries[k].client].contacted = @ \cup {Target(k)}]
  /\ UNCHANGED <<programVars, env, request>>

BackoffElapses(k) ==
  /\ deliveries[k].phase = "waiting"
  /\ ~clients[deliveries[k].client].signalled
  /\ deliveries' = [deliveries EXCEPT ![k].phase = "sending"]
  /\ UNCHANGED <<programVars, env, request, clients>>

BackoffInterrupted(k) ==
  /\ deliveries[k].phase = "waiting"
  /\ clients[deliveries[k].client].signalled
  /\ deliveries' = [deliveries EXCEPT ![k].phase = "over", ![k].outcome = Delivery(NoStatus, 0)]
  /\ UNCHANGED <<programVars, env, request, clients>>

-----------------------------------------------------------------------------
(* close and Drop *)

Closes == At("close") \/ (At("drop") /\ Alive)

\* The swap of the flag and the signal to the retries that wait.
CloseBegins ==
  /\ Closes
  /\ ~clients[current].closed
  /\ clients' = [clients EXCEPT ![current].closed = TRUE, ![current].signalled = TRUE]
  /\ Blocks("closing")
  /\ UNCHANGED <<env, request, deliveries>>

\* The queue is drained or the time is up: what is still queued is abandoned. A
\* worker that is busy goes on, with the transport it shares.
CloseReturns(timeIsUp) ==
  /\ pc = "closing"
  /\ timeIsUp \/ Queued(current) \cup Busy(current) = {}
  /\ deliveries' = [k \in DOMAIN deliveries |->
       IF k \in Queued(current) THEN [deliveries[k] EXCEPT !.phase = "abandoned"] ELSE deliveries[k]]
  /\ clients' = [clients EXCEPT ![current].alive = (stmt.op # "drop")]
  /\ Returns(Ok)
  /\ UNCHANGED <<env, request>>

\* A second close, or the drop of a closed client, returns at once.
ClosedAlready ==
  /\ Closes
  /\ clients[current].closed
  /\ clients' = [clients EXCEPT ![current].alive = (stmt.op # "drop")]
  /\ Returns(Ok)
  /\ UNCHANGED <<env, request, deliveries>>

\* A program that failed without a client has none to drop.
NothingToDrop ==
  /\ At("drop") /\ ~Alive
  /\ Returns(Ok)
  /\ UNCHANGED <<env, request, clients, deliveries>>

-----------------------------------------------------------------------------
Program ==
  \/ RunSetEnv \/ RunCheck \/ RunRequest \/ RunClient
  \/ PostRefused \/ PostAccepted \/ PostReturns
  \/ CloseBegins \/ ClosedAlready \/ NothingToDrop
  \/ \E timeIsUp \in BOOLEAN : CloseReturns(timeIsUp)

Delivering(k) ==
  \/ WorkerTakes(k)
  \/ \E a \in Answers(Target(k)) : Attempt(k, a)
  \/ BackoffElapses(k)
  \/ BackoffInterrupted(k)

Next ==
  \/ \E s \in Statements : Improvise(s)
  \/ Program
  \/ \E k \in DOMAIN deliveries : Delivering(k)

\* The program's thread and the workers are scheduled; an attempt ends within
\* ATTEMPT_TIMEOUT and a backoff after its delay. MaxSteps bounds the deliveries.
Spec == Init /\ [][Next]_vars
FairSpec ==
  /\ Spec
  /\ WF_vars(Program)
  /\ \A k \in 1 .. MaxSteps : WF_vars(k \in DOMAIN deliveries /\ Delivering(k))

-----------------------------------------------------------------------------
(* Properties *)

\* "network-free ... without touching the actual Oppex service": no client of the
\* smoke program ever contacts the default endpoint (smoke/rust/src/main.rs:3-8).
\* Two of its three clients have it, and are kept from it by the checks alone.
NetworkFree ==
  program = "smoke" => \A c \in DOMAIN clients : DefaultEndpoint \notin clients[c].contacted

\* The smoke program ends, and every call in it returns what it requires: the
\* refused connection six attempts and no status, the blank title and the keyed
\* routing an InvalidRequest, the closed client ClientClosed.
SmokeSucceeds == program = "smoke" ~> (left = <<>> /\ ~failed)

\* A client posts to one endpoint, whatever becomes of the environment while it
\* lives or its deliveries are retried (transport.rs:29-48).
EndpointPinned == \A c \in DOMAIN clients : Cardinality(clients[c].contacted) <= 1

\* A failure without a status is one of an exhausted schedule, whose message tells
\* how many attempts were made, or one of a client that is closing; no message tells
\* another number than that (retry.rs:39-73).
AttemptsTold ==
  \A k \in DOMAIN deliveries :
    LET d == deliveries[k]
    IN d.phase = "over" =>
         /\ d.tries \in 1 .. 6
         /\ d.outcome.counted \in {0, d.tries}
         /\ d.outcome.kind = "Delivery" /\ StatusCode(d.outcome) = Absent =>
              (d.outcome.counted = 6 \/ clients[d.client].signalled)

\* Once close has returned, nothing of that client goes on beyond the attempt it is in
\* or has just taken up: no post that comes later, no incident still queued, no retry
\* of a worker (client.rs:104-121).
ClosedForGood ==
  [][\A c \in DOMAIN clients : clients[c].closed /\ ~(pc = "closing" /\ c = current) =>
       \A k \in DOMAIN deliveries' : deliveries'[k].client = c /\ deliveries'[k].phase = "sending" =>
          k \in DOMAIN deliveries /\ deliveries[k].phase = "sending"]_vars
=============================================================================
