---------------------------- MODULE IncidentPath ----------------------------
(***************************************************************************)
(* One incident on its way through one of the eight SDKs, from the call of *)
(* a post operation to what the caller is told, against a statement of the *)
(* contract that the SDKs share: which requests are accepted, what goes on *)
(* the wire, what is retried and how an answer is reported.                *)
(*                                                                         *)
(* The root README says that all of them post "with the same payload,      *)
(* severity scale, retry policy and lifecycle guarantees". The contract    *)
(* below says what that is; `Deviates', `Readable' and `RetriesDiffer'     *)
(* name the calls and the answers on which the SDKs part ways.             *)
(***************************************************************************)
EXTENDS IncidentRequests, IncidentResponses

CONSTANTS Calls,     \* the calls an application makes
          Answers(_) \* Answers(c): what an attempt for call c may get back

\* Node has the one operation.
ASSUME PathAssumption ==
  /\ Calls \subseteq [sdk : Sdks, op : {"post", "route"}, clientKey : Texts \cup {Absent, Null},
                      request : Incidents, now : Int]
  /\ \A c \in Calls :
       /\ c.sdk = "node" => c.op = "post"
       /\ \A a \in Answers(c) : IsAnswer(a)

VARIABLES call,      \* the call: SDK, operation, client key, request, clock
          phase,     \* called, refused, sending, waiting, interrupted or done
          wire,      \* the payload, or Refused
          attempts,  \* attempts made
          answer,    \* the last answer
          result     \* what the last attempt, in the end the caller, gets

vars == <<call, phase, wire, attempts, answer, result>>

Init ==
  /\ call \in Calls
  /\ phase = "called"
  /\ wire = Refused
  /\ attempts = 0
  /\ answer = Absent
  /\ result = Absent

-----------------------------------------------------------------------------
(* Steps *)

\* The checks and the payload, on the caller's thread.
Prepare ==
  /\ phase = "called"
  /\ wire' = Prepared(call)
  /\ phase' = IF Prepared(call) = Refused THEN "refused" ELSE "sending"
  /\ UNCHANGED <<call, attempts, answer, result>>

\* An attempt ends with answer a.
Attempt(a) ==
  /\ phase = "sending"
  /\ LET r == Attempted(call.sdk, a)
         again == ~r.response /\ Retries(call.sdk, r, attempts)
     IN /\ result' = IF again THEN r ELSE Reported(call.sdk, r)
        /\ phase' = IF again THEN "waiting" ELSE "done"
  /\ attempts' = attempts + 1
  /\ answer' = a
  /\ UNCHANGED <<call, wire>>

BackoffElapses ==
  /\ phase = "waiting"
  /\ phase' = "sending"
  /\ UNCHANGED <<call, wire, attempts, answer, result>>

\* The client is closed, or the caller cancels: every SDK but Node leaves its
\* backoff. Java also leaves when an attempt fails on an interrupted thread,
\* with the same report.
BackoffInterrupted ==
  /\ phase = "waiting"
  /\ call.sdk # "node"
  /\ phase' = "interrupted"
  /\ result' = Failure(NoStatus, FALSE)
  /\ UNCHANGED <<call, wire, attempts, answer>>

Next == Prepare \/ (\E a \in Answers(call) : Attempt(a)) \/ BackoffElapses \/ BackoffInterrupted

Spec == Init /\ [][Next]_vars

-----------------------------------------------------------------------------
(* The contract *)

ContractAccepts(c) ==
  /\ Given(c.request.title, UnicodeBlanks)
  /\ c.request.source # Absent /\ c.request.source.text \notin UnicodeBlanks
  /\ c.request.source.points <= MaxSourceLength
  /\ c.request.severity \in 1 .. 5
  /\ c.request.priority \in {Absent} \cup 1 .. 5
  /\ IF c.request.srcTimestamp = Absent THEN c.now > 0 ELSE c.request.srcTimestamp > 0
  /\ c.request.serviceKey \notin UnicodeBlanks
  /\ c.request.details \notin UnicodeBlanks
  /\ IF c.op = "post"
       THEN c.request.serviceKey # Absent \/ Given(c.clientKey, UnicodeBlanks)
       ELSE c.request.serviceKey = Absent

\* The members of the payload: the required ones and the optional ones that are
\* given; of the keys the request's own, then the client's, and none when Oppex
\* is to route the incident.
ContractMembers(c) ==
  {"title", "source", "severity", "priority", "srcTimestamp"}
    \cup (IF c.op = "post" THEN {"serviceKey"} ELSE {})
    \cup (IF c.request.details # Absent THEN {"detailsJSON"} ELSE {})

ContractValue(c, member) ==
  CASE member = "serviceKey" ->
         (IF c.request.serviceKey # Absent THEN c.request.serviceKey ELSE c.clientKey)
    [] member = "priority" -> (IF c.request.priority = Absent THEN 1 ELSE c.request.priority)
    [] member = "srcTimestamp" ->
         (IF c.request.srcTimestamp = Absent THEN c.now ELSE c.request.srcTimestamp)
    [] member = "detailsJSON" -> c.request.details
    [] OTHER -> c.request[member]

ContractPayload(c) == [m \in ContractMembers(c) |-> ContractValue(c, m)]

\* The calls on which an SDK does not keep to the contract.
Deviates(c) ==
  LET texts == {c.request.title, c.request.serviceKey, c.request.details, c.clientKey}
      source == c.request.source
  IN
  \* white space outside ASCII is text to Java, Ruby and C++
  \/ c.sdk \in {"java", "ruby", "cpp"}
     /\ (UnicodeBlank \in texts \/ (source # Absent /\ source.text = UnicodeBlank))
  \* the length is not in characters: UTF-16 in Java, Node and .NET, bytes in C++
  \/ /\ source # Absent /\ source.points <= MaxSourceLength
     /\ \/ c.sdk \in {"java", "node", "dotnet"} /\ source.units > MaxSourceLength
        \/ c.sdk = "cpp" /\ source.bytes > MaxSourceLength
  \* zero numbers and empty optional texts mean absent in Go, zero numbers in C++
  \/ c.sdk \in {"go", "cpp"} /\ (c.request.priority = 0 \/ c.request.srcTimestamp = 0)
  \* Go sends blank optional texts, and takes the padding off the client's key
  \/ c.sdk = "go" /\ \/ c.request.details \in UnicodeBlanks
                     \/ c.request.serviceKey \in UnicodeBlanks
                     \/ c.clientKey = PaddedKey
  \* Python and Ruby do not check the clock's timestamp
  \/ c.sdk \in {"python", "ruby"} /\ c.request.srcTimestamp = Absent /\ c.now <= 0
  \* Node checks no severity and no key
  \/ c.sdk = "node" /\ \/ c.request.severity \notin 1 .. 5
                       \/ c.request.serviceKey \in UnicodeBlanks \cup {Null}
                       \/ c.clientKey \in UnicodeBlanks \cup {Null, Absent}

ContractRetryable(a) ==
  \/ a.status = NoStatus
  \/ a.body.kind = "torn"
  \/ a.status \in {429, 500, 502, 503, 504}

\* The answers on which a retry loop does not keep to it: Node takes a torn body
\* for an empty one, and to Rust, .NET and C++ a body that is too large is a
\* failed exchange.
RetriesDiffer(sdk, a) ==
  /\ a.status \notin {NoStatus, 429, 500, 502, 503, 504}
  /\ \/ sdk = "node" /\ a.body.kind = "torn"
     \/ sdk \in {"rust", "dotnet", "cpp"} /\ a.body.kind = "oversized"

ContractRetries(sdk) == IF sdk = "node" THEN 3 ELSE 5

\* The answers every SDK reads alike: a body that is blank, or an object whose
\* members have their types, and which is read to its end.
Readable(a) ==
  \/ a.status = NoStatus
  \/ a.body.kind = "blank"
  \/ /\ a.body.kind = "object"
     /\ a.body.success # "other"
     /\ a.body.code.form \in {"absent", "integer"}
     /\ Fits(a.body.code.n)

\* The response of a 2xx answer; a failure with its status for any other.
ContractVerdict(a) ==
  IF a.status # NoStatus /\ a.status \in 200 .. 299
    THEN [response |-> TRUE,
          successful |-> IF a.body.kind = "object" /\ a.body.success # "absent"
                           THEN a.body.success = "true" ELSE TRUE,
          code |-> IF a.body.kind = "object" /\ a.body.code.form = "integer"
                     THEN a.body.code.n ELSE a.status]
    ELSE [response |-> FALSE, successful |-> FALSE, code |-> a.status]

-----------------------------------------------------------------------------
(* Properties *)

\* An SDK refuses exactly the calls the contract refuses, whatever it checks and
\* in whichever order.
AcceptedIffValid ==
  phase # "called" /\ ~Deviates(call) => ((phase # "refused") <=> ContractAccepts(call))

\* The same call makes the same JSON object in every SDK: defaults filled in,
\* what is absent left out, and the service key of the right origin. Whatever
\* the call, a routed post carries no key and a keyed one has one (only Go lets
\* a blank one pass).
SamePayload ==
  wire # Refused =>
    /\ ~Deviates(call) => wire = ContractPayload(call)
    /\ call.sdk # "node" =>
         /\ call.op = "route" => "serviceKey" \notin DOMAIN wire
         /\ call.op = "post"  => "serviceKey" \in DOMAIN wire
         /\ call.op = "post" /\ call.sdk # "go" => wire["serviceKey"] \notin AsciiBlank

\* The same readable answer is told to the caller in the same way by every SDK,
\* through the attempt, the retry loop and what is made of the last failure.
\* (Node parses the body of a status that is neither 2xx nor retried.)
SameVerdict ==
  phase = "done" /\ Readable(answer) /\ (call.sdk = "node" => ContractRetryable(answer) \/ Is2xx(answer.status)) =>
    LET v == ContractVerdict(answer)
    IN /\ result.successful = v.successful
       /\ result.code = v.code
       /\ call.sdk # "node" => result.response = v.response

\* Nobody is told that an incident was accepted unless a response with a 2xx
\* status was read to its end, whatever its body; Node has to take the word of
\* the body of any status, and takes a torn body for an empty one.
NoFalseSuccess ==
  phase = "done" /\ result.successful =>
    IF call.sdk = "node"
      THEN answer.status # NoStatus /\ (Is2xx(answer.status) \/ answer.body.success = "true")
      ELSE Is2xx(answer.status) /\ answer.body.kind # "torn" /\ answer.body.success # "false"

\* A delivery never goes past the schedule; it ends with a retryable answer only
\* when the schedule is exhausted or cut short, and it goes on after no other
\* answer, whatever the body. (Excepted are `RetriesDiffer': Node ends with a
\* torn body of a status it does not retry, against the contract, and Rust, .NET
\* and C++ go on after an oversized one.)
RetriesAsPromised ==
  /\ attempts <= ContractRetries(call.sdk) + 1
  /\ phase \in {"waiting", "interrupted", "done"} /\ ~RetriesDiffer(call.sdk, answer) =>
       IF phase = "done"
         THEN ContractRetryable(answer) => attempts = ContractRetries(call.sdk) + 1
         ELSE ContractRetryable(answer)
=============================================================================
