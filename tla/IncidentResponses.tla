--------------------------- MODULE IncidentResponses ---------------------------
(***************************************************************************)
(* From what an attempt gets back to what the caller is told, in each of   *)
(* the eight SDKs: the classification of the attempt, the reading of the   *)
(* response envelope, and the decision to try again.                       *)
(*                                                                         *)
(* An answer is an HTTP status, or NoStatus when none was received, and a  *)
(* body of some kind:                                                      *)
(*   blank      nothing, or white space                                    *)
(*   text       not JSON                                                   *)
(*   array      JSON, an array            null    JSON, null               *)
(*   scalar     JSON, a number, a string or a boolean                      *)
(*   object     JSON, an object, which has a `success' and a `code'        *)
(*   trailing   such an object with something else behind it               *)
(*   oversized  such an object, larger than the megabyte some SDKs read    *)
(*   torn       the connection broke while the body was read               *)
(* To all eight parsers a member whose value is null is one that is absent. *)
(***************************************************************************)
EXTENDS Integers

CONSTANT IntMax   \* the greatest 32-bit integer

ASSUME IntMaxAssumption == IntMax \in Nat /\ IntMax >= 599

NoStatus == -1

\* Only an object has members.
IsAnswer(a) ==
  /\ a.status \in {NoStatus} \cup 100 .. 599
  /\ a.body.kind \in {"blank", "text", "array", "null", "scalar", "object", "trailing", "oversized", "torn"}
  /\ a.body.success \in {"absent", "true", "false", "other"}
  /\ a.body.code.form \in {"absent", "integer", "fraction", "other"}
  /\ a.body.code.n \in Int
  /\ a.body.kind \notin {"object", "trailing", "oversized"} => a.body.success = "absent"

\* What a caller or the retry loop gets: a response, or a failure with a status.
Response(successful, code) ==
  [response |-> TRUE, successful |-> successful, code |-> code, retryable |-> FALSE]
Failure(status, retryable) ==
  [response |-> FALSE, successful |-> FALSE, code |-> status, retryable |-> retryable]

Is2xx(status) == status >= 200 /\ status < 300

\* `success' when it is a boolean.
SuccessOr(body, default) ==
  CASE body.success = "true" -> TRUE [] body.success = "false" -> FALSE [] OTHER -> default

Fits(n) == n >= -IntMax - 1 /\ n <= IntMax
Wrapped(n) == ((n + IntMax + 1) % (2 * (IntMax + 1))) - (IntMax + 1)

\* `code' when its form is one of forms; a fraction is cut off.
CodeOr(body, default, forms) == IF body.code.form \in forms THEN body.code.n ELSE default

-----------------------------------------------------------------------------
(* The statuses worth another attempt *)

RustIsRetryableStatus(status) == status \in {429, 500, 502, 503, 504}
GoIsRetryableStatus(status) == status \in {429, 500, 502, 503, 504}
JavaIsRetryableStatus(status) == status \in {429, 500, 502, 503, 504}
PythonRetryableStatus == {429, 500, 502, 503, 504}
NodeIsRetryableStatus(status) ==
  /\ status \in {429, 500, 502, 503, 504}
  /\ status \notin {400, 401, 403, 404, 409, 422}
DotnetIsRetryableStatus(status) == status \in {429, 500, 502, 503, 504}
RubyRetryableStatus(status) == status \in {429, 500, 502, 503, 504}
CppIsRetryableStatus(status) == status \in {429, 500, 502, 503, 504}

-----------------------------------------------------------------------------
(* The response envelope *)

RustParseResponse(status, body) ==
  LET code == CodeOr(body, status, {"integer"})
  IN CASE body.kind = "blank"  -> Response(Is2xx(status), status)
       [] body.kind = "object" -> Response(SuccessOr(body, Is2xx(status)),
                                           IF Fits(code) THEN code ELSE status)
       [] OTHER -> Failure(status, FALSE)

\* Faulty: Code is an int, not a pointer, and an absent code is 0.
GoParseResponse_ZeroCode(status, body) ==
  CASE body.kind \in {"blank", "null"} -> Response(Is2xx(status), status)
    [] body.kind = "object" /\ body.success # "other" /\ body.code.form \in {"absent", "integer"} ->
         Response(SuccessOr(body, Is2xx(status)), CodeOr(body, 0, {"integer"}))
    [] OTHER -> Failure(status, FALSE)

\* Unmarshal leaves the struct as it is for a null, and fails as a whole on a
\* member of another type; what is read of an oversized body is no JSON.
GoParseResponse(status, body) ==
  CASE body.kind \in {"blank", "null"} -> Response(Is2xx(status), status)
    [] body.kind = "object" /\ body.success # "other" /\ body.code.form \in {"absent", "integer"} ->
         Response(SuccessOr(body, Is2xx(status)), CodeOr(body, status, {"integer"}))
    [] OTHER -> Failure(status, FALSE)

\* Nothing is read behind the object. getIntValue refuses what does not fit. A
\* malformed body is reported without the status.
JavaParseResponse(status, body) ==
  LET code == CodeOr(body, status, {"integer", "fraction"})
  IN CASE body.kind = "blank" -> Response(Is2xx(status), status)
       [] body.kind \in {"object", "trailing", "oversized"} /\ Fits(code) ->
            Response(SuccessOr(body, Is2xx(status)), code)
       [] OTHER -> Failure(NoStatus, FALSE)

\* int() has no bound. A malformed body is reported without the status.
PythonParseResponse(status, body) ==
  CASE body.kind = "blank" -> Response(Is2xx(status), status)
    [] body.kind \in {"object", "oversized"} ->
         Response(SuccessOr(body, Is2xx(status)), CodeOr(body, status, {"integer", "fraction"}))
    [] OTHER -> Failure(NoStatus, FALSE)

\* Never a failure. An array passes typeof; its members are all undefined. The
\* number is kept as it is, a fraction included.
NodeParseResponse(status, body) ==
  IF body.kind \in {"object", "oversized"}
    THEN Response(SuccessOr(body, Is2xx(status)), CodeOr(body, status, {"integer", "fraction"}))
    ELSE Response(Is2xx(status), status)

DotnetParseResponse(status, body) ==
  LET code == CodeOr(body, status, {"integer"})
  IN CASE body.kind = "blank"  -> Response(Is2xx(status), status)
       [] body.kind = "object" -> Response(SuccessOr(body, Is2xx(status)),
                                           IF Fits(code) THEN code ELSE status)
       [] OTHER -> Failure(status, FALSE)

\* An Integer has no bound; what is left of an oversized body is no JSON.
RubyParseResponse(status, body) ==
  CASE body.kind = "blank"  -> Response(Is2xx(status), status)
    [] body.kind = "object" -> Response(SuccessOr(body, Is2xx(status)),
                                        CodeOr(body, status, {"integer"}))
    [] OTHER -> Failure(status, FALSE)

\* AsInt cuts a fraction off and gives 64 bits, of which the cast keeps 32.
CppParseResponse(status, body) ==
  CASE body.kind = "blank"  -> Response(Is2xx(status), status)
    [] body.kind = "object" -> Response(SuccessOr(body, Is2xx(status)),
                                        Wrapped(CodeOr(body, status, {"integer", "fraction"})))
    [] OTHER -> Failure(status, FALSE)

-----------------------------------------------------------------------------
(* One attempt. A body that cannot be read to its end is no response; a       *)
(* status other than 2xx is a failure whose body only adds to the message.    *)

RustSend(a) ==
  IF a.status = NoStatus \/ a.body.kind \in {"torn", "oversized"} THEN Failure(NoStatus, TRUE)
  ELSE IF Is2xx(a.status) THEN RustParseResponse(a.status, a.body)
  ELSE Failure(a.status, RustIsRetryableStatus(a.status))

GoSend(a) ==
  IF a.status = NoStatus \/ a.body.kind = "torn" THEN Failure(NoStatus, TRUE)
  ELSE IF Is2xx(a.status) THEN GoParseResponse(a.status, a.body)
  ELSE Failure(a.status, GoIsRetryableStatus(a.status))

\* An IOException, which RetryExecutor retries, is Failure(NoStatus, TRUE).
JavaExecute(a) ==
  IF a.status = NoStatus \/ a.body.kind = "torn" THEN Failure(NoStatus, TRUE)
  ELSE IF Is2xx(a.status) THEN JavaParseResponse(a.status, a.body)
  ELSE Failure(a.status, JavaIsRetryableStatus(a.status))

\* So is a TransportError.
PythonExchange(a) ==
  IF a.status = NoStatus \/ a.body.kind = "torn" THEN Failure(NoStatus, TRUE)
  ELSE IF Is2xx(a.status) THEN PythonParseResponse(a.status, a.body)
  ELSE Failure(a.status, a.status \in PythonRetryableStatus)

\* With the fetch transport a torn body is read as an empty one, and the body of
\* any status that is not retried is parsed.
NodeAttempt(a) ==
  CASE a.status = NoStatus -> Failure(NoStatus, TRUE)
    [] NodeIsRetryableStatus(a.status) -> Failure(a.status, TRUE)
    [] OTHER -> NodeParseResponse(a.status, a.body)

\* SendAsync buffers the body and fails beyond MaxResponseContentBufferSize.
DotnetSendAsync(a) ==
  IF a.status = NoStatus \/ a.body.kind \in {"torn", "oversized"} THEN Failure(NoStatus, TRUE)
  ELSE IF Is2xx(a.status) THEN DotnetParseResponse(a.status, a.body)
  ELSE Failure(a.status, DotnetIsRetryableStatus(a.status))

\* Faulty: a body that breaks off is read as an empty one.
RubyExecute_TornIsBlank(a) ==
  IF a.status = NoStatus THEN Failure(NoStatus, TRUE)
  ELSE IF ~Is2xx(a.status) THEN Failure(a.status, RubyRetryableStatus(a.status))
  ELSE IF a.body.kind = "torn" THEN Response(TRUE, a.status)
  ELSE RubyParseResponse(a.status, a.body)

RubyExecute(a) ==
  IF a.status = NoStatus \/ a.body.kind = "torn" THEN Failure(NoStatus, TRUE)
  ELSE IF Is2xx(a.status) THEN RubyParseResponse(a.status, a.body)
  ELSE Failure(a.status, RubyRetryableStatus(a.status))

\* AppendBody aborts the transfer of an oversized body.
CppSend(a) ==
  IF a.status = NoStatus \/ a.body.kind \in {"torn", "oversized"} THEN Failure(NoStatus, TRUE)
  ELSE IF Is2xx(a.status) THEN CppParseResponse(a.status, a.body)
  ELSE Failure(a.status, CppIsRetryableStatus(a.status))

\* What one attempt of the SDK makes of answer a.
Attempted(sdk, a) ==
  CASE sdk = "rust" -> RustSend(a)    [] sdk = "go"     -> GoSend(a)
    [] sdk = "java" -> JavaExecute(a) [] sdk = "python" -> PythonExchange(a)
    [] sdk = "node" -> NodeAttempt(a) [] sdk = "dotnet" -> DotnetSendAsync(a)
    [] sdk = "ruby" -> RubyExecute(a) [] sdk = "cpp"    -> CppSend(a)

-----------------------------------------------------------------------------
(* The retry loop, after `retries' retries and another failed attempt: does it *)
(* wait for one more, and if not, what does it report?                         *)

RustRetries(failure, retries) == failure.retryable /\ retries < 5
GoRetries(failure, retries) == failure.retryable /\ retries < 5
JavaRetries(failure, retries) == failure.retryable /\ retries < 5
PythonRetries(failure, retries) == failure.retryable /\ retries < 5
NodeRetries(failure, retries) == failure.retryable /\ retries < 3
DotnetRetries(failure, retries) == failure.retryable /\ retries < 5
RubyRetries(failure, retries) == failure.retryable /\ retries < 5
\* Faulty: one retry more than there are delays.
CppRetries_OneMore(failure, retries) == failure.retryable /\ retries <= 5

CppRetries(failure, retries) == failure.retryable /\ retries < 5

Retries(sdk, failure, retries) ==
  CASE sdk = "rust" -> RustRetries(failure, retries)
    [] sdk = "go" -> GoRetries(failure, retries)
    [] sdk = "java" -> JavaRetries(failure, retries)
    [] sdk = "python" -> PythonRetries(failure, retries)
    [] sdk = "node" -> NodeRetries(failure, retries)
    [] sdk = "dotnet" -> DotnetRetries(failure, retries)
    [] sdk = "ruby" -> RubyRetries(failure, retries)
    [] sdk = "cpp" -> CppRetries(failure, retries)

\* The IOException or TransportError that is left becomes an IncidentException
\* which is not retryable.
JavaGivesUp(failure) == IF failure.code = NoStatus THEN Failure(NoStatus, FALSE) ELSE failure
PythonGivesUp(failure) == IF failure.code = NoStatus THEN Failure(NoStatus, FALSE) ELSE failure

\* deliver answers a failure with a response that is not successful.
NodeGivesUp(failure) == Response(FALSE, failure.code)

Reported(sdk, result) ==
  IF result.response THEN result
  ELSE CASE sdk = "java" -> JavaGivesUp(result)
         [] sdk = "python" -> PythonGivesUp(result)
         [] sdk = "node" -> NodeGivesUp(result)
         [] OTHER -> result
=============================================================================
