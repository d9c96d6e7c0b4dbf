------------------------- MODULE IncidentPathProofs -------------------------
(***************************************************************************)
(* Proofs about an incident on its way through any of the eight SDKs, for  *)
(* all calls and all answers an exchange can yield.                        *)
(***************************************************************************)
EXTENDS IncidentPath, TLAPS

-----------------------------------------------------------------------------
(* The inductive invariant *)

Over == {"done", "interrupted"}

\* How far the delivery is: the attempts stay within the schedule, and there is an answer
\* as soon as there has been an attempt.
ProgressInv ==
  /\ call \in Calls
  /\ attempts \in Nat
  /\ phase \in {"called", "refused", "sending", "waiting"} \cup Over
  /\ phase \in {"called", "refused"} => attempts = 0
  /\ phase \in {"sending", "waiting", "interrupted"} => attempts <= ContractRetries(call.sdk)
  /\ attempts <= ContractRetries(call.sdk) + 1
  /\ phase \in {"waiting"} \cup Over => IsAnswer(answer)

\* What the caller is told is what the SDK makes of the last answer.
ReportInv == phase = "done" => result = Reported(call.sdk, Attempted(call.sdk, answer))

\* The loop ends when the answer is not worth another attempt or the schedule is over.
LoopInv ==
  LET r == Attempted(call.sdk, answer)
  IN /\ phase = "done" => r.response \/ ~Retries(call.sdk, r, attempts - 1)
     /\ phase \in {"waiting", "interrupted"} => ~r.response /\ r.retryable

PathInv == ProgressInv /\ ReportInv /\ LoopInv

-----------------------------------------------------------------------------
(* What an SDK makes of the body of a 2xx answer *)

\* The code that the contract reads in an object.
Code(a) == IF a.body.code.form = "integer" THEN a.body.code.n ELSE a.status

HasMembers(a) == a.body.kind \in {"object", "trailing", "oversized"}

\* What a parser may answer: a malformed body is a failure, a blank one (in Go also a
\* null) takes the verdict of the status, and `success' decides when there is one.
Parsed(p, a) ==
  \/ ~Readable(a) /\ \E code : p = Failure(code, FALSE)
  \/ a.body.kind \in {"blank", "null"} /\ p = Response(TRUE, a.status)
  \/ /\ HasMembers(a) /\ a.body.success # "false"
     /\ \E code : p = Response(TRUE, code) /\ (Readable(a) => code = Code(a))
  \/ /\ HasMembers(a) /\ a.body.success = "false"
     /\ \E code : p = Response(FALSE, code) /\ (Readable(a) => code = Code(a))

LEMMA MembersParsed ==
  ASSUME NEW a, NEW p, NEW code, HasMembers(a), Is2xx(a.status),
         p = Response(SuccessOr(a.body, Is2xx(a.status)), code),
         Readable(a) => code = Code(a)
  PROVE  Parsed(p, a)
  <1>1. CASE a.body.success = "false"
    <2>1. SuccessOr(a.body, Is2xx(a.status)) = FALSE
      BY <1>1 DEF SuccessOr
    <2>2. p = Response(FALSE, code)
      BY <2>1, Zenon
    <2>3. QED
      BY <1>1, <2>2 DEF Parsed
  <1>2. CASE a.body.success # "false"
    <2>1. Is2xx(a.status) = TRUE
      BY DEF Is2xx
    <2>2. SuccessOr(a.body, TRUE) = TRUE
      BY <1>2 DEF SuccessOr
    <2>3. p = Response(TRUE, code)
      BY <2>1, <2>2, Zenon
    <2>4. QED
      BY <1>2, <2>3 DEF Parsed
  <1>3. QED
    BY <1>1, <1>2

LEMMA BlankParsed ==
  ASSUME NEW a, NEW p, a.body.kind = "blank" \/ a.body.kind = "null", Is2xx(a.status),
         p = Response(Is2xx(a.status), a.status)
  PROVE  Parsed(p, a)
  <1>1. Is2xx(a.status) = TRUE
    BY DEF Is2xx
  <1>2. p = Response(TRUE, a.status)
    BY <1>1, Zenon
  <1>3. QED
    BY <1>2 DEF Parsed

LEMMA MalformedParsed ==
  ASSUME NEW a, NEW p, NEW code, ~Readable(a), p = Failure(code, FALSE)
  PROVE  Parsed(p, a)
  BY DEF Parsed

\* A 2xx status is a number of 32 bits, and a readable 2xx answer is blank or an object.
LEMMA ReadableFacts ==
  ASSUME NEW a, IsAnswer(a), Is2xx(a.status)
  PROVE  /\ a.status \in Int /\ a.status # NoStatus /\ Fits(a.status)
         /\ Readable(a) /\ a.body.kind # "blank" =>
              /\ a.body.kind = "object"
              /\ a.body.success # "other"
              /\ a.body.code.form \in {"absent", "integer"}
              /\ Fits(a.body.code.n)
  <1>1. a.status \in Int /\ a.status # NoStatus /\ a.status <= 599 /\ a.status >= 100
    BY DEF IsAnswer, Is2xx, NoStatus
  <1>2. Fits(a.status)
    BY <1>1, IntMaxAssumption DEF Fits
  <1>3. QED
    BY <1>1, <1>2 DEF Readable

LEMMA RustParses ==
  ASSUME NEW a, IsAnswer(a), Is2xx(a.status)
  PROVE  Parsed(RustParseResponse(a.status, a.body), a)
  <1> DEFINE code == CodeOr(a.body, a.status, {"integer"})
             kept == IF Fits(code) THEN code ELSE a.status
  <1>1. CASE a.body.kind = "blank"
    <2>1. RustParseResponse(a.status, a.body) = Response(Is2xx(a.status), a.status)
      BY <1>1 DEF RustParseResponse
    <2>2. QED
      BY <1>1, <2>1, BlankParsed
  <1>2. CASE a.body.kind = "object"
    <2>1. RustParseResponse(a.status, a.body) = Response(SuccessOr(a.body, Is2xx(a.status)), kept)
      BY <1>2 DEF RustParseResponse
    <2>2. Readable(a) => kept = Code(a)
      BY <1>2, ReadableFacts DEF Code, CodeOr
    <2>3. HasMembers(a)
      BY <1>2 DEF HasMembers
    <2>4. QED
      BY <2>1, <2>2, <2>3, MembersParsed
  <1>3. CASE a.body.kind \notin {"blank", "object"}
    <2>1. RustParseResponse(a.status, a.body) = Failure(a.status, FALSE)
      BY <1>3 DEF RustParseResponse
    <2>2. ~Readable(a)
      BY <1>3, ReadableFacts
    <2>3. QED
      BY <2>1, <2>2, MalformedParsed
  <1>4. QED
    BY <1>1, <1>2, <1>3

LEMMA DotnetParses ==
  ASSUME NEW a, IsAnswer(a), Is2xx(a.status)
  PROVE  Parsed(DotnetParseResponse(a.status, a.body), a)
  <1>1. DotnetParseResponse(a.status, a.body) = RustParseResponse(a.status, a.body)
    BY DEF DotnetParseResponse, RustParseResponse
  <1>2. QED
    BY <1>1, RustParses

LEMMA GoParses ==
  ASSUME NEW a, IsAnswer(a), Is2xx(a.status)
  PROVE  Parsed(GoParseResponse(a.status, a.body), a)
  <1> DEFINE code == CodeOr(a.body, a.status, {"integer"})
             Typed == a.body.success # "other" /\ a.body.code.form \in {"absent", "integer"}
  <1>1. CASE a.body.kind \in {"blank", "null"}
    <2>1. GoParseResponse(a.status, a.body) = Response(Is2xx(a.status), a.status)
      BY <1>1 DEF GoParseResponse
    <2>2. QED
      BY <1>1, <2>1, BlankParsed
  <1>2. CASE a.body.kind = "object" /\ Typed
    <2>1. GoParseResponse(a.status, a.body) = Response(SuccessOr(a.body, Is2xx(a.status)), code)
      BY <1>2 DEF GoParseResponse
    <2>2. Readable(a) => code = Code(a)
      BY <1>2 DEF Code, CodeOr
    <2>3. HasMembers(a)
      BY <1>2 DEF HasMembers
    <2>4. QED
      BY <2>1, <2>2, <2>3, MembersParsed
  <1>3. CASE a.body.kind \notin {"blank", "null"} /\ ~(a.body.kind = "object" /\ Typed)
    <2>1. GoParseResponse(a.status, a.body) = Failure(a.status, FALSE)
      BY <1>3 DEF GoParseResponse
    <2>2. ~Readable(a)
      BY <1>3, ReadableFacts
    <2>3. QED
      BY <2>1, <2>2, MalformedParsed
  <1>4. QED
    BY <1>1, <1>2, <1>3

LEMMA JavaParses ==
  ASSUME NEW a, IsAnswer(a), Is2xx(a.status)
  PROVE  Parsed(JavaParseResponse(a.status, a.body), a)
  <1> DEFINE code == CodeOr(a.body, a.status, {"integer", "fraction"})
  <1>1. CASE a.body.kind = "blank"
    <2>1. JavaParseResponse(a.status, a.body) = Response(Is2xx(a.status), a.status)
      BY <1>1 DEF JavaParseResponse
    <2>2. QED
      BY <1>1, <2>1, BlankParsed
  <1>2. CASE HasMembers(a) /\ Fits(code)
    <2>1. JavaParseResponse(a.status, a.body) = Response(SuccessOr(a.body, Is2xx(a.status)), code)
      BY <1>2 DEF JavaParseResponse, HasMembers
    <2>2. Readable(a) => code = Code(a)
      BY <1>2, ReadableFacts DEF Code, CodeOr, HasMembers
    <2>3. QED
      BY <1>2, <2>1, <2>2, MembersParsed
  <1>3. CASE a.body.kind # "blank" /\ ~(HasMembers(a) /\ Fits(code))
    <2>1. JavaParseResponse(a.status, a.body) = Failure(NoStatus, FALSE)
      BY <1>3 DEF JavaParseResponse, HasMembers
    <2>2. ~Readable(a)
      BY <1>3, ReadableFacts DEF CodeOr, HasMembers
    <2>3. QED
      BY <2>1, <2>2, MalformedParsed
  <1>4. QED
    BY <1>1, <1>2, <1>3

LEMMA PythonParses ==
  ASSUME NEW a, IsAnswer(a), Is2xx(a.status)
  PROVE  Parsed(PythonParseResponse(a.status, a.body), a)
  <1> DEFINE code == CodeOr(a.body, a.status, {"integer", "fraction"})
  <1>1. CASE a.body.kind = "blank"
    <2>1. PythonParseResponse(a.status, a.body) = Response(Is2xx(a.status), a.status)
      BY <1>1 DEF PythonParseResponse
    <2>2. QED
      BY <1>1, <2>1, BlankParsed
  <1>2. CASE a.body.kind \in {"object", "oversized"}
    <2>1. PythonParseResponse(a.status, a.body) = Response(SuccessOr(a.body, Is2xx(a.status)), code)
      BY <1>2 DEF PythonParseResponse
    <2>2. Readable(a) => code = Code(a)
      BY <1>2, ReadableFacts DEF Code, CodeOr
    <2>3. HasMembers(a)
      BY <1>2 DEF HasMembers
    <2>4. QED
      BY <2>1, <2>2, <2>3, MembersParsed
  <1>3. CASE a.body.kind \notin {"blank", "object", "oversized"}
    <2>1. PythonParseResponse(a.status, a.body) = Failure(NoStatus, FALSE)
      BY <1>3 DEF PythonParseResponse
    <2>2. ~Readable(a)
      BY <1>3, ReadableFacts
    <2>3. QED
      BY <2>1, <2>2, MalformedParsed
  <1>4. QED
    BY <1>1, <1>2, <1>3

LEMMA RubyParses ==
  ASSUME NEW a, IsAnswer(a), Is2xx(a.status)
  PROVE  Parsed(RubyParseResponse(a.status, a.body), a)
  <1> DEFINE code == CodeOr(a.body, a.status, {"integer"})
  <1>1. CASE a.body.kind = "blank"
    <2>1. RubyParseResponse(a.status, a.body) = Response(Is2xx(a.status), a.status)
      BY <1>1 DEF RubyParseResponse
    <2>2. QED
      BY <1>1, <2>1, BlankParsed
  <1>2. CASE a.body.kind = "object"
    <2>1. RubyParseResponse(a.status, a.body) = Response(SuccessOr(a.body, Is2xx(a.status)), code)
      BY <1>2 DEF RubyParseResponse
    <2>2. Readable(a) => code = Code(a)
      BY <1>2 DEF Code, CodeOr
    <2>3. HasMembers(a)
      BY <1>2 DEF HasMembers
    <2>4. QED
      BY <2>1, <2>2, <2>3, MembersParsed
  <1>3. CASE a.body.kind \notin {"blank", "object"}
    <2>1. RubyParseResponse(a.status, a.body) = Failure(a.status, FALSE)
      BY <1>3 DEF RubyParseResponse
    <2>2. ~Readable(a)
      BY <1>3, ReadableFacts
    <2>3. QED
      BY <2>1, <2>2, MalformedParsed
  <1>4. QED
    BY <1>1, <1>2, <1>3

\* The cast to 32 bits keeps what fits.
LEMMA WrappedFits ==
  ASSUME NEW n \in Int, Fits(n)
  PROVE  Wrapped(n) = n
  <1> DEFINE half == IntMax + 1
             m == n + IntMax + 1
  <1>1. half \in Nat /\ half > 0 /\ m \in Int /\ 0 <= m /\ m < 2 * half
    BY IntMaxAssumption DEF Fits
  <1>2. m % (2 * half) = m
    <2> HIDE DEF m, half
    <2>1. QED
      BY <1>1
  <1>3. QED
    BY <1>1, <1>2, IntMaxAssumption DEF Wrapped

LEMMA CppParses ==
  ASSUME NEW a, IsAnswer(a), Is2xx(a.status)
  PROVE  Parsed(CppParseResponse(a.status, a.body), a)
  <1> DEFINE code == CodeOr(a.body, a.status, {"integer", "fraction"})
  <1>1. CASE a.body.kind = "blank"
    <2>1. CppParseResponse(a.status, a.body) = Response(Is2xx(a.status), a.status)
      BY <1>1 DEF CppParseResponse
    <2>2. QED
      BY <1>1, <2>1, BlankParsed
  <1>2. CASE a.body.kind = "object"
    <2>1. CppParseResponse(a.status, a.body) = Response(SuccessOr(a.body, Is2xx(a.status)), Wrapped(code))
      BY <1>2 DEF CppParseResponse
    <2>2. ASSUME Readable(a) PROVE Wrapped(code) = Code(a)
      <3>1. code = Code(a)
        BY <1>2, <2>2, ReadableFacts DEF Code, CodeOr
      <3>2. Code(a) \in Int /\ Fits(Code(a))
        BY <1>2, <2>2, ReadableFacts DEF Code, IsAnswer
      <3>3. QED
        BY <3>1, <3>2, WrappedFits
    <2>3. HasMembers(a)
      BY <1>2 DEF HasMembers
    <2>4. QED
      BY <2>1, <2>2, <2>3, MembersParsed
  <1>3. CASE a.body.kind \notin {"blank", "object"}
    <2>1. CppParseResponse(a.status, a.body) = Failure(a.status, FALSE)
      BY <1>3 DEF CppParseResponse
    <2>2. ~Readable(a)
      BY <1>3, ReadableFacts
    <2>3. QED
      BY <2>1, <2>2, MalformedParsed
  <1>4. QED
    BY <1>1, <1>2, <1>3

-----------------------------------------------------------------------------
(* What an SDK makes of an answer *)

RetriedStatuses == {429, 500, 502, 503, 504}

\* The bodies that an SDK cannot read to their end.
Unread(sdk) == IF sdk \in {"rust", "dotnet", "cpp"} THEN {"torn", "oversized"} ELSE {"torn"}

\* What an attempt of any SDK but Node may come to.
Shape(sdk, r, a) ==
  \/ /\ a.status = NoStatus \/ a.body.kind \in Unread(sdk)
     /\ r = Failure(NoStatus, TRUE)
  \/ /\ a.status # NoStatus /\ a.body.kind # "torn" /\ ~Is2xx(a.status)
     /\ r = Failure(a.status, a.status \in RetriedStatuses)
  \/ /\ a.body.kind # "torn" /\ Is2xx(a.status)
     /\ Parsed(r, a)

LEMMA RustSends == ASSUME NEW a, IsAnswer(a) PROVE Shape("rust", RustSend(a), a)
  <1> DEFINE Lost == a.status = NoStatus \/ a.body.kind \in {"torn", "oversized"}
  <1>1. CASE Lost
    <2>1. RustSend(a) = Failure(NoStatus, TRUE)
      BY <1>1 DEF RustSend
    <2>2. QED
      BY <1>1, <2>1 DEF Shape, Unread
  <1>2. CASE ~Lost /\ Is2xx(a.status)
    <2>1. RustSend(a) = RustParseResponse(a.status, a.body)
      BY <1>2 DEF RustSend
    <2>2. Parsed(RustSend(a), a)
      BY <1>2, <2>1, RustParses
    <2>3. QED
      BY <1>2, <2>2 DEF Shape
  <1>3. CASE ~Lost /\ ~Is2xx(a.status)
    <2>1. RustSend(a) = Failure(a.status, RustIsRetryableStatus(a.status))
      BY <1>3 DEF RustSend
    <2>2. RustIsRetryableStatus(a.status) = (a.status \in RetriedStatuses)
      BY DEF RustIsRetryableStatus, RetriedStatuses
    <2>3. RustSend(a) = Failure(a.status, a.status \in RetriedStatuses)
      BY <2>1, <2>2, Zenon
    <2>4. QED
      BY <1>3, <2>3 DEF Shape
  <1>4. QED
    BY <1>1, <1>2, <1>3

LEMMA GoSends == ASSUME NEW a, IsAnswer(a) PROVE Shape("go", GoSend(a), a)
  <1> DEFINE Lost == a.status = NoStatus \/ a.body.kind = "torn"
  <1>1. CASE Lost
    <2>1. GoSend(a) = Failure(NoStatus, TRUE)
      BY <1>1 DEF GoSend
    <2>2. QED
      BY <1>1, <2>1 DEF Shape, Unread
  <1>2. CASE ~Lost /\ Is2xx(a.status)
    <2>1. GoSend(a) = GoParseResponse(a.status, a.body)
      BY <1>2 DEF GoSend
    <2>2. Parsed(GoSend(a), a)
      BY <1>2, <2>1, GoParses
    <2>3. QED
      BY <1>2, <2>2 DEF Shape
  <1>3. CASE ~Lost /\ ~Is2xx(a.status)
    <2>1. GoSend(a) = Failure(a.status, GoIsRetryableStatus(a.status))
      BY <1>3 DEF GoSend
    <2>2. GoIsRetryableStatus(a.status) = (a.status \in RetriedStatuses)
      BY DEF GoIsRetryableStatus, RetriedStatuses
    <2>3. GoSend(a) = Failure(a.status, a.status \in RetriedStatuses)
      BY <2>1, <2>2, Zenon
    <2>4. QED
      BY <1>3, <2>3 DEF Shape
  <1>4. QED
    BY <1>1, <1>2, <1>3

LEMMA JavaSends == ASSUME NEW a, IsAnswer(a) PROVE Shape("java", JavaExecute(a), a)
  <1> DEFINE Lost == a.status = NoStatus \/ a.body.kind = "torn"
  <1>1. CASE Lost
    <2>1. JavaExecute(a) = Failure(NoStatus, TRUE)
      BY <1>1 DEF JavaExecute
    <2>2. QED
      BY <1>1, <2>1 DEF Shape, Unread
  <1>2. CASE ~Lost /\ Is2xx(a.status)
    <2>1. JavaExecute(a) = JavaParseResponse(a.status, a.body)
      BY <1>2 DEF JavaExecute
    <2>2. Parsed(JavaExecute(a), a)
      BY <1>2, <2>1, JavaParses
    <2>3. QED
      BY <1>2, <2>2 DEF Shape
  <1>3. CASE ~Lost /\ ~Is2xx(a.status)
    <2>1. JavaExecute(a) = Failure(a.status, JavaIsRetryableStatus(a.status))
      BY <1>3 DEF JavaExecute
    <2>2. JavaIsRetryableStatus(a.status) = (a.status \in RetriedStatuses)
      BY DEF JavaIsRetryableStatus, RetriedStatuses
    <2>3. JavaExecute(a) = Failure(a.status, a.status \in RetriedStatuses)
      BY <2>1, <2>2, Zenon
    <2>4. QED
      BY <1>3, <2>3 DEF Shape
  <1>4. QED
    BY <1>1, <1>2, <1>3

LEMMA PythonSends == ASSUME NEW a, IsAnswer(a) PROVE Shape("python", PythonExchange(a), a)
  <1> DEFINE Lost == a.status = NoStatus \/ a.body.kind = "torn"
  <1>1. CASE Lost
    <2>1. PythonExchange(a) = Failure(NoStatus, TRUE)
      BY <1>1 DEF PythonExchange
    <2>2. QED
      BY <1>1, <2>1 DEF Shape, Unread
  <1>2. CASE ~Lost /\ Is2xx(a.status)
    <2>1. PythonExchange(a) = PythonParseResponse(a.status, a.body)
      BY <1>2 DEF PythonExchange
    <2>2. Parsed(PythonExchange(a), a)
      BY <1>2, <2>1, PythonParses
    <2>3. QED
      BY <1>2, <2>2 DEF Shape
  <1>3. CASE ~Lost /\ ~Is2xx(a.status)
    <2>1. PythonExchange(a) = Failure(a.status, a.status \in PythonRetryableStatus)
      BY <1>3 DEF PythonExchange
    <2>2. (a.status \in PythonRetryableStatus) = (a.status \in RetriedStatuses)
      BY DEF PythonRetryableStatus, RetriedStatuses
    <2>3. PythonExchange(a) = Failure(a.status, a.status \in RetriedStatuses)
      BY <2>1, <2>2, Zenon
    <2>4. QED
      BY <1>3, <2>3 DEF Shape
  <1>4. QED
    BY <1>1, <1>2, <1>3

LEMMA DotnetSends == ASSUME NEW a, IsAnswer(a) PROVE Shape("dotnet", DotnetSendAsync(a), a)
  <1> DEFINE Lost == a.status = NoStatus \/ a.body.kind \in {"torn", "oversized"}
  <1>1. CASE Lost
    <2>1. DotnetSendAsync(a) = Failure(NoStatus, TRUE)
      BY <1>1 DEF DotnetSendAsync
    <2>2. QED
      BY <1>1, <2>1 DEF Shape, Unread
  <1>2. CASE ~Lost /\ Is2xx(a.status)
    <2>1. DotnetSendAsync(a) = DotnetParseResponse(a.status, a.body)
      BY <1>2 DEF DotnetSendAsync
    <2>2. Parsed(DotnetSendAsync(a), a)
      BY <1>2, <2>1, DotnetParses
    <2>3. QED
      BY <1>2, <2>2 DEF Shape
  <1>3. CASE ~Lost /\ ~Is2xx(a.status)
    <2>1. DotnetSendAsync(a) = Failure(a.status, DotnetIsRetryableStatus(a.status))
      BY <1>3 DEF DotnetSendAsync
    <2>2. DotnetIsRetryableStatus(a.status) = (a.status \in RetriedStatuses)
      BY DEF DotnetIsRetryableStatus, RetriedStatuses
    <2>3. DotnetSendAsync(a) = Failure(a.status, a.status \in RetriedStatuses)
      BY <2>1, <2>2, Zenon
    <2>4. QED
      BY <1>3, <2>3 DEF Shape
  <1>4. QED
    BY <1>1, <1>2, <1>3

LEMMA RubySends == ASSUME NEW a, IsAnswer(a) PROVE Shape("ruby", RubyExecute(a), a)
  <1> DEFINE Lost == a.status = NoStatus \/ a.body.kind = "torn"
  <1>1. CASE Lost
    <2>1. RubyExecute(a) = Failure(NoStatus, TRUE)
      BY <1>1 DEF RubyExecute
    <2>2. QED
      BY <1>1, <2>1 DEF Shape, Unread
  <1>2. CASE ~Lost /\ Is2xx(a.status)
    <2>1. RubyExecute(a) = RubyParseResponse(a.status, a.body)
      BY <1>2 DEF RubyExecute
    <2>2. Parsed(RubyExecute(a), a)
      BY <1>2, <2>1, RubyParses
    <2>3. QED
      BY <1>2, <2>2 DEF Shape
  <1>3. CASE ~Lost /\ ~Is2xx(a.status)
    <2>1. RubyExecute(a) = Failure(a.status, RubyRetryableStatus(a.status))
      BY <1>3 DEF RubyExecute
    <2>2. RubyRetryableStatus(a.status) = (a.status \in RetriedStatuses)
      BY DEF RubyRetryableStatus, RetriedStatuses
    <2>3. RubyExecute(a) = Failure(a.status, a.status \in RetriedStatuses)
      BY <2>1, <2>2, Zenon
    <2>4. QED
      BY <1>3, <2>3 DEF Shape
  <1>4. QED
    BY <1>1, <1>2, <1>3

LEMMA CppSends == ASSUME NEW a, IsAnswer(a) PROVE Shape("cpp", CppSend(a), a)
  <1> DEFINE Lost == a.status = NoStatus \/ a.body.kind \in {"torn", "oversized"}
  <1>1. CASE Lost
    <2>1. CppSend(a) = Failure(NoStatus, TRUE)
      BY <1>1 DEF CppSend
    <2>2. QED
      BY <1>1, <2>1 DEF Shape, Unread
  <1>2. CASE ~Lost /\ Is2xx(a.status)
    <2>1. CppSend(a) = CppParseResponse(a.status, a.body)
      BY <1>2 DEF CppSend
    <2>2. Parsed(CppSend(a), a)
      BY <1>2, <2>1, CppParses
    <2>3. QED
      BY <1>2, <2>2 DEF Shape
  <1>3. CASE ~Lost /\ ~Is2xx(a.status)
    <2>1. CppSend(a) = Failure(a.status, CppIsRetryableStatus(a.status))
      BY <1>3 DEF CppSend
    <2>2. CppIsRetryableStatus(a.status) = (a.status \in RetriedStatuses)
      BY DEF CppIsRetryableStatus, RetriedStatuses
    <2>3. CppSend(a) = Failure(a.status, a.status \in RetriedStatuses)
      BY <2>1, <2>2, Zenon
    <2>4. QED
      BY <1>3, <2>3 DEF Shape
  <1>4. QED
    BY <1>1, <1>2, <1>3

\* What the properties need to know of the attempt: a response that claims success is
\* a 2xx answer that was read to its end and does not say otherwise, and an answer that
\* every SDK reads alike is reported as the contract has it; what is retried is what the
\* contract retries, save where they differ.
Honest(r, a) ==
  r.response /\ r.successful => Is2xx(a.status) /\ a.body.kind # "torn" /\ a.body.success # "false"

RetriedAlike(sdk, r, a) == ~RetriesDiffer(sdk, a) => (ContractRetryable(a) <=> ~r.response /\ r.retryable)

ReadAlike(r, a) ==
  Readable(a) => /\ r.response = ContractVerdict(a).response
                 /\ r.successful = ContractVerdict(a).successful
                 /\ r.code = ContractVerdict(a).code

\* The fields of the contract's verdict.
LEMMA VerdictFields ==
  ASSUME NEW a, IsAnswer(a)
  PROVE  /\ Is2xx(a.status) /\ a.body.kind = "blank" =>
              /\ ContractVerdict(a).response = TRUE
              /\ ContractVerdict(a).successful = TRUE
              /\ ContractVerdict(a).code = a.status
         /\ Is2xx(a.status) /\ a.body.kind = "object" /\ a.body.success \in {"absent", "true"} =>
              /\ ContractVerdict(a).response = TRUE
              /\ ContractVerdict(a).successful = TRUE
              /\ ContractVerdict(a).code = Code(a)
         /\ Is2xx(a.status) /\ a.body.kind = "object" /\ a.body.success = "false" =>
              /\ ContractVerdict(a).response = TRUE
              /\ ContractVerdict(a).successful = FALSE
              /\ ContractVerdict(a).code = Code(a)
         /\ ~Is2xx(a.status) =>
              /\ ContractVerdict(a).response = FALSE
              /\ ContractVerdict(a).successful = FALSE
              /\ ContractVerdict(a).code = a.status
  <1>1. ASSUME Is2xx(a.status)
        PROVE  a.status # NoStatus /\ a.status \in 200 .. 299
    BY <1>1 DEF IsAnswer, Is2xx, NoStatus
  <1>2. ASSUME ~Is2xx(a.status)
        PROVE  ~(a.status # NoStatus /\ a.status \in 200 .. 299)
    BY <1>2 DEF IsAnswer, Is2xx, NoStatus
  <1>3. ASSUME Is2xx(a.status), a.body.kind = "blank"
        PROVE  /\ ContractVerdict(a).response = TRUE
               /\ ContractVerdict(a).successful = TRUE
               /\ ContractVerdict(a).code = a.status
    BY <1>1, <1>3 DEF ContractVerdict
  <1>4. ASSUME Is2xx(a.status), a.body.kind = "object", a.body.success \in {"absent", "true"}
        PROVE  /\ ContractVerdict(a).response = TRUE
               /\ ContractVerdict(a).successful = TRUE
               /\ ContractVerdict(a).code = Code(a)
    BY <1>1, <1>4 DEF ContractVerdict, Code
  <1>5. ASSUME Is2xx(a.status), a.body.kind = "object", a.body.success = "false"
        PROVE  /\ ContractVerdict(a).response = TRUE
               /\ ContractVerdict(a).successful = FALSE
               /\ ContractVerdict(a).code = Code(a)
    BY <1>1, <1>5 DEF ContractVerdict, Code
  <1>6. ASSUME ~Is2xx(a.status)
        PROVE  /\ ContractVerdict(a).response = FALSE
               /\ ContractVerdict(a).successful = FALSE
               /\ ContractVerdict(a).code = a.status
    BY <1>2, <1>6 DEF ContractVerdict
  <1>7. QED
    BY <1>3, <1>4, <1>5, <1>6

\* A 2xx status is not retried.
LEMMA StatusFacts ==
  ASSUME NEW a, IsAnswer(a)
  PROVE  /\ Is2xx(a.status) => a.status # NoStatus /\ a.status \notin RetriedStatuses
         /\ ContractRetryable(a) <=> a.status = NoStatus \/ a.body.kind = "torn" \/ a.status \in RetriedStatuses
         /\ Readable(a) /\ a.body.kind \in {"torn", "oversized"} => a.status = NoStatus
  BY DEF IsAnswer, Is2xx, NoStatus, RetriedStatuses, ContractRetryable, Readable

\* Where a retry loop differs from the contract.
LEMMA DifferFacts ==
  ASSUME NEW sdk, NEW a
  PROVE  RetriesDiffer(sdk, a) <=>
           /\ a.status # NoStatus /\ a.status \notin RetriedStatuses
           /\ \/ sdk = "node" /\ a.body.kind = "torn"
              \/ sdk \in {"rust", "dotnet", "cpp"} /\ a.body.kind = "oversized"
  BY DEF RetriesDiffer, RetriedStatuses

LEMMA ShapeFacts ==
  ASSUME NEW sdk, NEW a, IsAnswer(a), NEW r, Shape(sdk, r, a)
  PROVE  Honest(r, a) /\ RetriedAlike(sdk, r, a) /\ ReadAlike(r, a)
  <1>1. CASE /\ a.status = NoStatus \/ a.body.kind \in Unread(sdk)
             /\ r = Failure(NoStatus, TRUE)
    <2>1. r.response = FALSE /\ r.successful = FALSE /\ r.code = NoStatus /\ r.retryable = TRUE
      BY <1>1 DEF Failure
    <2>2. Honest(r, a)
      BY <2>1 DEF Honest
    <2>3. RetriedAlike(sdk, r, a)
      BY <1>1, <2>1, StatusFacts, DifferFacts DEF RetriedAlike, Unread
    <2>4. ReadAlike(r, a)
      BY <1>1, <2>1, StatusFacts, VerdictFields DEF ReadAlike, Unread
    <2>5. QED
      BY <2>2, <2>3, <2>4
  <1>2. CASE /\ a.status # NoStatus /\ a.body.kind # "torn" /\ ~Is2xx(a.status)
             /\ r = Failure(a.status, a.status \in RetriedStatuses)
    <2>1. /\ r.response = FALSE /\ r.successful = FALSE /\ r.code = a.status
          /\ r.retryable = (a.status \in RetriedStatuses)
      BY <1>2 DEF Failure
    <2>2. Honest(r, a)
      BY <2>1 DEF Honest
    <2>3. RetriedAlike(sdk, r, a)
      BY <1>2, <2>1, StatusFacts DEF RetriedAlike
    <2>4. ReadAlike(r, a)
      BY <1>2, <2>1, VerdictFields DEF ReadAlike
    <2>5. QED
      BY <2>2, <2>3, <2>4
  <1>3. CASE a.body.kind # "torn" /\ Is2xx(a.status) /\ Parsed(r, a)
    <2>1. ~ContractRetryable(a)
      BY <1>3, StatusFacts
    <2>2. CASE ~Readable(a) /\ \E code : r = Failure(code, FALSE)
      <3>1. r.response = FALSE /\ r.retryable = FALSE
        BY <2>2 DEF Failure
      <3>2. QED
        BY <2>1, <2>2, <3>1 DEF Honest, RetriedAlike, ReadAlike
    <2>3. CASE a.body.kind \in {"blank", "null"} /\ r = Response(TRUE, a.status)
      <3>1. r.response = TRUE /\ r.successful = TRUE /\ r.code = a.status
        BY <2>3 DEF Response
      <3>2. Honest(r, a)
        BY <1>3, <2>3 DEF Honest, IsAnswer
      <3>3. RetriedAlike(sdk, r, a)
        BY <2>1, <3>1 DEF RetriedAlike
      <3>4. ReadAlike(r, a)
        BY <1>3, <2>3, <3>1, ReadableFacts, VerdictFields DEF ReadAlike
      <3>5. QED
        BY <3>2, <3>3, <3>4
    <2>4. CASE /\ HasMembers(a) /\ a.body.success # "false"
               /\ \E code : r = Response(TRUE, code) /\ (Readable(a) => code = Code(a))
      <3>1. PICK code : r = Response(TRUE, code) /\ (Readable(a) => code = Code(a))
        BY <2>4
      <3>2. r.response = TRUE /\ r.successful = TRUE /\ r.code = code
        BY <3>1 DEF Response
      <3>3. Honest(r, a)
        BY <1>3, <2>4 DEF Honest
      <3>4. RetriedAlike(sdk, r, a)
        BY <2>1, <3>2 DEF RetriedAlike
      <3>5. ReadAlike(r, a)
        <4>1. SUFFICES ASSUME Readable(a)
                       PROVE  /\ r.response = ContractVerdict(a).response
                              /\ r.successful = ContractVerdict(a).successful
                              /\ r.code = ContractVerdict(a).code
          BY DEF ReadAlike
        <4>2. a.body.kind = "object" /\ a.body.success \in {"absent", "true"}
          BY <1>3, <2>4, <4>1, ReadableFacts DEF HasMembers, IsAnswer
        <4>3. QED
          BY <1>3, <3>1, <3>2, <4>1, <4>2, VerdictFields
      <3>6. QED
        BY <3>3, <3>4, <3>5
    <2>5. CASE /\ HasMembers(a) /\ a.body.success = "false"
               /\ \E code : r = Response(FALSE, code) /\ (Readable(a) => code = Code(a))
      <3>1. PICK code : r = Response(FALSE, code) /\ (Readable(a) => code = Code(a))
        BY <2>5
      <3>2. r.response = TRUE /\ r.successful = FALSE /\ r.code = code
        BY <3>1 DEF Response
      <3>3. Honest(r, a)
        BY <3>2 DEF Honest
      <3>4. RetriedAlike(sdk, r, a)
        BY <2>1, <3>2 DEF RetriedAlike
      <3>5. ReadAlike(r, a)
        <4>1. SUFFICES ASSUME Readable(a)
                       PROVE  /\ r.response = ContractVerdict(a).response
                              /\ r.successful = ContractVerdict(a).successful
                              /\ r.code = ContractVerdict(a).code
          BY DEF ReadAlike
        <4>2. a.body.kind = "object"
          BY <1>3, <2>5, <4>1, ReadableFacts DEF HasMembers
        <4>3. QED
          BY <1>3, <2>5, <3>1, <3>2, <4>1, <4>2, VerdictFields
      <3>6. QED
        BY <3>3, <3>4, <3>5
    <2>6. QED
      BY <1>3, <2>2, <2>3, <2>4, <2>5 DEF Parsed
  <1>4. QED
    BY <1>1, <1>2, <1>3 DEF Shape

\* What an attempt of Node may come to.
NodeShape(r, a) ==
  \/ a.status = NoStatus /\ r = Failure(NoStatus, TRUE)
  \/ a.status # NoStatus /\ a.status \in RetriedStatuses /\ r = Failure(a.status, TRUE)
  \/ /\ a.status # NoStatus /\ a.status \notin RetriedStatuses
     /\ \/ \E code : /\ r = Response(SuccessOr(a.body, Is2xx(a.status)), code)
                     /\ Readable(a) => a.body.kind = "object" /\ code = Code(a)
        \/ /\ Readable(a) => a.body.kind = "blank"
           /\ r = Response(Is2xx(a.status), a.status)

LEMMA NodeSends == ASSUME NEW a, IsAnswer(a) PROVE NodeShape(NodeAttempt(a), a)
  <1>1. NodeIsRetryableStatus(a.status) <=> a.status \in RetriedStatuses
    BY DEF NodeIsRetryableStatus, RetriedStatuses
  <1>2. CASE a.status = NoStatus
    <2>1. NodeAttempt(a) = Failure(NoStatus, TRUE)
      BY <1>1, <1>2 DEF NodeAttempt, NoStatus, RetriedStatuses
    <2>2. QED
      BY <1>2, <2>1 DEF NodeShape
  <1>3. CASE a.status # NoStatus /\ a.status \in RetriedStatuses
    <2>1. NodeAttempt(a) = Failure(a.status, TRUE)
      BY <1>1, <1>3 DEF NodeAttempt
    <2>2. QED
      BY <1>3, <2>1 DEF NodeShape
  <1>4. CASE a.status # NoStatus /\ a.status \notin RetriedStatuses
    <2> DEFINE code == CodeOr(a.body, a.status, {"integer", "fraction"})
    <2>1. NodeAttempt(a) = NodeParseResponse(a.status, a.body)
      BY <1>1, <1>4 DEF NodeAttempt
    <2>2. CASE a.body.kind \in {"object", "oversized"}
      <3>1. NodeAttempt(a) = Response(SuccessOr(a.body, Is2xx(a.status)), code)
        BY <2>1, <2>2 DEF NodeParseResponse
      <3>2. Readable(a) => a.body.kind = "object" /\ code = Code(a)
        BY <1>4, <2>2 DEF Readable, Code, CodeOr
      <3>3. QED
        BY <1>4, <3>1, <3>2 DEF NodeShape
    <2>3. CASE a.body.kind \notin {"object", "oversized"}
      <3>1. NodeAttempt(a) = Response(Is2xx(a.status), a.status)
        BY <2>1, <2>3 DEF NodeParseResponse
      <3>2. Readable(a) => a.body.kind = "blank"
        BY <1>4, <2>3 DEF Readable
      <3>3. QED
        BY <1>4, <3>1, <3>2 DEF NodeShape
    <2>4. QED
      BY <2>2, <2>3
  <1>5. QED
    BY <1>2, <1>3, <1>4

\* The same for Node, which takes the word of the body of any status it does not retry.
NodeHonest(r, a) ==
  r.response /\ r.successful =>
    a.status # NoStatus /\ (Is2xx(a.status) \/ a.body.success = "true")

NodeReadAlike(r, a) ==
  Readable(a) /\ (ContractRetryable(a) \/ Is2xx(a.status)) =>
    /\ r.successful = ContractVerdict(a).successful
    /\ r.code = ContractVerdict(a).code

LEMMA NodeFacts ==
  ASSUME NEW a, IsAnswer(a), NEW r, NodeShape(r, a)
  PROVE  NodeHonest(r, a) /\ RetriedAlike("node", r, a) /\ NodeReadAlike(r, a)
  <1>1. CASE a.status = NoStatus /\ r = Failure(NoStatus, TRUE)
    <2>1. r.response = FALSE /\ r.successful = FALSE /\ r.code = NoStatus /\ r.retryable = TRUE
      BY <1>1 DEF Failure
    <2>2. ~Is2xx(a.status) /\ ContractRetryable(a)
      BY <1>1, StatusFacts
    <2>3. QED
      BY <1>1, <2>1, <2>2, VerdictFields DEF NodeHonest, RetriedAlike, NodeReadAlike
  <1>2. CASE a.status # NoStatus /\ a.status \in RetriedStatuses /\ r = Failure(a.status, TRUE)
    <2>1. r.response = FALSE /\ r.successful = FALSE /\ r.code = a.status /\ r.retryable = TRUE
      BY <1>2 DEF Failure
    <2>2. ~Is2xx(a.status) /\ ContractRetryable(a)
      BY <1>2, StatusFacts
    <2>3. QED
      BY <1>2, <2>1, <2>2, VerdictFields DEF NodeHonest, RetriedAlike, NodeReadAlike
  <1>3. ASSUME a.status # NoStatus, a.status \notin RetriedStatuses
        PROVE  Readable(a) \/ ~RetriesDiffer("node", a) => ~ContractRetryable(a)
    BY <1>3, StatusFacts, DifferFacts
  <1>4. ASSUME a.status # NoStatus, a.status \notin RetriedStatuses,
               NEW code, r = Response(SuccessOr(a.body, Is2xx(a.status)), code),
               Readable(a) => a.body.kind = "object" /\ code = Code(a)
        PROVE  NodeHonest(r, a) /\ RetriedAlike("node", r, a) /\ NodeReadAlike(r, a)
    <2>1. r.response = TRUE /\ r.successful = SuccessOr(a.body, Is2xx(a.status)) /\ r.code = code
      BY <1>4 DEF Response
    <2>2. /\ a.body.success = "true" => SuccessOr(a.body, Is2xx(a.status)) = TRUE
          /\ a.body.success = "false" => SuccessOr(a.body, Is2xx(a.status)) = FALSE
          /\ a.body.success \notin {"true", "false"} => SuccessOr(a.body, Is2xx(a.status)) = Is2xx(a.status)
      BY DEF SuccessOr
    <2>3. NodeHonest(r, a)
      <3>1. CASE a.body.success = "true"
        BY <1>4, <3>1 DEF NodeHonest
      <3>2. CASE a.body.success = "false"
        BY <2>1, <2>2, <3>2 DEF NodeHonest
      <3>3. CASE a.body.success \notin {"true", "false"}
        BY <1>4, <2>1, <2>2, <3>3 DEF NodeHonest
      <3>4. QED
        BY <3>1, <3>2, <3>3
    <2>4. RetriedAlike("node", r, a)
      BY <1>3, <1>4, <2>1 DEF RetriedAlike
    <2>5. NodeReadAlike(r, a)
      <3>1. SUFFICES ASSUME Readable(a), Is2xx(a.status)
                     PROVE  /\ r.successful = ContractVerdict(a).successful
                            /\ r.code = ContractVerdict(a).code
        BY <1>3, <1>4 DEF NodeReadAlike
      <3>2. a.body.kind = "object" /\ code = Code(a)
        BY <1>4, <3>1
      <3>3. a.body.success \in {"absent", "true", "false"}
        BY <3>1, <3>2, ReadableFacts DEF IsAnswer
      <3>4. Is2xx(a.status) = TRUE
        BY <3>1 DEF Is2xx
      <3>5. CASE a.body.success = "false"
        BY <2>1, <2>2, <3>1, <3>2, <3>5, VerdictFields
      <3>6. CASE a.body.success \in {"absent", "true"}
        <4>1. r.successful = TRUE
          BY <2>1, <2>2, <3>4, <3>6
        <4>2. QED
          BY <2>1, <3>1, <3>2, <3>6, <4>1, VerdictFields
      <3>7. QED
        BY <3>3, <3>5, <3>6
    <2>6. QED
      BY <2>3, <2>4, <2>5
  <1>5. ASSUME a.status # NoStatus, a.status \notin RetriedStatuses,
               Readable(a) => a.body.kind = "blank", r = Response(Is2xx(a.status), a.status)
        PROVE  NodeHonest(r, a) /\ RetriedAlike("node", r, a) /\ NodeReadAlike(r, a)
    <2>1. r.response = TRUE /\ r.successful = Is2xx(a.status) /\ r.code = a.status
      BY <1>5 DEF Response
    <2>2. NodeHonest(r, a)
      BY <1>5, <2>1 DEF NodeHonest
    <2>3. RetriedAlike("node", r, a)
      BY <1>3, <1>5, <2>1 DEF RetriedAlike
    <2>4. NodeReadAlike(r, a)
      <3>1. SUFFICES ASSUME Readable(a), Is2xx(a.status)
                     PROVE  /\ r.successful = ContractVerdict(a).successful
                            /\ r.code = ContractVerdict(a).code
        BY <1>3, <1>5 DEF NodeReadAlike
      <3>2. r.successful = TRUE
        BY <2>1, <3>1 DEF Is2xx
      <3>3. QED
        BY <1>5, <2>1, <3>1, <3>2, VerdictFields
    <2>5. QED
      BY <2>2, <2>3, <2>4
  <1>6. QED
    BY <1>1, <1>2, <1>4, <1>5 DEF NodeShape

-----------------------------------------------------------------------------
(* The eight SDKs together *)

\* An attempt comes to a response or to a failure.
Outcome(r) == (\E x, y : r = Response(x, y)) \/ (\E x, y : r = Failure(x, y))

LEMMA OutcomeFacts ==
  ASSUME NEW r, Outcome(r)
  PROVE  ~r.response => r.response = FALSE /\ r.successful = FALSE
  <1>1. ASSUME NEW x, NEW y, r = Response(x, y)
        PROVE  r.response
    BY <1>1 DEF Response
  <1>2. ASSUME NEW x, NEW y, r = Failure(x, y)
        PROVE  r.response = FALSE /\ r.successful = FALSE
    BY <1>2 DEF Failure
  <1>3. QED
    BY <1>1, <1>2 DEF Outcome

LEMMA ShapeOutcome ==
  ASSUME NEW sdk, NEW a, NEW r, Shape(sdk, r, a) \/ NodeShape(r, a)
  PROVE  Outcome(r)
  <1>1. CASE Shape(sdk, r, a)
    BY <1>1 DEF Shape, Parsed, Outcome
  <1>2. CASE NodeShape(r, a)
    BY <1>2 DEF NodeShape, Outcome
  <1>3. QED
    BY <1>1, <1>2

LEMMA AttemptFacts ==
  ASSUME NEW sdk \in Sdks, NEW a, IsAnswer(a)
  PROVE  LET r == Attempted(sdk, a)
         IN /\ Outcome(r)
            /\ RetriedAlike(sdk, r, a)
            /\ sdk # "node" => Honest(r, a) /\ ReadAlike(r, a)
            /\ sdk = "node" => NodeHonest(r, a) /\ NodeReadAlike(r, a)
  <1>1. sdk = "rust" => Attempted(sdk, a) = RustSend(a)
    BY DEF Attempted
  <1>2. sdk = "go" => Attempted(sdk, a) = GoSend(a)
    BY DEF Attempted
  <1>3. sdk = "java" => Attempted(sdk, a) = JavaExecute(a)
    BY DEF Attempted
  <1>4. sdk = "python" => Attempted(sdk, a) = PythonExchange(a)
    BY DEF Attempted
  <1>5. sdk = "node" => Attempted(sdk, a) = NodeAttempt(a)
    BY DEF Attempted
  <1>6. sdk = "dotnet" => Attempted(sdk, a) = DotnetSendAsync(a)
    BY DEF Attempted
  <1>7. sdk = "ruby" => Attempted(sdk, a) = RubyExecute(a)
    BY DEF Attempted
  <1>8. sdk = "cpp" => Attempted(sdk, a) = CppSend(a)
    BY DEF Attempted
  <1>9. CASE sdk = "node"
    <2>1. NodeShape(Attempted(sdk, a), a)
      BY <1>5, <1>9, NodeSends
    <2>2. QED
      BY <1>9, <2>1, NodeFacts, ShapeOutcome
  <1>10. CASE sdk # "node"
    <2>1. sdk \in {"rust", "go", "java", "python", "dotnet", "ruby", "cpp"}
      BY <1>10 DEF Sdks
    <2>2. Shape(sdk, Attempted(sdk, a), a)
      BY <1>1, <1>2, <1>3, <1>4, <1>6, <1>7, <1>8, <2>1, RustSends, GoSends, JavaSends, PythonSends,
         DotnetSends, RubySends, CppSends
    <2>3. QED
      BY <1>10, <2>2, ShapeFacts, ShapeOutcome
  <1>11. QED
    BY <1>9, <1>10

\* All the retry loops go by the flag of the failure and the length of the schedule.
LEMMA RetriesFacts ==
  ASSUME NEW sdk \in Sdks, NEW r, NEW n
  PROVE  Retries(sdk, r, n) <=> r.retryable /\ n < ContractRetries(sdk)
  <1>1. CASE sdk = "node"
    <2>1. Retries(sdk, r, n) = NodeRetries(r, n)
      BY <1>1 DEF Retries
    <2>2. QED
      BY <1>1, <2>1 DEF NodeRetries, ContractRetries
  <1>2. CASE sdk # "node"
    <2>1. sdk \in {"rust", "go", "java", "python", "dotnet", "ruby", "cpp"}
      BY <1>2 DEF Sdks
    <2>2. Retries(sdk, r, n) <=> r.retryable /\ n < 5
      BY <2>1 DEF Retries, RustRetries, GoRetries, JavaRetries, PythonRetries, DotnetRetries, RubyRetries,
         CppRetries
    <2>3. QED
      BY <1>2, <2>2 DEF ContractRetries
  <1>3. QED
    BY <1>1, <1>2

\* What is reported keeps the code, makes no success of a failure, and is a failure
\* unless Node wraps it.
LEMMA ReportedFacts ==
  ASSUME NEW sdk \in Sdks, NEW r, Outcome(r)
  PROVE  /\ r.response => Reported(sdk, r) = r
         /\ ~r.response => /\ Reported(sdk, r).successful = FALSE
                           /\ Reported(sdk, r).code = r.code
                           /\ sdk # "node" => Reported(sdk, r).response = FALSE
  <1>1. ASSUME r.response PROVE Reported(sdk, r) = r
    BY <1>1 DEF Reported
  <1>2. ASSUME ~r.response
        PROVE  /\ Reported(sdk, r).successful = FALSE
               /\ Reported(sdk, r).code = r.code
               /\ sdk # "node" => Reported(sdk, r).response = FALSE
    <2>1. r.response = FALSE /\ r.successful = FALSE
      BY <1>2, OutcomeFacts
    <2>2. CASE sdk = "java"
      <3>1. Reported(sdk, r) = JavaGivesUp(r)
        BY <1>2, <2>2 DEF Reported
      <3>2. QED
        BY <2>1, <3>1 DEF JavaGivesUp, Failure
    <2>3. CASE sdk = "python"
      <3>1. Reported(sdk, r) = PythonGivesUp(r)
        BY <1>2, <2>3 DEF Reported
      <3>2. QED
        BY <2>1, <3>1 DEF PythonGivesUp, Failure
    <2>4. CASE sdk = "node"
      <3>1. Reported(sdk, r) = NodeGivesUp(r)
        BY <1>2, <2>4 DEF Reported
      <3>2. QED
        BY <2>4, <3>1 DEF NodeGivesUp, Response
    <2>5. CASE sdk \notin {"java", "python", "node"}
      <3>1. Reported(sdk, r) = r
        BY <1>2, <2>5 DEF Reported
      <3>2. QED
        BY <2>1, <3>1
    <2>6. QED
      BY <2>2, <2>3, <2>4, <2>5
  <1>3. QED
    BY <1>1, <1>2

-----------------------------------------------------------------------------
(* The invariant is inductive *)

LEMMA InitPathInv == Init => PathInv
  BY PathAssumption DEF Init, PathInv, ProgressInv, ReportInv, LoopInv, ContractRetries, Over

LEMMA PreparePathInv == PathInv /\ Prepare => PathInv'
  BY DEF PathInv, ProgressInv, ReportInv, LoopInv, Prepare, ContractRetries, Over

LEMMA AttemptPathInv ==
  ASSUME NEW a \in Answers(call), PathInv, Attempt(a)
  PROVE  PathInv'
  <1> DEFINE r == Attempted(call.sdk, a)
             again == ~r.response /\ Retries(call.sdk, r, attempts)
  <1>1. /\ call \in Calls /\ call.sdk \in Sdks /\ IsAnswer(a)
        /\ call' = call /\ answer' = a /\ attempts \in Nat /\ attempts' = attempts + 1
        /\ attempts <= ContractRetries(call.sdk)
    BY PathAssumption DEF PathInv, ProgressInv, Attempt
  <1>2. /\ again => phase' = "waiting"
        /\ ~again => phase' = "done" /\ result' = Reported(call.sdk, r)
    BY DEF Attempt
  <1>3. again <=> ~r.response /\ r.retryable /\ attempts < ContractRetries(call.sdk)
    BY <1>1, RetriesFacts
  <1>4. ContractRetries(call.sdk) \in Nat
    BY DEF ContractRetries
  <1> HIDE DEF again
  <1>5. ProgressInv'
    <2>1. ContractRetries(call'.sdk) = ContractRetries(call.sdk)
      BY <1>1
    <2>2. CASE again
      BY <1>1, <1>2, <1>3, <1>4, <2>1, <2>2 DEF ProgressInv, Over
    <2>3. CASE ~again
      BY <1>1, <1>2, <1>4, <2>1, <2>3 DEF ProgressInv, Over
    <2>4. QED
      BY <2>2, <2>3
  <1>6. ReportInv'
    BY <1>1, <1>2 DEF ReportInv
  <1>7. LoopInv'
    <2>1. CASE again
      BY <1>1, <1>2, <1>3, <2>1 DEF LoopInv
    <2>2. CASE ~again
      <3>1. r.response \/ ~Retries(call.sdk, r, attempts)
        BY <2>2 DEF again
      <3>2. attempts' - 1 = attempts
        BY <1>1
      <3>3. QED
        BY <1>1, <1>2, <2>2, <3>1, <3>2 DEF LoopInv
    <2>3. QED
      BY <2>1, <2>2
  <1>8. QED
    BY <1>5, <1>6, <1>7 DEF PathInv

LEMMA BackoffPathInv == PathInv /\ (BackoffElapses \/ BackoffInterrupted) => PathInv'
  <1>1. CASE PathInv /\ BackoffElapses
    BY <1>1 DEF PathInv, ProgressInv, ReportInv, LoopInv, BackoffElapses, ContractRetries, Over
  <1>2. CASE PathInv /\ BackoffInterrupted
    BY <1>2 DEF PathInv, ProgressInv, ReportInv, LoopInv, BackoffInterrupted, ContractRetries, Over
  <1>3. QED
    BY <1>1, <1>2

\* The attempts stay within the schedule and what is reported is what the SDK makes of the
\* last answer, whatever the answers are (the retry loops of the eight SDKs).
THEOREM Invariance == Spec => []PathInv
  <1>1. PathInv /\ [Next]_vars => PathInv'
    <2> SUFFICES ASSUME PathInv, [Next]_vars PROVE PathInv'
      OBVIOUS
    <2>1. CASE Prepare
      BY <2>1, PreparePathInv
    <2>2. CASE \E a \in Answers(call) : Attempt(a)
      BY <2>2, AttemptPathInv
    <2>3. CASE BackoffElapses \/ BackoffInterrupted
      BY <2>3, BackoffPathInv
    <2>4. CASE UNCHANGED vars
      BY <2>4 DEF vars, PathInv, ProgressInv, ReportInv, LoopInv
    <2>5. QED
      BY <2>1, <2>2, <2>3, <2>4 DEF Next
  <1>2. QED
    BY InitPathInv, <1>1, PTL DEF Spec

-----------------------------------------------------------------------------
(* The guarantees *)

LEMMA PathInvNoFalseSuccess == PathInv => NoFalseSuccess
  <1> SUFFICES ASSUME PathInv, phase = "done", result.successful
               PROVE  IF call.sdk = "node"
                        THEN answer.status # NoStatus /\ (Is2xx(answer.status) \/ answer.body.success = "true")
                        ELSE Is2xx(answer.status) /\ answer.body.kind # "torn" /\ answer.body.success # "false"
    BY DEF NoFalseSuccess
  <1> DEFINE r == Attempted(call.sdk, answer)
  <1>1. call.sdk \in Sdks /\ IsAnswer(answer) /\ result = Reported(call.sdk, r)
    BY PathAssumption DEF PathInv, ProgressInv, ReportInv, Over
  <1>2. /\ Outcome(r)
        /\ call.sdk # "node" => Honest(r, answer)
        /\ call.sdk = "node" => NodeHonest(r, answer)
    BY <1>1, AttemptFacts
  <1> HIDE DEF r
  <1>3. r.response
    BY <1>1, <1>2, ReportedFacts
  <1>4. result = r
    BY <1>1, <1>2, <1>3, ReportedFacts
  <1>5. QED
    BY <1>2, <1>3, <1>4 DEF Honest, NodeHonest

LEMMA PathInvRetriesAsPromised == PathInv => RetriesAsPromised
  <1> SUFFICES ASSUME PathInv PROVE RetriesAsPromised
    OBVIOUS
  <1> DEFINE r == Attempted(call.sdk, answer)
  <1>1. call.sdk \in Sdks /\ attempts \in Nat /\ attempts <= ContractRetries(call.sdk) + 1
    BY PathAssumption DEF PathInv, ProgressInv
  <1>2. ASSUME phase \in {"waiting", "done", "interrupted"}
        PROVE  IsAnswer(answer) /\ RetriedAlike(call.sdk, r, answer)
    <2>1. IsAnswer(answer)
      BY <1>2 DEF PathInv, ProgressInv, Over
    <2>2. QED
      BY <1>1, <2>1, AttemptFacts
  <1>3. ASSUME phase = "done", ~RetriesDiffer(call.sdk, answer), ContractRetryable(answer)
        PROVE  attempts = ContractRetries(call.sdk) + 1
    <2>1. ~r.response /\ r.retryable
      BY <1>2, <1>3 DEF RetriedAlike
    <2>2. ~Retries(call.sdk, r, attempts - 1)
      BY <1>3, <2>1 DEF PathInv, LoopInv
    <2>3. ~(attempts - 1 < ContractRetries(call.sdk))
      BY <1>1, <2>1, <2>2, RetriesFacts
    <2>4. ContractRetries(call.sdk) \in Nat
      BY DEF ContractRetries
    <2>5. QED
      BY <1>1, <2>3, <2>4
  <1>4. ASSUME phase \in {"waiting", "interrupted"}, ~RetriesDiffer(call.sdk, answer)
        PROVE  ContractRetryable(answer)
    <2>1. ~r.response /\ r.retryable
      BY <1>4 DEF PathInv, LoopInv
    <2>2. QED
      BY <1>2, <1>4, <2>1 DEF RetriedAlike
  <1>5. QED
    BY <1>1, <1>3, <1>4 DEF RetriesAsPromised

LEMMA PathInvSameVerdict == PathInv => SameVerdict
  <1> SUFFICES ASSUME PathInv, phase = "done", Readable(answer),
                      call.sdk = "node" => ContractRetryable(answer) \/ Is2xx(answer.status)
               PROVE  /\ result.successful = ContractVerdict(answer).successful
                      /\ result.code = ContractVerdict(answer).code
                      /\ call.sdk # "node" => result.response = ContractVerdict(answer).response
    BY DEF SameVerdict
  <1> DEFINE r == Attempted(call.sdk, answer)
  <1>1. call.sdk \in Sdks /\ IsAnswer(answer) /\ result = Reported(call.sdk, r)
    BY PathAssumption DEF PathInv, ProgressInv, ReportInv, Over
  <1>2. /\ Outcome(r)
        /\ call.sdk # "node" => ReadAlike(r, answer)
        /\ call.sdk = "node" => NodeReadAlike(r, answer)
    BY <1>1, AttemptFacts
  <1> HIDE DEF r
  <1>3. /\ r.successful = ContractVerdict(answer).successful
        /\ r.code = ContractVerdict(answer).code
        /\ call.sdk # "node" => r.response = ContractVerdict(answer).response
    BY <1>2 DEF ReadAlike, NodeReadAlike
  <1>4. CASE r.response
    <2>1. result = r
      BY <1>1, <1>2, <1>4, ReportedFacts
    <2>2. QED
      BY <1>3, <2>1
  <1>5. CASE ~r.response
    <2>1. r.response = FALSE /\ r.successful = FALSE
      BY <1>2, <1>5, OutcomeFacts
    <2>2. /\ result.successful = FALSE /\ result.code = r.code
          /\ call.sdk # "node" => result.response = FALSE
      BY <1>1, <1>2, <1>5, ReportedFacts
    <2>3. QED
      BY <1>3, <2>1, <2>2
  <1>6. QED
    BY <1>4, <1>5

\* Nobody is told that an incident was accepted unless a 2xx answer was read to its end and
\* does not say otherwise, whatever the answers and whichever of the eight parsers reads them
\* (in Node: unless the status or the body says so).
THEOREM NoSuccessMadeUp == Spec => []NoFalseSuccess
  BY Invariance, PathInvNoFalseSuccess, PTL

\* The retry loop of every SDK makes at most one attempt more than it has delays, stops early
\* only on an answer that is not worth another attempt, and goes on only after one that is,
\* whatever the body (save that Node stops at a torn body of a status it does not retry, and
\* Rust, .NET and C++ go on after an oversized one).
THEOREM RetriesKeepPromise == Spec => []RetriesAsPromised
  BY Invariance, PathInvRetriesAsPromised, PTL

\* The eight SDKs tell the caller the same of the same readable answer: success, code, and
\* whether it is a response or a failure.
THEOREM VerdictsAgree == Spec => []SameVerdict
  BY Invariance, PathInvSameVerdict, PTL
-----------------------------------------------------------------------------
(* Requests and payloads as records *)

Keys == Texts \cup {Absent, Null}

LEMMA CallFacts ==
  ASSUME NEW c \in Calls
  PROVE  /\ c.sdk \in Sdks /\ c.op \in {"post", "route"} /\ c.clientKey \in Keys
         /\ c.request \in Incidents /\ c.now \in Int
         /\ c.sdk = "node" => c.op = "post"
  BY PathAssumption DEF Keys

LEMMA IncidentFacts ==
  ASSUME NEW r \in Incidents
  PROVE  /\ r = [title |-> r.title, source |-> r.source, severity |-> r.severity, priority |-> r.priority,
                 srcTimestamp |-> r.srcTimestamp, serviceKey |-> r.serviceKey, details |-> r.details]
         /\ r.title \in Texts \cup {Absent} /\ r.source \in Sources \cup {Absent}
         /\ r.severity \in Int \cup {Absent} /\ r.priority \in Int \cup {Absent}
         /\ r.srcTimestamp \in Int \cup {Absent}
         /\ r.serviceKey \in Keys /\ r.details \in Texts \cup {Absent}
  BY DEF Incidents, Keys

\* Blank texts are texts, and no mark is one.
LEMMA TextFacts ==
  /\ UnicodeBlanks \subseteq Texts /\ AsciiBlank \subseteq UnicodeBlanks
  /\ PaddedKey \in Texts /\ TrimmedKey \in Texts /\ "" \in Texts
  /\ Absent \notin UnicodeBlanks /\ Absent \notin AsciiBlank
  BY MarksAssumption DEF Texts, UnicodeBlanks, AsciiBlank

LEMMA SourceFacts ==
  ASSUME NEW s \in Sources
  PROVE  s.points \in Nat /\ s.units \in Nat /\ s.bytes \in Nat /\ s.points <= s.units /\ s.points <= s.bytes
  BY DEF Sources

\* Values of any member.
LEMMA ValueFacts ==
  /\ Texts \cup {Absent} \subseteq Values /\ Sources \cup {Absent} \subseteq Values
  /\ Int \cup {Absent} \subseteq Values /\ Keys \subseteq Values
  BY DEF Values, Keys

\* A function on some of the members is not Refused.
LEMMA RecordAccepted ==
  ASSUME NEW f, NEW fields \in SUBSET Members, f \in [fields -> Values]
  PROVE  f # Refused
  BY MarksAssumption

\* Request r with its defaults.
Normal(r, p, t) ==
  [title |-> r.title, source |-> r.source, severity |-> r.severity, priority |-> p,
   srcTimestamp |-> t, serviceKey |-> r.serviceKey, details |-> r.details]

\* The request that is checked: Refused unless it is accepted.
LEMMA CheckedFacts ==
  ASSUME NEW r \in Incidents, NEW accepted \in BOOLEAN, NEW p \in Int, NEW t \in Int,
         NEW n, n = Checked(r, accepted, p, t)
  PROVE  /\ n = Refused <=> ~accepted
         /\ accepted => n = Normal(r, p, t)
  <1>1. CASE ~accepted
    BY <1>1 DEF Checked
  <1>2. CASE accepted
    <2>1. n = [r EXCEPT !.priority = p, !.srcTimestamp = t]
      BY <1>2 DEF Checked
    <2>2. n = [title |-> r.title, source |-> r.source, severity |-> r.severity, priority |-> p,
               srcTimestamp |-> t, serviceKey |-> r.serviceKey, details |-> r.details]
      <3>1. r = [title |-> r.title, source |-> r.source, severity |-> r.severity, priority |-> r.priority,
                 srcTimestamp |-> r.srcTimestamp, serviceKey |-> r.serviceKey, details |-> r.details]
        BY IncidentFacts
      <3>2. QED
        BY <2>1, <3>1
    <2>3. /\ r.title \in Values /\ r.source \in Values /\ r.severity \in Values /\ p \in Values
          /\ t \in Values /\ r.serviceKey \in Values /\ r.details \in Values
      BY IncidentFacts, ValueFacts
    <2>4. PICK fields : fields = {"title", "source", "severity", "priority", "srcTimestamp", "serviceKey", "details"}
      OBVIOUS
    <2>5. n \in [fields -> Values]
      BY <2>2, <2>3, <2>4
    <2>6. fields \in SUBSET Members
      BY <2>4 DEF Members
    <2>7. n # Refused
      BY <2>5, <2>6, RecordAccepted
    <2>8. QED
      BY <1>2, <2>2, <2>7 DEF Normal
  <1>3. QED
    BY <1>1, <1>2

PayloadMembers == {"serviceKey", "title", "source", "severity", "priority", "srcTimestamp", "detailsJSON"}

\* The members of the payload before the absent ones are left out.
LEMMA ObjectFacts ==
  ASSUME NEW r \in Incidents, NEW p \in Int, NEW t \in Int, NEW n, NEW key \in Keys, NEW o,
         n = Normal(r, p, t),
         o = WireObject(n, key)
  PROVE  /\ DOMAIN o = PayloadMembers
         /\ o.serviceKey = key /\ o.title = r.title /\ o.source = r.source /\ o.severity = r.severity
         /\ o.priority = p /\ o.srcTimestamp = t /\ o.detailsJSON = r.details
         /\ \A m \in PayloadMembers : o[m] \in Values
  <1>1. /\ DOMAIN o = PayloadMembers
        /\ o.serviceKey = key /\ o.title = r.title /\ o.source = r.source /\ o.severity = r.severity
        /\ o.priority = p /\ o.srcTimestamp = t /\ o.detailsJSON = r.details
    BY DEF WireObject, PayloadMembers, Normal
  <1>2. /\ r.title \in Values /\ r.source \in Values /\ r.severity \in Values /\ p \in Values
        /\ t \in Values /\ key \in Values /\ r.details \in Values
    BY IncidentFacts, ValueFacts
  <1>3. \A m \in PayloadMembers : o[m] \in Values
    BY <1>1, <1>2 DEF PayloadMembers
  <1>4. QED
    BY <1>1, <1>3

\* What the contract puts into the members.
LEMMA ContractValues ==
  ASSUME NEW c
  PROVE  /\ ContractValue(c, "serviceKey") = (IF c.request.serviceKey # Absent THEN c.request.serviceKey ELSE c.clientKey)
         /\ ContractValue(c, "priority") = OrElse(c.request.priority, 1)
         /\ ContractValue(c, "srcTimestamp") = OrElse(c.request.srcTimestamp, c.now)
         /\ ContractValue(c, "detailsJSON") = c.request.details
         /\ ContractValue(c, "title") = c.request.title
         /\ ContractValue(c, "source") = c.request.source
         /\ ContractValue(c, "severity") = c.request.severity
  BY DEF ContractValue, OrElse

\* A payload with the members and the values of the contract is that of the contract.
LEMMA PayloadIsContract ==
  ASSUME NEW c, NEW w, w = [m \in DOMAIN w |-> w[m]],
         DOMAIN w \subseteq PayloadMembers,
         {"title", "source", "severity", "priority", "srcTimestamp"} \subseteq DOMAIN w,
         "serviceKey" \in DOMAIN w <=> c.op = "post",
         "detailsJSON" \in DOMAIN w <=> c.request.details # Absent,
         \A m \in DOMAIN w : w[m] = ContractValue(c, m)
  PROVE  w = ContractPayload(c)
  <1>1. DOMAIN w = ContractMembers(c)
    BY DEF ContractMembers, PayloadMembers
  <1>2. QED
    BY <1>1 DEF ContractPayload

\* The members that payload w has: a key when there is one, and those of the contract when
\* the request has what is required.
Carries(w, c, p, t, key) ==
  /\ w # Refused
  /\ "serviceKey" \in DOMAIN w <=> key # Absent
  /\ key # Absent => w["serviceKey"] = key
  /\ /\ c.request.title # Absent /\ c.request.source # Absent /\ c.request.severity # Absent
     /\ p = ContractValue(c, "priority") /\ t = ContractValue(c, "srcTimestamp")
     /\ c.op = "post" <=> key # Absent
     /\ key # Absent => key = ContractValue(c, "serviceKey")
     => w = ContractPayload(c)

\* What is left of the object when the absent members are left out.
LEMMA WithoutFacts ==
  ASSUME NEW c \in Calls, NEW p \in Int, NEW t \in Int, NEW key \in Keys, NEW n, n = Normal(c.request, p, t),
         NEW w, w = Without(WireObject(n, key), Absent)
  PROVE  Carries(w, c, p, t, key)
  <1>0. PICK r : r = c.request
    OBVIOUS
  <1>1. PICK o : o = WireObject(n, key)
    OBVIOUS
  <1>2. r \in Incidents
    BY <1>0, CallFacts
  <1>3. /\ DOMAIN o = PayloadMembers
        /\ o.serviceKey = key /\ o.title = r.title /\ o.source = r.source /\ o.severity = r.severity
        /\ o.priority = p /\ o.srcTimestamp = t /\ o.detailsJSON = r.details
        /\ \A m \in PayloadMembers : o[m] \in Values
    BY <1>0, <1>1, <1>2, ObjectFacts
  <1>4. w = [f \in {g \in PayloadMembers : o[g] # Absent} |-> o[f]]
    <2>1. w = Without(o, Absent)
      BY <1>1
    <2>2. QED
      BY <1>3, <2>1 DEF Without
  <1>5. PICK fields : fields = {g \in PayloadMembers : o[g] # Absent}
    OBVIOUS
  <1>6. DOMAIN w = fields /\ (\A f \in fields : w[f] = o[f]) /\ w = [f \in DOMAIN w |-> w[f]]
    BY <1>4, <1>5
  <1>7. w # Refused
    <2>1. fields \in SUBSET Members
      BY <1>5 DEF PayloadMembers, Members
    <2>2. w \in [fields -> Values]
      BY <1>3, <1>5, <1>6
    <2>3. QED
      BY <2>1, <2>2, RecordAccepted
  <1>8. "serviceKey" \in DOMAIN w <=> key # Absent
    BY <1>3, <1>5, <1>6 DEF PayloadMembers
  <1>9. key # Absent => w["serviceKey"] = key
    BY <1>3, <1>6, <1>8
  <1>10. ASSUME r.title # Absent, r.source # Absent, r.severity # Absent,
                p = ContractValue(c, "priority"), t = ContractValue(c, "srcTimestamp"),
                c.op = "post" <=> key # Absent,
                key # Absent => key = ContractValue(c, "serviceKey")
         PROVE  w = ContractPayload(c)
    <2>1. p # Absent /\ t # Absent
      BY MarksAssumption
    <2>2. {"title", "source", "severity", "priority", "srcTimestamp"} \subseteq DOMAIN w
      BY <1>3, <1>5, <1>6, <1>10, <2>1 DEF PayloadMembers
    <2>3. "detailsJSON" \in DOMAIN w <=> c.request.details # Absent
      BY <1>0, <1>3, <1>5, <1>6 DEF PayloadMembers
    <2>4. DOMAIN w \subseteq PayloadMembers
      BY <1>5, <1>6
    <2>5. ASSUME NEW m \in DOMAIN w PROVE w[m] = ContractValue(c, m)
      <3>1. m \in PayloadMembers /\ w[m] = o[m] /\ o[m] # Absent
        BY <1>5, <1>6
      <3>2. CASE m = "serviceKey"
        BY <1>3, <1>10, <3>1, <3>2
      <3>3. CASE m = "priority" \/ m = "srcTimestamp"
        BY <1>3, <1>10, <3>1, <3>3
      <3>4. CASE m \in {"title", "source", "severity", "detailsJSON"}
        BY <1>0, <1>3, <3>1, <3>4, ContractValues
      <3>5. QED
        BY <3>1, <3>2, <3>3, <3>4 DEF PayloadMembers
    <2>6. QED
      BY <1>6, <1>8, <1>10, <2>2, <2>3, <2>4, <2>5, PayloadIsContract
  <1>11. QED
    BY <1>0, <1>7, <1>8, <1>9, <1>10 DEF Carries
-----------------------------------------------------------------------------
(* What an SDK makes of a call *)

\* The promises about the payload w that is made of call c.
Keeps(w, c) ==
  /\ ~Deviates(c) => (w # Refused <=> ContractAccepts(c))
  /\ w # Refused /\ ~Deviates(c) => w = ContractPayload(c)
  /\ w # Refused /\ c.sdk # "node" =>
       /\ c.op = "route" => "serviceKey" \notin DOMAIN w
       /\ c.op = "post"  => "serviceKey" \in DOMAIN w
       /\ c.op = "post" /\ c.sdk # "go" => w["serviceKey"] \notin AsciiBlank

\* How all but Go and Node go on with a request that is checked.
Posted(c, n, key) ==
  IF n = Refused THEN Refused
  ELSE IF ~KeyAllowed(n.serviceKey, key, c.op, Absent) THEN Refused
  ELSE Without(WireObject(n, ResolvedKey(n.serviceKey, key, c.op, Absent)), Absent)

\* The checks of an SDK and the defaults p and t that it fills in are those of the contract,
\* but for the calls on which it deviates.
Faithful(c, accepted, p, t, key) ==
  /\ accepted => /\ c.request.title # Absent /\ c.request.source # Absent /\ c.request.severity # Absent
                 /\ c.request.serviceKey \notin AsciiBlank
  /\ ~Deviates(c) => (accepted /\ KeyAllowed(c.request.serviceKey, key, c.op, Absent) <=> ContractAccepts(c))
  /\ ~Deviates(c) /\ accepted => p = ContractValue(c, "priority") /\ t = ContractValue(c, "srcTimestamp")
  /\ ~Deviates(c) /\ key # Absent => key = c.clientKey

LEMMA PostedKeeps ==
  ASSUME NEW c \in Calls, NEW accepted \in BOOLEAN, NEW p \in Int, NEW t \in Int,
         NEW key \in Keys, key \notin AsciiBlank, Faithful(c, accepted, p, t, key),
         NEW w, w = Posted(c, Checked(c.request, accepted, p, t), key)
  PROVE  Keeps(w, c)
  <1>0. PICK r : r = c.request
    OBVIOUS
  <1>1. r \in Incidents /\ c.op \in {"post", "route"}
    BY <1>0, CallFacts
  <1>2. PICK n : n = Checked(r, accepted, p, t)
    OBVIOUS
  <1>3. /\ n = Refused <=> ~accepted
        /\ accepted => n = Normal(r, p, t)
    BY <1>1, <1>2, CheckedFacts
  <1>4. accepted => n.serviceKey = r.serviceKey
    BY <1>3 DEF Normal
  <1>5. PICK allowed : allowed = KeyAllowed(r.serviceKey, key, c.op, Absent)
    OBVIOUS
  <1>6. CASE ~(accepted /\ allowed)
    <2>1. w = Refused
      BY <1>0, <1>2, <1>3, <1>4, <1>5, <1>6 DEF Posted
    <2>2. ~Deviates(c) => ~ContractAccepts(c)
      BY <1>0, <1>5, <1>6 DEF Faithful
    <2>3. QED
      BY <2>1, <2>2 DEF Keeps
  <1>7. CASE accepted /\ allowed
    <2>1. PICK k : k = ResolvedKey(r.serviceKey, key, c.op, Absent)
      OBVIOUS
    <2>2. w = Without(WireObject(n, k), Absent)
      BY <1>0, <1>2, <1>3, <1>4, <1>5, <1>7, <2>1 DEF Posted
    <2>3. r.serviceKey \in Keys /\ Absent \in Keys
      BY <1>1, IncidentFacts DEF Keys
    <2>4. k \in Keys
      BY <2>1, <2>3 DEF ResolvedKey
    <2>5. c.op = "route" => k = Absent
      BY <1>5, <1>7, <2>1 DEF KeyAllowed, ResolvedKey
    <2>6. c.op = "post" => k # Absent /\ (k = r.serviceKey \/ (r.serviceKey = Absent /\ k = key))
      BY <1>5, <1>7, <2>1 DEF KeyAllowed, ResolvedKey
    <2>7. c.op = "post" <=> k # Absent
      BY <1>1, <2>5, <2>6
    <2>8. Carries(w, c, p, t, k)
      BY <1>0, <1>3, <1>7, <2>2, <2>4, WithoutFacts
    <2>9. ~Deviates(c) /\ k # Absent => k = ContractValue(c, "serviceKey")
      BY <1>0, <2>6, <2>7, ContractValues DEF Faithful
    <2>10. ~Deviates(c) => w = ContractPayload(c)
      BY <1>0, <1>7, <2>7, <2>8, <2>9 DEF Carries, Faithful
    <2>11. ~Deviates(c) => ContractAccepts(c)
      BY <1>0, <1>5, <1>7 DEF Faithful
    <2>12. k \notin AsciiBlank
      BY <1>0, <1>7, <2>6, <2>7, TextFacts DEF Faithful
    <2>13. QED
      BY <2>7, <2>8, <2>10, <2>11, <2>12 DEF Keeps, Carries
  <1>8. QED
    BY <1>6, <1>7

\* The SDKs with a builder differ in what is blank, in the measure of the source and in the
\* timestamp s they check; but for the calls on which they deviate this comes to the same.
Alike(c, blanks, length, p, t, s, extra) ==
  ~Deviates(c) =>
    /\ blanks = AsciiBlank =>
         /\ UnicodeBlank \notin {c.request.title, c.request.serviceKey, c.request.details, c.clientKey}
         /\ c.request.source # Absent => c.request.source.text # UnicodeBlank
    /\ c.request.source # Absent => (length <= MaxSourceLength <=> c.request.source.points <= MaxSourceLength)
    /\ p = ContractValue(c, "priority")
    /\ extra /\ s > 0 <=> IF c.request.srcTimestamp = Absent THEN c.now > 0 ELSE c.request.srcTimestamp > 0
    /\ extra /\ s > 0 => t = ContractValue(c, "srcTimestamp")

LEMMA WellFormedKeeps ==
  ASSUME NEW c \in Calls, NEW blanks \in {AsciiBlank, UnicodeBlanks}, NEW length,
         NEW p \in Int, NEW t \in Int, NEW s, NEW extra \in BOOLEAN, Alike(c, blanks, length, p, t, s, extra),
         NEW accepted \in BOOLEAN, accepted = (extra /\ WellFormed(c.request, blanks, length, p, s)),
         NEW key, key = (IF c.clientKey \in blanks THEN Absent ELSE c.clientKey),
         NEW w, w = Posted(c, Checked(c.request, accepted, p, t), key)
  PROVE  Keeps(w, c)
  <1>1. PICK r : r = c.request
    OBVIOUS
  <1>2. r \in Incidents /\ c.op \in {"post", "route"} /\ c.clientKey \in Keys
    BY <1>1, CallFacts
  <1>3. key \in Keys /\ key \notin AsciiBlank
    BY <1>2, TextFacts DEF Keys
  <1>4. accepted => /\ r.title # Absent /\ r.source # Absent /\ r.severity # Absent
                    /\ r.serviceKey \notin AsciiBlank
    <2>1. Absent \notin 1 .. 5
      BY MarksAssumption
    <2>2. QED
      BY <1>1, <2>1, TextFacts DEF WellFormed, Given, NotBlank
  <1>5. ASSUME ~Deviates(c)
        PROVE  accepted /\ KeyAllowed(r.serviceKey, key, c.op, Absent) <=> ContractAccepts(c)
    <2>0. Absent \notin Int
      BY MarksAssumption
    <2>1. r.title \notin blanks <=> r.title \notin UnicodeBlanks
      BY <1>1, <1>5 DEF UnicodeBlanks, Alike
    <2>2. r.serviceKey \notin blanks <=> r.serviceKey \notin UnicodeBlanks
      BY <1>1, <1>5 DEF UnicodeBlanks, Alike
    <2>3. r.details \notin blanks <=> r.details \notin UnicodeBlanks
      BY <1>1, <1>5 DEF UnicodeBlanks, Alike
    <2>4. c.clientKey \notin blanks <=> c.clientKey \notin UnicodeBlanks
      BY <1>1, <1>5 DEF UnicodeBlanks, Alike
    <2>5. r.source # Absent => (r.source.text \notin blanks <=> r.source.text \notin UnicodeBlanks)
      BY <1>1, <1>5 DEF UnicodeBlanks, Alike
    <2>6. p \in 1 .. 5 <=> r.priority \in {Absent} \cup 1 .. 5
      BY <1>1, <1>5, <2>0, ContractValues DEF OrElse, Alike
    <2>7. key # Absent <=> Given(c.clientKey, UnicodeBlanks)
      BY <2>4 DEF Given
    <2>8. KeyAllowed(r.serviceKey, key, c.op, Absent) <=>
            IF c.op = "post" THEN r.serviceKey # Absent \/ Given(c.clientKey, UnicodeBlanks)
                             ELSE r.serviceKey = Absent
      BY <2>7 DEF KeyAllowed
    <2>9. accepted <=>
            /\ Given(r.title, UnicodeBlanks)
            /\ r.source # Absent /\ r.source.text \notin UnicodeBlanks
            /\ r.source.points <= MaxSourceLength
            /\ r.severity \in 1 .. 5
            /\ r.priority \in {Absent} \cup 1 .. 5
            /\ IF r.srcTimestamp = Absent THEN c.now > 0 ELSE r.srcTimestamp > 0
            /\ r.serviceKey \notin UnicodeBlanks
            /\ r.details \notin UnicodeBlanks
      BY <1>1, <1>5, <2>1, <2>2, <2>3, <2>5, <2>6 DEF WellFormed, Given, NotBlank, Alike
    <2>10. QED
      BY <1>1, <2>8, <2>9 DEF ContractAccepts
  <1>6. ~Deviates(c) /\ accepted => /\ p = ContractValue(c, "priority")
                                    /\ t = ContractValue(c, "srcTimestamp")
    BY DEF WellFormed, Alike
  <1>7. key # Absent => key = c.clientKey
    OBVIOUS
  <1>8. Faithful(c, accepted, p, t, key)
    BY <1>1, <1>4, <1>5, <1>6, <1>7 DEF Faithful
  <1>9. QED
    BY <1>3, <1>8, PostedKeeps

LEMMA BlanksDiffer == UnicodeBlanks # AsciiBlank
  <1>1. UnicodeBlank \notin AsciiBlank
    BY DEF UnicodeBlank, AsciiBlank
  <1>2. QED
    BY <1>1 DEF UnicodeBlanks

LEMMA RustKeeps == ASSUME NEW c \in Calls, c.sdk = "rust" PROVE Keeps(RustPost(c), c)
  <1>1. PICK r : r = c.request
    OBVIOUS
  <1>2. r.priority \in Int \cup {Absent} /\ r.srcTimestamp \in Int \cup {Absent} /\ c.now \in Int
    BY <1>1, CallFacts, IncidentFacts
  <1>3. PICK now \in Int : now = IF c.now < 0 THEN 0 ELSE c.now
    BY <1>2
  <1>4. PICK p \in Int : p = OrElse(r.priority, 1)
    BY <1>2 DEF OrElse
  <1>5. PICK t \in Int : t = OrElse(r.srcTimestamp, now)
    BY <1>2 DEF OrElse
  <1>6. PICK length : length = Length(r.source, "points")
    OBVIOUS
  <1>7. PICK accepted \in BOOLEAN : accepted = WellFormed(r, UnicodeBlanks, length, p, t)
    BY DEF WellFormed
  <1>8. PICK key : key = RustClientKey(c.clientKey)
    OBVIOUS
  <1>9. RustPost(c) = Posted(c, Checked(c.request, accepted, p, t), key)
    BY <1>1, <1>3, <1>4, <1>5, <1>6, <1>7, <1>8 DEF RustPost, RustBuild, RustSerialize, Posted
  <1>10. Alike(c, UnicodeBlanks, length, p, t, t, TRUE)
    <2>1. UnicodeBlanks # AsciiBlank
      BY BlanksDiffer
    <2>2. c.request.source # Absent => length = c.request.source.points
      BY <1>1, <1>6 DEF Length
    <2>3. p = ContractValue(c, "priority")
      BY <1>1, <1>4, ContractValues
    <2>4. t > 0 <=> IF c.request.srcTimestamp = Absent THEN c.now > 0 ELSE c.request.srcTimestamp > 0
      BY <1>1, <1>2, <1>3, <1>5 DEF OrElse
    <2>5. t > 0 => t = ContractValue(c, "srcTimestamp")
      BY <1>1, <1>2, <1>3, <1>5, ContractValues DEF OrElse
    <2>6. QED
      BY <2>1, <2>2, <2>3, <2>4, <2>5 DEF Alike
  <1>11. accepted = (TRUE /\ WellFormed(c.request, UnicodeBlanks, length, p, t))
    BY <1>1, <1>7
  <1>12. key = IF c.clientKey \in UnicodeBlanks THEN Absent ELSE c.clientKey
    BY <1>8 DEF RustClientKey
  <1>13. QED
    BY <1>9, <1>10, <1>11, <1>12, WellFormedKeeps

LEMMA JavaKeeps == ASSUME NEW c \in Calls, c.sdk = "java" PROVE Keeps(JavaPost(c), c)
  <1>1. PICK r : r = c.request
    OBVIOUS
  <1>2. /\ r.priority \in Int \cup {Absent} /\ r.srcTimestamp \in Int \cup {Absent} /\ c.now \in Int
        /\ r.source # Absent => r.source \in Sources
    BY <1>1, CallFacts, IncidentFacts
  <1>3. PICK p \in Int : p = OrElse(r.priority, 1)
    BY <1>2 DEF OrElse
  <1>4. PICK t \in Int : t = OrElse(r.srcTimestamp, c.now)
    BY <1>2 DEF OrElse
  <1>5. PICK length : length = Length(r.source, "units")
    OBVIOUS
  <1>6. PICK accepted \in BOOLEAN : accepted = WellFormed(r, AsciiBlank, length, p, t)
    BY DEF WellFormed
  <1>7. PICK key : key = JavaClientKey(c.clientKey)
    OBVIOUS
  <1>8. JavaPost(c) = Posted(c, Checked(c.request, accepted, p, t), key)
    BY <1>1, <1>3, <1>4, <1>5, <1>6, <1>7 DEF JavaPost, JavaBuild, JavaSerialize, Posted
  <1>9. Alike(c, AsciiBlank, length, p, t, t, TRUE)
    <2> SUFFICES ASSUME ~Deviates(c) PROVE Alike(c, AsciiBlank, length, p, t, t, TRUE)
      BY DEF Alike
    <2>1. /\ UnicodeBlank \notin {c.request.title, c.request.serviceKey, c.request.details, c.clientKey}
          /\ c.request.source # Absent => c.request.source.text # UnicodeBlank
      BY DEF Deviates
    <2>2. c.request.source # Absent => (length <= MaxSourceLength <=> c.request.source.points <= MaxSourceLength)
      <3>1. ASSUME r.source # Absent PROVE length <= MaxSourceLength <=> r.source.points <= MaxSourceLength
        <4>1. length = r.source.units
          BY <1>5, <3>1 DEF Length
        <4>2. r.source.points \in Nat /\ r.source.units \in Nat /\ r.source.points <= r.source.units
          BY <1>2, <3>1, SourceFacts
        <4>3. ~(r.source.points <= MaxSourceLength /\ r.source.units > MaxSourceLength)
          BY <1>1, <3>1 DEF Deviates
        <4>4. QED
          BY <4>1, <4>2, <4>3 DEF MaxSourceLength
      <3>2. QED
        BY <1>1, <3>1
    <2>3. p = ContractValue(c, "priority")
      BY <1>1, <1>3, ContractValues
    <2>4. t = ContractValue(c, "srcTimestamp")
      BY <1>1, <1>4, ContractValues
    <2>5. t = OrElse(c.request.srcTimestamp, c.now)
      BY <2>4, ContractValues
    <2>6. t > 0 <=> IF c.request.srcTimestamp = Absent THEN c.now > 0 ELSE c.request.srcTimestamp > 0
      BY <2>5 DEF OrElse
    <2>7. QED
      BY <2>1, <2>2, <2>3, <2>4, <2>6 DEF Alike
  <1>10. key = IF c.clientKey \in AsciiBlank THEN Absent ELSE c.clientKey
    BY <1>7 DEF JavaClientKey
  <1>11. accepted = (TRUE /\ WellFormed(c.request, AsciiBlank, length, p, t))
    BY <1>1, <1>6
  <1>12. QED
    BY <1>8, <1>9, <1>10, <1>11, WellFormedKeeps

LEMMA PythonKeeps == ASSUME NEW c \in Calls, c.sdk = "python" PROVE Keeps(PythonPost(c), c)
  <1>1. PICK r : r = c.request
    OBVIOUS
  <1>2. /\ r.priority \in Int \cup {Absent} /\ r.srcTimestamp \in Int \cup {Absent} /\ c.now \in Int
        /\ r.source # Absent => r.source \in Sources
    BY <1>1, CallFacts, IncidentFacts
  <1>3. PICK p \in Int : p = OrElse(r.priority, 1)
    BY <1>2 DEF OrElse
  <1>4. PICK t \in Int : t = OrElse(r.srcTimestamp, c.now)
    BY <1>2 DEF OrElse
  <1>5. PICK length : length = Length(r.source, "points")
    OBVIOUS
  <1>6. PICK extra \in BOOLEAN : extra = (r.srcTimestamp # Absent => r.srcTimestamp > 0)
    OBVIOUS
  <1>7. PICK accepted \in BOOLEAN : accepted = (extra /\ WellFormed(r, UnicodeBlanks, length, p, 1))
    BY DEF WellFormed
  <1>8. PICK key : key = PythonClientKey(c.clientKey)
    OBVIOUS
  <1>9. PythonPost(c) = Posted(c, Checked(c.request, accepted, p, t), key)
    BY <1>1, <1>3, <1>4, <1>5, <1>6, <1>7, <1>8 DEF PythonPost, PythonInit, PythonSerialize, Posted, PythonTimestampOK
  <1>10. Alike(c, UnicodeBlanks, length, p, t, 1, extra)
    <2> SUFFICES ASSUME ~Deviates(c) PROVE Alike(c, UnicodeBlanks, length, p, t, 1, extra)
      BY DEF Alike
    <2>1. UnicodeBlanks # AsciiBlank
      BY BlanksDiffer
    <2>2. c.request.source # Absent => length = c.request.source.points
      BY <1>1, <1>5 DEF Length
    <2>3. p = ContractValue(c, "priority")
      BY <1>1, <1>3, ContractValues
    <2>4. t = ContractValue(c, "srcTimestamp")
      BY <1>1, <1>4, ContractValues
    <2>5. c.request.srcTimestamp = Absent => c.now > 0
      <3>1. c.request.srcTimestamp = Absent => ~(c.now <= 0)
        BY DEF Deviates
      <3>2. QED
        BY <1>2, <3>1
    <2>6. extra /\ 1 > 0 <=> IF c.request.srcTimestamp = Absent THEN c.now > 0 ELSE c.request.srcTimestamp > 0
      <3>1. extra <=> (r.srcTimestamp # Absent => r.srcTimestamp > 0)
        BY <1>6, Zenon
      <3>2. 1 > 0
        OBVIOUS
      <3>3. QED
        BY <1>1, <2>5, <3>1, <3>2
    <2>7. QED
      BY <2>1, <2>2, <2>3, <2>4, <2>6 DEF Alike
  <1>11. key = IF c.clientKey \in UnicodeBlanks THEN Absent ELSE c.clientKey
    BY <1>8 DEF PythonClientKey
  <1>12. QED
    BY <1>1, <1>7, <1>9, <1>10, <1>11, WellFormedKeeps

LEMMA DotnetKeeps == ASSUME NEW c \in Calls, c.sdk = "dotnet" PROVE Keeps(DotnetPost(c), c)
  <1>1. PICK r : r = c.request
    OBVIOUS
  <1>2. /\ r.priority \in Int \cup {Absent} /\ r.srcTimestamp \in Int \cup {Absent} /\ c.now \in Int
        /\ r.source # Absent => r.source \in Sources
    BY <1>1, CallFacts, IncidentFacts
  <1>3. PICK p \in Int : p = OrElse(r.priority, 1)
    BY <1>2 DEF OrElse
  <1>4. PICK t \in Int : t = OrElse(r.srcTimestamp, c.now)
    BY <1>2 DEF OrElse
  <1>5. PICK length : length = Length(r.source, "units")
    OBVIOUS
  <1>6. PICK accepted \in BOOLEAN : accepted = WellFormed(r, UnicodeBlanks, length, p, t)
    BY DEF WellFormed
  <1>7. PICK key : key = DotnetClientKey(c.clientKey)
    OBVIOUS
  <1>8. DotnetPost(c) = Posted(c, Checked(c.request, accepted, p, t), key)
    BY <1>1, <1>3, <1>4, <1>5, <1>6, <1>7 DEF DotnetPost, DotnetNormalize, DotnetSerialize, Posted
  <1>9. Alike(c, UnicodeBlanks, length, p, t, t, TRUE)
    <2> SUFFICES ASSUME ~Deviates(c) PROVE Alike(c, UnicodeBlanks, length, p, t, t, TRUE)
      BY DEF Alike
    <2>1. UnicodeBlanks # AsciiBlank
      BY BlanksDiffer
    <2>2. c.request.source # Absent => (length <= MaxSourceLength <=> c.request.source.points <= MaxSourceLength)
      <3>1. ASSUME r.source # Absent PROVE length <= MaxSourceLength <=> r.source.points <= MaxSourceLength
        <4>1. length = r.source.units
          BY <1>5, <3>1 DEF Length
        <4>2. r.source.points \in Nat /\ r.source.units \in Nat /\ r.source.points <= r.source.units
          BY <1>2, <3>1, SourceFacts
        <4>3. ~(r.source.points <= MaxSourceLength /\ r.source.units > MaxSourceLength)
          BY <1>1, <3>1 DEF Deviates
        <4>4. QED
          BY <4>1, <4>2, <4>3 DEF MaxSourceLength
      <3>2. QED
        BY <1>1, <3>1
    <2>3. p = ContractValue(c, "priority")
      BY <1>1, <1>3, ContractValues
    <2>4. t = ContractValue(c, "srcTimestamp")
      BY <1>1, <1>4, ContractValues
    <2>5. t = OrElse(c.request.srcTimestamp, c.now)
      BY <2>4, ContractValues
    <2>6. t > 0 <=> IF c.request.srcTimestamp = Absent THEN c.now > 0 ELSE c.request.srcTimestamp > 0
      BY <2>5 DEF OrElse
    <2>7. QED
      BY <2>1, <2>2, <2>3, <2>4, <2>6 DEF Alike
  <1>10. key = IF c.clientKey \in UnicodeBlanks THEN Absent ELSE c.clientKey
    BY <1>7 DEF DotnetClientKey
  <1>11. accepted = (TRUE /\ WellFormed(c.request, UnicodeBlanks, length, p, t))
    BY <1>1, <1>6
  <1>12. QED
    BY <1>8, <1>9, <1>10, <1>11, WellFormedKeeps

LEMMA RubyKeeps == ASSUME NEW c \in Calls, c.sdk = "ruby" PROVE Keeps(RubyPost(c), c)
  <1>1. PICK r : r = c.request
    OBVIOUS
  <1>2. /\ r.priority \in Int \cup {Absent} /\ r.srcTimestamp \in Int \cup {Absent} /\ c.now \in Int
        /\ r.source # Absent => r.source \in Sources
    BY <1>1, CallFacts, IncidentFacts
  <1>3. PICK p \in Int : p = OrElse(r.priority, 1)
    BY <1>2 DEF OrElse
  <1>4. PICK t \in Int : t = OrElse(r.srcTimestamp, c.now)
    BY <1>2 DEF OrElse
  <1>5. PICK length : length = Length(r.source, "points")
    OBVIOUS
  <1>6. PICK extra \in BOOLEAN : extra = (r.srcTimestamp # Absent => r.srcTimestamp > 0)
    OBVIOUS
  <1>7. PICK accepted \in BOOLEAN : accepted = (extra /\ WellFormed(r, AsciiBlank, length, p, 1))
    BY DEF WellFormed
  <1>8. PICK key : key = RubyClientKey(c.clientKey)
    OBVIOUS
  <1>9. RubyPost(c) = Posted(c, Checked(c.request, accepted, p, t), key)
    BY <1>1, <1>3, <1>4, <1>5, <1>6, <1>7, <1>8 DEF RubyPost, RubyInitialize, RubySerialize, Posted
  <1>10. Alike(c, AsciiBlank, length, p, t, 1, extra)
    <2> SUFFICES ASSUME ~Deviates(c) PROVE Alike(c, AsciiBlank, length, p, t, 1, extra)
      BY DEF Alike
    <2>1. /\ UnicodeBlank \notin {c.request.title, c.request.serviceKey, c.request.details, c.clientKey}
          /\ c.request.source # Absent => c.request.source.text # UnicodeBlank
      BY DEF Deviates
    <2>2. c.request.source # Absent => length = c.request.source.points
      BY <1>1, <1>5 DEF Length
    <2>3. p = ContractValue(c, "priority")
      BY <1>1, <1>3, ContractValues
    <2>4. t = ContractValue(c, "srcTimestamp")
      BY <1>1, <1>4, ContractValues
    <2>5. c.request.srcTimestamp = Absent => c.now > 0
      <3>1. c.request.srcTimestamp = Absent => ~(c.now <= 0)
        BY DEF Deviates
      <3>2. QED
        BY <1>2, <3>1
    <2>6. extra /\ 1 > 0 <=> IF c.request.srcTimestamp = Absent THEN c.now > 0 ELSE c.request.srcTimestamp > 0
      <3>1. extra <=> (r.srcTimestamp # Absent => r.srcTimestamp > 0)
        BY <1>6, Zenon
      <3>2. 1 > 0
        OBVIOUS
      <3>3. QED
        BY <1>1, <2>5, <3>1, <3>2
    <2>7. QED
      BY <2>1, <2>2, <2>3, <2>4, <2>6 DEF Alike
  <1>11. key = IF c.clientKey \in AsciiBlank THEN Absent ELSE c.clientKey
    BY <1>8 DEF RubyClientKey
  <1>12. QED
    BY <1>1, <1>7, <1>9, <1>10, <1>11, WellFormedKeeps

LEMMA CppKeeps == ASSUME NEW c \in Calls, c.sdk = "cpp" PROVE Keeps(CppPost(c), c)
  <1>1. PICK r : r = c.request
    OBVIOUS
  <1>2. /\ r.priority \in Int \cup {Absent} /\ r.srcTimestamp \in Int \cup {Absent} /\ c.now \in Int
        /\ r.source # Absent => r.source \in Sources
    BY <1>1, CallFacts, IncidentFacts
  <1>3. PICK p \in Int : p = IF r.priority \in {Absent, 0} THEN 1 ELSE r.priority
    BY <1>2
  <1>4. PICK t \in Int : t = IF r.srcTimestamp \in {Absent, 0} THEN c.now ELSE r.srcTimestamp
    BY <1>2
  <1>5. PICK length : length = Length(r.source, "bytes")
    OBVIOUS
  <1>6. PICK accepted \in BOOLEAN : accepted = WellFormed(r, AsciiBlank, length, p, t)
    BY DEF WellFormed
  <1>7. PICK key : key = CppClientKey(c.clientKey)
    OBVIOUS
  <1>8. CppPost(c) = Posted(c, Checked(c.request, accepted, p, t), key)
    BY <1>1, <1>3, <1>4, <1>5, <1>6, <1>7 DEF CppPost, CppNormalize, CppSerialize, Posted
  <1>9. Alike(c, AsciiBlank, length, p, t, t, TRUE)
    <2> SUFFICES ASSUME ~Deviates(c) PROVE Alike(c, AsciiBlank, length, p, t, t, TRUE)
      BY DEF Alike
    <2>1. /\ UnicodeBlank \notin {c.request.title, c.request.serviceKey, c.request.details, c.clientKey}
          /\ c.request.source # Absent => c.request.source.text # UnicodeBlank
      BY DEF Deviates
    <2>2. c.request.source # Absent => (length <= MaxSourceLength <=> c.request.source.points <= MaxSourceLength)
      <3>1. ASSUME r.source # Absent PROVE length <= MaxSourceLength <=> r.source.points <= MaxSourceLength
        <4>1. length = r.source.bytes
          BY <1>5, <3>1 DEF Length
        <4>2. r.source.points \in Nat /\ r.source.bytes \in Nat /\ r.source.points <= r.source.bytes
          BY <1>2, <3>1, SourceFacts
        <4>3. ~(r.source.points <= MaxSourceLength /\ r.source.bytes > MaxSourceLength)
          BY <1>1, <3>1 DEF Deviates
        <4>4. QED
          BY <4>1, <4>2, <4>3 DEF MaxSourceLength
      <3>2. QED
        BY <1>1, <3>1
    <2>3. r.priority # 0 /\ r.srcTimestamp # 0
      BY <1>1 DEF Deviates
    <2>4. p = ContractValue(c, "priority") /\ t = ContractValue(c, "srcTimestamp")
      BY <1>1, <1>3, <1>4, <2>3, ContractValues DEF OrElse
    <2>5. t = OrElse(c.request.srcTimestamp, c.now)
      BY <2>4, ContractValues
    <2>6. t > 0 <=> IF c.request.srcTimestamp = Absent THEN c.now > 0 ELSE c.request.srcTimestamp > 0
      BY <2>5 DEF OrElse
    <2>7. QED
      BY <2>1, <2>2, <2>3, <2>4, <2>6 DEF Alike
  <1>10. key = IF c.clientKey \in AsciiBlank THEN Absent ELSE c.clientKey
    BY <1>7 DEF CppClientKey
  <1>11. accepted = (TRUE /\ WellFormed(c.request, AsciiBlank, length, p, t))
    BY <1>1, <1>6
  <1>12. QED
    BY <1>8, <1>9, <1>10, <1>11, WellFormedKeeps

\* Node makes no check of the key: without one of its own the request has the client's.
LEMMA NodeKeeps == ASSUME NEW c \in Calls, c.sdk = "node" PROVE Keeps(NodeSend(c), c)
  <1>1. PICK r : r = c.request
    OBVIOUS
  <1>2. /\ r.priority \in Int \cup {Absent} /\ r.srcTimestamp \in Int \cup {Absent} /\ c.now \in Int
        /\ r.source # Absent => r.source \in Sources
        /\ r \in Incidents /\ r.serviceKey \in Keys /\ c.clientKey \in Keys /\ c.op = "post"
    BY <1>1, CallFacts, IncidentFacts
  <1>3. PICK p \in Int : p = OrElse(r.priority, 1)
    BY <1>2 DEF OrElse
  <1>4. PICK t \in Int : t = OrElse(r.srcTimestamp, c.now)
    BY <1>2 DEF OrElse
  <1> DEFINE checks == /\ Given(r.title, UnicodeBlanks)
                       /\ r.source # Absent /\ r.source.text \notin UnicodeBlanks
                       /\ r.source.units <= MaxSourceLength
                       /\ p >= 1 /\ p <= 5
                       /\ t > 0
                       /\ NotBlank(r.details, UnicodeBlanks)
  <1>5. PICK accepted \in BOOLEAN : accepted = checks
    OBVIOUS
  <1>6. PICK n : n = Checked(r, accepted, p, t)
    OBVIOUS
  <1>7. n = NodeBuild(r, c.now)
    BY <1>3, <1>4, <1>5, <1>6 DEF NodeBuild
  <1>8. accepted <=> checks
    BY <1>5, Zenon
  <1> HIDE DEF checks
  <1>9. (n = Refused <=> ~accepted) /\ (accepted => n = Normal(r, p, t))
    BY <1>2, <1>6, CheckedFacts
  <1>10. PICK key : key = OrElse(r.serviceKey, c.clientKey)
    OBVIOUS
  <1>11. key \in Keys
    BY <1>2, <1>10 DEF OrElse
  <1>12. PICK w : w = NodeSend(c)
    OBVIOUS
  <1>13. ~accepted => w = Refused
    BY <1>1, <1>7, <1>9, <1>12 DEF NodeSend
  <1>14. accepted => w = Without(WireObject(n, key), Absent)
    <2>1. accepted => n.serviceKey = r.serviceKey
      BY <1>9 DEF Normal
    <2>2. QED
      BY <1>1, <1>7, <1>9, <1>10, <1>12, <2>1 DEF NodeSend, NodeSerialize, NodeClientKey
  <1>15. accepted => Carries(w, c, p, t, key)
    BY <1>1, <1>9, <1>11, <1>14, WithoutFacts
  <1>16. accepted <=> w # Refused
    BY <1>13, <1>15 DEF Carries
  <1>17. ASSUME ~Deviates(c)
         PROVE  (accepted <=> ContractAccepts(c)) /\ (accepted => w = ContractPayload(c))
    <2>1. /\ r.severity \in 1 .. 5 /\ r.serviceKey \notin UnicodeBlanks
          /\ c.clientKey \notin UnicodeBlanks /\ c.clientKey # Absent
      BY <1>1, <1>17 DEF Deviates
    <2>2. p = ContractValue(c, "priority") /\ t = ContractValue(c, "srcTimestamp")
      BY <1>1, <1>3, <1>4, ContractValues
    <2>3. p >= 1 /\ p <= 5 <=> r.priority \in {Absent} \cup 1 .. 5
      <3>1. p >= 1 /\ p <= 5 <=> p \in 1 .. 5
        OBVIOUS
      <3>2. QED
        BY <1>2, <1>3, <3>1, MarksAssumption DEF OrElse
    <2>4. t > 0 <=> IF r.srcTimestamp = Absent THEN c.now > 0 ELSE r.srcTimestamp > 0
      BY <1>4 DEF OrElse
    <2>5. r.source # Absent => (r.source.units <= MaxSourceLength <=> r.source.points <= MaxSourceLength)
      <3>1. ASSUME r.source # Absent PROVE r.source.units <= MaxSourceLength <=> r.source.points <= MaxSourceLength
        <4>1. r.source.points \in Nat /\ r.source.units \in Nat /\ r.source.points <= r.source.units
          BY <1>2, <3>1, SourceFacts
        <4>2. ~(r.source.points <= MaxSourceLength /\ r.source.units > MaxSourceLength)
          BY <1>1, <1>17, <3>1 DEF Deviates
        <4>3. QED
          BY <4>1, <4>2 DEF MaxSourceLength
      <3>2. QED
        BY <3>1
    <2>6. accepted <=> ContractAccepts(c)
      BY <1>1, <1>2, <1>8, <2>1, <2>3, <2>4, <2>5 DEF checks, ContractAccepts, Given, NotBlank
    <2>7. key # Absent /\ key = ContractValue(c, "serviceKey")
      BY <1>1, <1>10, <2>1, ContractValues DEF OrElse
    <2>8. Absent \notin 1 .. 5
      BY MarksAssumption
    <2>9. accepted => r.title # Absent /\ r.source # Absent /\ r.severity # Absent
      BY <1>8, <2>1, <2>8 DEF checks, Given
    <2>10. accepted => w = ContractPayload(c)
      BY <1>1, <1>2, <1>15, <2>2, <2>7, <2>9 DEF Carries
    <2>11. QED
      BY <2>6, <2>10
  <1>18. QED
    BY <1>12, <1>16, <1>17 DEF Keeps

\* What Go makes of a request: an incident in which nothing is absent.
LEMMA GoFieldsFacts ==
  ASSUME NEW r \in Incidents, NEW g, g = GoFields(r)
  PROVE  /\ g \in Incidents
         /\ g.title = OrElse(r.title, "") /\ g.severity = OrElse(r.severity, 0)
         /\ g.source = (IF r.source = Absent THEN g.source ELSE r.source)
         /\ r.source = Absent => g.source.text = ""
         /\ g.priority = OrElse(r.priority, 0) /\ g.srcTimestamp = OrElse(r.srcTimestamp, 0)
         /\ g.serviceKey = OrElse(r.serviceKey, "") /\ g.details = OrElse(r.details, "")
         /\ g.priority \in Int /\ g.srcTimestamp \in Int
  <1>1. PICK zero : zero = [text |-> "", points |-> 0, units |-> 0, bytes |-> 0]
    OBVIOUS
  <1>2. zero \in Sources /\ zero.text = ""
    <2>1. PICK e : e = ""
      OBVIOUS
    <2>2. zero = [text |-> e, points |-> 0, units |-> 0, bytes |-> 0] /\ e \in Texts
      BY <1>1, <2>1, TextFacts
    <2>3. zero \in [text : Texts, points : Nat, units : Nat, bytes : Nat]
      BY <2>2
    <2>4. zero.points = 0 /\ zero.units = 0 /\ zero.bytes = 0 /\ zero.text = e
      BY <2>2
    <2>5. zero.points <= zero.units /\ zero.points <= zero.bytes
      BY <2>4
    <2>6. zero \in Sources
      BY <2>3, <2>5 DEF Sources
    <2>7. QED
      BY <2>1, <2>4, <2>6
  <1>3. PICK title : title = OrElse(r.title, "")
    OBVIOUS
  <1>4. PICK details : details = OrElse(r.details, "")
    OBVIOUS
  <1>5. PICK key : key = OrElse(r.serviceKey, "")
    OBVIOUS
  <1>6. PICK source : source = OrElse(r.source, zero)
    OBVIOUS
  <1>7. PICK severity : severity = OrElse(r.severity, 0)
    OBVIOUS
  <1>8. PICK priority : priority = OrElse(r.priority, 0)
    OBVIOUS
  <1>9. PICK timestamp : timestamp = OrElse(r.srcTimestamp, 0)
    OBVIOUS
  <1>10. g = [title |-> title, source |-> source, severity |-> severity, priority |-> priority,
              srcTimestamp |-> timestamp, serviceKey |-> key, details |-> details]
    BY <1>1, <1>3, <1>4, <1>5, <1>6, <1>7, <1>8, <1>9 DEF GoFields
  <1>11. /\ g.title = title /\ g.source = source /\ g.severity = severity /\ g.priority = priority
         /\ g.srcTimestamp = timestamp /\ g.serviceKey = key /\ g.details = details
    BY <1>10
  <1>12. title \in Texts /\ details \in Texts
    BY <1>3, <1>4, IncidentFacts, TextFacts DEF OrElse
  <1>13. severity \in Int /\ priority \in Int /\ timestamp \in Int
    BY <1>7, <1>8, <1>9, IncidentFacts DEF OrElse
  <1>14. source \in Sources
    BY <1>2, <1>6, IncidentFacts DEF OrElse
  <1>15. key \in Texts \cup {Absent, Null}
    BY <1>5, IncidentFacts, TextFacts DEF OrElse, Keys
  <1>16. g \in Incidents
    BY <1>10, <1>12, <1>13, <1>14, <1>15 DEF Incidents
  <1>17. g.source = (IF r.source = Absent THEN g.source ELSE r.source) /\ (r.source = Absent => g.source.text = "")
    BY <1>2, <1>6, <1>11 DEF OrElse
  <1>18. QED
    BY <1>3, <1>4, <1>5, <1>7, <1>8, <1>9, <1>11, <1>13, <1>16, <1>17

\* The members that Go writes: no key and no details that are empty.
GoCarries(w, g, p, t, k) ==
  /\ w # Refused
  /\ w = [m \in DOMAIN w |-> w[m]] /\ DOMAIN w \subseteq PayloadMembers
  /\ {"title", "source", "severity", "priority", "srcTimestamp"} \subseteq DOMAIN w
  /\ "serviceKey" \in DOMAIN w <=> k # ""
  /\ "detailsJSON" \in DOMAIN w <=> g.details # ""
  /\ w["title"] = g.title /\ w["source"] = g.source /\ w["severity"] = g.severity
  /\ w["priority"] = p /\ w["srcTimestamp"] = t
  /\ k # "" => w["serviceKey"] = k
  /\ g.details # "" => w["detailsJSON"] = g.details

LEMMA GoWritten ==
  ASSUME NEW g \in Incidents, NEW p \in Int, NEW t \in Int, NEW k \in Keys,
         NEW n, n = Normal(g, p, t), NEW w, w = GoSerialize(n, k)
  PROVE  GoCarries(w, g, p, t, k)
  <1>1. PICK o : o = WireObject(n, k)
    OBVIOUS
  <1>2. /\ DOMAIN o = PayloadMembers
        /\ o.serviceKey = k /\ o.title = g.title /\ o.source = g.source /\ o.severity = g.severity
        /\ o.priority = p /\ o.srcTimestamp = t /\ o.detailsJSON = g.details
        /\ \A m \in PayloadMembers : o[m] \in Values
    BY <1>1, ObjectFacts
  <1>3. PICK written : written = {f \in PayloadMembers : f \in {"serviceKey", "detailsJSON"} => o[f] # ""}
    OBVIOUS
  <1>4. w = [f \in written |-> o[f]]
    BY <1>1, <1>2, <1>3 DEF GoSerialize
  <1>5. DOMAIN w = written /\ (\A f \in written : w[f] = o[f]) /\ w = [m \in DOMAIN w |-> w[m]]
    BY <1>4
  <1>6. written \subseteq PayloadMembers
    BY <1>3
  <1>7. w # Refused
    <2>1. written \in SUBSET Members
      BY <1>6 DEF PayloadMembers, Members
    <2>2. w \in [written -> Values]
      BY <1>2, <1>5, <1>6
    <2>3. QED
      BY <2>1, <2>2, RecordAccepted
  <1>8. {"title", "source", "severity", "priority", "srcTimestamp"} \subseteq written
    BY <1>3 DEF PayloadMembers
  <1>9. "serviceKey" \in written <=> o["serviceKey"] # ""
    BY <1>3 DEF PayloadMembers
  <1>10. "detailsJSON" \in written <=> o["detailsJSON"] # ""
    BY <1>3 DEF PayloadMembers
  <1>11. /\ w["title"] = g.title /\ w["source"] = g.source /\ w["severity"] = g.severity
         /\ w["priority"] = p /\ w["srcTimestamp"] = t
    BY <1>2, <1>5, <1>8
  <1>12. /\ k # "" => w["serviceKey"] = k
         /\ g.details # "" => w["detailsJSON"] = g.details
    BY <1>2, <1>5, <1>9, <1>10
  <1>13. QED
    BY <1>2, <1>5, <1>6, <1>7, <1>8, <1>9, <1>10, <1>11, <1>12 DEF GoCarries

\* The key of a Go client is empty exactly when it is blank or not given.
LEMMA GoKeyFacts ==
  ASSUME NEW key \in Keys
  PROVE  /\ GoClientKey(key) \in Keys
         /\ key # PaddedKey => /\ GoClientKey(key) # "" <=> Given(key, UnicodeBlanks)
                               /\ GoClientKey(key) # "" => GoClientKey(key) = key
  <1>1. "" \in Keys /\ TrimmedKey \in Keys /\ "" \in UnicodeBlanks
    BY TextFacts DEF Keys, UnicodeBlanks, AsciiBlank
  <1>2. CASE key \in UnicodeBlanks \cup {Absent}
    <2>1. PaddedKey # Absent /\ PaddedKey \notin UnicodeBlanks
      BY TextFacts, MarksAssumption DEF PaddedKey, UnicodeBlanks, UnicodeBlank, AsciiBlank
    <2>2. key # PaddedKey
      BY <1>2, <2>1
    <2>3. GoClientKey(key) = ""
      BY <1>2, <2>2 DEF GoClientKey
    <2>4. QED
      BY <1>1, <1>2, <2>3 DEF Given
  <1>3. CASE key \notin UnicodeBlanks \cup {Absent} /\ key = PaddedKey
    <2>1. GoClientKey(key) = TrimmedKey
      BY <1>3 DEF GoClientKey
    <2>2. QED
      BY <1>1, <1>3, <2>1
  <1>4. CASE key \notin UnicodeBlanks \cup {Absent} /\ key # PaddedKey
    <2>1. GoClientKey(key) = key
      BY <1>4 DEF GoClientKey
    <2>2. QED
      BY <1>1, <1>4, <2>1 DEF Given
  <1>5. QED
    BY <1>2, <1>3, <1>4

\* Go checks what is left when the zero values are filled in, and no key and no details.
LEMMA GoKeeps == ASSUME NEW c \in Calls, c.sdk = "go" PROVE Keeps(GoPost(c), c)
  <1>1. PICK r : r = c.request
    OBVIOUS
  <1>2. /\ r \in Incidents /\ c.op \in {"post", "route"} /\ c.clientKey \in Keys /\ c.now \in Int
        /\ r.priority \in Int \cup {Absent} /\ r.srcTimestamp \in Int \cup {Absent}
    BY <1>1, CallFacts, IncidentFacts
  <1>3. PICK g : g = GoFields(r)
    OBVIOUS
  <1>4. /\ g \in Incidents
        /\ g.title = OrElse(r.title, "") /\ g.severity = OrElse(r.severity, 0)
        /\ g.source = (IF r.source = Absent THEN g.source ELSE r.source)
        /\ r.source = Absent => g.source.text = ""
        /\ g.priority = OrElse(r.priority, 0) /\ g.srcTimestamp = OrElse(r.srcTimestamp, 0)
        /\ g.serviceKey = OrElse(r.serviceKey, "") /\ g.details = OrElse(r.details, "")
        /\ g.priority \in Int /\ g.srcTimestamp \in Int
    BY <1>2, <1>3, GoFieldsFacts
  <1>5. PICK p : p = IF g.priority = 0 THEN 1 ELSE g.priority
    OBVIOUS
  <1>6. PICK t : t = IF g.srcTimestamp = 0 THEN c.now ELSE g.srcTimestamp
    OBVIOUS
  <1>7. p \in Int /\ t \in Int
    <2>1. g.priority \in Int /\ g.srcTimestamp \in Int /\ c.now \in Int
      BY <1>2, <1>4
    <2>2. p \in Int
      BY <1>5, <2>1
    <2>3. t \in Int
      BY <1>6, <2>1
    <2>4. QED
      BY <2>2, <2>3
  <1> DEFINE checks == /\ g.title \notin UnicodeBlanks
                       /\ g.source.text \notin UnicodeBlanks
                       /\ g.source.points <= MaxSourceLength
                       /\ g.severity \in 1 .. 5
                       /\ p \in 1 .. 5
                       /\ t > 0
  <1>8. PICK accepted \in BOOLEAN : accepted = checks
    OBVIOUS
  <1>9. PICK n : n = Checked(g, accepted, p, t)
    OBVIOUS
  <1>10. n = GoNormalize(r, c.now)
    BY <1>3, <1>5, <1>6, <1>8, <1>9 DEF GoNormalize
  <1>11. accepted <=> checks
    BY <1>8, Zenon
  <1> HIDE DEF checks
  <1>12. (n = Refused <=> ~accepted) /\ (accepted => n = Normal(g, p, t))
    BY <1>4, <1>7, <1>9, CheckedFacts
  <1>13. accepted => n.serviceKey = g.serviceKey
    BY <1>12 DEF Normal
  <1>14. PICK key : key = GoClientKey(c.clientKey)
    OBVIOUS
  <1>15. /\ key \in Keys
         /\ c.clientKey # PaddedKey => /\ key # "" <=> Given(c.clientKey, UnicodeBlanks)
                                       /\ key # "" => key = c.clientKey
    BY <1>2, <1>14, GoKeyFacts
  <1> DEFINE allowed == KeyAllowed(g.serviceKey, key, c.op, "")
  <1>16. PICK w : w = GoPost(c)
    OBVIOUS
  <1>17. ~(accepted /\ allowed) => w = Refused
    BY <1>1, <1>10, <1>12, <1>13, <1>14, <1>16 DEF GoPost
  <1>18. PICK k : k = ResolvedKey(g.serviceKey, key, c.op, "")
    OBVIOUS
  <1>19. k \in Keys
    <2>1. g.serviceKey \in Keys /\ "" \in Keys
      BY <1>4, IncidentFacts, TextFacts DEF Keys
    <2>2. QED
      BY <1>15, <1>18, <2>1 DEF ResolvedKey
  <1>20. accepted /\ allowed => w = GoSerialize(n, k)
    BY <1>1, <1>10, <1>12, <1>13, <1>14, <1>16, <1>18 DEF GoPost
  <1>21. allowed => (c.op = "post" <=> k # "")
    BY <1>2, <1>18 DEF KeyAllowed, ResolvedKey
  <1>22. accepted /\ allowed => GoCarries(w, g, p, t, k)
    <2>1. ASSUME accepted, allowed PROVE n = Normal(g, p, t) /\ w = GoSerialize(n, k)
      BY <1>12, <1>20, <2>1
    <2>2. g \in Incidents /\ p \in Int /\ t \in Int /\ k \in Keys
      BY <1>4, <1>7, <1>19
    <2>3. QED
      BY <2>1, <2>2, GoWritten
  <1> HIDE DEF allowed
  <1>23. w # Refused <=> accepted /\ allowed
    BY <1>17, <1>22 DEF GoCarries
  <1>24. ASSUME ~Deviates(c)
         PROVE  /\ accepted /\ allowed <=> ContractAccepts(c)
                /\ accepted /\ allowed => w = ContractPayload(c)
    <2>1. /\ r.details \notin UnicodeBlanks /\ r.serviceKey \notin UnicodeBlanks
          /\ c.clientKey # PaddedKey /\ r.priority # 0 /\ r.srcTimestamp # 0
      BY <1>1, <1>24 DEF Deviates
    <2>2. "" \in UnicodeBlanks
      BY DEF UnicodeBlanks, AsciiBlank
    <2>3. p = OrElse(r.priority, 1)
      BY <1>4, <1>5, <2>1 DEF OrElse
    <2>4. t = OrElse(r.srcTimestamp, c.now)
      BY <1>4, <1>6, <2>1 DEF OrElse
    <2>5. g.title \notin UnicodeBlanks <=> Given(r.title, UnicodeBlanks)
      BY <1>4, <2>2 DEF OrElse, Given
    <2>6. g.source.text \notin UnicodeBlanks <=> r.source # Absent /\ r.source.text \notin UnicodeBlanks
      BY <1>4, <2>2
    <2>7. r.source # Absent => g.source = r.source
      BY <1>4
    <2>8. g.severity \in 1 .. 5 <=> r.severity \in 1 .. 5
      <3>1. g.severity = IF r.severity = Absent THEN 0 ELSE r.severity
        BY <1>4 DEF OrElse
      <3>2. Absent \notin 1 .. 5
        BY MarksAssumption
      <3>3. QED
        BY <3>1, <3>2
    <2>9. p \in 1 .. 5 <=> r.priority \in {Absent} \cup 1 .. 5
      BY <2>3, MarksAssumption DEF OrElse
    <2>10. t > 0 <=> IF r.srcTimestamp = Absent THEN c.now > 0 ELSE r.srcTimestamp > 0
      BY <2>4 DEF OrElse
    <2>11. g.serviceKey # "" <=> r.serviceKey # Absent
      BY <1>4, <2>1, <2>2 DEF OrElse
    <2>12. allowed <=> IF c.op = "post" THEN r.serviceKey # Absent \/ Given(c.clientKey, UnicodeBlanks)
                                        ELSE r.serviceKey = Absent
      BY <1>15, <2>1, <2>11 DEF allowed, KeyAllowed
    <2>13. accepted <=> /\ Given(r.title, UnicodeBlanks)
                        /\ r.source # Absent /\ r.source.text \notin UnicodeBlanks
                        /\ r.source.points <= MaxSourceLength
                        /\ r.severity \in 1 .. 5
                        /\ r.priority \in {Absent} \cup 1 .. 5
                        /\ IF r.srcTimestamp = Absent THEN c.now > 0 ELSE r.srcTimestamp > 0
      BY <1>11, <2>5, <2>6, <2>7, <2>8, <2>9, <2>10 DEF checks
    <2>14. accepted /\ allowed <=> ContractAccepts(c)
      BY <1>1, <2>1, <2>12, <2>13 DEF ContractAccepts
    <2>15. ASSUME accepted, allowed PROVE w = ContractPayload(c)
      <3>1. k # "" => k = ContractValue(c, "serviceKey")
        BY <1>1, <1>4, <1>15, <1>18, <2>1, <2>11, ContractValues DEF ResolvedKey, OrElse
      <3>2. "serviceKey" \in DOMAIN w <=> c.op = "post"
        BY <1>21, <1>22, <2>15 DEF GoCarries
      <3>3. "detailsJSON" \in DOMAIN w <=> c.request.details # Absent
        BY <1>1, <1>4, <1>22, <2>1, <2>2, <2>15 DEF OrElse, GoCarries
      <3>4. r.title # Absent /\ r.source # Absent /\ r.severity # Absent
        BY <2>13, <2>15, MarksAssumption DEF Given
      <3>5. g.title = r.title /\ g.severity = r.severity /\ g.source = r.source
        BY <1>4, <3>4 DEF OrElse
      <3>6. ASSUME NEW m \in DOMAIN w PROVE w[m] = ContractValue(c, m)
        <4>1. m \in PayloadMembers
          BY <1>22, <2>15 DEF GoCarries
        <4>2. CASE m = "serviceKey"
          BY <1>22, <2>15, <3>1, <3>6, <4>2 DEF GoCarries
        <4>3. CASE m = "priority"
          BY <1>1, <1>22, <2>3, <2>15, <4>3, ContractValues DEF GoCarries
        <4>4. CASE m = "srcTimestamp"
          BY <1>1, <1>22, <2>4, <2>15, <4>4, ContractValues DEF GoCarries
        <4>5. CASE m \in {"title", "source", "severity"}
          BY <1>1, <1>22, <2>15, <3>5, <4>5, ContractValues DEF GoCarries
        <4>6. CASE m = "detailsJSON"
          <5>1. r.details # Absent /\ g.details # ""
            BY <1>1, <1>22, <2>15, <3>3, <4>6 DEF GoCarries
          <5>2. g.details = r.details
            BY <1>4, <5>1 DEF OrElse
          <5>3. QED
            BY <1>1, <1>22, <2>15, <4>6, <5>1, <5>2, ContractValues DEF GoCarries
        <4>7. QED
          BY <4>1, <4>2, <4>3, <4>4, <4>5, <4>6 DEF PayloadMembers
      <3>7. QED
        BY <1>22, <2>15, <3>2, <3>3, <3>6, PayloadIsContract DEF GoCarries
    <2>16. QED
      BY <2>14, <2>15
  <1>25. w # Refused => /\ c.op = "route" => "serviceKey" \notin DOMAIN w
                        /\ c.op = "post" => "serviceKey" \in DOMAIN w
    BY <1>21, <1>22, <1>23 DEF GoCarries
  <1>26. QED
    BY <1>16, <1>23, <1>24, <1>25 DEF Keeps

-----------------------------------------------------------------------------
(* The payload of the call *)

LEMMA PreparedKeeps == ASSUME NEW c \in Calls PROVE Keeps(Prepared(c), c)
  <1>1. CASE c.sdk = "rust"
    BY <1>1, RustKeeps DEF Prepared
  <1>2. CASE c.sdk = "go"
    BY <1>2, GoKeeps DEF Prepared
  <1>3. CASE c.sdk = "java"
    BY <1>3, JavaKeeps DEF Prepared
  <1>4. CASE c.sdk = "python"
    BY <1>4, PythonKeeps DEF Prepared
  <1>5. CASE c.sdk = "node"
    BY <1>5, NodeKeeps DEF Prepared
  <1>6. CASE c.sdk = "dotnet"
    BY <1>6, DotnetKeeps DEF Prepared
  <1>7. CASE c.sdk = "ruby"
    BY <1>7, RubyKeeps DEF Prepared
  <1>8. CASE c.sdk = "cpp"
    BY <1>8, CppKeeps DEF Prepared
  <1>9. QED
    BY <1>1, <1>2, <1>3, <1>4, <1>5, <1>6, <1>7, <1>8, CallFacts DEF Sdks

\* What is on the wire is what the SDK has made of the call, and the call is refused when
\* that is nothing.
WireInv ==
  /\ call \in Calls
  /\ phase = "called" => wire = Refused
  /\ phase # "called" => wire = Prepared(call) /\ (phase = "refused" <=> wire = Refused)

LEMMA StepWireInv == WireInv /\ [Next]_vars => WireInv'
  <1> SUFFICES ASSUME WireInv, [Next]_vars PROVE WireInv'
    OBVIOUS
  <1>1. CASE Prepare
    BY <1>1 DEF WireInv, Prepare
  <1>2. CASE \E a \in Answers(call) : Attempt(a)
    <2>1. PICK a \in Answers(call) : Attempt(a)
      BY <1>2
    <2>2. phase = "sending" /\ phase' \in {"waiting", "done"} /\ call' = call /\ wire' = wire
      BY <2>1 DEF Attempt
    <2>3. QED
      BY <2>2 DEF WireInv
  <1>3. CASE BackoffElapses \/ BackoffInterrupted
    BY <1>3 DEF WireInv, BackoffElapses, BackoffInterrupted
  <1>4. CASE UNCHANGED vars
    BY <1>4 DEF WireInv, vars
  <1>5. QED
    BY <1>1, <1>2, <1>3, <1>4 DEF Next

LEMMA WireInvariance == Spec => []WireInv
  <1>1. Init => WireInv
    BY DEF Init, WireInv
  <1>2. QED
    BY <1>1, StepWireInv, PTL DEF Spec

\* Every SDK refuses the calls that the contract refuses and no others, but for the calls on
\* which it is known to deviate: the builders, constructors and normalize functions of the
\* eight SDKs come to the same, whatever the request, the client's key and the clock.
THEOREM RequestsAgree == Spec => []AcceptedIffValid
  <1>1. WireInv => AcceptedIffValid
    BY PreparedKeeps DEF WireInv, AcceptedIffValid, Keeps
  <1>2. QED
    BY <1>1, WireInvariance, PTL

\* Every SDK puts the same object on the wire for the same call, but for the calls on which
\* it is known to deviate; and whatever the call, a routed post carries no service key while
\* any other post of an SDK that checks it has one (the serialisers and the choice of the key).
THEOREM PayloadsAgree == Spec => []SamePayload
  <1>1. WireInv => SamePayload
    BY PreparedKeeps DEF WireInv, SamePayload, Keeps
  <1>2. QED
    BY <1>1, WireInvariance, PTL
=============================================================================
