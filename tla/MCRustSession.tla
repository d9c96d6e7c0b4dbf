--------------------------- MODULE MCRustSession ---------------------------
(* Instances of RustSession for TLC. *)
EXTENDS RustSession

MCBody(kind) == [kind |-> kind, success |-> "absent", code |-> [form |-> "absent", n |-> 0]]
MCAnswer(status, kind) == [status |-> status, body |-> MCBody(kind)]
NoAnswer == MCAnswer(NoStatus, "blank")

\* Nothing listens on the loopback port. Oppex accepts, refuses for good, is
\* overloaded, breaks off or does not answer.
MCAnswers(e) ==
  IF e = Loopback THEN {NoAnswer}
  ELSE {NoAnswer, MCAnswer(200, "blank"), MCAnswer(404, "blank"), MCAnswer(503, "blank"),
        MCAnswer(200, "torn")}

\* What a free program is made of: it takes whatever it gets, except that it
\* stops when it has no client or no request.
MCStatements ==
  {SetEnv(Loopback), SetEnv(""),
   NewClient(<<<<"apiKey", " ">>>>, "ok"),
   NewClient(<<<<"apiKey", "key">>>>, "ok"),
   NewClient(<<<<"serviceKey", "key">>, <<"apiKey", " ">>, <<"apiKey", "key">>>>, "ok"),
   NewRequest(<<<<"title", "">>>> \o Incident("title", SeverityFromValue(5)), "ok"),
   NewRequest(Incident("title", SeverityFromValue(6)), "anything"),
   NewRequest(Append(Incident("title", "Low"), <<"serviceKey", "key">>), "ok"),
   CloseIt, DropIt}
  \cup {PostIt(how, async, "anything") : how \in {"post", "route"}, async \in BOOLEAN}
=============================================================================
