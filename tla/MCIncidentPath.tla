--------------------------- MODULE MCIncidentPath ---------------------------
EXTENDS IncidentPath

\* A request nobody objects to, and the values that a field may have instead.
Plain == [title |-> "title", source |-> [text |-> "s", points |-> 255, units |-> 255, bytes |-> 255],
          severity |-> 3, priority |-> Absent, srcTimestamp |-> Absent,
          serviceKey |-> Absent, details |-> Absent]

TextValues == {Absent, "", " ", UnicodeBlank, "text"}
Numbers == {Absent, -1, 0, 1, 5, 6}
Source(text, points, units, bytes) ==
  [text |-> text, points |-> points, units |-> units, bytes |-> bytes]
SourceValues ==
  {Absent, Source("", 0, 0, 0), Source(" ", 1, 1, 1), Source(UnicodeBlank, 1, 1, 3),
   Source("s", 256, 256, 256), Source("s", 255, 255, 510), Source("s", 200, 400, 800)}

\* All requests in which at most one field differs, with every service key.
OwnKeys == {Absent, "", " ", UnicodeBlank, "own key"}
Varied ==
  {Plain} \cup {[Plain EXCEPT !.title = v] : v \in TextValues}
    \cup {[Plain EXCEPT !.source = v] : v \in SourceValues}
    \cup {[Plain EXCEPT !.severity = v] : v \in Numbers}
    \cup {[Plain EXCEPT !.priority = v] : v \in Numbers}
    \cup {[Plain EXCEPT !.srcTimestamp = v] : v \in Numbers}
    \cup {[Plain EXCEPT !.details = v] : v \in TextValues}

ClientKeys == {Absent, "", " ", UnicodeBlank, PaddedKey, TrimmedKey}

\* What the types of the language let through: a Severity is one of five in
\* Rust, whose priority is unsigned; only Node tells null from undefined.
Expressible(sdk, r) ==
  sdk = "rust" => r.severity \in {Absent} \cup 1 .. 5 /\ (r.priority = Absent \/ r.priority >= 0)

Requests(sdk) ==
  {[r EXCEPT !.serviceKey = k] :
     r \in {v \in Varied : Expressible(sdk, v)},
     k \in OwnKeys \cup (IF sdk = "node" THEN {Null} ELSE {})}

CallsOf(sdk) ==
  [sdk : {sdk}, op : IF sdk = "node" THEN {"post"} ELSE {"post", "route"},
   clientKey : ClientKeys \cup (IF sdk = "node" THEN {Null} ELSE {}),
   request : Requests(sdk), now : {0, 9}]

MCCalls == UNION {CallsOf(sdk) : sdk \in Sdks}

\* 2000 does not fit IntMax = 1023.
Body(kind, success, form, n) ==
  [kind |-> kind, success |-> success, code |-> [form |-> form, n |-> n]]
Bodies ==
  {Body(kind, "absent", "absent", 0) : kind \in {"blank", "text", "array", "null", "scalar", "torn"}}
    \cup {Body("object", s, f, 7) : s \in {"absent", "true", "false", "other"},
                                    f \in {"absent", "integer", "fraction", "other"}}
    \cup {Body("object", "true", "integer", 2000)}
    \cup {Body(kind, s, "integer", 7) : kind \in {"trailing", "oversized"}, s \in {"true", "false"}}
AllAnswers ==
  {[status |-> NoStatus, body |-> Body("blank", "absent", "absent", 0)]}
    \cup [status : {199, 200, 299, 300, 404, 429, 500, 501, 503}, body : Bodies]

\* What the SDK makes of an answer does not depend on the request, so the plain
\* request alone meets all answers and the others meet three.
MCAnswers(c) ==
  IF c.request = Plain /\ c.clientKey = TrimmedKey /\ c.now = 9
    THEN AllAnswers
    ELSE {a \in AllAnswers : a.status \in {NoStatus, 200, 404} /\ a.body.kind = "blank"}
=============================================================================
