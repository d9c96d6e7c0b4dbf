--------------------------- MODULE IncidentRequests ---------------------------
(***************************************************************************)
(* From the caller's incident to the JSON object on the wire, in each of   *)
(* the eight SDKs: validation and defaults, the choice of the service key, *)
(* and what serialisation leaves out.                                      *)
(*                                                                         *)
(* A text is "", ASCII white space, white space outside ASCII, or a text   *)
(* that none of the languages takes for blank. A source is known by its    *)
(* length in each of the three units the languages count in. The optional  *)
(* texts component, group, type and details are treated alike everywhere;  *)
(* `details' stands for the four of them.                                  *)
(***************************************************************************)
EXTENDS Integers

CONSTANTS Absent,    \* a field that is not given: None, null, nil, undefined
          Null,      \* Node: the explicit null, which is not undefined
          Refused    \* the call fails on the caller's thread, nothing is sent

Sdks == {"rust", "go", "java", "python", "node", "dotnet", "ruby", "cpp"}

MaxSourceLength == 255

AsciiBlank == {"", " "}
UnicodeBlank == "unicode space"
UnicodeBlanks == AsciiBlank \cup {UnicodeBlank}

\* A client key with white space around it, and without.
PaddedKey == " client key "
TrimmedKey == "client key"

\* What a caller can hand over. Characters are never more than UTF-16 units or bytes.
Texts == STRING \cup UnicodeBlanks \cup {PaddedKey, TrimmedKey}
Sources ==
  {s \in [text : Texts, points : Nat, units : Nat, bytes : Nat] : s.points <= s.units /\ s.points <= s.bytes}
Incidents ==
  [title : Texts \cup {Absent}, source : Sources \cup {Absent}, severity : Int \cup {Absent},
   priority : Int \cup {Absent}, srcTimestamp : Int \cup {Absent},
   serviceKey : Texts \cup {Absent, Null}, details : Texts \cup {Absent}]

\* The members of a request and of a payload, and their values.
Members ==
  {"title", "source", "severity", "priority", "srcTimestamp", "serviceKey", "details", "detailsJSON"}
Values == Texts \cup Int \cup Sources \cup {Absent, Null}

\* The marks are no values of the languages, and Refused is neither a request nor a payload.
ASSUME MarksAssumption ==
  /\ Absent # Null /\ Null # Refused /\ Absent # Refused
  /\ Absent \notin Int /\ Absent \notin Texts
  /\ \A fields \in SUBSET Members : Refused \notin [fields -> Values]

Given(v, blanks) == v # Absent /\ v \notin blanks
NotBlank(v, blanks) == v \notin blanks
OrElse(v, default) == IF v = Absent THEN default ELSE v

\* What the SDKs with an optional type and a builder accept: the blank texts and
\* the measure of the source are the language's.
WellFormed(r, blanks, length, priority, timestamp) ==
  /\ Given(r.title, blanks)
  /\ r.source # Absent /\ r.source.text \notin blanks
  /\ length <= MaxSourceLength
  /\ r.severity \in 1 .. 5
  /\ priority \in 1 .. 5
  /\ timestamp > 0
  /\ NotBlank(r.serviceKey, blanks)
  /\ NotBlank(r.details, blanks)

Length(source, unit) == IF source = Absent THEN 0 ELSE source[unit]

\* The request with its defaults, or Refused.
Checked(r, accepted, priority, timestamp) ==
  IF accepted THEN [r EXCEPT !.priority = priority, !.srcTimestamp = timestamp]
              ELSE Refused

-----------------------------------------------------------------------------
(* Validation and defaults *)

\* Faulty: the service key is not rejected when it is blank.
RustBuild_AnyKey(r, now) ==
  LET priority  == OrElse(r.priority, 1)
      timestamp == OrElse(r.srcTimestamp, IF now < 0 THEN 0 ELSE now)
      keyless   == [r EXCEPT !.serviceKey = Absent]
  IN Checked(r, WellFormed(keyless, UnicodeBlanks, Length(r.source, "points"), priority, timestamp),
             priority, timestamp)

\* now_millis answers 0 when the clock is before 1970; the length is in
\* characters, that is code points.
RustBuild(r, now) ==
  LET priority  == OrElse(r.priority, 1)
      timestamp == OrElse(r.srcTimestamp, IF now < 0 THEN 0 ELSE now)
  IN Checked(r, WellFormed(r, UnicodeBlanks, Length(r.source, "points"), priority, timestamp),
             priority, timestamp)

\* A Go field is never missing: its zero value means absent.
GoFields(r) ==
  [title        |-> OrElse(r.title, ""),
   source       |-> OrElse(r.source, [text |-> "", points |-> 0, units |-> 0, bytes |-> 0]),
   severity     |-> OrElse(r.severity, 0),
   priority     |-> OrElse(r.priority, 0),
   srcTimestamp |-> OrElse(r.srcTimestamp, 0),
   serviceKey   |-> OrElse(r.serviceKey, ""),
   details      |-> OrElse(r.details, "")]

\* The optional texts and the service key are not looked at.
GoNormalize(r, now) ==
  LET g         == GoFields(r)
      priority  == IF g.priority = 0 THEN 1 ELSE g.priority
      timestamp == IF g.srcTimestamp = 0 THEN now ELSE g.srcTimestamp
      accepted  == /\ g.title \notin UnicodeBlanks
                   /\ g.source.text \notin UnicodeBlanks
                   /\ g.source.points <= MaxSourceLength
                   /\ g.severity \in 1 .. 5
                   /\ priority \in 1 .. 5
                   /\ timestamp > 0
  IN Checked(g, accepted, priority, timestamp)

\* String.trim knows no white space beyond ASCII; String.length is in UTF-16.
JavaBuild(r, now) ==
  LET priority  == OrElse(r.priority, 1)
      timestamp == OrElse(r.srcTimestamp, now)
  IN Checked(r, WellFormed(r, AsciiBlank, Length(r.source, "units"), priority, timestamp),
             priority, timestamp)

\* _resolve_src_timestamp: only a given timestamp has to be positive.
PythonTimestampOK(r) == r.srcTimestamp # Absent => r.srcTimestamp > 0

PythonInit(r, now) ==
  LET priority  == OrElse(r.priority, 1)
      timestamp == OrElse(r.srcTimestamp, now)
      accepted  == /\ PythonTimestampOK(r)
                   /\ WellFormed(r, UnicodeBlanks, Length(r.source, "points"), priority, 1)
  IN Checked(r, accepted, priority, timestamp)

\* The severity is not looked at, and any service key will do.
NodeBuild(r, now) ==
  LET priority  == OrElse(r.priority, 1)
      timestamp == OrElse(r.srcTimestamp, now)
      accepted  == /\ Given(r.title, UnicodeBlanks)
                   /\ r.source # Absent /\ r.source.text \notin UnicodeBlanks
                   /\ r.source.units <= MaxSourceLength
                   /\ priority >= 1 /\ priority <= 5
                   /\ timestamp > 0
                   /\ NotBlank(r.details, UnicodeBlanks)
  IN Checked(r, accepted, priority, timestamp)

DotnetNormalize(r, now) ==
  LET priority  == OrElse(r.priority, 1)
      timestamp == OrElse(r.srcTimestamp, now)
  IN Checked(r, WellFormed(r, UnicodeBlanks, Length(r.source, "units"), priority, timestamp),
             priority, timestamp)

\* String#strip is ASCII; a timestamp that is not given is not checked.
RubyInitialize(r, now) ==
  LET priority  == OrElse(r.priority, 1)
      timestamp == OrElse(r.srcTimestamp, now)
      accepted  == /\ r.srcTimestamp # Absent => r.srcTimestamp > 0
                   /\ WellFormed(r, AsciiBlank, Length(r.source, "points"), priority, 1)
  IN Checked(r, accepted, priority, timestamp)

\* Zero means absent for the numbers, std::nullopt for the optional texts (a
\* required member that is not given is empty or zero, and refused as such); the
\* length of the source is in bytes.
CppNormalize(r, now) ==
  LET priority  == IF r.priority \in {Absent, 0} THEN 1 ELSE r.priority
      timestamp == IF r.srcTimestamp \in {Absent, 0} THEN now ELSE r.srcTimestamp
  IN Checked(r, WellFormed(r, AsciiBlank, Length(r.source, "bytes"), priority, timestamp),
             priority, timestamp)

-----------------------------------------------------------------------------
(* The service key a client is built with *)

RustClientKey(key) == IF key \in UnicodeBlanks THEN Absent ELSE key

\* TrimSpace: a blank key becomes the zero value, and padding is taken off.
GoClientKey(key) ==
  CASE key \in UnicodeBlanks \cup {Absent} -> ""
    [] key = PaddedKey -> TrimmedKey
    [] OTHER -> key

JavaClientKey(key) == IF key \in AsciiBlank THEN Absent ELSE key
PythonClientKey(key) == IF key \in UnicodeBlanks THEN Absent ELSE key
NodeClientKey(key) == key
DotnetClientKey(key) == IF key \in UnicodeBlanks THEN Absent ELSE key
RubyClientKey(key) == IF key \in AsciiBlank THEN Absent ELSE key
CppClientKey(key) == IF key \in AsciiBlank THEN Absent ELSE key

-----------------------------------------------------------------------------
(* Serialisation: an absent member is not written *)

WireObject(n, key) ==
  [serviceKey |-> key, title |-> n.title, source |-> n.source, severity |-> n.severity,
   priority |-> n.priority, srcTimestamp |-> n.srcTimestamp, detailsJSON |-> n.details]

Without(object, dropped) ==
  [f \in {g \in DOMAIN object : object[g] # dropped} |-> object[f]]

RustSerialize(n, key) == Without(WireObject(n, key), Absent)

\* omitempty stands on the optional members only, none of which is a number.
GoSerialize(n, key) ==
  LET object == WireObject(n, key)
      written == {f \in DOMAIN object : f \in {"serviceKey", "detailsJSON"} => object[f] # ""}
  IN [f \in written |-> object[f]]

JavaSerialize(n, key) == Without(WireObject(n, key), Absent)
PythonSerialize(n, key) == Without(WireObject(n, key), Absent)

\* JSON.stringify drops undefined, severity included, and writes null and "".
NodeSerialize(n, key) == Without(WireObject(n, key), Absent)

DotnetSerialize(n, key) == Without(WireObject(n, key), Absent)
RubySerialize(n, key) == Without(WireObject(n, key), Absent)
CppSerialize(n, key) == Without(WireObject(n, key), Absent)

-----------------------------------------------------------------------------
(* The post operations: `post' with a service key, `route' without. The       *)
(* asynchronous operation of each kind makes the same checks before it queues *)
(* (Node: when the queued task runs) and the same payload when it runs.       *)

\* The key check, with `none' for a key that is not there.
KeyAllowed(own, default, op, none) ==
  IF op = "post" THEN own # none \/ default # none ELSE own = none

\* Faulty: a routed post falls back on the client's key.
ResolvedKey_Inherits(own, default, op, none) == IF own # none THEN own ELSE default

\* The request's own key wins; a routed post has no default.
ResolvedKey(own, default, op, none) ==
  IF own # none THEN own ELSE IF op = "post" THEN default ELSE none

RustPost(c) ==
  LET n   == RustBuild(c.request, c.now)
      key == RustClientKey(c.clientKey)
  IN IF n = Refused THEN Refused
     ELSE IF ~KeyAllowed(n.serviceKey, key, c.op, Absent) THEN Refused
     ELSE RustSerialize(n, ResolvedKey(n.serviceKey, key, c.op, Absent))

GoPost(c) ==
  LET n   == GoNormalize(c.request, c.now)
      key == GoClientKey(c.clientKey)
  IN IF n = Refused THEN Refused
     ELSE IF ~KeyAllowed(n.serviceKey, key, c.op, "") THEN Refused
     ELSE GoSerialize(n, ResolvedKey(n.serviceKey, key, c.op, ""))

JavaPost(c) ==
  LET n   == JavaBuild(c.request, c.now)
      key == JavaClientKey(c.clientKey)
  IN IF n = Refused THEN Refused
     ELSE IF ~KeyAllowed(n.serviceKey, key, c.op, Absent) THEN Refused
     ELSE JavaSerialize(n, ResolvedKey(n.serviceKey, key, c.op, Absent))

PythonPost(c) ==
  LET n   == PythonInit(c.request, c.now)
      key == PythonClientKey(c.clientKey)
  IN IF n = Refused THEN Refused
     ELSE IF ~KeyAllowed(n.serviceKey, key, c.op, Absent) THEN Refused
     ELSE PythonSerialize(n, ResolvedKey(n.serviceKey, key, c.op, Absent))

\* One operation: a key that is not given is the client's, whatever that is.
NodeSend(c) ==
  LET n == NodeBuild(c.request, c.now)
  IN IF n = Refused THEN Refused
     ELSE NodeSerialize(n, OrElse(n.serviceKey, NodeClientKey(c.clientKey)))

DotnetPost(c) ==
  LET n   == DotnetNormalize(c.request, c.now)
      key == DotnetClientKey(c.clientKey)
  IN IF n = Refused THEN Refused
     ELSE IF ~KeyAllowed(n.serviceKey, key, c.op, Absent) THEN Refused
     ELSE DotnetSerialize(n, ResolvedKey(n.serviceKey, key, c.op, Absent))

RubyPost(c) ==
  LET n   == RubyInitialize(c.request, c.now)
      key == RubyClientKey(c.clientKey)
  IN IF n = Refused THEN Refused
     ELSE IF ~KeyAllowed(n.serviceKey, key, c.op, Absent) THEN Refused
     ELSE RubySerialize(n, ResolvedKey(n.serviceKey, key, c.op, Absent))

CppPost(c) ==
  LET n   == CppNormalize(c.request, c.now)
      key == CppClientKey(c.clientKey)
  IN IF n = Refused THEN Refused
     ELSE IF ~KeyAllowed(n.serviceKey, key, c.op, Absent) THEN Refused
     ELSE CppSerialize(n, ResolvedKey(n.serviceKey, key, c.op, Absent))

\* The payload of call c, or Refused.
Prepared(c) ==
  CASE c.sdk = "rust"   -> RustPost(c)   [] c.sdk = "go"     -> GoPost(c)
    [] c.sdk = "java"   -> JavaPost(c)   [] c.sdk = "python" -> PythonPost(c)
    [] c.sdk = "node"   -> NodeSend(c)   [] c.sdk = "dotnet" -> DotnetPost(c)
    [] c.sdk = "ruby"   -> RubyPost(c)   [] c.sdk = "cpp"    -> CppPost(c)
=============================================================================
