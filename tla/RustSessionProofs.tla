------------------------- MODULE RustSessionProofs -------------------------
(***************************************************************************)
(* Proofs about the programs that use the Rust SDK, for all statements a   *)
(* free program is made of, any number of them, all answers an endpoint    *)
(* can give and any number of workers.                                     *)
(***************************************************************************)
EXTENDS RustSession, FiniteSetTheorems, TLAPS

-----------------------------------------------------------------------------
(* Sequences of values of no particular set *)

IsSeq(s) == s \in Seq({s[i] : i \in DOMAIN s})

LEMMA SeqFacts ==
  ASSUME NEW s, IsSeq(s)
  PROVE  Len(s) \in Nat /\ DOMAIN s = 1 .. Len(s)
  BY DEF IsSeq

LEMMA InSeq ==
  ASSUME NEW S, NEW s \in Seq(S)
  PROVE  IsSeq(s)
  BY DEF IsSeq

LEMMA SeqAppend ==
  ASSUME NEW s, IsSeq(s), NEW e
  PROVE  LET t == Append(s, e)
         IN /\ IsSeq(t) /\ Len(t) = Len(s) + 1 /\ DOMAIN t = 1 .. Len(s) + 1
            /\ \A i \in DOMAIN s : t[i] = s[i]
            /\ t[Len(s) + 1] = e
  <1> DEFINE S == {s[i] : i \in DOMAIN s} \cup {e}
  <1>1. s \in Seq(S)
    BY DEF IsSeq
  <1>2. Append(s, e) \in Seq(S)
    BY <1>1
  <1> HIDE DEF S
  <1>3. IsSeq(Append(s, e))
    BY <1>2, InSeq
  <1>4. QED
    BY <1>1, <1>3

LEMMA SeqMap ==
  ASSUME NEW s, IsSeq(s), NEW t, DOMAIN t = DOMAIN s, t = [i \in DOMAIN s |-> t[i]]
  PROVE  IsSeq(t) /\ Len(t) = Len(s)
  <1>1. Len(s) \in Nat /\ DOMAIN s = 1 .. Len(s)
    BY SeqFacts
  <1>2. t \in Seq({t[i] : i \in DOMAIN t})
    BY <1>1
  <1>3. QED
    BY <1>1, <1>2 DEF IsSeq

LEMMA SeqExcept ==
  ASSUME NEW s, IsSeq(s), NEW i, NEW e
  PROVE  LET t == [s EXCEPT ![i] = e]
         IN /\ IsSeq(t) /\ Len(t) = Len(s) /\ DOMAIN t = DOMAIN s
            /\ \A j \in DOMAIN s : t[j] = IF j = i THEN e ELSE s[j]
  <1> DEFINE t == [s EXCEPT ![i] = e]
  <1>1. DOMAIN t = DOMAIN s /\ \A j \in DOMAIN s : t[j] = IF j = i THEN e ELSE s[j]
    OBVIOUS
  <1>2. t = [j \in DOMAIN s |-> t[j]]
    OBVIOUS
  <1> HIDE DEF t
  <1>3. IsSeq(t) /\ Len(t) = Len(s)
    BY <1>1, <1>2, SeqMap
  <1>4. QED
    BY <1>1, <1>3 DEF t

LEMMA SeqTail ==
  ASSUME NEW s, IsSeq(s), s # <<>>
  PROVE  /\ 1 \in DOMAIN s /\ Head(s) = s[1]
         /\ IsSeq(Tail(s)) /\ DOMAIN Tail(s) = 1 .. Len(s) - 1
         /\ \A i \in DOMAIN Tail(s) : i + 1 \in DOMAIN s /\ Tail(s)[i] = s[i + 1]
  <1> DEFINE S == {s[i] : i \in DOMAIN s}
  <1>1. s \in Seq(S)
    BY DEF IsSeq
  <1> HIDE DEF S
  <1>2. Tail(s) \in Seq(S)
    BY <1>1
  <1>3. IsSeq(Tail(s))
    BY <1>2, InSeq
  <1>4. QED
    BY <1>1, <1>3

-----------------------------------------------------------------------------
(* Clients and deliveries as records *)

IsClient(c) ==
  c = [endpoint |-> c.endpoint, serviceKey |-> c.serviceKey, closed |-> c.closed,
       signalled |-> c.signalled, alive |-> c.alive, contacted |-> c.contacted]

IsDelivery(d) ==
  d = [client |-> d.client, async |-> d.async, tries |-> d.tries, outcome |-> d.outcome,
       phase |-> d.phase]

LEMMA ClientContacts ==
  ASSUME NEW c, IsClient(c), NEW x, NEW d, d = [c EXCEPT !.contacted = x]
  PROVE  /\ IsClient(d) /\ d.contacted = x
         /\ d.endpoint = c.endpoint /\ d.closed = c.closed /\ d.signalled = c.signalled
  BY DEF IsClient

LEMMA ClientDies ==
  ASSUME NEW c, IsClient(c), NEW x, NEW d, d = [c EXCEPT !.alive = x]
  PROVE  /\ IsClient(d) /\ d.contacted = c.contacted
         /\ d.endpoint = c.endpoint /\ d.closed = c.closed /\ d.signalled = c.signalled
  BY DEF IsClient

LEMMA ClientCloses ==
  ASSUME NEW c, IsClient(c), NEW d, d = [c EXCEPT !.closed = TRUE, !.signalled = TRUE]
  PROVE  /\ IsClient(d) /\ d.contacted = c.contacted
         /\ d.endpoint = c.endpoint /\ d.closed /\ d.signalled
  BY DEF IsClient

LEMMA DeliveryMoves ==
  ASSUME NEW d, IsDelivery(d), NEW x, NEW e, e = [d EXCEPT !.phase = x]
  PROVE  /\ IsDelivery(e) /\ e.phase = x
         /\ e.client = d.client /\ e.tries = d.tries /\ e.outcome = d.outcome
  BY DEF IsDelivery

-----------------------------------------------------------------------------
(* The inductive invariant *)

KnownUrl(s) == s.op = "env" => s.url \in Endpoints \cup {Absent, ""}

\* The statement leaves a client or stops the program.
Builds(s) == s.op = "client" /\ s.expect = "ok"

\* A post in s has a client, n of which are built, or comes behind a statement that builds one.
Covered(s, n) ==
  \A i \in DOMAIN s : s[i].op = "post" => n > 0 \/ \E j \in 1 .. i - 1 : Builds(s[j])

\* The statements left are known ones, and a post among them has a client or comes behind a
\* statement that builds one; a thread that is blocked is in the statement that blocks it.
ProgramInv ==
  /\ IsSeq(left)
  /\ env \in Endpoints \cup {Absent, ""}
  /\ \A i \in DOMAIN left : KnownUrl(left[i])
  /\ Covered(left, current)
  /\ pc \in {"ready", "posting", "closing"}
  /\ pc = "posting" => left # <<>> /\ stmt.op = "post"
  /\ pc = "closing" => left # <<>> /\ stmt.op \in {"close", "drop"}

\* A client has contacted no endpoint but its own, and interrupts its retries when it closes.
ClientOK(c) ==
  /\ IsClient(c)
  /\ c.endpoint \in Endpoints
  /\ c.contacted \subseteq {c.endpoint}
  /\ c.closed => c.signalled

ClientInv == IsSeq(clients) /\ \A c \in DOMAIN clients : ClientOK(clients[c])

\* What is known of a failure once the delivery is over.
Told(d, signalled) ==
  /\ d.tries \in 1 .. 6
  /\ d.outcome.counted \in {0, d.tries}
  /\ d.outcome.kind = "Delivery" /\ StatusCode(d.outcome) = Absent =>
       d.outcome.counted = 6 \/ signalled

\* A delivery has a client and is within the schedule.
DeliveryOK(d) ==
  /\ IsDelivery(d)
  /\ d.client \in DOMAIN clients
  /\ d.phase \in {"queued", "sending", "waiting", "over", "abandoned"}
  /\ d.tries \in Nat
  /\ d.phase \in {"queued", "sending"} => d.tries <= 5
  /\ d.phase = "waiting" => d.tries \in 1 .. 5
  /\ d.phase = "over" => Told(d, clients[d.client].signalled)

DeliveryInv == IsSeq(deliveries) /\ \A k \in DOMAIN deliveries : DeliveryOK(deliveries[k])

\* Nothing of a client is queued once its close has returned.
DrainedInv ==
  \A c \in DOMAIN clients : clients[c].closed /\ ~(pc = "closing" /\ c = current) =>
    \A k \in DOMAIN deliveries : deliveries[k].client = c => deliveries[k].phase # "queued"

SessionInv == ProgramInv /\ ClientInv /\ DeliveryInv /\ DrainedInv

-----------------------------------------------------------------------------
(* What a step has to keep *)

LEMMA Singleton ==
  ASSUME NEW x, NEW s, s = <<x>>
  PROVE  IsSeq(s) /\ DOMAIN s = {1} /\ s[1] = x /\ s # <<>>
  <1>1. s \in Seq({x})
    OBVIOUS
  <1>2. IsSeq(s)
    BY <1>1, InSeq
  <1>3. QED
    BY <1>2

LEMMA TailCovered ==
  ASSUME NEW s, IsSeq(s), s # <<>>, NEW m, NEW n, Covered(s, m),
         m > 0 => n > 0, Builds(Head(s)) => n > 0
  PROVE  Covered(Tail(s), n)
  <1> DEFINE t == Tail(s)
  <1>1. /\ Head(s) = s[1] /\ DOMAIN t = 1 .. Len(s) - 1
        /\ \A i \in DOMAIN t : i + 1 \in DOMAIN s /\ t[i] = s[i + 1]
    BY SeqTail
  <1>2. Len(s) \in Nat
    BY SeqFacts
  <1> HIDE DEF t
  <1>3. ASSUME NEW i \in DOMAIN t, t[i].op = "post", ~(n > 0)
        PROVE  \E j \in 1 .. i - 1 : Builds(t[j])
    <2>1. i \in 1 .. Len(s) - 1 /\ i + 1 \in DOMAIN s /\ s[i + 1].op = "post"
      BY <1>1, <1>3
    <2>2. \E j \in 1 .. (i + 1) - 1 : Builds(s[j])
      BY <1>3, <2>1 DEF Covered
    <2>3. PICK j \in 1 .. i : Builds(s[j])
      BY <1>2, <2>1, <2>2
    <2>4. j # 1
      BY <1>1, <1>3, <2>3
    <2>5. j - 1 \in 1 .. i - 1 /\ j - 1 \in DOMAIN t
      BY <1>1, <1>2, <2>1, <2>4
    <2>6. t[j - 1] = s[j]
      <3>1. t[j - 1] = s[(j - 1) + 1]
        BY <1>1, <2>5
      <3>2. (j - 1) + 1 = j
        BY <2>3
      <3>3. QED
        BY <3>1, <3>2
    <2>7. QED
      BY <2>3, <2>5, <2>6
  <1>4. QED
    BY <1>3 DEF Covered, t

\* A statement that ends leaves the ones behind it, or none but the drop.
LEMMA ReturnKeepsProgram ==
  ASSUME ProgramInv, left # <<>>, pc' = "ready",
         env' \in Endpoints \cup {Absent, ""},
         current > 0 => current' > 0,
         left' = <<DropIt>> \/ (left' = Tail(left) /\ (Builds(stmt) => current' > 0))
  PROVE  ProgramInv'
  <1>1. CASE left' = <<DropIt>>
    <2>1. IsSeq(left') /\ DOMAIN left' = {1} /\ left'[1] = DropIt
      BY <1>1, Singleton
    <2>2. DropIt.op = "drop"
      BY DEF DropIt
    <2>3. \A i \in DOMAIN left' : KnownUrl(left'[i])
      BY <2>1, <2>2 DEF KnownUrl
    <2>4. Covered(left', current')
      BY <2>1, <2>2 DEF Covered
    <2>5. QED
      BY <2>1, <2>3, <2>4 DEF ProgramInv
  <1>2. CASE left' = Tail(left) /\ (Builds(stmt) => current' > 0)
    <2>1. /\ IsSeq(left')
          /\ \A i \in DOMAIN left' : i + 1 \in DOMAIN left /\ left'[i] = left[i + 1]
      BY <1>2, SeqTail DEF ProgramInv
    <2>2. \A i \in DOMAIN left' : KnownUrl(left'[i])
      BY <2>1 DEF ProgramInv
    <2>3. Covered(left', current')
      BY <1>2, TailCovered DEF stmt, ProgramInv
    <2>4. QED
      BY <2>1, <2>2, <2>3 DEF ProgramInv
  <1>3. QED
    BY <1>1, <1>2

\* A delivery is as it was when the clients are, but for what they have contacted.
LEMMA DeliveryKept ==
  ASSUME NEW d, DeliveryOK(d), DOMAIN clients \subseteq DOMAIN clients',
         \A c \in DOMAIN clients : clients[c].signalled => clients'[c].signalled
  PROVE  DeliveryOK(d)'
  BY DEF DeliveryOK, Told

LEMMA DeliveriesKept ==
  ASSUME DeliveryInv, DOMAIN clients \subseteq DOMAIN clients',
         \A c \in DOMAIN clients : clients[c].signalled => clients'[c].signalled,
         UNCHANGED deliveries
  PROVE  DeliveryInv'
  <1>1. IsSeq(deliveries')
    BY DEF DeliveryInv
  <1>2. ASSUME NEW k \in DOMAIN deliveries' PROVE DeliveryOK(deliveries[k])'
    <2>1. PICK d : d = deliveries[k]
      OBVIOUS
    <2>2. DeliveryOK(d)
      BY <2>1 DEF DeliveryInv
    <2>3. DeliveryOK(d)'
      BY <2>2, DeliveryKept
    <2>4. QED
      BY <2>1, <2>3
  <1>3. QED
    BY <1>1, <1>2 DEF DeliveryInv

\* Nothing comes to be queued for a client that is closed, and no client comes to be
\* closed behind its back.
LEMMA DrainedKept ==
  ASSUME DrainedInv,
         \A c \in DOMAIN clients' : clients'[c].closed /\ ~(pc' = "closing" /\ c = current') =>
            c \in DOMAIN clients /\ clients[c].closed /\ ~(pc = "closing" /\ c = current),
         \A k \in DOMAIN deliveries' : deliveries'[k].phase = "queued" =>
            \/ /\ k \in DOMAIN deliveries /\ deliveries[k].phase = "queued"
               /\ deliveries[k].client = deliveries'[k].client
            \/ ~clients[deliveries'[k].client].closed
  PROVE  DrainedInv'
  BY DEF DrainedInv

-----------------------------------------------------------------------------
(* The program's steps *)

\* A statement that neither makes nor touches a client or a delivery.
LEMMA QuietReturn ==
  ASSUME SessionInv, left # <<>>, pc # "closing", pc' = "ready",
         env' \in Endpoints \cup {Absent, ""}, UNCHANGED <<clients, deliveries>>,
         ~Builds(stmt), left' \in {<<DropIt>>, Tail(left)}
  PROVE  SessionInv'
  <1>1. ProgramInv'
    BY ReturnKeepsProgram DEF SessionInv, current
  <1>2. ClientInv'
    BY DEF SessionInv, ClientInv, ClientOK
  <1>3. DeliveryInv'
    BY DeliveriesKept DEF SessionInv
  <1>4. DrainedInv'
    BY DEF SessionInv, DrainedInv, current
  <1>5. QED
    BY <1>1, <1>2, <1>3, <1>4 DEF SessionInv

LEMMA ImproviseInv == ASSUME SessionInv, NEW s \in Statements, Improvise(s) PROVE SessionInv'
  <1> USE DEF Improvise
  <1>1. ProgramInv'
    <2>1. IsSeq(left') /\ DOMAIN left' = {1} /\ left'[1] = s
      BY Singleton
    <2>2. KnownUrl(s)
      BY DEF KnownUrl, Endpoints
    <2>3. s.op = "post" => current' > 0
      BY DEF Compiles, Alive, current
    <2>4. Covered(left', current')
      BY <2>1, <2>3 DEF Covered
    <2>5. QED
      BY <2>1, <2>2, <2>4 DEF ProgramInv, SessionInv
  <1>2. ClientInv'
    BY DEF SessionInv, ClientInv, ClientOK
  <1>3. DeliveryInv'
    BY DeliveriesKept DEF SessionInv
  <1>4. DrainedInv'
    BY DEF SessionInv, DrainedInv, current
  <1>5. QED
    BY <1>1, <1>2, <1>3, <1>4 DEF SessionInv

\* What At says of the statement.
LEMMA StatementFacts ==
  ASSUME SessionInv, NEW op, At(op)
  PROVE  left # <<>> /\ pc = "ready" /\ stmt.op = op /\ 1 \in DOMAIN left /\ stmt = left[1]
  BY SeqTail DEF At, stmt, SessionInv, ProgramInv

LEMMA RunSetEnvInv == SessionInv /\ RunSetEnv => SessionInv'
  <1> SUFFICES ASSUME SessionInv, RunSetEnv PROVE SessionInv'
    OBVIOUS
  <1>1. left # <<>> /\ pc = "ready" /\ stmt.op = "env" /\ 1 \in DOMAIN left /\ stmt = left[1]
    BY StatementFacts DEF RunSetEnv
  <1>2. env' \in Endpoints \cup {Absent, ""}
    BY <1>1 DEF RunSetEnv, SessionInv, ProgramInv, KnownUrl
  <1>3. pc' = "ready" /\ left' \in {<<DropIt>>, Tail(left)} /\ UNCHANGED <<clients, deliveries>>
    BY DEF RunSetEnv, Returns
  <1>4. ~Builds(stmt)
    BY <1>1 DEF Builds
  <1>5. QED
    BY <1>1, <1>2, <1>3, <1>4, QuietReturn

LEMMA RunCheckInv == SessionInv /\ RunCheck => SessionInv'
  <1> SUFFICES ASSUME SessionInv, RunCheck PROVE SessionInv'
    OBVIOUS
  <1>1. left # <<>> /\ pc = "ready" /\ stmt.op = "check"
    BY StatementFacts DEF RunCheck
  <1>2. env' \in Endpoints \cup {Absent, ""}
    BY DEF RunCheck, SessionInv, ProgramInv
  <1>3. pc' = "ready" /\ left' \in {<<DropIt>>, Tail(left)} /\ UNCHANGED <<clients, deliveries>>
    BY DEF RunCheck, Returns
  <1>4. ~Builds(stmt)
    BY <1>1 DEF Builds
  <1>5. QED
    BY <1>1, <1>2, <1>3, <1>4, QuietReturn

LEMMA RunRequestInv == SessionInv /\ RunRequest => SessionInv'
  <1> SUFFICES ASSUME SessionInv, RunRequest PROVE SessionInv'
    OBVIOUS
  <1>1. left # <<>> /\ pc = "ready" /\ stmt.op = "request"
    BY StatementFacts DEF RunRequest
  <1>2. env' \in Endpoints \cup {Absent, ""}
    BY DEF RunRequest, SessionInv, ProgramInv
  <1>3. pc' = "ready" /\ left' \in {<<DropIt>>, Tail(left)} /\ UNCHANGED <<clients, deliveries>>
    BY DEF RunRequest, Returns
  <1>4. ~Builds(stmt)
    BY <1>1 DEF Builds
  <1>5. QED
    BY <1>1, <1>2, <1>3, <1>4, QuietReturn

LEMMA PostRefusedInv == SessionInv /\ PostRefused => SessionInv'
  <1> SUFFICES ASSUME SessionInv, PostRefused PROVE SessionInv'
    OBVIOUS
  <1>1. left # <<>> /\ pc = "ready" /\ stmt.op = "post"
    BY StatementFacts DEF PostRefused
  <1>2. env' \in Endpoints \cup {Absent, ""}
    BY DEF PostRefused, SessionInv, ProgramInv
  <1>3. pc' = "ready" /\ left' \in {<<DropIt>>, Tail(left)} /\ UNCHANGED <<clients, deliveries>>
    BY DEF PostRefused, Returns
  <1>4. ~Builds(stmt)
    BY <1>1 DEF Builds
  <1>5. QED
    BY <1>1, <1>2, <1>3, <1>4, QuietReturn

LEMMA PostReturnsInv == SessionInv /\ PostReturns => SessionInv'
  <1> SUFFICES ASSUME SessionInv, PostReturns PROVE SessionInv'
    OBVIOUS
  <1>1. left # <<>> /\ pc = "posting" /\ stmt.op = "post"
    BY DEF PostReturns, SessionInv, ProgramInv
  <1>2. env' \in Endpoints \cup {Absent, ""}
    BY DEF PostReturns, SessionInv, ProgramInv
  <1>3. pc' = "ready" /\ left' \in {<<DropIt>>, Tail(left)} /\ UNCHANGED <<clients, deliveries>>
    BY DEF PostReturns, Returns
  <1>4. ~Builds(stmt)
    BY <1>1 DEF Builds
  <1>5. QED
    BY <1>1, <1>2, <1>3, <1>4, QuietReturn

LEMMA NothingToDropInv == SessionInv /\ NothingToDrop => SessionInv'
  <1> SUFFICES ASSUME SessionInv, NothingToDrop PROVE SessionInv'
    OBVIOUS
  <1>1. left # <<>> /\ pc = "ready" /\ stmt.op = "drop"
    BY StatementFacts DEF NothingToDrop
  <1>2. env' \in Endpoints \cup {Absent, ""}
    BY DEF NothingToDrop, SessionInv, ProgramInv
  <1>3. pc' = "ready" /\ left' \in {<<DropIt>>, Tail(left)} /\ UNCHANGED <<clients, deliveries>>
    BY DEF NothingToDrop, Returns
  <1>4. ~Builds(stmt)
    BY <1>1 DEF Builds
  <1>5. QED
    BY <1>1, <1>2, <1>3, <1>4, QuietReturn

\* A client begins open, without having contacted anybody, and with the endpoint of the
\* environment.
LEMMA BuildClientFacts ==
  ASSUME SessionInv, NEW chain, NEW c, c = BuildClient(chain), c # Refused
  PROVE  ClientOK(c) /\ ~c.closed /\ ~c.signalled
  <1>1. PICK key : c = [endpoint |-> Endpoint, serviceKey |-> key, closed |-> FALSE,
                        signalled |-> FALSE, alive |-> TRUE, contacted |-> {}]
    BY DEF BuildClient
  <1>2. Endpoint \in Endpoints
    BY DEF Endpoint, Endpoints, SessionInv, ProgramInv
  <1>3. c.endpoint = Endpoint /\ c.contacted = {} /\ ~c.closed /\ ~c.signalled
    BY <1>1
  <1>4. IsClient(c)
    BY <1>1 DEF IsClient
  <1>5. QED
    BY <1>2, <1>3, <1>4 DEF ClientOK

LEMMA RunClientInv == SessionInv /\ RunClient => SessionInv'
  <1> SUFFICES ASSUME SessionInv, RunClient PROVE SessionInv'
    OBVIOUS
  <1>1. left # <<>> /\ pc = "ready" /\ stmt.op = "client" /\ pc' = "ready"
    BY StatementFacts DEF RunClient, Returns
  <1>2. PICK c : c = BuildClient(stmt.chain)
    OBVIOUS
  <1>3. env' \in Endpoints \cup {Absent, ""} /\ UNCHANGED deliveries
    BY DEF RunClient, SessionInv, ProgramInv
  <1>4. CASE c = Refused
    <2>1. UNCHANGED clients /\ Returns(InvalidRequest)
      BY <1>2, <1>4 DEF RunClient
    <2>2. Meets(InvalidRequest, stmt.expect) => stmt.expect # "ok"
      BY DEF Meets, InvalidRequest, Result
    <2>3. left' = <<DropIt>> \/ (left' = Tail(left) /\ (Builds(stmt) => current' > 0))
      BY <2>1, <2>2 DEF Returns, Builds
    <2>4. ProgramInv'
      BY <1>1, <1>3, <2>1, <2>3, ReturnKeepsProgram DEF SessionInv, current
    <2>5. ClientInv'
      BY <2>1 DEF SessionInv, ClientInv, ClientOK
    <2>6. DeliveryInv'
      BY <1>3, <2>1, DeliveriesKept DEF SessionInv
    <2>7. DrainedInv'
      BY <1>1, <1>3, <2>1 DEF SessionInv, DrainedInv, current
    <2>8. QED
      BY <2>4, <2>5, <2>6, <2>7 DEF SessionInv
  <1>5. CASE c # Refused
    <2>1. clients' = Append(clients, c) /\ left' \in {<<DropIt>>, Tail(left)}
      BY <1>2, <1>5 DEF RunClient, Returns
    <2>2. /\ IsSeq(clients') /\ Len(clients') = Len(clients) + 1
          /\ DOMAIN clients' = 1 .. Len(clients) + 1
          /\ \A i \in DOMAIN clients : clients'[i] = clients[i]
          /\ clients'[Len(clients) + 1] = c
      BY <2>1, SeqAppend DEF SessionInv, ClientInv
    <2>3. Len(clients) \in Nat /\ DOMAIN clients = 1 .. Len(clients)
      BY SeqFacts DEF SessionInv, ClientInv
    <2>4. ClientOK(c) /\ ~c.closed
      BY <1>2, <1>5, BuildClientFacts
    <2>5. ASSUME NEW i \in DOMAIN clients'
          PROVE  (i \in DOMAIN clients /\ clients'[i] = clients[i]) \/ clients'[i] = c
      BY <2>2, <2>3
    <2>6. ProgramInv'
      <3>1. current' > 0
        BY <2>2, <2>3 DEF current
      <3>2. QED
        BY <1>1, <1>3, <2>1, <3>1, ReturnKeepsProgram DEF SessionInv
    <2>7. ClientInv'
      BY <2>2, <2>4, <2>5 DEF SessionInv, ClientInv
    <2>8. DeliveryInv'
      <3>1. DOMAIN clients \subseteq DOMAIN clients'
        BY <2>2, <2>3
      <3>2. QED
        BY <1>3, <2>2, <3>1, DeliveriesKept DEF SessionInv
    <2>9. DrainedInv'
      <3>1. \A i \in DOMAIN clients' : clients'[i].closed => i \in DOMAIN clients /\ clients[i].closed
        BY <2>4, <2>5
      <3>2. QED
        BY <1>1, <1>3, <3>1 DEF SessionInv, DrainedInv
    <2>10. QED
      BY <2>6, <2>7, <2>8, <2>9 DEF SessionInv
  <1>6. QED
    BY <1>4, <1>5

LEMMA PostAcceptedInv == SessionInv /\ PostAccepted => SessionInv'
  <1> SUFFICES ASSUME SessionInv, PostAccepted PROVE SessionInv'
    OBVIOUS
  <1>1. left # <<>> /\ pc = "ready" /\ stmt.op = "post" /\ 1 \in DOMAIN left /\ stmt = left[1]
    BY StatementFacts DEF PostAccepted
  <1>2. UNCHANGED <<env, clients>>
    BY DEF PostAccepted
  <1>3. current \in DOMAIN clients
    <2>1. Len(clients) \in Nat /\ DOMAIN clients = 1 .. Len(clients)
      BY SeqFacts DEF SessionInv, ClientInv
    <2>2. current > 0 \/ \E j \in 1 .. 1 - 1 : Builds(left[j])
      BY <1>1 DEF SessionInv, ProgramInv, Covered
    <2>3. 1 .. 1 - 1 = {}
      OBVIOUS
    <2>4. QED
      BY <2>1, <2>2, <2>3 DEF current
  <1>4. ~clients[current].closed
    BY DEF PostAccepted, Admission, ClientClosed, Ok, Result
  <1>5. PICK async, phase, d :
          /\ d = [client |-> current, async |-> async, tries |-> 0, outcome |-> Ok, phase |-> phase]
          /\ phase \in {"queued", "sending"}
          /\ deliveries' = Append(deliveries, d)
    BY DEF PostAccepted
  <1>6. /\ IsSeq(deliveries') /\ Len(deliveries) \in Nat /\ DOMAIN deliveries = 1 .. Len(deliveries)
        /\ DOMAIN deliveries' = 1 .. Len(deliveries) + 1
        /\ \A k \in DOMAIN deliveries : deliveries'[k] = deliveries[k]
        /\ deliveries'[Len(deliveries) + 1] = d
    BY <1>5, SeqAppend, SeqFacts DEF SessionInv, DeliveryInv
  <1>7. ASSUME NEW k \in DOMAIN deliveries'
        PROVE  (k \in DOMAIN deliveries /\ deliveries'[k] = deliveries[k]) \/ deliveries'[k] = d
    BY <1>6
  <1>8. d.client = current /\ d.tries = 0 /\ d.phase \in {"queued", "sending"} /\ IsDelivery(d)
    BY <1>5 DEF IsDelivery
  <1>9. ProgramInv'
    <2>1. CASE stmt.async
      <3>1. pc' = "ready" /\ left' \in {<<DropIt>>, Tail(left)}
        BY <2>1 DEF PostAccepted, Returns
      <3>2. ~Builds(stmt)
        BY <1>1 DEF Builds
      <3>3. env' \in Endpoints \cup {Absent, ""}
        BY <1>2 DEF SessionInv, ProgramInv
      <3>4. QED
        BY <1>1, <1>2, <3>1, <3>2, <3>3, ReturnKeepsProgram DEF SessionInv, current
    <2>2. CASE ~stmt.async
      <3>1. pc' = "posting" /\ left' = left
        BY <2>2 DEF PostAccepted, Blocks
      <3>2. QED
        BY <1>1, <1>2, <3>1 DEF SessionInv, ProgramInv, current, stmt
    <2>3. QED
      BY <2>1, <2>2
  <1>10. ClientInv'
    BY <1>2 DEF SessionInv, ClientInv, ClientOK
  <1>11. DeliveryInv'
    <2>1. DeliveryOK(d)
      BY <1>3, <1>8 DEF DeliveryOK
    <2>2. ASSUME NEW k \in DOMAIN deliveries' PROVE DeliveryOK(deliveries[k])'
      <3>1. PICK e : e = deliveries'[k]
        OBVIOUS
      <3>2. DeliveryOK(e)
        BY <1>7, <2>1, <3>1 DEF SessionInv, DeliveryInv
      <3>3. DeliveryOK(e)'
        BY <1>2, <3>2, DeliveryKept
      <3>4. QED
        BY <3>1, <3>3
    <2>3. QED
      BY <1>6, <2>2 DEF DeliveryInv
  <1>12. DrainedInv'
    <2>1. ASSUME NEW k \in DOMAIN deliveries', deliveries'[k].phase = "queued"
          PROVE  \/ /\ k \in DOMAIN deliveries /\ deliveries[k].phase = "queued"
                    /\ deliveries[k].client = deliveries'[k].client
                 \/ ~clients[deliveries'[k].client].closed
      BY <1>4, <1>7, <1>8, <2>1
    <2>2. QED
      BY <1>1, <1>2, <2>1, DrainedKept DEF SessionInv, current
  <1>13. QED
    BY <1>9, <1>10, <1>11, <1>12 DEF SessionInv

-----------------------------------------------------------------------------
(* The steps of a delivery *)

\* One delivery changes, and of the clients at most what they have contacted.
LEMMA DeliveryStep ==
  ASSUME SessionInv, NEW k \in DOMAIN deliveries, NEW e,
         deliveries' = [deliveries EXCEPT ![k] = e],
         DeliveryOK(e), e.phase # "queued",
         UNCHANGED <<left, pc, env>>,
         ClientInv', Len(clients') = Len(clients), DOMAIN clients' = DOMAIN clients,
         \A c \in DOMAIN clients : /\ clients'[c].closed = clients[c].closed
                                   /\ clients'[c].signalled = clients[c].signalled
  PROVE  SessionInv'
  <1>1. /\ IsSeq(deliveries') /\ DOMAIN deliveries' = DOMAIN deliveries
        /\ \A j \in DOMAIN deliveries : deliveries'[j] = IF j = k THEN e ELSE deliveries[j]
    BY SeqExcept DEF SessionInv, DeliveryInv
  <1>2. ProgramInv'
    BY DEF SessionInv, ProgramInv, current, stmt
  <1>3. DeliveryInv'
    <2>1. ASSUME NEW j \in DOMAIN deliveries' PROVE DeliveryOK(deliveries[j])'
      <3>1. PICK d : d = deliveries'[j]
        OBVIOUS
      <3>2. DeliveryOK(d)
        BY <1>1, <3>1 DEF SessionInv, DeliveryInv
      <3>3. DeliveryOK(d)'
        BY <3>2, DeliveryKept
      <3>4. QED
        BY <3>1, <3>3
    <2>2. QED
      BY <1>1, <2>1 DEF DeliveryInv
  <1>4. DrainedInv'
    <2>1. \A j \in DOMAIN deliveries' : deliveries'[j].phase = "queued" =>
             /\ j \in DOMAIN deliveries /\ deliveries[j].phase = "queued"
             /\ deliveries[j].client = deliveries'[j].client
      BY <1>1
    <2>2. QED
      BY <2>1, DrainedKept DEF SessionInv, current
  <1>5. QED
    BY <1>2, <1>3, <1>4 DEF SessionInv

LEMMA WorkerTakesInv ==
  ASSUME SessionInv, NEW k \in DOMAIN deliveries, WorkerTakes(k)
  PROVE  SessionInv'
  <1>1. PICK d : d = deliveries[k]
    OBVIOUS
  <1>2. PICK e : e = [d EXCEPT !.phase = "sending"]
    OBVIOUS
  <1>3. DeliveryOK(d) /\ d.phase = "queued"
    BY <1>1 DEF WorkerTakes, SessionInv, DeliveryInv
  <1>4. DeliveryOK(e) /\ e.phase # "queued"
    <2>1. /\ IsDelivery(e) /\ e.phase = "sending"
          /\ e.client = d.client /\ e.tries = d.tries
      BY <1>2, <1>3, DeliveryMoves DEF DeliveryOK
    <2>2. QED
      BY <1>3, <2>1 DEF DeliveryOK
  <1>5. deliveries' = [deliveries EXCEPT ![k] = e] /\ UNCHANGED <<left, pc, env, clients>>
    BY <1>1, <1>2 DEF WorkerTakes, programVars
  <1>6. ClientInv'
    BY <1>5 DEF SessionInv, ClientInv, ClientOK
  <1>7. QED
    BY <1>4, <1>5, <1>6, DeliveryStep

LEMMA BackoffElapsesInv ==
  ASSUME SessionInv, NEW k \in DOMAIN deliveries, BackoffElapses(k)
  PROVE  SessionInv'
  <1>1. PICK d : d = deliveries[k]
    OBVIOUS
  <1>2. PICK e : e = [d EXCEPT !.phase = "sending"]
    OBVIOUS
  <1>3. DeliveryOK(d) /\ d.phase = "waiting"
    BY <1>1 DEF BackoffElapses, SessionInv, DeliveryInv
  <1>4. DeliveryOK(e) /\ e.phase # "queued"
    <2>1. /\ IsDelivery(e) /\ e.phase = "sending"
          /\ e.client = d.client /\ e.tries = d.tries
      BY <1>2, <1>3, DeliveryMoves DEF DeliveryOK
    <2>2. QED
      BY <1>3, <2>1 DEF DeliveryOK
  <1>5. deliveries' = [deliveries EXCEPT ![k] = e] /\ UNCHANGED <<left, pc, env, clients>>
    BY <1>1, <1>2 DEF BackoffElapses, programVars
  <1>6. ClientInv'
    BY <1>5 DEF SessionInv, ClientInv, ClientOK
  <1>7. QED
    BY <1>4, <1>5, <1>6, DeliveryStep

\* What a failure is told as.
LEMMA DeliveryFacts ==
  ASSUME NEW status, NEW counted, NEW o, o = Delivery(status, counted)
  PROVE  /\ o.kind = "Delivery" /\ o.status = status /\ o.counted = counted
         /\ StatusCode(o) = Absent => status = NoStatus \/ status = Absent
  BY DEF Delivery, Result, StatusCode

LEMMA BackoffInterruptedInv ==
  ASSUME SessionInv, NEW k \in DOMAIN deliveries, BackoffInterrupted(k)
  PROVE  SessionInv'
  <1>1. PICK d : d = deliveries[k]
    OBVIOUS
  <1>2. PICK o : o = Delivery(NoStatus, 0)
    OBVIOUS
  <1>3. PICK e : e = [d EXCEPT !.phase = "over", !.outcome = o]
    OBVIOUS
  <1>4. DeliveryOK(d) /\ d.phase = "waiting" /\ clients[d.client].signalled
    BY <1>1 DEF BackoffInterrupted, SessionInv, DeliveryInv
  <1>5. DeliveryOK(e) /\ e.phase # "queued"
    <2>1. /\ IsDelivery(e) /\ e.phase = "over" /\ e.outcome = o
          /\ e.client = d.client /\ e.tries = d.tries
      <3>1. IsDelivery(d)
        BY <1>4 DEF DeliveryOK
      <3>2. QED
        BY <1>3, <3>1 DEF IsDelivery
    <2>2. o.counted = 0
      BY <1>2, DeliveryFacts
    <2>3. Told(e, clients[e.client].signalled)
      BY <1>4, <2>1, <2>2 DEF DeliveryOK, Told
    <2>4. QED
      BY <1>4, <2>1, <2>3 DEF DeliveryOK
  <1>6. deliveries' = [deliveries EXCEPT ![k] = e] /\ UNCHANGED <<left, pc, env, clients>>
    BY <1>1, <1>2, <1>3 DEF BackoffInterrupted, programVars
  <1>7. ClientInv'
    BY <1>6 DEF SessionInv, ClientInv, ClientOK
  <1>8. QED
    BY <1>5, <1>6, <1>7, DeliveryStep

\* An attempt is a response, a failure without a status that is retried, or a failure with
\* the status of the answer.
LEMMA RustSendFacts ==
  ASSUME NEW a, IsAnswer(a), NEW r, r = RustSend(a)
  PROVE  \/ r.response
         \/ ~r.response /\ r.retryable /\ r.code = NoStatus
         \/ ~r.response /\ r.code # NoStatus /\ r.code # Absent
  <1>1. CASE a.status = NoStatus \/ a.body.kind \in {"torn", "oversized"}
    <2>1. r = Failure(NoStatus, TRUE)
      BY <1>1 DEF RustSend
    <2>2. QED
      BY <2>1 DEF Failure
  <1>2. CASE ~(a.status = NoStatus \/ a.body.kind \in {"torn", "oversized"})
    <2>1. a.status # NoStatus /\ a.status # Absent
      BY <1>2, MarksAssumption DEF IsAnswer, NoStatus
    <2>2. CASE Is2xx(a.status)
      <3>1. r = RustParseResponse(a.status, a.body)
        BY <1>2, <2>2 DEF RustSend
      <3>2. (\E x, y : r = Response(x, y)) \/ r = Failure(a.status, FALSE)
        BY <3>1 DEF RustParseResponse
      <3>3. ASSUME NEW x, NEW y, r = Response(x, y) PROVE r.response
        BY <3>3 DEF Response
      <3>4. ASSUME r = Failure(a.status, FALSE) PROVE ~r.response /\ r.code = a.status
        BY <3>4 DEF Failure
      <3>5. QED
        BY <2>1, <3>2, <3>3, <3>4
    <2>3. CASE ~Is2xx(a.status)
      <3>1. r = Failure(a.status, RustIsRetryableStatus(a.status))
        BY <1>2, <2>3 DEF RustSend
      <3>2. ~r.response /\ r.code = a.status
        BY <3>1 DEF Failure
      <3>3. QED
        BY <2>1, <3>2
    <2>4. QED
      BY <2>2, <2>3
  <1>3. QED
    BY <1>1, <1>2

LEMMA AttemptInv ==
  ASSUME SessionInv, NEW k \in DOMAIN deliveries, NEW a \in Answers(Target(k)), Attempt(k, a)
  PROVE  SessionInv'
  <1>1. PICK d : d = deliveries[k]
    OBVIOUS
  <1>2. DeliveryOK(d) /\ d.phase = "sending" /\ d.tries \in 0 .. 5 /\ d.client \in DOMAIN clients
    BY <1>1 DEF Attempt, SessionInv, DeliveryInv, DeliveryOK
  <1>3. PICK c : c = clients[d.client]
    OBVIOUS
  <1>4. ClientOK(c) /\ Target(k) = c.endpoint
    BY <1>1, <1>2, <1>3 DEF Target, SessionInv, ClientInv
  <1>5. IsAnswer(a)
    BY <1>4, SessionAssumption DEF ClientOK
  <1>6. PICK r : r = RustSend(a)
    OBVIOUS
  <1>7. PICK n : n = d.tries + 1
    OBVIOUS
  <1> DEFINE again == ~r.response /\ RustRetries(r, n - 1)
  <1>8. PICK x : x = IF again THEN "waiting" ELSE "over"
    OBVIOUS
  <1>9. PICK o : o = IF again \/ r.response THEN Ok ELSE WithAttemptCount(r.code, n)
    OBVIOUS
  <1>10. PICK e : e = [d EXCEPT !.tries = n, !.phase = x, !.outcome = o]
    OBVIOUS
  <1>11. deliveries' = [deliveries EXCEPT ![k] = e]
    BY <1>1, <1>6, <1>7, <1>8, <1>9, <1>10 DEF Attempt
  <1>12. /\ IsDelivery(e) /\ e.tries = n /\ e.phase = x /\ e.outcome = o
         /\ e.client = d.client
    <2>1. IsDelivery(d)
      BY <1>2 DEF DeliveryOK
    <2>2. QED
      BY <1>10, <2>1 DEF IsDelivery
  <1>13. n \in 1 .. 6 /\ (again => n <= 5)
    BY <1>2, <1>7 DEF RustRetries
  <1>14. ASSUME ~again
         PROVE  /\ o.counted \in {0, n}
                /\ o.kind = "Delivery" /\ StatusCode(o) = Absent => o.counted = 6
    <2>1. CASE r.response
      <3>1. o = Ok
        BY <1>9, <2>1
      <3>2. o.kind = "Ok" /\ o.counted = 0
        BY <3>1 DEF Ok, Result
      <3>3. QED
        BY <3>2
    <2>2. CASE ~r.response
      <3>1. o = Delivery(r.code, IF r.code = NoStatus /\ n > 1 THEN n ELSE 0)
        BY <1>9, <1>14, <2>2 DEF WithAttemptCount
      <3>2. /\ o.counted = IF r.code = NoStatus /\ n > 1 THEN n ELSE 0
            /\ StatusCode(o) = Absent => r.code = NoStatus \/ r.code = Absent
        BY <3>1, DeliveryFacts
      <3>3. CASE r.retryable /\ r.code = NoStatus
        <4>1. ~(n - 1 < 5)
          BY <1>14, <2>2, <3>3 DEF RustRetries
        <4>2. n = 6
          BY <1>13, <4>1
        <4>3. QED
          BY <3>2, <3>3, <4>2
      <3>4. CASE r.code # NoStatus /\ r.code # Absent
        BY <3>2, <3>4
      <3>5. QED
        BY <1>5, <1>6, <2>2, <3>3, <3>4, RustSendFacts
    <2>3. QED
      BY <2>1, <2>2
  <1> HIDE DEF again
  <1>15. DeliveryOK(e) /\ e.phase # "queued"
    <2>1. CASE again
      <3>1. e.phase = "waiting" /\ e.tries \in 1 .. 5
        BY <1>8, <1>12, <1>13, <2>1
      <3>2. QED
        BY <1>2, <1>12, <3>1 DEF DeliveryOK
    <2>2. CASE ~again
      <3>1. e.phase = "over"
        BY <1>8, <1>12, <2>2
      <3>2. Told(e, clients[e.client].signalled)
        BY <1>12, <1>13, <1>14, <2>2 DEF Told
      <3>3. QED
        BY <1>2, <1>12, <1>13, <3>1, <3>2 DEF DeliveryOK
    <2>3. QED
      BY <2>1, <2>2
  <1>16. PICK f : f = [c EXCEPT !.contacted = c.contacted \cup {c.endpoint}]
    OBVIOUS
  <1>17. clients' = [clients EXCEPT ![d.client] = f] /\ UNCHANGED <<left, pc, env>>
    BY <1>1, <1>3, <1>4, <1>16 DEF Attempt, programVars
  <1>18. /\ IsClient(f) /\ f.contacted = c.contacted \cup {c.endpoint}
         /\ f.endpoint = c.endpoint /\ f.closed = c.closed /\ f.signalled = c.signalled
    BY <1>4, <1>16, ClientContacts DEF ClientOK
  <1>19. ClientOK(f)
    BY <1>4, <1>18 DEF ClientOK
  <1>20. /\ IsSeq(clients') /\ Len(clients') = Len(clients) /\ DOMAIN clients' = DOMAIN clients
         /\ \A j \in DOMAIN clients : clients'[j] = IF j = d.client THEN f ELSE clients[j]
    BY <1>17, SeqExcept DEF SessionInv, ClientInv
  <1>21. ClientInv'
    BY <1>19, <1>20 DEF SessionInv, ClientInv
  <1>22. \A j \in DOMAIN clients : /\ clients'[j].closed = clients[j].closed
                                   /\ clients'[j].signalled = clients[j].signalled
    BY <1>3, <1>18, <1>20
  <1>23. QED
    BY <1>11, <1>15, <1>17, <1>20, <1>21, <1>22, DeliveryStep

-----------------------------------------------------------------------------
(* The steps of close and Drop *)

LEMMA AliveKeepsClients ==
  ASSUME ClientInv, NEW i, NEW x, clients' = [clients EXCEPT ![i].alive = x]
  PROVE  /\ ClientInv' /\ Len(clients') = Len(clients) /\ DOMAIN clients' = DOMAIN clients
         /\ \A j \in DOMAIN clients : /\ clients'[j].closed = clients[j].closed
                                      /\ clients'[j].signalled = clients[j].signalled
                                      /\ clients'[j].endpoint = clients[j].endpoint
                                      /\ clients'[j].contacted = clients[j].contacted
  <1>1. PICK f : f = [clients[i] EXCEPT !.alive = x]
    OBVIOUS
  <1>2. PICK t : t = [clients EXCEPT ![i] = f]
    OBVIOUS
  <1>3. /\ IsSeq(clients') /\ Len(clients') = Len(clients) /\ DOMAIN clients' = DOMAIN clients
        /\ \A j \in DOMAIN clients : clients'[j] = IF j = i THEN f ELSE clients[j]
    <2>1. clients' = t
      BY <1>1, <1>2
    <2>2. IsSeq(clients)
      BY DEF ClientInv
    <2>3. /\ IsSeq(t) /\ Len(t) = Len(clients) /\ DOMAIN t = DOMAIN clients
          /\ \A j \in DOMAIN clients : t[j] = IF j = i THEN f ELSE clients[j]
      BY <1>2, <2>2, SeqExcept, Zenon
    <2>4. QED
      BY <2>1, <2>3, Zenon
  <1>4. ASSUME i \in DOMAIN clients
        PROVE  /\ ClientOK(f)
               /\ f.closed = clients[i].closed /\ f.signalled = clients[i].signalled
               /\ f.endpoint = clients[i].endpoint /\ f.contacted = clients[i].contacted
    <2>1. PICK c : c = clients[i]
      OBVIOUS
    <2>2. ClientOK(c)
      BY <1>4, <2>1 DEF ClientInv
    <2>3. /\ IsClient(f) /\ f.contacted = c.contacted
          /\ f.endpoint = c.endpoint /\ f.closed = c.closed /\ f.signalled = c.signalled
      BY <1>1, <2>1, <2>2, ClientDies DEF ClientOK
    <2>4. QED
      BY <2>1, <2>2, <2>3 DEF ClientOK
  <1>5. ClientInv'
    BY <1>3, <1>4 DEF ClientInv
  <1>6. QED
    BY <1>3, <1>4, <1>5

LEMMA ClosesFacts ==
  ASSUME SessionInv, Closes
  PROVE  left # <<>> /\ pc = "ready" /\ stmt.op \in {"close", "drop"}
  BY StatementFacts DEF Closes

LEMMA CloseBeginsInv == SessionInv /\ CloseBegins => SessionInv'
  <1> SUFFICES ASSUME SessionInv, CloseBegins PROVE SessionInv'
    OBVIOUS
  <1>1. left # <<>> /\ pc = "ready" /\ stmt.op \in {"close", "drop"}
    BY ClosesFacts DEF CloseBegins
  <1>2. PICK i : i = current
    OBVIOUS
  <1>3. PICK f : f = [clients[i] EXCEPT !.closed = TRUE, !.signalled = TRUE]
    OBVIOUS
  <1>4. clients' = [clients EXCEPT ![i] = f]
    BY <1>2, <1>3 DEF CloseBegins
  <1>5. pc' = "closing" /\ left' = left /\ UNCHANGED <<env, deliveries>>
    BY DEF CloseBegins, Blocks
  <1>6. /\ IsSeq(clients') /\ Len(clients') = Len(clients) /\ DOMAIN clients' = DOMAIN clients
        /\ \A j \in DOMAIN clients : clients'[j] = IF j = i THEN f ELSE clients[j]
    BY <1>4, SeqExcept DEF SessionInv, ClientInv
  <1>7. ASSUME i \in DOMAIN clients
        PROVE  ClientOK(f) /\ f.signalled
    <2>1. PICK c : c = clients[i]
      OBVIOUS
    <2>2. ClientOK(c)
      BY <1>7, <2>1 DEF SessionInv, ClientInv
    <2>3. /\ IsClient(f) /\ f.contacted = c.contacted
          /\ f.endpoint = c.endpoint /\ f.closed /\ f.signalled
      BY <1>3, <2>1, <2>2, ClientCloses DEF ClientOK
    <2>4. QED
      BY <2>2, <2>3 DEF ClientOK
  <1>8. ProgramInv'
    BY <1>1, <1>5, <1>6 DEF SessionInv, ProgramInv, current, stmt
  <1>9. ClientInv'
    BY <1>6, <1>7 DEF SessionInv, ClientInv
  <1>10. DeliveryInv'
    <2>1. \A j \in DOMAIN clients : clients[j].signalled => clients'[j].signalled
      BY <1>6, <1>7
    <2>2. QED
      BY <1>5, <1>6, <2>1, DeliveriesKept DEF SessionInv
  <1>11. DrainedInv'
    <2>1. current' = i
      BY <1>2, <1>6 DEF current
    <2>2. \A j \in DOMAIN clients' : clients'[j].closed /\ ~(pc' = "closing" /\ j = current') =>
             j \in DOMAIN clients /\ clients[j].closed /\ ~(pc = "closing" /\ j = current)
      BY <1>1, <1>5, <1>6, <2>1
    <2>3. QED
      BY <1>5, <2>2, DrainedKept DEF SessionInv
  <1>12. QED
    BY <1>8, <1>9, <1>10, <1>11 DEF SessionInv

LEMMA ClosedAlreadyInv == SessionInv /\ ClosedAlready => SessionInv'
  <1> SUFFICES ASSUME SessionInv, ClosedAlready PROVE SessionInv'
    OBVIOUS
  <1>1. left # <<>> /\ pc = "ready" /\ stmt.op \in {"close", "drop"}
    BY ClosesFacts DEF ClosedAlready
  <1>2. PICK i, x : clients' = [clients EXCEPT ![i].alive = x]
    BY DEF ClosedAlready
  <1>3. /\ ClientInv' /\ Len(clients') = Len(clients) /\ DOMAIN clients' = DOMAIN clients
        /\ \A j \in DOMAIN clients : /\ clients'[j].closed = clients[j].closed
                                     /\ clients'[j].signalled = clients[j].signalled
    BY <1>2, AliveKeepsClients DEF SessionInv
  <1>4. pc' = "ready" /\ left' \in {<<DropIt>>, Tail(left)} /\ UNCHANGED <<env, deliveries>>
    BY DEF ClosedAlready, Returns
  <1>5. ProgramInv'
    <2>1. ~Builds(stmt) /\ env' \in Endpoints \cup {Absent, ""}
      BY <1>1, <1>4 DEF Builds, SessionInv, ProgramInv
    <2>2. QED
      BY <1>1, <1>3, <1>4, <2>1, ReturnKeepsProgram DEF SessionInv, current
  <1>6. DeliveryInv'
    BY <1>3, <1>4, DeliveriesKept DEF SessionInv
  <1>7. DrainedInv'
    BY <1>1, <1>3, <1>4, DrainedKept DEF SessionInv
  <1>8. QED
    BY <1>3, <1>5, <1>6, <1>7 DEF SessionInv

LEMMA CloseReturnsInv ==
  ASSUME SessionInv, NEW timeIsUp \in BOOLEAN, CloseReturns(timeIsUp)
  PROVE  SessionInv'
  <1>1. left # <<>> /\ pc = "closing" /\ stmt.op \in {"close", "drop"}
    BY DEF CloseReturns, SessionInv, ProgramInv
  <1>2. PICK i, x : clients' = [clients EXCEPT ![i].alive = x]
    BY DEF CloseReturns
  <1>3. /\ ClientInv' /\ Len(clients') = Len(clients) /\ DOMAIN clients' = DOMAIN clients
        /\ \A j \in DOMAIN clients : /\ clients'[j].closed = clients[j].closed
                                     /\ clients'[j].signalled = clients[j].signalled
    BY <1>2, AliveKeepsClients DEF SessionInv
  <1>4. pc' = "ready" /\ left' \in {<<DropIt>>, Tail(left)} /\ UNCHANGED env
    BY DEF CloseReturns, Returns
  <1>5. deliveries' = [k \in DOMAIN deliveries |->
          IF k \in Queued(current) THEN [deliveries[k] EXCEPT !.phase = "abandoned"] ELSE deliveries[k]]
    BY DEF CloseReturns
  <1>6. ASSUME NEW k \in DOMAIN deliveries
        PROVE  /\ deliveries'[k].client = deliveries[k].client
               /\ deliveries'[k].phase = "queued" => deliveries[k].phase = "queued" /\ deliveries[k].client # current
               /\ DeliveryOK(deliveries[k])'
    <2>1. PICK d : d = deliveries[k]
      OBVIOUS
    <2>2. PICK e : e = deliveries'[k]
      OBVIOUS
    <2>3. DeliveryOK(d)
      BY <2>1 DEF SessionInv, DeliveryInv
    <2>4. CASE k \in Queued(current)
      <3>1. e = [d EXCEPT !.phase = "abandoned"]
        BY <1>5, <2>1, <2>2, <2>4
      <3>2. /\ IsDelivery(e) /\ e.phase = "abandoned"
            /\ e.client = d.client /\ e.tries = d.tries
        BY <2>3, <3>1, DeliveryMoves DEF DeliveryOK
      <3>3. DeliveryOK(e)
        BY <2>3, <3>2 DEF DeliveryOK
      <3>4. DeliveryOK(e)'
        BY <1>3, <3>3, DeliveryKept
      <3>5. QED
        BY <2>1, <2>2, <3>2, <3>4
    <2>5. CASE k \notin Queued(current)
      <3>1. e = d
        BY <1>5, <2>1, <2>2, <2>5
      <3>2. DeliveryOK(e)'
        BY <1>3, <2>3, <3>1, DeliveryKept
      <3>3. d.phase = "queued" => d.client # current
        BY <2>1, <2>5 DEF Queued, Of
      <3>4. QED
        BY <2>1, <2>2, <3>1, <3>2, <3>3
    <2>6. QED
      BY <2>4, <2>5
  <1>7. IsSeq(deliveries') /\ DOMAIN deliveries' = DOMAIN deliveries
    BY <1>5, SeqMap DEF SessionInv, DeliveryInv
  <1>8. ProgramInv'
    <2>1. ~Builds(stmt) /\ env' \in Endpoints \cup {Absent, ""}
      BY <1>1, <1>4 DEF Builds, SessionInv, ProgramInv
    <2>2. QED
      BY <1>1, <1>3, <1>4, <2>1, ReturnKeepsProgram DEF SessionInv, current
  <1>9. DeliveryInv'
    BY <1>6, <1>7 DEF DeliveryInv
  <1>10. DrainedInv'
    <2>1. SUFFICES ASSUME NEW c \in DOMAIN clients', clients'[c].closed,
                          NEW k \in DOMAIN deliveries', deliveries'[k].client = c
                   PROVE  deliveries'[k].phase # "queued"
      BY DEF DrainedInv
    <2>2. c \in DOMAIN clients /\ clients[c].closed /\ k \in DOMAIN deliveries
      BY <1>3, <1>7, <2>1
    <2>3. CASE c = current
      BY <1>6, <2>1, <2>2, <2>3
    <2>4. CASE c # current
      BY <1>6, <2>1, <2>2, <2>4 DEF SessionInv, DrainedInv
    <2>5. QED
      BY <2>3, <2>4
  <1>11. QED
    BY <1>3, <1>8, <1>9, <1>10 DEF SessionInv

-----------------------------------------------------------------------------
(* The shipped programs *)

WellBuilt(s) == IsSeq(s) /\ (\A i \in DOMAIN s : KnownUrl(s[i])) /\ Covered(s, 0)

LEMMA ConcatWellBuilt ==
  ASSUME NEW s, NEW t, WellBuilt(s), WellBuilt(t)
  PROVE  WellBuilt(s \o t)
  <1> DEFINE S == {s[i] : i \in DOMAIN s} \cup {t[i] : i \in DOMAIN t}
             u == s \o t
  <1>1. s \in Seq(S) /\ t \in Seq(S)
    BY DEF WellBuilt, IsSeq
  <1> HIDE DEF S
  <1>2. /\ u \in Seq(S) /\ Len(s) \in Nat /\ Len(t) \in Nat
        /\ DOMAIN s = 1 .. Len(s) /\ DOMAIN t = 1 .. Len(t) /\ DOMAIN u = 1 .. Len(s) + Len(t)
        /\ \A i \in 1 .. Len(s) + Len(t) : u[i] = IF i <= Len(s) THEN s[i] ELSE t[i - Len(s)]
    BY <1>1
  <1>3. IsSeq(u)
    BY <1>2, InSeq
  <1> HIDE DEF u
  <1>4. ASSUME NEW i \in DOMAIN u
        PROVE  \/ i \in DOMAIN s /\ u[i] = s[i]
               \/ i - Len(s) \in DOMAIN t /\ u[i] = t[i - Len(s)]
    BY <1>2
  <1>5. \A i \in DOMAIN u : KnownUrl(u[i])
    BY <1>4 DEF WellBuilt
  <1>6. ASSUME NEW i \in DOMAIN u, u[i].op = "post"
        PROVE  \E j \in 1 .. i - 1 : Builds(u[j])
    <2>1. CASE i \in DOMAIN s /\ u[i] = s[i]
      <3>1. PICK j \in 1 .. i - 1 : Builds(s[j])
        BY <1>6, <2>1 DEF WellBuilt, Covered
      <3>2. u[j] = s[j]
        BY <1>2, <2>1, <3>1
      <3>3. QED
        BY <3>1, <3>2
    <2>2. CASE i - Len(s) \in DOMAIN t /\ u[i] = t[i - Len(s)]
      <3>1. PICK j \in 1 .. (i - Len(s)) - 1 : Builds(t[j])
        BY <1>6, <2>2 DEF WellBuilt, Covered
      <3>2. i \in Nat /\ j + Len(s) \in 1 .. i - 1 /\ j + Len(s) \in 1 .. Len(s) + Len(t)
            /\ ~(j + Len(s) <= Len(s)) /\ (j + Len(s)) - Len(s) = j
        BY <1>2, <3>1
      <3>3. u[j + Len(s)] = t[j]
        BY <1>2, <3>2
      <3>4. QED
        BY <3>1, <3>2, <3>3
    <2>3. QED
      BY <1>4, <2>1, <2>2
  <1>7. Covered(u, 0)
    BY <1>6 DEF Covered
  <1>8. QED
    BY <1>3, <1>5, <1>7 DEF WellBuilt, u

LEMMA StatementKinds ==
  /\ \A url : SetEnv(url).op = "env" /\ SetEnv(url).url = url
  /\ \A holds : Check(holds).op = "check"
  /\ \A chain, expect : NewRequest(chain, expect).op = "request"
  /\ \A chain : NewClient(chain, "ok").op = "client" /\ Builds(NewClient(chain, "ok"))
  /\ \A how, async, expect : PostIt(how, async, expect).op = "post"
  /\ CloseIt.op = "close" /\ DropIt.op = "drop"
  BY DEF SetEnv, Check, NewRequest, NewClient, PostIt, CloseIt, DropIt, Builds

\* The shipped programs are tuples of these lengths.
LEMMA Tuple4 ==
  ASSUME NEW a, NEW b, NEW c, NEW d
  PROVE  IsSeq(<<a, b, c, d>>) /\ DOMAIN <<a, b, c, d>> = {1, 2, 3, 4}
  <1>1. <<a, b, c, d>> \in Seq({a, b, c, d})
    OBVIOUS
  <1>2. IsSeq(<<a, b, c, d>>)
    BY <1>1, InSeq
  <1>3. DOMAIN <<a, b, c, d>> = {1, 2, 3, 4}
    OBVIOUS
  <1>4. QED
    BY <1>2, <1>3, Zenon

LEMMA Tuple6 ==
  ASSUME NEW a, NEW b, NEW c, NEW d, NEW e, NEW f
  PROVE  IsSeq(<<a, b, c, d, e, f>>) /\ DOMAIN <<a, b, c, d, e, f>> = {1, 2, 3, 4, 5, 6}
  <1>1. <<a, b, c, d, e, f>> \in Seq({a, b, c, d, e, f})
    OBVIOUS
  <1>2. IsSeq(<<a, b, c, d, e, f>>)
    BY <1>1, InSeq
  <1>3. DOMAIN <<a, b, c, d, e, f>> = {1, 2, 3, 4, 5, 6}
    OBVIOUS
  <1>4. QED
    BY <1>2, <1>3, Zenon

LEMMA Tuple7 ==
  ASSUME NEW a, NEW b, NEW c, NEW d, NEW e, NEW f, NEW g
  PROVE  IsSeq(<<a, b, c, d, e, f, g>>) /\ DOMAIN <<a, b, c, d, e, f, g>> = {1, 2, 3, 4, 5, 6, 7}
  <1>1. <<a, b, c, d, e, f, g>> \in Seq({a, b, c, d, e, f, g})
    OBVIOUS
  <1>2. IsSeq(<<a, b, c, d, e, f, g>>)
    BY <1>1, InSeq
  <1>3. DOMAIN <<a, b, c, d, e, f, g>> = {1, 2, 3, 4, 5, 6, 7}
    OBVIOUS
  <1>4. QED
    BY <1>2, <1>3, Zenon

LEMMA SmokeWellBuilt == WellBuilt(Smoke)
  <1>1. WellBuilt(<<Check(Severity["Medium"] = 3)>>)
    <2>1. PICK x : x = Check(Severity["Medium"] = 3)
      OBVIOUS
    <2>2. x.op = "check"
      BY <2>1 DEF Check
    <2>3. PICK s : s = <<x>>
      OBVIOUS
    <2>4. IsSeq(s) /\ DOMAIN s = {1} /\ s[1] = x
      BY <2>3, Singleton
    <2>5. (\A i \in DOMAIN s : KnownUrl(s[i])) /\ Covered(s, 0)
      BY <2>2, <2>4 DEF KnownUrl, Covered
    <2>6. QED
      BY <2>1, <2>3, <2>4, <2>5 DEF WellBuilt
  <1>2. WellBuilt(SmokeTransport)
    <2>1. IsSeq(SmokeTransport) /\ DOMAIN SmokeTransport = {1, 2, 3, 4, 5, 6}
      BY Tuple6, Zenon DEF SmokeTransport
    <2>2. SmokeTransport[1].op = "env" /\ SmokeTransport[1].url \in Endpoints \cup {Absent, ""}
      BY StatementKinds DEF SmokeTransport, Endpoints
    <2>3. SmokeTransport[2].op = "client" /\ Builds(SmokeTransport[2])
      BY StatementKinds DEF SmokeTransport
    <2>4. SmokeTransport[3].op = "request"
      BY StatementKinds DEF SmokeTransport
    <2>5. SmokeTransport[4].op = "post"
      BY DEF SmokeTransport, PostIt
    <2>6. SmokeTransport[5].op = "env" /\ SmokeTransport[5].url \in Endpoints \cup {Absent, ""}
      BY StatementKinds DEF SmokeTransport, Endpoints
    <2>7. SmokeTransport[6].op = "drop"
      BY StatementKinds DEF SmokeTransport
    <2>8. \A i \in DOMAIN SmokeTransport : KnownUrl(SmokeTransport[i])
      BY <2>1, <2>2, <2>3, <2>4, <2>5, <2>6, <2>7 DEF KnownUrl
    <2>9. \A i \in DOMAIN SmokeTransport : SmokeTransport[i].op = "post" => i \in {4}
      BY <2>1, <2>2, <2>3, <2>4, <2>5, <2>6, <2>7
    <2>10. \A i \in {4} : 2 \in 1 .. i - 1
      OBVIOUS
    <2>11. Covered(SmokeTransport, 0)
      BY <2>3, <2>9, <2>10 DEF Covered
    <2>12. QED
      BY <2>1, <2>8, <2>11 DEF WellBuilt
  <1>3. WellBuilt(SmokeValidation)
    <2>1. IsSeq(SmokeValidation) /\ DOMAIN SmokeValidation = {1, 2, 3, 4, 5, 6}
      BY Tuple6, Zenon DEF SmokeValidation
    <2>2. SmokeValidation[1].op = "request"
      BY StatementKinds DEF SmokeValidation
    <2>3. SmokeValidation[2].op = "client" /\ Builds(SmokeValidation[2])
      BY StatementKinds DEF SmokeValidation
    <2>4. SmokeValidation[3].op = "request"
      BY StatementKinds DEF SmokeValidation
    <2>5. SmokeValidation[4].op = "close"
      BY StatementKinds DEF SmokeValidation
    <2>6. SmokeValidation[5].op = "post"
      BY DEF SmokeValidation, PostIt
    <2>7. SmokeValidation[6].op = "drop"
      BY StatementKinds DEF SmokeValidation
    <2>8. \A i \in DOMAIN SmokeValidation : KnownUrl(SmokeValidation[i])
      BY <2>1, <2>2, <2>3, <2>4, <2>5, <2>6, <2>7 DEF KnownUrl
    <2>9. \A i \in DOMAIN SmokeValidation : SmokeValidation[i].op = "post" => i \in {5}
      BY <2>1, <2>2, <2>3, <2>4, <2>5, <2>6, <2>7
    <2>10. \A i \in {5} : 2 \in 1 .. i - 1
      OBVIOUS
    <2>11. Covered(SmokeValidation, 0)
      BY <2>3, <2>9, <2>10 DEF Covered
    <2>12. QED
      BY <2>1, <2>8, <2>11 DEF WellBuilt
  <1>4. WellBuilt(SmokeRouting)
    <2>1. IsSeq(SmokeRouting) /\ DOMAIN SmokeRouting = {1, 2, 3, 4}
      BY Tuple4, Zenon DEF SmokeRouting
    <2>2. SmokeRouting[1].op = "client" /\ Builds(SmokeRouting[1])
      BY StatementKinds DEF SmokeRouting
    <2>3. SmokeRouting[2].op = "request"
      BY StatementKinds DEF SmokeRouting
    <2>4. SmokeRouting[3].op = "post"
      BY DEF SmokeRouting, PostIt
    <2>5. SmokeRouting[4].op = "drop"
      BY StatementKinds DEF SmokeRouting
    <2>6. \A i \in DOMAIN SmokeRouting : KnownUrl(SmokeRouting[i])
      BY <2>1, <2>2, <2>3, <2>4, <2>5 DEF KnownUrl
    <2>7. \A i \in DOMAIN SmokeRouting : SmokeRouting[i].op = "post" => i \in {3}
      BY <2>1, <2>2, <2>3, <2>4, <2>5
    <2>8. \A i \in {3} : 1 \in 1 .. i - 1
      OBVIOUS
    <2>9. Covered(SmokeRouting, 0)
      BY <2>2, <2>7, <2>8 DEF Covered
    <2>10. QED
      BY <2>1, <2>6, <2>9 DEF WellBuilt
  <1>5. QED
    BY <1>1, <1>2, <1>3, <1>4, ConcatWellBuilt DEF Smoke

LEMMA PlainWellBuilt == WellBuilt(Plain)
  <1>1. IsSeq(Plain) /\ DOMAIN Plain = {1, 2, 3, 4, 5, 6, 7}
    BY Tuple7, Zenon DEF Plain
  <1>2. Plain[1].op = "client" /\ Builds(Plain[1])
    BY StatementKinds DEF Plain
  <1>3. Plain[2].op = "request"
    BY StatementKinds DEF Plain
  <1>4. Plain[3].op = "post"
    BY DEF Plain, PostIt
  <1>5. Plain[4].op = "request"
    BY StatementKinds DEF Plain
  <1>6. Plain[5].op = "post"
    BY DEF Plain, PostIt
  <1>7. Plain[6].op = "close"
    BY StatementKinds DEF Plain
  <1>8. Plain[7].op = "drop"
    BY StatementKinds DEF Plain
  <1>9. \A i \in DOMAIN Plain : KnownUrl(Plain[i])
    BY <1>1, <1>2, <1>3, <1>4, <1>5, <1>6, <1>7, <1>8 DEF KnownUrl
  <1>10. \A i \in DOMAIN Plain : Plain[i].op = "post" => i \in {3, 5}
    BY <1>1, <1>2, <1>3, <1>4, <1>5, <1>6, <1>7, <1>8
  <1>11. \A i \in {3, 5} : 1 \in 1 .. i - 1
    OBVIOUS
  <1>12. Covered(Plain, 0)
    BY <1>2, <1>10, <1>11 DEF Covered
  <1>13. QED
    BY <1>1, <1>9, <1>12 DEF WellBuilt

-----------------------------------------------------------------------------
(* The invariant is inductive *)

LEMMA InitSessionInv == Init => SessionInv
  <1> SUFFICES ASSUME Init PROVE SessionInv
    OBVIOUS
  <1>1. IsSeq(<<>>) /\ DOMAIN <<>> = {} /\ Len(<<>>) = 0
    <2>1. <<>> \in Seq({})
      OBVIOUS
    <2>2. IsSeq(<<>>)
      BY <2>1, InSeq
    <2>3. QED
      BY <2>2
  <1>2. WellBuilt(<<>>)
    BY <1>1 DEF WellBuilt, Covered
  <1>3. left = Smoke \/ left = Plain \/ left = <<>>
    BY DEF Init
  <1>4. WellBuilt(left)
    BY <1>2, <1>3, SmokeWellBuilt, PlainWellBuilt
  <1>5. ProgramInv
    <2>1. current = 0 /\ pc = "ready" /\ env = Absent
      BY <1>1 DEF Init, current
    <2>2. QED
      BY <1>4, <2>1 DEF ProgramInv, WellBuilt
  <1>6. ClientInv /\ DeliveryInv /\ DrainedInv
    BY <1>1 DEF Init, ClientInv, DeliveryInv, DrainedInv
  <1>7. QED
    BY <1>5, <1>6 DEF SessionInv

\* A program never gets ahead of its clients, a client never past its endpoint, a delivery
\* never past the schedule, and nothing is left queued behind a close (client.rs, retry.rs).
THEOREM Invariance == Spec => []SessionInv
  <1>1. SessionInv /\ [Next]_vars => SessionInv'
    <2> SUFFICES ASSUME SessionInv, [Next]_vars PROVE SessionInv'
      OBVIOUS
    <2>1. CASE \E s \in Statements : Improvise(s)
      BY <2>1, ImproviseInv
    <2>2. CASE Program
      BY <2>2, RunSetEnvInv, RunCheckInv, RunRequestInv, RunClientInv, PostRefusedInv, PostAcceptedInv,
         PostReturnsInv, CloseBeginsInv, ClosedAlreadyInv, NothingToDropInv, CloseReturnsInv DEF Program
    <2>3. ASSUME NEW k \in DOMAIN deliveries, Delivering(k) PROVE SessionInv'
      BY <2>3, WorkerTakesInv, AttemptInv, BackoffElapsesInv, BackoffInterruptedInv DEF Delivering
    <2>4. CASE UNCHANGED vars
      <3>1. UNCHANGED <<left, pc, env, clients, deliveries>>
        BY <2>4 DEF vars, programVars
      <3>2. ProgramInv' /\ ClientInv' /\ DrainedInv'
        BY <3>1 DEF SessionInv, ProgramInv, ClientInv, ClientOK, DrainedInv, current, stmt
      <3>3. DeliveryInv'
        BY <3>1, DeliveriesKept DEF SessionInv
      <3>4. QED
        BY <3>2, <3>3 DEF SessionInv
    <2>5. QED
      BY <2>1, <2>2, <2>3, <2>4 DEF Next
  <1>2. QED
    BY InitSessionInv, <1>1, PTL DEF Spec

-----------------------------------------------------------------------------
(* The guarantees *)

\* A client posts to one endpoint for its whole life, whatever the program does to the
\* environment and however often a delivery is retried (transport.rs:29-48).
THEOREM OneEndpoint == Spec => []EndpointPinned
  <1>1. SessionInv => EndpointPinned
    <2> SUFFICES ASSUME SessionInv, NEW c \in DOMAIN clients
                 PROVE  Cardinality(clients[c].contacted) <= 1
      BY DEF EndpointPinned
    <2>1. clients[c].contacted \subseteq {clients[c].endpoint}
      BY DEF SessionInv, ClientInv, ClientOK
    <2>2. clients[c].contacted = {} \/ clients[c].contacted = {clients[c].endpoint}
      BY <2>1
    <2>3. Cardinality({}) = 0 /\ Cardinality({clients[c].endpoint}) = 1
      BY FS_EmptySet, FS_Singleton
    <2>4. QED
      BY <2>2, <2>3
  <1>2. QED
    BY Invariance, <1>1, PTL

\* A failure without a status is that of an exhausted schedule of six attempts, and says so,
\* or that of a client that is closing; no message tells a number of attempts that were not
\* made (retry.rs:39-73).
THEOREM AttemptsAreTold == Spec => []AttemptsTold
  <1>1. SessionInv => AttemptsTold
    BY DEF SessionInv, DeliveryInv, DeliveryOK, Told, AttemptsTold
  <1>2. QED
    BY Invariance, <1>1, PTL

\* Once close has returned, no delivery of the client is taken up: none is queued, none goes
\* on from its backoff and no later post is accepted (client.rs:104-121).
THEOREM CloseIsFinal == Spec => ClosedForGood
  <1> DEFINE G == \A c \in DOMAIN clients : clients[c].closed /\ ~(pc = "closing" /\ c = current) =>
                    \A k \in DOMAIN deliveries' : deliveries'[k].client = c /\ deliveries'[k].phase = "sending" =>
                      k \in DOMAIN deliveries /\ deliveries[k].phase = "sending"
  <1>1. SessionInv /\ [Next]_vars => [G]_vars
    <2> SUFFICES ASSUME SessionInv, Next,
                        NEW c \in DOMAIN clients, clients[c].closed, ~(pc = "closing" /\ c = current),
                        NEW k \in DOMAIN deliveries', deliveries'[k].client = c,
                        deliveries'[k].phase = "sending"
                 PROVE  k \in DOMAIN deliveries /\ deliveries[k].phase = "sending"
      OBVIOUS
    <2>1. IsSeq(deliveries) /\ \A j \in DOMAIN deliveries : IsDelivery(deliveries[j])
      BY DEF SessionInv, DeliveryInv, DeliveryOK
    <2>2. clients[c].signalled
      BY DEF SessionInv, ClientInv, ClientOK
    <2>3. CASE UNCHANGED deliveries
      BY <2>3
    <2>4. CASE PostAccepted
      <3>1. ~clients[current].closed
        BY <2>4 DEF PostAccepted, Admission, ClientClosed, Ok, Result
      <3>2. PICK d : deliveries' = Append(deliveries, d) /\ d.client = current
        BY <2>4 DEF PostAccepted
      <3>3. /\ Len(deliveries) \in Nat /\ DOMAIN deliveries = 1 .. Len(deliveries)
            /\ DOMAIN deliveries' = 1 .. Len(deliveries) + 1
            /\ \A j \in DOMAIN deliveries : deliveries'[j] = deliveries[j]
            /\ deliveries'[Len(deliveries) + 1] = d
        BY <2>1, <3>2, SeqAppend, SeqFacts
      <3>4. k # Len(deliveries) + 1
        BY <3>1, <3>2, <3>3
      <3>5. QED
        BY <3>3, <3>4
    <2>5. ASSUME NEW j \in DOMAIN deliveries, NEW e, deliveries' = [deliveries EXCEPT ![j] = e],
                 e.client = c /\ e.phase = "sending" => deliveries[j].phase = "sending"
          PROVE  k \in DOMAIN deliveries /\ deliveries[k].phase = "sending"
      BY <2>5
    <2>6. ASSUME NEW j \in DOMAIN deliveries, WorkerTakes(j)
          PROVE  k \in DOMAIN deliveries /\ deliveries[k].phase = "sending"
      <3>1. PICK d, e : d = deliveries[j] /\ e = [d EXCEPT !.phase = "sending"]
        OBVIOUS
      <3>2. deliveries' = [deliveries EXCEPT ![j] = e]
        BY <2>6, <3>1 DEF WorkerTakes
      <3>3. e.client = d.client
        BY <2>1, <3>1, DeliveryMoves
      <3>4. d.phase = "queued"
        BY <2>6, <3>1 DEF WorkerTakes
      <3>5. d.client # c
        BY <3>1, <3>4 DEF SessionInv, DrainedInv
      <3>6. QED
        BY <2>5, <3>2, <3>3, <3>5
    <2>7. ASSUME NEW j \in DOMAIN deliveries, BackoffElapses(j)
          PROVE  k \in DOMAIN deliveries /\ deliveries[k].phase = "sending"
      <3>1. PICK d, e : d = deliveries[j] /\ e = [d EXCEPT !.phase = "sending"]
        OBVIOUS
      <3>2. deliveries' = [deliveries EXCEPT ![j] = e]
        BY <2>7, <3>1 DEF BackoffElapses
      <3>3. e.client = d.client
        BY <2>1, <3>1, DeliveryMoves
      <3>4. d.client # c
        BY <2>2, <2>7, <3>1 DEF BackoffElapses
      <3>5. QED
        BY <2>5, <3>2, <3>3, <3>4
    <2>8. ASSUME NEW j \in DOMAIN deliveries, NEW a, Attempt(j, a)
          PROVE  k \in DOMAIN deliveries /\ deliveries[k].phase = "sending"
      <3>1. deliveries[j].phase = "sending" /\ \E e : deliveries' = [deliveries EXCEPT ![j] = e]
        BY <2>8 DEF Attempt
      <3>2. QED
        BY <2>5, <3>1
    <2>9. ASSUME NEW j \in DOMAIN deliveries, BackoffInterrupted(j)
          PROVE  k \in DOMAIN deliveries /\ deliveries[k].phase = "sending"
      <3>1. PICK d, o, e : d = deliveries[j] /\ o = Delivery(NoStatus, 0)
                           /\ e = [d EXCEPT !.phase = "over", !.outcome = o]
        OBVIOUS
      <3>2. deliveries' = [deliveries EXCEPT ![j] = e]
        BY <2>9, <3>1 DEF BackoffInterrupted
      <3>3. e.phase = "over"
        BY <2>1, <3>1 DEF IsDelivery
      <3>4. QED
        BY <2>5, <3>2, <3>3
    <2>10. ASSUME NEW timeIsUp \in BOOLEAN, CloseReturns(timeIsUp)
           PROVE  k \in DOMAIN deliveries /\ deliveries[k].phase = "sending"
      <3>1. deliveries' = [j \in DOMAIN deliveries |->
              IF j \in Queued(current) THEN [deliveries[j] EXCEPT !.phase = "abandoned"] ELSE deliveries[j]]
        BY <2>10 DEF CloseReturns
      <3>2. k \in DOMAIN deliveries
        BY <3>1
      <3>3. CASE k \in Queued(current)
        <4>1. PICK d, e : d = deliveries[k] /\ e = [d EXCEPT !.phase = "abandoned"]
          OBVIOUS
        <4>2. deliveries'[k] = e
          BY <3>1, <3>2, <3>3, <4>1
        <4>3. e.phase = "abandoned"
          BY <2>1, <3>2, <4>1, DeliveryMoves
        <4>4. QED
          BY <4>2, <4>3
      <3>4. CASE k \notin Queued(current)
        BY <3>1, <3>2, <3>4
      <3>5. QED
        BY <3>3, <3>4
    <2>11. CASE \E s \in Statements : Improvise(s)
      BY <2>3, <2>11 DEF Improvise
    <2>12. CASE Program
      <3>1. \/ UNCHANGED deliveries \/ PostAccepted
            \/ \E timeIsUp \in BOOLEAN : CloseReturns(timeIsUp)
        BY <2>12 DEF Program, RunSetEnv, RunCheck, RunRequest, RunClient, PostRefused, PostReturns,
           CloseBegins, ClosedAlready, NothingToDrop
      <3>2. QED
        BY <2>3, <2>4, <2>10, <3>1
    <2>13. CASE \E j \in DOMAIN deliveries : Delivering(j)
      BY <2>6, <2>7, <2>8, <2>9, <2>13 DEF Delivering
    <2>14. QED
      BY <2>11, <2>12, <2>13 DEF Next
  <1>2. QED
    BY Invariance, <1>1, PTL DEF Spec, ClosedForGood
-----------------------------------------------------------------------------
(* The smoke program *)

\* What is left of the program behind its first p statements.
Rest(s, p) ==
  /\ IsSeq(s) /\ Len(s) = 17 - p
  /\ \A i \in DOMAIN s : s[i] = Smoke[p + i]

\* What the program has set up behind its first p statements: the override that the first
\* client is built under and has its endpoint from, the second client, which is closed when
\* the post to it comes, and the key of the request that is to be routed.
Stage(p) ==
  /\ p = 2 => env = Loopback
  /\ p \in {3, 4} => current > 0 /\ clients[current].endpoint = Loopback
  /\ p \in {9, 10, 11} => current > 0
  /\ p = 11 => clients[current].closed
  /\ p = 15 => request.serviceKey # Absent

\* No client of the program contacts anybody but the loopback address, and no post is
\* accepted but by a client that has that for its endpoint.
ContactsInv ==
  /\ \A c \in DOMAIN clients : clients[c].contacted \subseteq {Loopback}
  /\ \A k \in DOMAIN deliveries : clients[deliveries[k].client].endpoint = Loopback

Ends(s) == s = <<>> \/ s = <<DropIt>>

SmokeInv ==
  program = "smoke" =>
    /\ ContactsInv
    /\ pc = "closing" => current > 0 /\ clients[current].closed
    /\ Ends(left) \/ \E p \in 0 .. 16 : Rest(left, p) /\ Stage(p)

\* What the concatenation of two sequences is.
Joins(u, s, t) ==
  /\ IsSeq(u) /\ Len(u) = Len(s) + Len(t)
  /\ \A i \in 1 .. Len(s) : u[i] = s[i]
  /\ \A i \in 1 .. Len(t) : u[Len(s) + i] = t[i]

LEMMA Concat ==
  ASSUME NEW s, NEW t, IsSeq(s), IsSeq(t)
  PROVE  Joins(s \o t, s, t)
  <1>0. PICK u : u = s \o t
    OBVIOUS
  <1> DEFINE S == {s[i] : i \in DOMAIN s} \cup {t[i] : i \in DOMAIN t}
  <1>1. s \in Seq(S) /\ t \in Seq(S)
    BY DEF IsSeq
  <1> HIDE DEF S
  <1>2. /\ u \in Seq(S) /\ Len(s) \in Nat /\ Len(t) \in Nat /\ Len(u) = Len(s) + Len(t)
        /\ \A i \in 1 .. Len(s) + Len(t) : u[i] = IF i <= Len(s) THEN s[i] ELSE t[i - Len(s)]
    BY <1>0, <1>1
  <1>3. IsSeq(u)
    BY <1>2, InSeq
  <1>4. \A i \in 1 .. Len(s) : u[i] = s[i]
    BY <1>2
  <1>5. ASSUME NEW i \in 1 .. Len(t) PROVE u[Len(s) + i] = t[i]
    <2>1. /\ Len(s) + i \in 1 .. Len(s) + Len(t) /\ ~(Len(s) + i <= Len(s))
          /\ (Len(s) + i) - Len(s) = i
      BY <1>2
    <2>2. QED
      BY <1>2, <2>1
  <1>6. QED
    BY <1>0, <1>2, <1>3, <1>4, <1>5 DEF Joins

\* The statements of the program, by position.
LEMMA SmokeStatements ==
  /\ IsSeq(Smoke) /\ Len(Smoke) = 17
  /\ Smoke[1] = Check(Severity["Medium"] = 3)
  /\ \A i \in 1 .. 6 : Smoke[1 + i] = SmokeTransport[i]
  /\ \A i \in 1 .. 6 : Smoke[7 + i] = SmokeValidation[i]
  /\ \A i \in 1 .. 4 : Smoke[13 + i] = SmokeRouting[i]
  <1>1. PICK x : x = Check(Severity["Medium"] = 3)
    OBVIOUS
  <1>2. PICK a : a = <<x>>
    OBVIOUS
  <1>3. PICK b : b = SmokeTransport
    OBVIOUS
  <1>4. PICK c : c = SmokeValidation
    OBVIOUS
  <1>5. PICK d : d = SmokeRouting
    OBVIOUS
  <1>6. IsSeq(a) /\ Len(a) = 1 /\ a[1] = x
    <2>1. IsSeq(a) /\ DOMAIN a = {1} /\ a[1] = x
      BY <1>2, Singleton
    <2>2. QED
      BY <1>2, <2>1
  <1>7. IsSeq(b) /\ Len(b) = 6
    <2>1. IsSeq(b)
      BY <1>3, Tuple6, Zenon DEF SmokeTransport
    <2>2. QED
      BY <1>3, <2>1 DEF SmokeTransport
  <1>8. IsSeq(c) /\ Len(c) = 6
    <2>1. IsSeq(c)
      BY <1>4, Tuple6, Zenon DEF SmokeValidation
    <2>2. QED
      BY <1>4, <2>1 DEF SmokeValidation
  <1>9. IsSeq(d) /\ Len(d) = 4
    <2>1. IsSeq(d)
      BY <1>5, Tuple4, Zenon DEF SmokeRouting
    <2>2. QED
      BY <1>5, <2>1 DEF SmokeRouting
  <1>10. PICK ab : ab = a \o b
    OBVIOUS
  <1>11. PICK abc : abc = ab \o c
    OBVIOUS
  <1>12. Smoke = abc \o d
    BY <1>1, <1>2, <1>3, <1>4, <1>5, <1>10, <1>11 DEF Smoke
  <1>13. /\ IsSeq(ab) /\ Len(ab) = 7 /\ ab[1] = x
         /\ \A i \in 1 .. 6 : ab[1 + i] = b[i]
    <2>1. Joins(ab, a, b)
      BY <1>6, <1>7, <1>10, Concat
    <2>2. QED
      BY <1>6, <1>7, <2>1 DEF Joins
  <1>14. /\ IsSeq(abc) /\ Len(abc) = 13
         /\ \A i \in 1 .. 7 : abc[i] = ab[i]
         /\ \A i \in 1 .. 6 : abc[7 + i] = c[i]
    <2>1. Joins(abc, ab, c)
      BY <1>8, <1>11, <1>13, Concat
    <2>2. QED
      BY <1>8, <1>13, <2>1 DEF Joins
  <1>15. /\ IsSeq(Smoke) /\ Len(Smoke) = 17
         /\ \A i \in 1 .. 13 : Smoke[i] = abc[i]
         /\ \A i \in 1 .. 4 : Smoke[13 + i] = d[i]
    <2>1. Joins(Smoke, abc, d)
      BY <1>9, <1>12, <1>14, Concat
    <2>2. QED
      BY <1>9, <1>14, <2>1 DEF Joins
  <1>16. Smoke[1] = x
    BY <1>13, <1>14, <1>15
  <1>17. \A i \in 1 .. 6 : Smoke[1 + i] = b[i]
    <2> TAKE i \in 1 .. 6
    <2>1. 1 + i \in 1 .. 7 /\ 1 + i \in 1 .. 13
      OBVIOUS
    <2>2. QED
      BY <1>13, <1>14, <1>15, <2>1
  <1>18. \A i \in 1 .. 6 : Smoke[7 + i] = c[i]
    <2> TAKE i \in 1 .. 6
    <2>1. 7 + i \in 1 .. 13
      OBVIOUS
    <2>2. QED
      BY <1>14, <1>15, <2>1
  <1>19. QED
    BY <1>1, <1>3, <1>4, <1>5, <1>15, <1>16, <1>17, <1>18

LEMMA SmokeKinds ==
  /\ Smoke[1].op = "check"
  /\ Smoke[2].op = "env" /\ Smoke[2].url = Loopback
  /\ Smoke[3].op = "client" /\ Smoke[3].expect = "ok"
  /\ Smoke[4].op = "request" /\ Smoke[5].op = "post"
  /\ Smoke[6].op = "env" /\ Smoke[7].op = "drop"
  /\ Smoke[8].op = "request"
  /\ Smoke[9].op = "client" /\ Smoke[9].expect = "ok"
  /\ Smoke[10].op = "request" /\ Smoke[11].op = "close" /\ Smoke[12].op = "post"
  /\ Smoke[13].op = "drop" /\ Smoke[14].op = "client"
  /\ Smoke[15] = NewRequest(Append(Incident("routed", "Low"), <<"serviceKey", "key">>), "ok")
  /\ Smoke[15].op = "request"
  /\ Smoke[16].op = "post" /\ Smoke[16].how = "route" /\ Smoke[17].op = "drop"
  <1>1. Smoke[1].op = "check"
    BY SmokeStatements, StatementKinds
  <1>2. /\ Smoke[2] = SmokeTransport[1] /\ Smoke[3] = SmokeTransport[2] /\ Smoke[4] = SmokeTransport[3]
        /\ Smoke[5] = SmokeTransport[4] /\ Smoke[6] = SmokeTransport[5] /\ Smoke[7] = SmokeTransport[6]
    BY SmokeStatements
  <1>3. /\ Smoke[8] = SmokeValidation[1] /\ Smoke[9] = SmokeValidation[2] /\ Smoke[10] = SmokeValidation[3]
        /\ Smoke[11] = SmokeValidation[4] /\ Smoke[12] = SmokeValidation[5] /\ Smoke[13] = SmokeValidation[6]
    BY SmokeStatements
  <1>4. /\ Smoke[14] = SmokeRouting[1] /\ Smoke[15] = SmokeRouting[2]
        /\ Smoke[16] = SmokeRouting[3] /\ Smoke[17] = SmokeRouting[4]
    BY SmokeStatements
  <1>5. /\ SmokeTransport[1] = SetEnv(Loopback)
        /\ SmokeTransport[5] = SetEnv(Absent) /\ SmokeTransport[6] = DropIt
    BY DEF SmokeTransport
  <1>6. SmokeTransport[2].op = "client" /\ Builds(SmokeTransport[2])
    BY StatementKinds DEF SmokeTransport
  <1>7. SmokeTransport[3].op = "request" /\ SmokeTransport[4].op = "post"
    BY DEF SmokeTransport, NewRequest, PostIt
  <1>8. SmokeValidation[1].op = "request" /\ SmokeValidation[3].op = "request"
    BY StatementKinds DEF SmokeValidation
  <1>9. SmokeValidation[2].op = "client" /\ Builds(SmokeValidation[2])
    BY StatementKinds DEF SmokeValidation
  <1>10. SmokeValidation[5].op = "post"
    BY DEF SmokeValidation, PostIt
  <1>11. SmokeValidation[4] = CloseIt /\ SmokeValidation[6] = DropIt
    BY DEF SmokeValidation
  <1>12. SmokeRouting[1].op = "client"
    BY StatementKinds DEF SmokeRouting
  <1>13. /\ SmokeRouting[2] = NewRequest(Append(Incident("routed", "Low"), <<"serviceKey", "key">>), "ok")
         /\ SmokeRouting[4] = DropIt
    BY DEF SmokeRouting
  <1>14. SmokeRouting[3].op = "post" /\ SmokeRouting[3].how = "route"
    BY DEF SmokeRouting, PostIt
  <1>15. QED
    BY <1>1, <1>2, <1>3, <1>4, <1>5, <1>6, <1>7, <1>8, <1>9, <1>10, <1>11, <1>12, <1>13, <1>14,
       StatementKinds DEF Builds

\* The positions of the statements of each kind.
LEMMA SmokePositions ==
  ASSUME NEW p \in 0 .. 16
  PROVE  /\ Smoke[p + 1].op = "check" => p = 0
         /\ Smoke[p + 1].op = "env" => p \in {1, 5}
         /\ Smoke[p + 1].op = "client" => p \in {2, 8, 13}
         /\ Smoke[p + 1].op = "request" => p \in {3, 7, 9, 14}
         /\ Smoke[p + 1].op = "post" => p \in {4, 11, 15}
         /\ Smoke[p + 1].op \in {"close", "drop"} => p \in {6, 10, 12, 16}
         /\ Smoke[p + 1].op = "drop" => p \in {6, 12, 16}
  <1>1. \/ p = 0 \/ p = 1 \/ p = 2 \/ p = 3 \/ p = 4 \/ p = 5 \/ p = 6 \/ p = 7 \/ p = 8 \/ p = 9
        \/ p = 10 \/ p = 11 \/ p = 12 \/ p = 13 \/ p = 14 \/ p = 15 \/ p = 16
    OBVIOUS
  <1>2. /\ 0 + 1 = 1 /\ 1 + 1 = 2 /\ 2 + 1 = 3 /\ 3 + 1 = 4 /\ 4 + 1 = 5 /\ 5 + 1 = 6 /\ 6 + 1 = 7
        /\ 7 + 1 = 8 /\ 8 + 1 = 9 /\ 9 + 1 = 10 /\ 10 + 1 = 11 /\ 11 + 1 = 12 /\ 12 + 1 = 13
        /\ 13 + 1 = 14 /\ 14 + 1 = 15 /\ 15 + 1 = 16 /\ 16 + 1 = 17
    OBVIOUS
  <1>3. QED
    BY <1>1, <1>2, SmokeKinds

\* A statement that ends leaves the program at its end or one statement further on.
LEMMA SmokeAdvances ==
  ASSUME ProgramInv, left # <<>>, NEW o, Returns(o),
         Ends(left) \/ \E p \in 0 .. 16 : Rest(left, p) /\ Stage(p)
  PROVE  \/ Ends(left')
         \/ \E p \in 0 .. 15 : /\ Rest(left, p) /\ Stage(p) /\ stmt = Smoke[p + 1]
                               /\ Rest(left', p + 1) /\ Meets(o, stmt.expect)
  <1>1. left' \in {<<DropIt>>, Tail(left)} /\ (left' # <<DropIt>> => Meets(o, stmt.expect))
    BY DEF Returns
  <1>2. CASE left' = <<DropIt>>
    BY <1>2 DEF Ends
  <1>3. CASE left' # <<DropIt>>
    <2>1. /\ 1 \in DOMAIN left /\ stmt = left[1] /\ left' = Tail(left)
          /\ IsSeq(left') /\ DOMAIN left' = 1 .. Len(left) - 1
          /\ \A i \in DOMAIN left' : i + 1 \in DOMAIN left /\ left'[i] = left[i + 1]
      BY <1>1, <1>3, SeqTail DEF ProgramInv, stmt
    <2>2. Len(left) \in Nat /\ DOMAIN left = 1 .. Len(left) /\ Len(left') \in Nat
          /\ DOMAIN left' = 1 .. Len(left')
      BY <2>1, SeqFacts DEF ProgramInv
    <2>3. Len(left') = Len(left) - 1
      BY <2>1, <2>2
    <2>4. CASE left = <<DropIt>>
      BY <2>1, <2>4 DEF Ends
    <2>5. ASSUME NEW p \in 0 .. 16, Rest(left, p), Stage(p)
          PROVE  \/ Ends(left')
                 \/ /\ p \in 0 .. 15 /\ stmt = Smoke[p + 1] /\ Rest(left', p + 1)
                    /\ Meets(o, stmt.expect)
      <3>1. stmt = Smoke[p + 1]
        BY <2>1, <2>5 DEF Rest
      <3>2. CASE p = 16
        <4>1. Len(left') = 0
          BY <2>3, <2>5, <3>2 DEF Rest
        <4>2. left' = <<>>
          BY <2>1, <4>1 DEF IsSeq
        <4>3. QED
          BY <4>2 DEF Ends
      <3>3. CASE p # 16
        <4>1. p \in 0 .. 15 /\ Len(left') = 17 - (p + 1)
          BY <2>3, <2>5, <3>3 DEF Rest
        <4>2. ASSUME NEW i \in DOMAIN left' PROVE left'[i] = Smoke[(p + 1) + i]
          <5>1. left'[i] = Smoke[p + (i + 1)]
            BY <2>1, <2>5 DEF Rest
          <5>2. p + (i + 1) = (p + 1) + i
            BY <2>2
          <5>3. QED
            BY <5>1, <5>2
        <4>3. QED
          BY <1>1, <1>3, <2>1, <3>1, <4>1, <4>2 DEF Rest
      <3>4. QED
        BY <3>2, <3>3
    <2>6. QED
      BY <2>4, <2>5 DEF Ends
  <1>4. QED
    BY <1>2, <1>3

\* ... so a step that ends a statement has only what the next position needs to establish.
LEMMA SmokeReturns ==
  ASSUME SessionInv, SmokeInv, program = "smoke", left # <<>>, NEW o, Returns(o),
         ContactsInv',
         \A p \in 0 .. 15 : Rest(left, p) /\ Stage(p) /\ stmt = Smoke[p + 1] /\ Meets(o, stmt.expect)
                            => Stage(p + 1)'
  PROVE  SmokeInv'
  <1>1. pc' = "ready"
    BY DEF Returns
  <1>2. \/ Ends(left')
        \/ \E p \in 0 .. 15 : /\ Rest(left, p) /\ Stage(p) /\ stmt = Smoke[p + 1]
                              /\ Rest(left', p + 1) /\ Meets(o, stmt.expect)
    BY SmokeAdvances DEF SessionInv, SmokeInv
  <1>3. ASSUME NEW p \in 0 .. 15, Rest(left, p), Stage(p), stmt = Smoke[p + 1],
               Rest(left', p + 1), Meets(o, stmt.expect)
        PROVE  \E q \in 0 .. 16 : Rest(left', q) /\ Stage(q)'
    <2>1. Stage(p + 1)' /\ p + 1 \in 0 .. 16
      BY <1>3
    <2>2. QED
      BY <1>3, <2>1
  <1>4. Ends(left') \/ \E q \in 0 .. 16 : Rest(left', q) /\ Stage(q)'
    BY <1>2, <1>3
  <1>5. QED
    BY <1>1, <1>4 DEF SmokeInv, Ends, Rest

LEMMA SmokeRunSetEnv ==
  ASSUME SessionInv, SmokeInv, program = "smoke", RunSetEnv
  PROVE  SmokeInv'
  <1>1. left # <<>> /\ stmt.op = "env"
    BY StatementFacts DEF RunSetEnv
  <1>2. Returns(Ok) /\ env' = stmt.url /\ UNCHANGED <<clients, deliveries>>
    BY DEF RunSetEnv
  <1>3. ContactsInv'
    BY <1>2 DEF SmokeInv, ContactsInv
  <1>4. ASSUME NEW p \in 0 .. 15, stmt = Smoke[p + 1] PROVE Stage(p + 1)'
    <2>1. p = 1 \/ p = 5
      <3>1. p \in 0 .. 16 /\ Smoke[p + 1].op = "env"
        BY <1>1, <1>4
      <3>2. QED
        BY <3>1, SmokePositions
    <2>2. CASE p = 1
      <3>1. p + 1 = 2
        BY <2>2
      <3>2. env' = Loopback
        BY <1>2, <1>4, <3>1, SmokeKinds
      <3>3. QED
        BY <3>1, <3>2 DEF Stage
    <2>3. CASE p = 5
      <3>1. p + 1 = 6
        BY <2>3
      <3>2. QED
        BY <3>1 DEF Stage
    <2>4. QED
      BY <2>1, <2>2, <2>3
  <1>5. QED
    BY <1>1, <1>2, <1>3, <1>4, SmokeReturns

LEMMA SmokeRunCheck ==
  ASSUME SessionInv, SmokeInv, program = "smoke", RunCheck
  PROVE  SmokeInv'
  <1>1. left # <<>> /\ stmt.op = "check"
    BY StatementFacts DEF RunCheck
  <1>2. PICK o : Returns(o)
    BY DEF RunCheck
  <1>3. ContactsInv'
    BY DEF RunCheck, SmokeInv, ContactsInv
  <1>4. ASSUME NEW p \in 0 .. 15, stmt = Smoke[p + 1] PROVE Stage(p + 1)'
    <2>1. p + 1 = 1
      <3>1. p \in 0 .. 16 /\ Smoke[p + 1].op = "check"
        BY <1>1, <1>4
      <3>2. p = 0
        BY <3>1, SmokePositions
      <3>3. QED
        BY <3>2
    <2>2. QED
      BY <2>1 DEF Stage
  <1>5. QED
    BY <1>1, <1>2, <1>3, <1>4, SmokeReturns

\* A request that is built has the service key that the chain sets.
LEMMA RustBuildKey ==
  ASSUME NEW b, DOMAIN b = RequestFields, NEW n, NEW r, r = RustBuild(b, n), r # Refused
  PROVE  r.serviceKey = b.serviceKey
  <1>1. PICK x, y : r = [b EXCEPT !.priority = x, !.srcTimestamp = y]
    BY DEF RustBuild, Checked
  <1>2. QED
    BY <1>1 DEF RequestFields

LEMMA RoutedKey ==
  ASSUME NEW r, r = BuildRequest(Append(Incident("routed", "Low"), <<"serviceKey", "key">>)),
         r # Refused
  PROVE  r.serviceKey # Absent
  <1>0. "key" # Absent
    BY SessionAssumption
  <1>1. PICK text : text = Text("s")
    OBVIOUS
  <1>2. PICK a, b, c, d : /\ a = <<"title", "routed">> /\ b = <<"source", text>>
                          /\ c = <<"severity", "Low">> /\ d = <<"serviceKey", "key">>
    OBVIOUS
  <1>3. PICK s, chain : s = <<a, b, c>> /\ chain = Append(s, d)
    OBVIOUS
  <1>4. r = BuildRequest(chain)
    BY <1>1, <1>2, <1>3 DEF Incident
  <1>5. s \in Seq({a, b, c}) /\ Len(s) = 3 /\ s[1] = a /\ s[2] = b /\ s[3] = c
    BY <1>3
  <1>6. DOMAIN chain = {1, 2, 3, 4} /\ chain[1] = a /\ chain[2] = b /\ chain[3] = c /\ chain[4] = d
    <2>1. PICK e : e = d
      OBVIOUS
    <2>2. IsSeq(s)
      BY <1>5, InSeq
    <2>3. PICK t : t = Append(s, e)
      OBVIOUS
    <2>4. /\ DOMAIN t = 1 .. Len(s) + 1
          /\ \A i \in DOMAIN s : t[i] = s[i]
          /\ t[Len(s) + 1] = e
      BY <2>2, <2>3, SeqAppend
    <2>5. DOMAIN s = {1, 2, 3}
      BY <1>5, <2>2, SeqFacts
    <2>6. DOMAIN t = {1, 2, 3, 4} /\ t[1] = a /\ t[2] = b /\ t[3] = c /\ t[4] = e
      BY <1>5, <2>4, <2>5
    <2>7. QED
      BY <1>3, <2>1, <2>3, <2>6, Zenon
  <1>7. a[1] # "serviceKey" /\ b[1] # "serviceKey" /\ c[1] # "serviceKey" /\ d[1] = "serviceKey" /\ d[2] = "key"
    BY <1>2
  <1>8. {i \in DOMAIN chain : chain[i][1] = "serviceKey"} = {4}
    BY <1>6, <1>7
  <1>9. PICK f : f = Builder(RequestFields, chain)
    OBVIOUS
  <1>10. f.serviceKey = "key" /\ DOMAIN f = RequestFields
    <2>1. PICK g : g = [x \in RequestFields |->
             LET sets == {i \in DOMAIN chain : chain[i][1] = x}
             IN IF sets = {} THEN Absent ELSE chain[CHOOSE i \in sets : \A j \in sets : j <= i][2]]
      OBVIOUS
    <2>2. f = g
      BY <1>9, <2>1 DEF Builder
    <2>3. "serviceKey" \in RequestFields
      BY DEF RequestFields
    <2>4. PICK sets : sets = {i \in DOMAIN chain : chain[i][1] = "serviceKey"}
      OBVIOUS
    <2>5. PICK k : k = CHOOSE i \in sets : \A j \in sets : j <= i
      OBVIOUS
    <2>6. g["serviceKey"] = IF sets = {} THEN Absent ELSE chain[k][2]
      BY <2>1, <2>3, <2>4, <2>5
    <2>7. sets = {4}
      BY <1>8, <2>4
    <2>8. k = 4
      <3>1. \E i \in sets : \A j \in sets : j <= i
        BY <2>7
      <3>2. k \in sets
        BY <2>5, <3>1
      <3>3. QED
        BY <2>7, <3>2
    <2>9. g["serviceKey"] = "key"
      BY <1>6, <1>7, <2>6, <2>7, <2>8
    <2>10. DOMAIN g = RequestFields
      BY <2>1
    <2>11. QED
      BY <2>2, <2>9, <2>10
  <1>11. \/ r = RustBuild(f, 1)
         \/ r = RustBuild([f EXCEPT !.severity = Severity[f.severity]], 1)
    BY <1>4, <1>9 DEF BuildRequest
  <1>12. CASE r = RustBuild(f, 1)
    <2>1. r.serviceKey = "key"
      BY <1>10, <1>12, RustBuildKey
    <2>2. QED
      BY <1>0, <2>1, Zenon
  <1>13. CASE r = RustBuild([f EXCEPT !.severity = Severity[f.severity]], 1)
    <2>1. PICK h : h = [f EXCEPT !.severity = Severity[f.severity]]
      OBVIOUS
    <2>2. DOMAIN h = RequestFields /\ h.serviceKey = "key"
      BY <1>10, <2>1 DEF RequestFields
    <2>3. r.serviceKey = "key"
      BY <1>13, <2>1, <2>2, RustBuildKey
    <2>4. QED
      BY <1>0, <2>3, Zenon
  <1>14. QED
    BY <1>11, <1>12, <1>13

LEMMA SmokeRunRequest ==
  ASSUME SessionInv, SmokeInv, program = "smoke", RunRequest
  PROVE  SmokeInv'
  <1>1. left # <<>> /\ stmt.op = "request"
    BY StatementFacts DEF RunRequest
  <1>2. UNCHANGED <<env, clients, deliveries>>
    BY DEF RunRequest
  <1>3. PICK r : r = BuildRequest(stmt.chain)
    OBVIOUS
  <1>4. PICK o : o = IF r = Refused THEN InvalidRequest ELSE Ok
    OBVIOUS
  <1>5. Returns(o) /\ request' = IF r = Refused THEN Absent ELSE r
    BY <1>3, <1>4 DEF RunRequest
  <1>6. ContactsInv'
    BY <1>2 DEF SmokeInv, ContactsInv
  <1>7. ASSUME NEW p \in 0 .. 15, Stage(p), stmt = Smoke[p + 1], Meets(o, stmt.expect)
        PROVE  Stage(p + 1)'
    <2>1. p \in {3, 7, 9, 14}
      <3>1. p \in 0 .. 16 /\ Smoke[p + 1].op = "request"
        BY <1>1, <1>7
      <3>2. QED
        BY <3>1, SmokePositions
    <2>2. CASE p = 3
      <3>1. p + 1 = 4
        BY <2>2
      <3>2. QED
        BY <1>2, <1>7, <2>2, <3>1 DEF Stage, current
    <2>3. CASE p = 7
      <3>1. p + 1 = 8
        BY <2>3
      <3>2. QED
        BY <3>1 DEF Stage
    <2>4. CASE p = 9
      <3>1. p + 1 = 10
        BY <2>4
      <3>2. QED
        BY <1>2, <1>7, <2>4, <3>1 DEF Stage, current
    <2>5. CASE p = 14
      <3>1. p + 1 = 15
        BY <2>5
      <3>2. /\ stmt.chain = Append(Incident("routed", "Low"), <<"serviceKey", "key">>)
            /\ stmt.expect = "ok"
        BY <1>7, <3>1, SmokeKinds DEF NewRequest
      <3>3. r # Refused
        BY <1>4, <1>7, <3>2 DEF Meets, InvalidRequest, Result
      <3>4. request'.serviceKey # Absent
        BY <1>3, <1>5, <3>2, <3>3, RoutedKey
      <3>5. QED
        BY <3>1, <3>4 DEF Stage
    <2>6. QED
      BY <2>1, <2>2, <2>3, <2>4, <2>5
  <1>8. QED
    BY <1>1, <1>5, <1>6, <1>7, SmokeReturns

\* The client that is built under the override has the loopback address for its endpoint.
LEMMA SmokeRunClient ==
  ASSUME SessionInv, SmokeInv, program = "smoke", RunClient
  PROVE  SmokeInv'
  <1>1. left # <<>> /\ stmt.op = "client"
    BY StatementFacts DEF RunClient
  <1>2. UNCHANGED <<env, request, deliveries>>
    BY DEF RunClient
  <1>3. PICK c : c = BuildClient(stmt.chain)
    OBVIOUS
  <1>4. PICK o : o = IF c = Refused THEN InvalidRequest ELSE Ok
    OBVIOUS
  <1>5. Returns(o) /\ clients' = IF c = Refused THEN clients ELSE Append(clients, c)
    BY <1>3, <1>4 DEF RunClient
  <1>6. IsSeq(clients) /\ Len(clients) \in Nat /\ DOMAIN clients = 1 .. Len(clients)
    BY SeqFacts DEF SessionInv, ClientInv
  <1>7. \A k \in DOMAIN deliveries : deliveries[k].client \in DOMAIN clients
    BY DEF SessionInv, DeliveryInv, DeliveryOK
  <1>8. ASSUME c # Refused
        PROVE  /\ current' = Len(clients) + 1 /\ DOMAIN clients' = 1 .. Len(clients) + 1
               /\ \A i \in DOMAIN clients : clients'[i] = clients[i]
               /\ clients'[current'] = c
               /\ c.endpoint = Endpoint /\ c.contacted = {}
    <2>1. clients' = Append(clients, c)
      BY <1>5, <1>8
    <2>2. /\ Len(clients') = Len(clients) + 1 /\ DOMAIN clients' = 1 .. Len(clients) + 1
          /\ \A i \in DOMAIN clients : clients'[i] = clients[i]
          /\ clients'[Len(clients) + 1] = c
      BY <1>6, <2>1, SeqAppend
    <2>3. PICK key : c = [endpoint |-> Endpoint, serviceKey |-> key, closed |-> FALSE,
                          signalled |-> FALSE, alive |-> TRUE, contacted |-> {}]
      BY <1>3, <1>8 DEF BuildClient
    <2>4. c.endpoint = Endpoint /\ c.contacted = {}
      BY <2>3
    <2>5. QED
      BY <2>2, <2>4 DEF current
  <1>9. ContactsInv'
    <2>1. CASE c = Refused
      BY <1>2, <1>5, <2>1 DEF SmokeInv, ContactsInv
    <2>2. CASE c # Refused
      <3>1. ASSUME NEW i \in DOMAIN clients' PROVE clients'[i].contacted \subseteq {Loopback}
        <4>1. (i \in DOMAIN clients /\ clients'[i] = clients[i]) \/ clients'[i] = c
          BY <1>6, <1>8, <2>2
        <4>2. QED
          BY <1>8, <2>2, <4>1 DEF SmokeInv, ContactsInv
      <3>2. ASSUME NEW k \in DOMAIN deliveries'
            PROVE  clients'[deliveries'[k].client].endpoint = Loopback
        BY <1>2, <1>7, <1>8, <2>2 DEF SmokeInv, ContactsInv
      <3>3. QED
        BY <3>1, <3>2 DEF ContactsInv
    <2>3. QED
      BY <2>1, <2>2
  <1>10. ASSUME NEW p \in 0 .. 15, Stage(p), stmt = Smoke[p + 1], Meets(o, stmt.expect)
         PROVE  Stage(p + 1)'
    <2>1. p \in {2, 8, 13}
      <3>1. p \in 0 .. 16 /\ Smoke[p + 1].op = "client"
        BY <1>1, <1>10
      <3>2. QED
        BY <3>1, SmokePositions
    <2>2. CASE p = 2
      <3>1. p + 1 = 3
        BY <2>2
      <3>2. stmt.expect = "ok"
        BY <1>10, <3>1, SmokeKinds
      <3>3. c # Refused
        BY <1>4, <1>10, <3>2 DEF Meets, InvalidRequest, Result
      <3>4. env = Loopback
        BY <1>10, <2>2 DEF Stage
      <3>5. Endpoint = Loopback
        BY <3>4, SessionAssumption DEF Endpoint
      <3>6. current' > 0 /\ clients'[current'].endpoint = Loopback
        BY <1>6, <1>8, <3>3, <3>5
      <3>7. QED
        BY <3>1, <3>6 DEF Stage
    <2>3. CASE p = 8
      <3>1. p + 1 = 9
        BY <2>3
      <3>2. stmt.expect = "ok"
        BY <1>10, <3>1, SmokeKinds
      <3>3. c # Refused
        BY <1>4, <1>10, <3>2 DEF Meets, InvalidRequest, Result
      <3>4. current' > 0
        BY <1>6, <1>8, <3>3
      <3>5. QED
        BY <3>1, <3>4 DEF Stage
    <2>4. CASE p = 13
      <3>1. p + 1 = 14
        BY <2>4
      <3>2. QED
        BY <3>1 DEF Stage
    <2>5. QED
      BY <2>1, <2>2, <2>3, <2>4
  <1>11. QED
    BY <1>1, <1>5, <1>9, <1>10, SmokeReturns

LEMMA SmokePostEnds ==
  ASSUME SessionInv, SmokeInv, program = "smoke", left # <<>>, stmt.op = "post",
         NEW o, Returns(o), ContactsInv'
  PROVE  SmokeInv'
  <1>1. ASSUME NEW p \in 0 .. 15, stmt = Smoke[p + 1] PROVE Stage(p + 1)'
    <2>1. p \in {4, 11, 15}
      BY <1>1, SmokePositions
    <2>2. p + 1 \in {5, 12, 16}
      BY <2>1
    <2>3. QED
      BY <2>2 DEF Stage
  <1>2. QED
    BY <1>1, SmokeReturns

LEMMA SmokePostRefused ==
  ASSUME SessionInv, SmokeInv, program = "smoke", PostRefused
  PROVE  SmokeInv'
  <1>1. left # <<>> /\ stmt.op = "post"
    BY StatementFacts DEF PostRefused
  <1>2. ContactsInv'
    BY DEF PostRefused, SmokeInv, ContactsInv
  <1>3. PICK o : Returns(o)
    BY DEF PostRefused
  <1>4. QED
    BY <1>1, <1>2, <1>3, SmokePostEnds

LEMMA SmokePostReturns ==
  ASSUME SessionInv, SmokeInv, program = "smoke", PostReturns
  PROVE  SmokeInv'
  <1>1. left # <<>> /\ stmt.op = "post"
    BY DEF PostReturns, SessionInv, ProgramInv
  <1>2. ContactsInv'
    BY DEF PostReturns, SmokeInv, ContactsInv
  <1>3. PICK o : Returns(o)
    BY DEF PostReturns
  <1>4. QED
    BY <1>1, <1>2, <1>3, SmokePostEnds

\* Only the first post is accepted: the second finds its client closed, the third its request
\* with a key of its own.
LEMMA SmokePostAccepted ==
  ASSUME SessionInv, SmokeInv, program = "smoke", PostAccepted
  PROVE  SmokeInv'
  <1>1. left # <<>> /\ stmt.op = "post" /\ 1 \in DOMAIN left /\ stmt = left[1]
    BY StatementFacts DEF PostAccepted
  <1>2. UNCHANGED <<env, clients>>
    BY DEF PostAccepted
  <1>3. /\ ~clients[current].closed
        /\ KeyAllowed(request.serviceKey, clients[current].serviceKey, stmt.how, Absent)
    BY DEF PostAccepted, Admission, ClientClosed, InvalidRequest, Ok, Result
  <1>4. ~Ends(left)
    <2>1. left # <<DropIt>>
      BY <1>1, StatementKinds
    <2>2. QED
      BY <1>1, <2>1 DEF Ends
  <1>5. PICK p \in 0 .. 16 : Rest(left, p) /\ Stage(p)
    BY <1>4 DEF SmokeInv
  <1>6. stmt = Smoke[p + 1]
    BY <1>1, <1>5 DEF Rest
  <1>7. p \in {4, 11, 15}
    BY <1>1, <1>6, SmokePositions
  <1>8. p # 11
    BY <1>3, <1>5 DEF Stage
  <1>9. p # 15
    <2>1. ASSUME p = 15 PROVE FALSE
      <3>1. p + 1 = 16
        BY <2>1
      <3>2. stmt.how = "route"
        BY <1>6, <3>1, SmokeKinds
      <3>3. request.serviceKey # Absent
        BY <1>5, <2>1 DEF Stage
      <3>4. QED
        BY <1>3, <3>2, <3>3 DEF KeyAllowed
    <2>2. QED
      BY <2>1
  <1>10. p = 4 /\ current > 0 /\ clients[current].endpoint = Loopback
    BY <1>5, <1>7, <1>8, <1>9 DEF Stage
  <1>11. PICK d : deliveries' = Append(deliveries, d) /\ d.client = current
    BY DEF PostAccepted
  <1>12. /\ Len(deliveries) \in Nat /\ DOMAIN deliveries = 1 .. Len(deliveries)
         /\ DOMAIN deliveries' = 1 .. Len(deliveries) + 1
         /\ \A k \in DOMAIN deliveries : deliveries'[k] = deliveries[k]
         /\ deliveries'[Len(deliveries) + 1] = d
    BY <1>11, SeqAppend, SeqFacts DEF SessionInv, DeliveryInv
  <1>13. ContactsInv'
    <2>1. ASSUME NEW k \in DOMAIN deliveries'
          PROVE  clients'[deliveries'[k].client].endpoint = Loopback
      <3>1. (k \in DOMAIN deliveries /\ deliveries'[k] = deliveries[k]) \/ deliveries'[k] = d
        BY <1>12
      <3>2. QED
        BY <1>2, <1>10, <1>11, <3>1 DEF SmokeInv, ContactsInv
    <2>2. QED
      BY <1>2, <2>1 DEF SmokeInv, ContactsInv
  <1>14. CASE stmt.async
    <2>1. Returns(Ok)
      BY <1>14 DEF PostAccepted
    <2>2. QED
      BY <1>1, <1>13, <2>1, SmokePostEnds
  <1>15. CASE ~stmt.async
    <2>1. pc' = "posting" /\ left' = left
      BY <1>15 DEF PostAccepted, Blocks
    <2>2. Stage(p)'
      BY <1>2, <1>10 DEF Stage, current
    <2>3. Rest(left', p)
      BY <1>5, <2>1 DEF Rest
    <2>4. QED
      BY <1>13, <2>1, <2>2, <2>3 DEF SmokeInv, Rest
  <1>16. QED
    BY <1>14, <1>15

\* A close that ends: the second client is closed when the post to it comes.
LEMMA SmokeCloseEnds ==
  ASSUME SessionInv, SmokeInv, program = "smoke", left # <<>>, stmt.op \in {"close", "drop"},
         NEW o, Returns(o), ContactsInv',
         current > 0 => current' > 0 /\ (stmt.op = "close" => clients'[current'].closed)
  PROVE  SmokeInv'
  <1>1. ASSUME NEW p \in 0 .. 15, Stage(p), stmt = Smoke[p + 1] PROVE Stage(p + 1)'
    <2>1. p \in {6, 10, 12}
      BY <1>1, SmokePositions
    <2>2. CASE p = 10
      <3>1. p + 1 = 11
        BY <2>2
      <3>2. stmt.op = "close" /\ current > 0
        BY <1>1, <2>2, <3>1, SmokeKinds DEF Stage
      <3>3. QED
        BY <3>1, <3>2 DEF Stage
    <2>3. CASE p \in {6, 12}
      <3>1. p + 1 \in {7, 13}
        BY <2>3
      <3>2. QED
        BY <3>1 DEF Stage
    <2>4. QED
      BY <2>1, <2>2, <2>3
  <1>2. QED
    BY <1>1, SmokeReturns

\* What becomes of the clients and the deliveries leaves where they go as it was.
LEMMA ContactsKept ==
  ASSUME SessionInv, ContactsInv, DOMAIN clients' = DOMAIN clients, DOMAIN deliveries' = DOMAIN deliveries,
         \A c \in DOMAIN clients : /\ clients'[c].endpoint = clients[c].endpoint
                                   /\ clients'[c].contacted \subseteq clients[c].contacted \cup {Loopback},
         \A k \in DOMAIN deliveries : deliveries'[k].client = deliveries[k].client
  PROVE  ContactsInv'
  <1>1. \A k \in DOMAIN deliveries : deliveries[k].client \in DOMAIN clients
    BY DEF SessionInv, DeliveryInv, DeliveryOK
  <1>2. ASSUME NEW c \in DOMAIN clients' PROVE clients'[c].contacted \subseteq {Loopback}
    BY <1>2 DEF ContactsInv
  <1>3. ASSUME NEW k \in DOMAIN deliveries' PROVE clients'[deliveries'[k].client].endpoint = Loopback
    BY <1>1, <1>3 DEF ContactsInv
  <1>4. QED
    BY <1>2, <1>3 DEF ContactsInv

LEMMA CurrentIsBuilt ==
  ASSUME SessionInv, current > 0
  PROVE  current \in DOMAIN clients
  <1>1. Len(clients) \in Nat /\ DOMAIN clients = 1 .. Len(clients)
    BY SeqFacts DEF SessionInv, ClientInv
  <1>2. QED
    BY <1>1 DEF current

LEMMA SmokeCloseBegins ==
  ASSUME SessionInv, SmokeInv, program = "smoke", CloseBegins
  PROVE  SmokeInv'
  <1>1. left # <<>> /\ pc = "ready" /\ stmt.op \in {"close", "drop"}
    BY ClosesFacts DEF CloseBegins
  <1>2. pc' = "closing" /\ left' = left /\ UNCHANGED <<env, request, deliveries>>
    BY DEF CloseBegins, Blocks
  <1>3. 1 \in DOMAIN left /\ stmt = left[1]
    BY <1>1, SeqTail DEF stmt, SessionInv, ProgramInv
  <1>4. PICK i : i = current
    OBVIOUS
  <1>5. PICK f : f = [clients[i] EXCEPT !.closed = TRUE, !.signalled = TRUE]
    OBVIOUS
  <1>6. clients' = [clients EXCEPT ![i] = f]
    BY <1>4, <1>5 DEF CloseBegins
  <1>7. /\ Len(clients') = Len(clients) /\ DOMAIN clients' = DOMAIN clients
        /\ \A j \in DOMAIN clients : clients'[j] = IF j = i THEN f ELSE clients[j]
    BY <1>6, SeqExcept DEF SessionInv, ClientInv
  <1>8. current' = i
    BY <1>4, <1>7 DEF current
  <1>9. ASSUME i \in DOMAIN clients
        PROVE  f.closed /\ f.endpoint = clients[i].endpoint /\ f.contacted = clients[i].contacted
    <2>1. PICK c : c = clients[i]
      OBVIOUS
    <2>2. IsClient(c)
      BY <1>9, <2>1 DEF SessionInv, ClientInv, ClientOK
    <2>3. f.closed /\ f.endpoint = c.endpoint /\ f.contacted = c.contacted
      BY <1>5, <2>1, <2>2, ClientCloses
    <2>4. QED
      BY <2>1, <2>3
  <1>10. ContactsInv'
    <2>1. \A c \in DOMAIN clients : /\ clients'[c].endpoint = clients[c].endpoint
                                    /\ clients'[c].contacted = clients[c].contacted
      BY <1>7, <1>9
    <2>2. QED
      BY <1>2, <1>7, <2>1, ContactsKept DEF SmokeInv
  <1>11. CASE Ends(left)
    <2>1. left = <<DropIt>>
      BY <1>1, <1>11 DEF Ends
    <2>2. stmt.op = "drop"
      BY <1>3, <2>1, StatementKinds
    <2>3. current > 0
      BY <2>2 DEF CloseBegins, Closes, At, Alive
    <2>4. current' > 0 /\ clients'[current'].closed
      BY <1>4, <1>7, <1>8, <1>9, <2>3, CurrentIsBuilt
    <2>5. QED
      BY <1>2, <1>10, <1>11, <2>4 DEF SmokeInv, Ends
  <1>12. ASSUME NEW p \in 0 .. 16, Rest(left, p), Stage(p) PROVE SmokeInv'
    <2>1. stmt = Smoke[p + 1]
      BY <1>3, <1>12 DEF Rest
    <2>2. p \in {6, 10, 12, 16}
      BY <1>1, <2>1, SmokePositions
    <2>3. current > 0
      <3>1. CASE p = 10
        BY <1>12, <3>1 DEF Stage
      <3>2. CASE p # 10
        <4>1. p + 1 \in {7, 13, 17}
          BY <2>2, <3>2
        <4>2. stmt.op = "drop"
          BY <2>1, <4>1, SmokeKinds
        <4>3. QED
          BY <4>2 DEF CloseBegins, Closes, At, Alive
      <3>3. QED
        BY <3>1, <3>2
    <2>4. current' > 0 /\ clients'[current'].closed
      BY <1>4, <1>7, <1>8, <1>9, <2>3, CurrentIsBuilt
    <2>5. Stage(p)'
      BY <1>4, <1>8, <2>2, <2>3 DEF Stage
    <2>6. Rest(left', p)
      BY <1>2, <1>12 DEF Rest
    <2>7. QED
      BY <1>2, <1>10, <2>4, <2>5, <2>6 DEF SmokeInv, Rest
  <1>13. QED
    BY <1>11, <1>12 DEF SmokeInv

LEMMA SmokeClosedAlready ==
  ASSUME SessionInv, SmokeInv, program = "smoke", ClosedAlready
  PROVE  SmokeInv'
  <1>1. left # <<>> /\ stmt.op \in {"close", "drop"}
    BY ClosesFacts DEF ClosedAlready
  <1>2. PICK i, x : clients' = [clients EXCEPT ![i].alive = x]
    BY DEF ClosedAlready
  <1>3. /\ Len(clients') = Len(clients) /\ DOMAIN clients' = DOMAIN clients
        /\ \A j \in DOMAIN clients : /\ clients'[j].closed = clients[j].closed
                                     /\ clients'[j].endpoint = clients[j].endpoint
                                     /\ clients'[j].contacted = clients[j].contacted
    BY <1>2, AliveKeepsClients DEF SessionInv
  <1>4. Returns(Ok) /\ UNCHANGED deliveries /\ clients[current].closed
    BY DEF ClosedAlready
  <1>5. ContactsInv'
    BY <1>3, <1>4, ContactsKept DEF SmokeInv
  <1>6. current > 0 => current' > 0 /\ clients'[current'].closed
    BY <1>3, <1>4, CurrentIsBuilt DEF current
  <1>7. QED
    BY <1>1, <1>4, <1>5, <1>6, SmokeCloseEnds

LEMMA SmokeCloseReturns ==
  ASSUME SessionInv, SmokeInv, program = "smoke", NEW timeIsUp \in BOOLEAN, CloseReturns(timeIsUp)
  PROVE  SmokeInv'
  <1>1. left # <<>> /\ pc = "closing" /\ stmt.op \in {"close", "drop"}
    BY DEF CloseReturns, SessionInv, ProgramInv
  <1>2. PICK i, x : clients' = [clients EXCEPT ![i].alive = x]
    BY DEF CloseReturns
  <1>3. /\ Len(clients') = Len(clients) /\ DOMAIN clients' = DOMAIN clients
        /\ \A j \in DOMAIN clients : /\ clients'[j].closed = clients[j].closed
                                     /\ clients'[j].endpoint = clients[j].endpoint
                                     /\ clients'[j].contacted = clients[j].contacted
    BY <1>2, AliveKeepsClients DEF SessionInv
  <1>4. Returns(Ok) /\ clients[current].closed
    BY <1>1 DEF CloseReturns, SmokeInv
  <1>5. deliveries' = [k \in DOMAIN deliveries |->
          IF k \in Queued(current) THEN [deliveries[k] EXCEPT !.phase = "abandoned"] ELSE deliveries[k]]
    BY DEF CloseReturns
  <1>6. ASSUME NEW k \in DOMAIN deliveries PROVE deliveries'[k].client = deliveries[k].client
    <2>1. PICK d : d = deliveries[k]
      OBVIOUS
    <2>2. PICK e : e = [d EXCEPT !.phase = "abandoned"]
      OBVIOUS
    <2>3. deliveries'[k] \in {d, e}
      BY <1>5, <2>1, <2>2
    <2>4. IsDelivery(d)
      BY <2>1 DEF SessionInv, DeliveryInv, DeliveryOK
    <2>5. e.client = d.client
      BY <2>2, <2>4, DeliveryMoves
    <2>6. QED
      BY <2>1, <2>3, <2>5
  <1>7. ContactsInv'
    BY <1>3, <1>5, <1>6, ContactsKept DEF SmokeInv
  <1>8. current > 0 => current' > 0 /\ clients'[current'].closed
    BY <1>3, <1>4, CurrentIsBuilt DEF current
  <1>9. QED
    BY <1>1, <1>4, <1>7, <1>8, SmokeCloseEnds

LEMMA SmokeNothingToDrop ==
  ASSUME SessionInv, SmokeInv, program = "smoke", NothingToDrop
  PROVE  SmokeInv'
  <1>1. left # <<>> /\ stmt.op = "drop"
    BY StatementFacts DEF NothingToDrop
  <1>2. Returns(Ok) /\ UNCHANGED <<clients, deliveries>>
    BY DEF NothingToDrop
  <1>3. ContactsInv'
    BY <1>2 DEF SmokeInv, ContactsInv
  <1>4. QED
    BY <1>1, <1>2, <1>3, SmokeCloseEnds DEF current

\* A step of a delivery leaves the program where it is, and contacts the endpoint of a client
\* that accepted it.
LEMMA SmokeDelivering ==
  ASSUME SessionInv, SmokeInv, program = "smoke", NEW k \in DOMAIN deliveries, Delivering(k)
  PROVE  SmokeInv'
  <1>1. UNCHANGED <<programVars, env, request>>
    BY DEF Delivering, WorkerTakes, Attempt, BackoffElapses, BackoffInterrupted
  <1>2. UNCHANGED <<left, pc, program, env, request>>
    BY <1>1 DEF programVars
  <1>3. PICK d : d = deliveries[k]
    OBVIOUS
  <1>4. IsDelivery(d) /\ d.client \in DOMAIN clients
    BY <1>3 DEF SessionInv, DeliveryInv, DeliveryOK
  <1>5. Target(k) = Loopback
    BY <1>3 DEF Target, SmokeInv, ContactsInv
  <1>6. \/ UNCHANGED clients
        \/ clients' = [clients EXCEPT ![d.client].contacted = @ \cup {Loopback}]
    BY <1>3, <1>5 DEF Delivering, WorkerTakes, Attempt, BackoffElapses, BackoffInterrupted
  <1>7. PICK c, f : c = clients[d.client] /\ f = [c EXCEPT !.contacted = c.contacted \cup {Loopback}]
    OBVIOUS
  <1>8. IsClient(c)
    BY <1>4, <1>7 DEF SessionInv, ClientInv, ClientOK
  <1>9. f.contacted = c.contacted \cup {Loopback} /\ f.endpoint = c.endpoint /\ f.closed = c.closed
    BY <1>7, <1>8, ClientContacts
  <1>10. /\ Len(clients') = Len(clients) /\ DOMAIN clients' = DOMAIN clients
         /\ \A j \in DOMAIN clients : /\ clients'[j].closed = clients[j].closed
                                      /\ clients'[j].endpoint = clients[j].endpoint
                                      /\ clients'[j].contacted \subseteq clients[j].contacted \cup {Loopback}
    <2>1. CASE UNCHANGED clients
      BY <2>1
    <2>2. CASE clients' = [clients EXCEPT ![d.client] = f]
      <3>1. /\ Len(clients') = Len(clients) /\ DOMAIN clients' = DOMAIN clients
            /\ \A j \in DOMAIN clients : clients'[j] = IF j = d.client THEN f ELSE clients[j]
        BY <2>2, SeqExcept DEF SessionInv, ClientInv
      <3>2. QED
        BY <1>7, <1>9, <3>1
    <2>3. QED
      BY <1>6, <1>7, <2>1, <2>2
  <1>11. DOMAIN deliveries' = DOMAIN deliveries
         /\ \A j \in DOMAIN deliveries : deliveries'[j].client = deliveries[j].client
    <2>1. \E e : deliveries' = [deliveries EXCEPT ![k] = e] /\ e.client = d.client
      <3>1. CASE WorkerTakes(k) \/ BackoffElapses(k)
        <4>1. PICK e : e = [d EXCEPT !.phase = "sending"]
          OBVIOUS
        <4>2. e.client = d.client
          BY <1>4, <4>1, DeliveryMoves
        <4>3. deliveries' = [deliveries EXCEPT ![k] = e]
          BY <1>3, <3>1, <4>1 DEF WorkerTakes, BackoffElapses
        <4>4. QED
          BY <4>2, <4>3
      <3>2. CASE BackoffInterrupted(k)
        <4>1. PICK o, e : o = Delivery(NoStatus, 0) /\ e = [d EXCEPT !.phase = "over", !.outcome = o]
          OBVIOUS
        <4>2. e.client = d.client
          BY <1>4, <4>1 DEF IsDelivery
        <4>3. deliveries' = [deliveries EXCEPT ![k] = e]
          BY <1>3, <3>2, <4>1 DEF BackoffInterrupted
        <4>4. QED
          BY <4>2, <4>3
      <3>3. CASE \E a : Attempt(k, a)
        <4>1. PICK a : Attempt(k, a)
          BY <3>3
        <4>2. PICK r, n : r = RustSend(a) /\ n = d.tries + 1
          OBVIOUS
        <4>3. PICK again : again = (~r.response /\ RustRetries(r, n - 1))
          OBVIOUS
        <4>4. PICK x, o : /\ x = IF again THEN "waiting" ELSE "over"
                          /\ o = IF again \/ r.response THEN Ok ELSE WithAttemptCount(r.code, n)
          OBVIOUS
        <4>5. PICK e : e = [d EXCEPT !.tries = n, !.phase = x, !.outcome = o]
          OBVIOUS
        <4>6. deliveries' = [deliveries EXCEPT ![k] = e]
          BY <1>3, <4>1, <4>2, <4>3, <4>4, <4>5 DEF Attempt
        <4>7. e.client = d.client
          BY <1>4, <4>5 DEF IsDelivery
        <4>8. QED
          BY <4>6, <4>7
      <3>4. QED
        BY <3>1, <3>2, <3>3 DEF Delivering
    <2>2. QED
      BY <1>3, <2>1
  <1>12. ContactsInv'
    BY <1>10, <1>11, ContactsKept DEF SmokeInv
  <1>13. current' = current
    BY <1>10 DEF current
  <1>14. current > 0 => /\ clients'[current].closed = clients[current].closed
                        /\ clients'[current].endpoint = clients[current].endpoint
    BY <1>10, CurrentIsBuilt
  <1>15. pc' = "closing" => current' > 0 /\ clients'[current'].closed
    BY <1>2, <1>13, <1>14 DEF SmokeInv
  <1>16. ASSUME NEW p \in 0 .. 16, Rest(left, p), Stage(p) PROVE Rest(left', p) /\ Stage(p)'
    <2>1. Stage(p)'
      BY <1>2, <1>13, <1>14, <1>16 DEF Stage
    <2>2. QED
      BY <1>2, <1>16, <2>1
  <1>17. Ends(left') \/ \E p \in 0 .. 16 : Rest(left', p) /\ Stage(p)'
    BY <1>2, <1>16 DEF SmokeInv
  <1>18. QED
    BY <1>12, <1>15, <1>17 DEF SmokeInv, Ends, Rest

LEMMA SmokeInit == Init => SmokeInv
  <1> SUFFICES ASSUME Init, program = "smoke" PROVE SmokeInv
    BY DEF SmokeInv
  <1>1. ContactsInv
    BY DEF Init, ContactsInv
  <1>2. left = Smoke /\ pc = "ready"
    BY DEF Init
  <1>3. Rest(left, 0)
    <2>1. \A i \in DOMAIN Smoke : 0 + i = i
      BY SmokeStatements, SeqFacts
    <2>2. QED
      BY <1>2, <2>1, SmokeStatements DEF Rest
  <1>4. Stage(0)
    BY DEF Stage
  <1>5. QED
    BY <1>1, <1>2, <1>3, <1>4 DEF SmokeInv

LEMMA SmokeStep == SessionInv /\ SmokeInv /\ [Next]_vars => SmokeInv'
  <1> SUFFICES ASSUME SessionInv, SmokeInv, [Next]_vars PROVE SmokeInv'
    OBVIOUS
  <1>1. program' = program
    BY DEF Next, vars, programVars, Improvise, Program, RunSetEnv, RunCheck, RunRequest, RunClient,
       PostRefused, PostAccepted, PostReturns, CloseBegins, ClosedAlready, NothingToDrop, CloseReturns,
       Returns, Blocks, Delivering, WorkerTakes, Attempt, BackoffElapses, BackoffInterrupted
  <1>2. CASE program # "smoke"
    BY <1>1, <1>2 DEF SmokeInv
  <1>3. CASE program = "smoke"
    <2>1. CASE \E s \in Statements : Improvise(s)
      BY <1>3, <2>1 DEF Improvise
    <2>2. CASE Program
      BY <1>3, <2>2, SmokeRunSetEnv, SmokeRunCheck, SmokeRunRequest, SmokeRunClient, SmokePostRefused,
         SmokePostAccepted, SmokePostReturns, SmokeCloseBegins, SmokeClosedAlready, SmokeNothingToDrop,
         SmokeCloseReturns DEF Program
    <2>3. CASE \E k \in DOMAIN deliveries : Delivering(k)
      BY <1>3, <2>3, SmokeDelivering
    <2>4. CASE UNCHANGED vars
      <3>1. UNCHANGED <<left, pc, env, request, clients, deliveries>>
        BY <2>4 DEF vars, programVars
      <3>2. QED
        BY <1>1, <3>1 DEF SmokeInv, ContactsInv, Ends, Rest, Stage, current
    <2>5. QED
      BY <2>1, <2>2, <2>3, <2>4 DEF Next
  <1>4. QED
    BY <1>2, <1>3

\* No client of the smoke program ever contacts the default endpoint, whatever the answers and
\* however its threads are scheduled: its one accepted post goes to the loopback address, and
\* the two clients that have the default endpoint accept none (smoke/rust/src/main.rs:3-8).
THEOREM SmokeIsNetworkFree == Spec => []NetworkFree
  <1>1. SmokeInv => NetworkFree
    BY SessionAssumption DEF SmokeInv, ContactsInv, NetworkFree
  <1>2. Spec => []SmokeInv
    BY Invariance, SmokeInit, SmokeStep, PTL DEF Spec
  <1>3. QED
    BY <1>1, <1>2, PTL
=============================================================================
