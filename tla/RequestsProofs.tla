---------------------------- MODULE RequestsProofs ----------------------------
(***************************************************************************)
(* Proofs about connections and the requests they carry, for any users,    *)
(* mechanisms, requests, bindings and number of connections: a connection  *)
(* acts for a user only after it has shown the password of that user, the  *)
(* calls a handler makes are those it had permission for, a fault fails a  *)
(* request as a whole, and the ACL engine decides by its set of bindings.  *)
(***************************************************************************)
EXTENDS Requests, TLAPS, WellFoundedInduction

------------------------------------------------------------------------------
(* Sessions.                                                                *)

\* The fields of a task that handles a request.
TaskFields == {"at", "req", "principal", "group", "need", "made", "granted", "fault", "allowed",
               "refused"}

TaskOK(w) == "at" \in DOMAIN w /\ (w.at = "handling" => TaskFields \subseteq DOMAIN w)

\* v is w with other fields than these changed.
Continues(w, v) ==
    /\ DOMAIN v = DOMAIN w
    /\ v.at = w.at
    /\ w.at = "handling" => v.principal = w.principal

\* What holds of one connection: its session s, whose password it has shown p,
\* and its task w.
ConnectionOK(s, p, w) ==
    /\ TaskOK(w)
    /\ s.state = "Authenticated" => s.principal = p
    /\ w.at = "handling" => w.principal = <<p>> \/ (~require_sasl /\ w.principal = <<"ANONYMOUS">>)

SessionInv ==
    /\ session = [c \in Connections |-> session[c]]
    /\ work = [c \in Connections |-> work[c]]
    /\ proven = [c \in Connections |-> proven[c]]
    /\ \A c \in Connections : ConnectionOK(session[c], proven[c], work[c])

LEMMA InitInv == Init => SessionInv
  <1> SUFFICES ASSUME Init PROVE SessionInv
    OBVIOUS
  <1>1. /\ session = [c \in Connections |-> Unauthenticated]
        /\ work = [c \in Connections |-> Closed]
        /\ proven = [c \in Connections |-> NoUser]
    BY Zenon DEF Init
  <1>2. /\ session = [c \in Connections |-> session[c]]
        /\ work = [c \in Connections |-> work[c]]
        /\ proven = [c \in Connections |-> proven[c]]
    BY <1>1
  <1>3. \A c \in Connections : TaskOK(work[c]) /\ work[c].at # "handling"
    BY <1>1 DEF Closed, TaskOK
  <1>4. \A c \in Connections : session[c].state # "Authenticated"
    BY <1>1 DEF Unauthenticated
  <1> QED
    BY <1>2, <1>3, <1>4, Zenon DEF SessionInv, ConnectionOK

\* A step that leaves sessions alone and lets tasks end or continue.
LEMMA TasksGoOn ==
    ASSUME SessionInv,
           session' = session, proven' = proven, require_sasl' = require_sasl,
           work' = [c \in Connections |-> work'[c]],
           \A c \in Connections : \/ TaskOK(work'[c]) /\ work'[c].at # "handling"
                                  \/ Continues(work[c], work'[c])
    PROVE  SessionInv'
  <1>1. ASSUME NEW c \in Connections
        PROVE  ConnectionOK(session[c], proven[c], work[c])'
    <2>1. ConnectionOK(session[c], proven[c], work[c])
      BY DEF SessionInv
    <2>2. CASE TaskOK(work'[c]) /\ work'[c].at # "handling"
      BY <2>1, <2>2, Zenon DEF ConnectionOK
    <2>3. CASE Continues(work[c], work'[c])
      <3>1. TaskOK(work'[c])
        BY <2>1, <2>3 DEF ConnectionOK, Continues, TaskOK
      <3>2. work'[c].at = "handling" =>
                /\ work[c].at = "handling"
                /\ work'[c].principal = work[c].principal
        BY <2>3 DEF Continues
      <3> QED
        BY <2>1, <3>1, <3>2 DEF ConnectionOK
    <2> QED
      BY <2>2, <2>3
  <1> QED
    BY <1>1 DEF SessionInv

\* A step that concerns one connection.
LEMMA OneChanges ==
    ASSUME SessionInv, NEW c \in Connections, NEW s, NEW p, NEW w,
           session' = [session EXCEPT ![c] = s],
           proven' = [proven EXCEPT ![c] = p],
           work' = [work EXCEPT ![c] = w],
           require_sasl' = require_sasl,
           ConnectionOK(s, p, w)
    PROVE  SessionInv'
  <1>1. /\ session = [d \in Connections |-> session[d]]
        /\ work = [d \in Connections |-> work[d]]
        /\ proven = [d \in Connections |-> proven[d]]
        /\ \A d \in Connections : ConnectionOK(session[d], proven[d], work[d])
    BY DEF SessionInv
  <1>2. /\ session' = [d \in Connections |-> session'[d]]
        /\ work' = [d \in Connections |-> work'[d]]
        /\ proven' = [d \in Connections |-> proven'[d]]
    BY <1>1, Zenon
  <1>3. session'[c] = s /\ proven'[c] = p /\ work'[c] = w
    BY <1>1
  <1>4. \A d \in Connections \ {c} :
            session'[d] = session[d] /\ proven'[d] = proven[d] /\ work'[d] = work[d]
    BY <1>1, Zenon
  <1>5. ASSUME NEW d \in Connections
        PROVE  ConnectionOK(session[d], proven[d], work[d])'
    BY <1>1, <1>3, <1>4, Zenon DEF ConnectionOK
  <1> QED
    BY <1>2, <1>5 DEF SessionInv

\* A step that concerns the task of one connection.
LEMMA Unchanging ==
    ASSUME SessionInv, NEW c \in Connections, NEW w,
           work' = [work EXCEPT ![c] = w],
           session' = session, proven' = proven, require_sasl' = require_sasl,
           ConnectionOK(session[c], proven[c], w)
    PROVE  SessionInv'
  <1>1. /\ session = [d \in Connections |-> session[d]]
        /\ proven = [d \in Connections |-> proven[d]]
    BY DEF SessionInv
  <1>2. /\ session' = [session EXCEPT ![c] = session[c]]
        /\ proven' = [proven EXCEPT ![c] = proven[c]]
    BY <1>1, Zenon
  <1> QED
    BY <1>2, OneChanges, Zenon

LEMMA EndsOK ==
    /\ TaskOK(Closed) /\ Closed.at # "handling"
    /\ TaskOK(Idle) /\ Idle.at # "handling"
    /\ TaskOK(Answering) /\ Answering.at # "handling"
    /\ Unauthenticated.state # "Authenticated"
  BY DEF Closed, Idle, Answering, TaskOK, Unauthenticated

\* A connection that is closed forgets its user.
LEMMA CloseInv ==
    ASSUME SessionInv, NEW c \in Connections, Close(c)
    PROVE  SessionInv'
  <1>1. ConnectionOK(Unauthenticated, NoUser, Closed)
    BY EndsOK, Zenon DEF ConnectionOK
  <1>2. /\ work' = [work EXCEPT ![c] = Closed]
        /\ session' = [session EXCEPT ![c] = Unauthenticated]
        /\ proven' = [proven EXCEPT ![c] = NoUser]
        /\ require_sasl' = require_sasl
    BY Zenon DEF Close
  <1> QED
    BY <1>1, <1>2, OneChanges, Zenon

\* A handshake for an enabled mechanism forgets it too, any other changes nothing.
LEMMA HandshakeInv ==
    ASSUME SessionInv, NEW c \in Connections, NEW r, SaslHandshake(c, r)
    PROVE  SessionInv'
  <1> DEFINE s == Handshake(session[c], r.mechanism)
             p == IF r.mechanism \in Enabled THEN NoUser ELSE proven[c]
  <1>1. /\ session' = [session EXCEPT ![c] = s]
        /\ proven' = [proven EXCEPT ![c] = p]
        /\ work' = [work EXCEPT ![c] = Answering]
        /\ require_sasl' = require_sasl
    BY DEF SaslHandshake
  <1>2. s.state = "Authenticated" => s.principal = p
    <2>1. CASE r.mechanism \in Enabled
      BY <2>1 DEF Handshake, HandshakeReceived
    <2>2. CASE r.mechanism \notin Enabled
      BY <2>2 DEF Handshake, SessionInv, ConnectionOK
    <2> QED
      BY <2>1, <2>2
  <1>3. ConnectionOK(s, p, Answering)
    BY <1>2, EndsOK, Zenon DEF ConnectionOK
  <1> HIDE DEF s, p
  <1> QED
    BY <1>1, <1>3, OneChanges, Zenon

\* The bytes that authenticate a connection show the password of its user.
LEMMA AuthenticateShows ==
    ASSUME NEW s, NEW p, NEW bytes,
           s.state = "Authenticated" => s.principal = p,
           Authenticate(s, bytes).state = "Authenticated"
    PROVE  \/ Shows(s, bytes) = {} /\ Authenticate(s, bytes).principal = p
           \/ Shows(s, bytes) = {Authenticate(s, bytes).principal}
  <1>1. CASE s.state = "HandshakeReceived" /\ s.mechanism = "PLAIN"
    <2>1. Authenticate(s, bytes) = authenticate_plain(bytes)
      BY <1>1 DEF Authenticate, Scram
    <2>2. /\ bytes.kind = "plain" /\ bytes.user \in DOMAIN Passwords
          /\ bytes.password = Passwords[bytes.user]
          /\ Authenticate(s, bytes).principal = bytes.user
      BY <2>1 DEF authenticate_plain, Authenticated, Failed
    <2>3. Shows(s, bytes) = {bytes.user}
      BY <1>1, <2>2 DEF Shows
    <2> QED
      BY <2>2, <2>3
  <1>2. CASE s.state = "HandshakeReceived" /\ s.mechanism # "PLAIN"
    <2>1. s.mechanism \in Scram
      BY <1>2 DEF Authenticate
    <2>2. Authenticate(s, bytes) = process_client_first(s.mechanism, bytes)
      BY <1>2, <2>1 DEF Authenticate
    <2> QED
      BY <2>2 DEF process_client_first, ScramChallengeSent, Failed
  <1>3. CASE s.state = "ScramChallengeSent"
    <2>1. Authenticate(s, bytes) = process_client_final(s, bytes)
      BY <1>3 DEF Authenticate
    <2>2. /\ bytes.kind = "final" /\ s.username \in DOMAIN Passwords /\ bytes.nonce = "pending"
          /\ bytes.password = Passwords[s.username]
          /\ Authenticate(s, bytes).principal = s.username
      BY <2>1 DEF process_client_final, Authenticated, Failed
    <2>3. Shows(s, bytes) = {s.username}
      BY <1>3, <2>2 DEF Shows
    <2> QED
      BY <2>2, <2>3
  <1>4. CASE s.state \notin {"HandshakeReceived", "ScramChallengeSent"}
    <2>1. Authenticate(s, bytes) = s /\ Shows(s, bytes) = {}
      BY <1>4 DEF Authenticate, Shows
    <2> QED
      BY <2>1
  <1> QED
    BY <1>1, <1>2, <1>3, <1>4

\* So authentication keeps the invariant.
LEMMA AuthenticateInv ==
    ASSUME SessionInv, NEW c \in Connections, NEW r, SaslAuthenticate(c, r)
    PROVE  SessionInv'
  <1> DEFINE shown == Shows(session[c], r.bytes)
             s == Authenticate(session[c], r.bytes)
             p == IF shown = {} THEN proven[c] ELSE CHOOSE u \in shown : TRUE
  <1>1. /\ session' = [session EXCEPT ![c] = s]
        /\ proven' = [proven EXCEPT ![c] = p]
        /\ work' = [work EXCEPT ![c] = Answering]
        /\ require_sasl' = require_sasl
    BY DEF SaslAuthenticate
  <1>2. session[c].state = "Authenticated" => session[c].principal = proven[c]
    BY DEF SessionInv, ConnectionOK
  <1>3. s.state = "Authenticated" =>
            (shown = {} /\ s.principal = proven[c]) \/ shown = {s.principal}
    BY <1>2, AuthenticateShows, Zenon
  <1> HIDE DEF s, shown
  <1>4. s.state = "Authenticated" => s.principal = p
    BY <1>3
  <1>5. ConnectionOK(s, p, Answering)
    BY <1>4, EndsOK, Zenon DEF ConnectionOK
  <1> HIDE DEF p
  <1> QED
    BY <1>1, <1>5, OneChanges, Zenon

\* A request is handled for the user of its connection, or for nobody when the
\* gate lets everyone through.
LEMMA ReceiveInv ==
    ASSUME SessionInv, NEW c \in Connections, NEW r, Receive(c, r)
    PROVE  SessionInv'
  <1> DEFINE t == [at |-> "handling", req |-> r, principal |-> Principal(session[c]),
                   group |-> 1, need |-> 1, made |-> {}, granted |-> {},
                   fault |-> IF r.api \in FaultTargets THEN "unknown" ELSE "no",
                   allowed |-> {}, refused |-> {}]
             w == Observed(t, bindings)
  <1>1. /\ work' = [work EXCEPT ![c] = w]
        /\ session' = session /\ proven' = proven /\ require_sasl' = require_sasl
        /\ r.api \notin AuthApis /\ Gate(c, r)
    BY DEF Receive
  <1>2. /\ TaskFields = DOMAIN t /\ t.at = "handling" /\ t.principal = Principal(session[c])
    BY DEF TaskFields
  <1> HIDE DEF t
  <1>3. DOMAIN w = DOMAIN t /\ w.at = t.at /\ w.principal = t.principal
    BY <1>2 DEF Observed, TaskFields
  <1>4. TaskOK(w)
    BY <1>2, <1>3 DEF TaskOK, TaskFields
  <1>5. session[c].state = "Authenticated" => session[c].principal = proven[c]
    BY DEF SessionInv, ConnectionOK
  <1>6. CASE session[c].state = "Authenticated"
    <2>1. w.principal = <<proven[c]>>
      BY <1>2, <1>3, <1>5, <1>6 DEF Principal
    <2>2. ConnectionOK(session[c], proven[c], w)
      BY <2>1, <1>4, <1>5, Zenon DEF ConnectionOK
    <2> HIDE DEF w
    <2> QED
      BY <2>2, <1>1, Unchanging, Zenon
  <1>7. CASE session[c].state # "Authenticated"
    <2>1. w.principal = <<"ANONYMOUS">> /\ ~require_sasl
      BY <1>1, <1>2, <1>3, <1>7 DEF Principal, Gate
    <2>2. ConnectionOK(session[c], proven[c], w)
      BY <2>1, <1>4, <1>5, Zenon DEF ConnectionOK
    <2> HIDE DEF w
    <2> QED
      BY <2>2, <1>1, Unchanging, Zenon
  <1> QED
    BY <1>6, <1>7

\* Making its calls leaves a task's principal alone.
LEMMA ServedContinues ==
    ASSUME NEW w, TaskFields \subseteq DOMAIN w
    PROVE  Continues(w, Served(w))
  BY DEF Served, Continues, TaskFields

\* The tasks of the other requests, and the administrator's.
LEMMA TaskInv ==
    ASSUME SessionInv, NEW c \in Connections,
           \/ Connect(c) \/ (\E r \in Sends(c, require_sasl) : ApiVersions(c, r))
           \/ CheckFault(c) \/ Authorize(c) \/ Act(c) \/ Answer(c)
    PROVE  SessionInv'
  <1>1. session' = session /\ proven' = proven /\ require_sasl' = require_sasl
    <2>1. CASE Connect(c) \/ (\E r \in Sends(c, require_sasl) : ApiVersions(c, r))
      BY <2>1, Zenon DEF Connect, ApiVersions
    <2>2. CASE CheckFault(c) \/ Authorize(c) \/ Answer(c)
      BY <2>2, Zenon DEF CheckFault, Authorize, Answer
    <2>3. CASE Act(c)
      BY <2>3, Zenon DEF Act
    <2> QED
      BY <2>1, <2>2, <2>3
  <1>2. /\ work = [d \in Connections |-> work[d]]
        /\ \A d \in Connections : TaskOK(work[d])
    BY DEF SessionInv, ConnectionOK
  <1>3. ASSUME NEW w, work' = [work EXCEPT ![c] = w],
               \/ TaskOK(w) /\ w.at # "handling"
               \/ Continues(work[c], w)
        PROVE  SessionInv'
    <2>1. work' = [d \in Connections |-> work'[d]]
      BY <1>2, <1>3
    <2>2. work'[c] = w /\ \A d \in Connections \ {c} : work'[d] = work[d]
      BY <1>2, <1>3
    <2>3. \A d \in Connections \ {c} : Continues(work[d], work'[d])
      BY <2>2 DEF Continues
    <2> QED
      BY <1>1, <1>3, <2>1, <2>2, <2>3, TasksGoOn
  <1>4. CASE Connect(c) \/ (\E r \in Sends(c, require_sasl) : ApiVersions(c, r)) \/ Answer(c)
    <2>1. work' = [work EXCEPT ![c] = Idle] \/ work' = [work EXCEPT ![c] = Answering]
      BY <1>4, Zenon DEF Connect, ApiVersions, Answer
    <2> QED
      BY <2>1, <1>3, EndsOK, Zenon
  <1>5. CASE CheckFault(c)
    <2>1. PICK f : work' = [work EXCEPT ![c].fault = f] /\ work[c].at = "handling"
      BY <1>5, Zenon DEF CheckFault, Handling
    <2>2. work' = [work EXCEPT ![c] = [work[c] EXCEPT !.fault = f]]
      BY <2>1
    <2>3. Continues(work[c], [work[c] EXCEPT !.fault = f])
      BY <1>2, <2>1 DEF Continues, TaskOK, TaskFields
    <2> QED
      BY <2>2, <2>3, <1>3, Zenon
  <1>6. CASE Authorize(c)
    <2>1. work[c].at = "handling"
      BY <1>6, Zenon DEF Authorize, Handling
    <2>2. TaskFields \subseteq DOMAIN work[c]
      BY <1>2, <2>1 DEF TaskOK
    <2>3. PICK w : /\ work' = [work EXCEPT ![c] = w]
                   /\ \/ w = [work[c] EXCEPT !.need = 0]
                      \/ w = [work[c] EXCEPT !.need = @ + 1]
                      \/ w = [work[c] EXCEPT !.group = @ + 1, !.need = 1]
      <3> DEFINE g == CurrentPlan(work[c])[work[c].group]
                 w == IF authorize(bindings, work[c].principal, Host, g.needs[work[c].need])
                      THEN [work[c] EXCEPT !.need = 0]
                      ELSE IF work[c].need < Len(g.needs) THEN [work[c] EXCEPT !.need = @ + 1]
                      ELSE [work[c] EXCEPT !.group = @ + 1, !.need = 1]
      <3>1. work' = [work EXCEPT ![c] = w]
        BY <1>6, Zenon DEF Authorize
      <3>2. \/ w = [work[c] EXCEPT !.need = 0]
            \/ w = [work[c] EXCEPT !.need = @ + 1]
            \/ w = [work[c] EXCEPT !.group = @ + 1, !.need = 1]
        <4> HIDE DEF g
        <4> QED
          BY Zenon
      <3> HIDE DEF w
      <3> QED
        BY <3>1, <3>2, Zenon
    <2>4. Continues(work[c], w)
      BY <2>1, <2>2, <2>3, Zenon DEF Continues, TaskFields
    <2> QED
      BY <2>3, <2>4, <1>3, Zenon
  <1>7. CASE Act(c)
    <2>1. work[c].at = "handling"
      BY <1>7, Zenon DEF Act, Handling
    <2> DEFINE v(d) == IF d = c THEN Served(work[c]) ELSE work[d]
    <2>2. work' = [d \in Connections |->
              IF v(d).at = "handling" THEN Observed(v(d), bindings') ELSE v(d)]
      BY <1>7, Zenon DEF Act
    <2>3. ASSUME NEW d \in Connections PROVE Continues(work[d], v(d))
      <3>1. TaskOK(work[d])
        BY <1>2
      <3> QED
        BY <2>1, <3>1, ServedContinues DEF Continues, TaskOK
    <2>4. /\ work' = [d \in Connections |-> work'[d]]
          /\ \A d \in Connections :
                 work'[d] = IF v(d).at = "handling" THEN Observed(v(d), bindings') ELSE v(d)
      BY <2>2
    <2> HIDE DEF v
    <2>5. ASSUME NEW d \in Connections PROVE Continues(work[d], work'[d])
      <3>1. TaskOK(work[d]) /\ Continues(work[d], v(d))
        BY <1>2, <2>3
      <3>2. CASE v(d).at # "handling"
        BY <2>4, <3>1, <3>2
      <3>3. CASE v(d).at = "handling"
        <4>1. work'[d] = Observed(v(d), bindings')
          BY <2>4, <3>3
        <4>2. TaskFields \subseteq DOMAIN v(d)
          BY <3>1, <3>3 DEF TaskOK, Continues
        <4>3. /\ DOMAIN Observed(v(d), bindings') = DOMAIN v(d)
              /\ Observed(v(d), bindings').at = v(d).at
              /\ Observed(v(d), bindings').principal = v(d).principal
          BY <4>2 DEF Observed, TaskFields
        <4> QED
          BY <3>1, <4>1, <4>3 DEF Continues
      <3> QED
        BY <3>2, <3>3
    <2> QED
      BY <1>1, <2>4, <2>5, TasksGoOn, Zenon
  <1> QED
    BY <1>4, <1>5, <1>6, <1>7

LEMMA StepInv == SessionInv /\ [Next]_vars => SessionInv'
  <1> SUFFICES ASSUME SessionInv, [Next]_vars PROVE SessionInv'
    OBVIOUS
  <1>1. ASSUME NEW c \in Connections, Connect(c) PROVE SessionInv'
    BY <1>1, TaskInv, Zenon
  <1>2. ASSUME NEW c \in Connections, Hangup(c) PROVE SessionInv'
    BY <1>2, CloseInv, Zenon DEF Hangup
  <1>3. ASSUME NEW c \in Connections, Task(c) PROVE SessionInv'
    <2>1. ASSUME NEW r \in Sends(c, require_sasl), Reject(c, r) PROVE SessionInv'
      BY <2>1, CloseInv, Zenon DEF Reject
    <2>2. ASSUME NEW r \in Sends(c, require_sasl), SaslHandshake(c, r) PROVE SessionInv'
      BY <2>2, HandshakeInv, Zenon
    <2>3. ASSUME NEW r \in Sends(c, require_sasl), SaslAuthenticate(c, r) PROVE SessionInv'
      BY <2>3, AuthenticateInv, Zenon
    <2>4. ASSUME NEW r \in Sends(c, require_sasl), Receive(c, r) PROVE SessionInv'
      BY <2>4, ReceiveInv, Zenon
    <2>5. CASE AnswerAndClose(c)
      BY <2>5, CloseInv, Zenon DEF AnswerAndClose
    <2>6. CASE \/ (\E r \in Sends(c, require_sasl) : ApiVersions(c, r))
               \/ CheckFault(c) \/ Authorize(c) \/ Act(c) \/ Answer(c)
      BY <2>6, TaskInv, Zenon
    <2> QED
      BY <1>3, <2>1, <2>2, <2>3, <2>4, <2>5, <2>6, Zenon DEF Task
  <1>4. CASE UNCHANGED <<require_sasl, session, work, proven>>
    BY <1>4 DEF SessionInv, ConnectionOK
  <1>5. CASE ClearRules \/ \E rule \in ChaosRules : AddRule(rule)
    BY <1>4, <1>5, Zenon DEF ClearRules, AddRule
  <1>6. CASE UNCHANGED vars
    BY <1>4, <1>6, Zenon DEF vars
  <1> QED
    BY <1>1, <1>2, <1>3, <1>5, <1>6, Zenon DEF Next

\* For any users, mechanisms, requests and number of connections, a connection
\* acts only for a user whose password it has shown since its last handshake,
\* and where SASL is required for nobody else.
THEOREM ActsAlwaysForProvenUser == Spec => []ActsForProvenUser
  <1>1. Init => SessionInv
    BY InitInv
  <1>2. SessionInv /\ [Next]_vars => SessionInv'
    BY StepInv
  <1>3. SessionInv => ActsForProvenUser
    BY Zenon DEF SessionInv, ConnectionOK, ActsForProvenUser, Handling
  <1> QED
    BY <1>1, <1>2, <1>3, PTL DEF Spec

------------------------------------------------------------------------------
(* Naturals: least elements, induction over an interval and recursion.      *)

\* A non-empty set of naturals has a least element.
LEMMA LeastIndex ==
    ASSUME NEW T \in SUBSET Nat, T # {}
    PROVE  \E x \in T : \A y \in T : x <= y
  <1> DEFINE R == OpToRel(<, Nat)
  <1>1. IsWellFoundedOn(R, Nat)
    BY NatLessThanWellFounded, Zenon
  <1>2. \A x, y \in Nat : y < x => <<y, x>> \in R
    BY DEF OpToRel
  <1> HIDE DEF R
  <1>3. PICK x \in T : \A y \in T : ~ (<<y, x>> \in R)
    BY <1>1, WFMin, Zenon
  <1>4. \A y \in T : ~ (y < x)
    BY <1>2, <1>3, Zenon
  <1> QED
    BY <1>4

\* Induction: what holds of 0 and passes from i - 1 to i holds up to N.
LEMMA UpTo ==
    ASSUME NEW N \in Nat, NEW G, 0 \in G, \A i \in 1..N : i - 1 \in G => i \in G
    PROVE  \A i \in 0..N : i \in G
  <1> DEFINE bad == {i \in 0..N : i \notin G}
  <1>1. bad \in SUBSET Nat
    OBVIOUS
  <1>2. ASSUME bad # {} PROVE FALSE
    <2>1. PICK x \in bad : \A y \in bad : x <= y
      BY <1>1, <1>2, LeastIndex, Zenon
    <2>2. x \in 1..N /\ x - 1 \in 0..N /\ ~(x <= x - 1)
      BY <2>1
    <2>3. x - 1 \in G
      BY <2>1, <2>2
    <2> QED
      BY <2>1, <2>2, <2>3
  <1> QED
    BY <1>2

\* The steps h of a recursion from v, and the function it defines.
Steps(h, N, V) == h \in [1..N -> [V -> V]]
Result(f, v, h, N, V) ==
    f \in [0..N -> V] /\ f[0] = v /\ \A i \in 1..N : f[i] = h[i][f[i - 1]]

\* A function that is given by its first value and by each next one exists.
LEMMA Recursion ==
    ASSUME NEW N \in Nat, NEW V, NEW v \in V, NEW h, Steps(h, N, V)
    PROVE  \E f : Result(f, v, h, N, V)
  <1> USE DEF Steps
  <1> DEFINE Solves(f, n) == f[0] = v /\ \A i \in 1..n : f[i] = h[i][f[i - 1]]
             G == {n \in 0..N : \E f \in [0..n -> V] : Solves(f, n)}
  <1>1. 0 \in G
    <2> DEFINE f == [i \in 0..0 |-> v]
    <2>1. f \in [0..0 -> V] /\ f[0] = v
      OBVIOUS
    <2> HIDE DEF f
    <2>2. Solves(f, 0)
      BY <2>1
    <2> QED
      BY <2>1, <2>2
  <1>2. ASSUME NEW n \in 1..N, n - 1 \in G PROVE n \in G
    <2>1. PICK f \in [0..(n - 1) -> V] : Solves(f, n - 1)
      BY <1>2, Zenon
    <2> DEFINE w == h[n][f[n - 1]]
               g == [i \in 0..n |-> IF i = n THEN w ELSE f[i]]
    <2>2. w \in V
      OBVIOUS
    <2> HIDE DEF w
    <2>3. g \in [0..n -> V]
      BY <2>2
    <2>4. g[0] = v
      BY <2>1
    <2>5. ASSUME NEW i \in 1..n PROVE g[i] = h[i][g[i - 1]]
      <3>1. i - 1 \in 0..n /\ i - 1 # n /\ g[i - 1] = f[i - 1]
        OBVIOUS
      <3>2. CASE i = n
        BY <3>1, <3>2 DEF w
      <3>3. CASE i # n
        <4>1. i \in 1..(n - 1) /\ g[i] = f[i]
          BY <3>3
        <4> HIDE DEF g
        <4> QED
          BY <2>1, <3>1, <4>1
      <3> QED
        BY <3>2, <3>3
    <2> HIDE DEF g
    <2>6. Solves(g, n)
      BY <2>4, <2>5, Zenon
    <2>7. n \in 0..N
      OBVIOUS
    <2> HIDE DEF Solves
    <2> QED
      BY <2>3, <2>6, <2>7, Zenon
  <1>3. N \in G
    <2> HIDE DEF G
    <2>1. \A i \in 0..N : i \in G
      BY <1>1, <1>2, UpTo, Zenon
    <2> QED
      BY <2>1
  <1> QED
    BY <1>3, Zenon DEF Result

------------------------------------------------------------------------------
(* What authorize computes.                                                 *)

\* Whether binding b applies to the request and refuses it, or grants it.
Refuses(b, principal, host, need) ==
    Applies(b, principal, host, need) /\ b.permission_type = "Deny"

Grants(b, principal, host, need) ==
    Applies(b, principal, host, need) /\ b.permission_type = "Allow"

\* What the loop returns when it is at binding i and has seen an Allow or not.
Verdict(bs, principal, host, need, i, allows) ==
    /\ \A k \in i .. Len(bs) : ~Refuses(bs[k], principal, host, need)
    /\ allows \/ \E k \in i .. Len(bs) : Grants(bs[k], principal, host, need)

\* The function that the recursion of Scan defines.
Loop(bs, principal, host, need, f) ==
    [i \in 1 .. Len(bs) + 1 |-> [allows \in BOOLEAN |->
        IF i > Len(bs) THEN allows
        ELSE IF ~Applies(bs[i], principal, host, need) THEN f[i + 1][allows]
        ELSE IF bs[i].permission_type = "Deny" THEN FALSE
        ELSE f[i + 1][allows \/ bs[i].permission_type = "Allow"]]]

\* f obeys the equations of the loop.
Obeys(bs, principal, host, need, f) ==
    \A i \in 1 .. Len(bs) + 1 : \A allows \in BOOLEAN :
        f[i][allows] =
            IF i > Len(bs) THEN allows
            ELSE IF ~Applies(bs[i], principal, host, need) THEN f[i + 1][allows]
            ELSE IF bs[i].permission_type = "Deny" THEN FALSE
            ELSE f[i + 1][allows \/ bs[i].permission_type = "Allow"]

LEMMA ScanIsLoop ==
    ASSUME NEW bs, NEW principal, NEW host, NEW need,
           \E f : f = Loop(bs, principal, host, need, f)
    PROVE  \E f : /\ Obeys(bs, principal, host, need, f)
                  /\ Scan(bs, principal, host, need) = f[1][FALSE]
  <1> DEFINE P(f) == f = Loop(bs, principal, host, need, f)
             scan == CHOOSE f : P(f)
  <1>1. Scan(bs, principal, host, need) = scan[1][FALSE]
    BY Zenon DEF Scan, Loop
  <1> HIDE DEF P
  <1>2. P(scan)
    BY Zenon DEF P
  <1> HIDE DEF scan
  <1>3. ASSUME NEW i \in 1 .. Len(bs) + 1, NEW allows \in BOOLEAN
        PROVE  scan[i][allows] =
                   IF i > Len(bs) THEN allows
                   ELSE IF ~Applies(bs[i], principal, host, need) THEN scan[i + 1][allows]
                   ELSE IF bs[i].permission_type = "Deny" THEN FALSE
                   ELSE scan[i + 1][allows \/ bs[i].permission_type = "Allow"]
    <2> DEFINE g == Loop(bs, principal, host, need, scan)
    <2>1. scan = g
      BY <1>2, Zenon DEF P
    <2>2. g[i][allows] =
              IF i > Len(bs) THEN allows
              ELSE IF ~Applies(bs[i], principal, host, need) THEN scan[i + 1][allows]
              ELSE IF bs[i].permission_type = "Deny" THEN FALSE
              ELSE scan[i + 1][allows \/ bs[i].permission_type = "Allow"]
      BY Zenon DEF Loop
    <2> HIDE DEF g
    <2>3. scan[i][allows] = g[i][allows]
      BY <2>1, Zenon
    <2> QED
      BY <2>2, <2>3, Zenon
  <1>4. Obeys(bs, principal, host, need, scan)
    BY <1>3, Zenon DEF Obeys
  <1> QED
    BY <1>1, <1>4, Zenon

\* One iteration of the loop.
LEMMA VerdictStep ==
    ASSUME NEW S, NEW bs \in Seq(S), NEW principal, NEW host, NEW need,
           NEW i \in 1 .. Len(bs) + 1, NEW allows \in BOOLEAN
    PROVE  Verdict(bs, principal, host, need, i, allows) <=>
               IF i > Len(bs) THEN allows
               ELSE IF ~Applies(bs[i], principal, host, need)
               THEN Verdict(bs, principal, host, need, i + 1, allows)
               ELSE IF bs[i].permission_type = "Deny" THEN FALSE
               ELSE Verdict(bs, principal, host, need, i + 1,
                            allows \/ bs[i].permission_type = "Allow")
  <1>0. Len(bs) \in Nat
    OBVIOUS
  <1>1. CASE i > Len(bs)
    <2>1. \A k \in i .. Len(bs) : FALSE
      BY <1>0, <1>1
    <2> QED
      BY <1>1, <2>1, Zenon DEF Verdict
  <1>2. CASE ~(i > Len(bs))
    <2>1. i .. Len(bs) = {i} \cup (i + 1) .. Len(bs)
      BY <1>0, <1>2
    <2>2. CASE ~Applies(bs[i], principal, host, need)
      BY <1>2, <2>1, <2>2, Zenon DEF Verdict, Refuses, Grants
    <2>3. CASE Refuses(bs[i], principal, host, need)
      BY <1>2, <2>1, <2>3, Zenon DEF Verdict, Refuses
    <2>4. CASE Applies(bs[i], principal, host, need) /\ bs[i].permission_type # "Deny"
      <3>1. ~Refuses(bs[i], principal, host, need)
        BY <2>4, Zenon DEF Refuses
      <3>2. Grants(bs[i], principal, host, need) <=> bs[i].permission_type = "Allow"
        BY <2>4, Zenon DEF Grants
      <3>3. (\A k \in i .. Len(bs) : ~Refuses(bs[k], principal, host, need))
                <=> \A k \in (i + 1) .. Len(bs) : ~Refuses(bs[k], principal, host, need)
        BY <2>1, <3>1, Zenon
      <3>4. (\E k \in i .. Len(bs) : Grants(bs[k], principal, host, need))
                <=> \/ bs[i].permission_type = "Allow"
                    \/ \E k \in (i + 1) .. Len(bs) : Grants(bs[k], principal, host, need)
        BY <2>1, <3>2, Zenon
      <3>5. Verdict(bs, principal, host, need, i, allows)
                <=> Verdict(bs, principal, host, need, i + 1,
                            allows \/ bs[i].permission_type = "Allow")
        BY <3>3, <3>4, Zenon DEF Verdict
      <3> QED
        BY <1>2, <2>4, <3>5, Zenon
    <2> QED
      BY <2>2, <2>3, <2>4, Zenon DEF Refuses
  <1> QED
    BY <1>1, <1>2

\* The recursion has a solution.
LEMMA LoopExists ==
    ASSUME NEW S, NEW bs \in Seq(S), NEW principal, NEW host, NEW need
    PROVE  \E f : f = Loop(bs, principal, host, need, f)
  <1> DEFINE V(i, allows) == Verdict(bs, principal, host, need, i, allows)
             F == [i \in 1 .. Len(bs) + 1 |-> [allows \in BOOLEAN |-> V(i, allows)]]
             Body(i, allows) ==
                 IF i > Len(bs) THEN allows
                 ELSE IF ~Applies(bs[i], principal, host, need) THEN F[i + 1][allows]
                 ELSE IF bs[i].permission_type = "Deny" THEN FALSE
                 ELSE F[i + 1][allows \/ bs[i].permission_type = "Allow"]
  <1>1. ASSUME NEW i \in 1 .. Len(bs) + 1, NEW allows \in BOOLEAN
        PROVE  V(i, allows) = Body(i, allows)
    <2>1. ~(i > Len(bs)) => i + 1 \in 1 .. Len(bs) + 1
      OBVIOUS
    <2>2. \A a \in BOOLEAN : ~(i > Len(bs)) => F[i + 1][a] = V(i + 1, a)
      BY <2>1, Zenon
    <2>3. V(i, allows) \in BOOLEAN /\ \A a \in BOOLEAN : V(i + 1, a) \in BOOLEAN
      BY Zenon DEF Verdict
    <2>4. (allows \/ bs[i].permission_type = "Allow") \in BOOLEAN
      OBVIOUS
    <2>5. V(i, allows) <=>
              IF i > Len(bs) THEN allows
              ELSE IF ~Applies(bs[i], principal, host, need) THEN V(i + 1, allows)
              ELSE IF bs[i].permission_type = "Deny" THEN FALSE
              ELSE V(i + 1, allows \/ bs[i].permission_type = "Allow")
      BY VerdictStep
    <2> HIDE DEF V, F
    <2> QED
      BY <2>2, <2>3, <2>4, <2>5, Zenon
  <1>2. F = Loop(bs, principal, host, need, F)
    <2>1. F = [i \in 1 .. Len(bs) + 1 |-> [allows \in BOOLEAN |-> Body(i, allows)]]
      <3> HIDE DEF Body
      <3>1. \A i \in 1 .. Len(bs) + 1 :
                [allows \in BOOLEAN |-> V(i, allows)] = [allows \in BOOLEAN |-> Body(i, allows)]
        BY <1>1, Zenon
      <3> QED
        BY <3>1, Zenon
    <2> QED
      BY <2>1, Zenon DEF Loop
  <1> QED
    BY <1>2, Zenon

\* And no other one: the loop ends at the last binding.
LEMMA LoopIsVerdict ==
    ASSUME NEW S, NEW bs \in Seq(S), NEW principal, NEW host, NEW need,
           NEW f, Obeys(bs, principal, host, need, f)
    PROVE  \A i \in 1 .. Len(bs) + 1 : \A allows \in BOOLEAN :
               f[i][allows] = Verdict(bs, principal, host, need, i, allows)
  <1> DEFINE V(i, allows) == Verdict(bs, principal, host, need, i, allows)
             Right(i) == \A allows \in BOOLEAN : f[i][allows] = V(i, allows)
             Wrong == {m \in 0 .. Len(bs) : ~Right(Len(bs) + 1 - m)}
  <1>0. Len(bs) \in Nat
    OBVIOUS
  <1>1. ASSUME NEW i \in 1 .. Len(bs) + 1, i > Len(bs) \/ Right(i + 1)
        PROVE  Right(i)
    <2> SUFFICES ASSUME NEW allows \in BOOLEAN
                 PROVE  f[i][allows] = V(i, allows)
      BY Zenon
    <2>1. f[i][allows] =
              IF i > Len(bs) THEN allows
              ELSE IF ~Applies(bs[i], principal, host, need) THEN f[i + 1][allows]
              ELSE IF bs[i].permission_type = "Deny" THEN FALSE
              ELSE f[i + 1][allows \/ bs[i].permission_type = "Allow"]
      BY Zenon DEF Obeys
    <2>2. V(i, allows) \in BOOLEAN /\ \A a \in BOOLEAN : V(i + 1, a) \in BOOLEAN
      BY Zenon DEF Verdict
    <2>3. (allows \/ bs[i].permission_type = "Allow") \in BOOLEAN
      OBVIOUS
    <2>4. V(i, allows) <=>
              IF i > Len(bs) THEN allows
              ELSE IF ~Applies(bs[i], principal, host, need) THEN V(i + 1, allows)
              ELSE IF bs[i].permission_type = "Deny" THEN FALSE
              ELSE V(i + 1, allows \/ bs[i].permission_type = "Allow")
      BY VerdictStep
    <2> HIDE DEF V
    <2>5. CASE i > Len(bs)
      BY <2>1, <2>2, <2>4, <2>5, Zenon
    <2>6. CASE ~(i > Len(bs)) /\ ~Applies(bs[i], principal, host, need)
      <3>1. f[i][allows] = f[i + 1][allows] /\ (V(i, allows) <=> V(i + 1, allows))
        BY <2>1, <2>4, <2>6, Zenon
      <3> QED
        BY <1>1, <2>2, <2>6, <3>1, Zenon
    <2>7. CASE /\ ~(i > Len(bs)) /\ Applies(bs[i], principal, host, need)
               /\ bs[i].permission_type = "Deny"
      <3>1. f[i][allows] = FALSE /\ (V(i, allows) <=> FALSE)
        BY <2>1, <2>4, <2>7, Zenon
      <3> QED
        BY <2>2, <3>1, Zenon
    <2>8. CASE /\ ~(i > Len(bs)) /\ Applies(bs[i], principal, host, need)
               /\ bs[i].permission_type # "Deny"
      <3> DEFINE a == allows \/ bs[i].permission_type = "Allow"
      <3>1. f[i][allows] = f[i + 1][a] /\ (V(i, allows) <=> V(i + 1, a))
        BY <2>1, <2>4, <2>8, Zenon
      <3>2. a \in BOOLEAN
        BY <2>3
      <3> HIDE DEF a
      <3> QED
        BY <1>1, <2>2, <2>8, <3>1, <3>2, Zenon
    <2> QED
      BY <2>5, <2>6, <2>7, <2>8, Zenon
  <1> HIDE DEF Right
  <1>2. Wrong = {}
    <2> SUFFICES ASSUME Wrong # {}
                 PROVE  FALSE
      OBVIOUS
    <2>1. Wrong \in SUBSET Nat
      OBVIOUS
    <2>2. PICK m \in Wrong : \A y \in Wrong : m <= y
      <3> HIDE DEF Wrong
      <3> QED
        BY <2>1, LeastIndex
    <2> DEFINE i == Len(bs) + 1 - m
    <2>3. m \in 0 .. Len(bs) /\ ~Right(i) /\ i \in 1 .. Len(bs) + 1
      BY <1>0, <2>2
    <2>4. CASE m = 0
      <3>1. i > Len(bs)
        BY <1>0, <2>4
      <3> QED
        BY <1>1, <2>3, <3>1
    <2>5. CASE m # 0
      <3>1. m - 1 \in 0 .. Len(bs) /\ ~(m <= m - 1) /\ i + 1 = Len(bs) + 1 - (m - 1)
        BY <1>0, <2>3, <2>5
      <3>2. Right(Len(bs) + 1 - (m - 1))
        BY <2>2, <3>1
      <3>3. Right(i + 1)
        BY <3>1, <3>2
      <3> QED
        BY <1>1, <2>3, <3>3
    <2> QED
      BY <2>4, <2>5
  <1>3. ASSUME NEW i \in 1 .. Len(bs) + 1
        PROVE  Right(i)
    <2>1. Len(bs) + 1 - i \in 0 .. Len(bs) /\ Len(bs) + 1 - (Len(bs) + 1 - i) = i
      BY <1>0
    <2>2. Right(Len(bs) + 1 - (Len(bs) + 1 - i))
      BY <1>2, <2>1, Zenon
    <2> QED
      BY <2>1, <2>2
  <1> QED
    BY <1>3, Zenon DEF Right

\* For any list of bindings and any request, the loop of authorize, which stops
\* at the first Deny, decides as if it had looked at all of them at once.
LEMMA AuthorizeIgnoresOrder ==
    ASSUME NEW S, NEW bs \in Seq(S), NEW principal, NEW host, NEW need
    PROVE  authorize(bs, principal, host, need)
               <=> Permitted(ToSet(bs), principal, host, need)
  <1>0. Len(bs) \in Nat /\ DOMAIN bs = 1 .. Len(bs) /\ 1 \in 1 .. Len(bs) + 1
    OBVIOUS
  <1>1. PICK f : /\ Obeys(bs, principal, host, need, f)
                 /\ Scan(bs, principal, host, need) = f[1][FALSE]
    <2>1. \E f : f = Loop(bs, principal, host, need, f)
      BY LoopExists, Zenon
    <2> QED
      BY <2>1, ScanIsLoop, Zenon
  <1>2. f[1][FALSE] = Verdict(bs, principal, host, need, 1, FALSE)
    <2>1. \A i \in 1 .. Len(bs) + 1 : \A allows \in BOOLEAN :
              f[i][allows] = Verdict(bs, principal, host, need, i, allows)
      BY <1>1, LoopIsVerdict
    <2> QED
      BY <1>0, <2>1, Zenon
  <1>3. Scan(bs, principal, host, need) <=>
            /\ \A k \in DOMAIN bs : ~Refuses(bs[k], principal, host, need)
            /\ \E k \in DOMAIN bs : Grants(bs[k], principal, host, need)
    BY <1>0, <1>1, <1>2, Zenon DEF Verdict
  <1>4. ToSet(bs) = {bs[k] : k \in DOMAIN bs}
    BY Zenon DEF ToSet
  <1>5. ASSUME NEW k \in DOMAIN bs, Applies(bs[k], principal, host, need)
        PROVE  OnResource(bs[k], need)
    BY <1>5, Zenon DEF Applies
  <1> DEFINE applying == {b \in ToSet(bs) : Applies(b, principal, host, need)}
             kinds == {b.permission_type : b \in applying}
  <1>6. ("Deny" \in kinds) <=> \E k \in DOMAIN bs : Refuses(bs[k], principal, host, need)
    BY <1>4, Zenon DEF Refuses
  <1>7. ("Allow" \in kinds) <=> \E k \in DOMAIN bs : Grants(bs[k], principal, host, need)
    BY <1>4, Zenon DEF Grants
  <1>8. (\E b \in ToSet(bs) : OnResource(b, need)) <=> \E k \in DOMAIN bs : OnResource(bs[k], need)
    BY <1>4, Zenon
  <1>9. Permitted(ToSet(bs), principal, host, need) <=>
            \/ ~AclEnabled \/ IsSuperUser(principal)
            \/ AllowEveryone /\ ~\E b \in ToSet(bs) : OnResource(b, need)
            \/ "Allow" \in kinds /\ "Deny" \notin kinds
    BY Zenon DEF Permitted
  <1>10. (\E k \in DOMAIN bs : Grants(bs[k], principal, host, need))
             => \E k \in DOMAIN bs : OnResource(bs[k], need)
    BY <1>5, Zenon DEF Grants
  <1> HIDE DEF kinds
  <1>11. authorize(bs, principal, host, need) <=>
             \/ ~AclEnabled \/ IsSuperUser(principal)
             \/ IF \E k \in DOMAIN bs : OnResource(bs[k], need)
                THEN Scan(bs, principal, host, need)
                ELSE AllowEveryone
    BY Zenon DEF authorize
  <1> QED
    BY <1>3, <1>6, <1>7, <1>8, <1>9, <1>10, <1>11, Zenon

------------------------------------------------------------------------------
(* Lists of bindings.                                                       *)

\* t is the list of what Only has taken after each element of s.
Takes(s, kept, t) ==
    /\ t[0] = << >>
    /\ \A i \in 1..Len(s) : t[i] = IF s[i] \in kept THEN Append(t[i - 1], s[i]) ELSE t[i - 1]

LEMMA OnlyTakes ==
    ASSUME NEW S, NEW s \in Seq(S), NEW kept
    PROVE  \E t : Takes(s, kept, t) /\ Only(s, kept) = t[Len(s)]
  <1> DEFINE Body(f) == [i \in 0..Len(s) |->
                            IF i = 0 THEN << >>
                            ELSE IF s[i] \in kept THEN Append(f[i-1], s[i]) ELSE f[i-1]]
             P(f) == f = Body(f)
             taken == CHOOSE f : P(f)
  <1>0. Len(s) \in Nat
    OBVIOUS
  <1>1. Only(s, kept) = taken[Len(s)]
    BY Zenon DEF Only
  <1>2. \E f : P(f)
    <2> DEFINE V == Seq(S)
               none == << >>
               h == [i \in 1..Len(s) |-> [t \in V |-> IF s[i] \in kept THEN Append(t, s[i]) ELSE t]]
    <2>1. h \in [1..Len(s) -> [V -> V]] /\ none \in V
      <3>1. \A i \in 1..Len(s) : s[i] \in S
        OBVIOUS
      <3>2. \A i \in 1..Len(s) : \A t \in V : (IF s[i] \in kept THEN Append(t, s[i]) ELSE t) \in V
        BY <3>1
      <3>3. << >> \in V
        OBVIOUS
      <3> HIDE DEF V
      <3> QED
        BY <3>2, <3>3, Zenon
    <2>2. \A i \in 1..Len(s) : \A t \in V :
              h[i][t] = IF s[i] \in kept THEN Append(t, s[i]) ELSE t
      BY Zenon
    <2> HIDE DEF V, h, none
    <2>3. PICK f \in [0..Len(s) -> V] :
              f[0] = none /\ \A i \in 1..Len(s) : f[i] = h[i][f[i - 1]]
      <3>1. Steps(h, Len(s), V)
        BY <2>1, Zenon DEF Steps
      <3>2. \E f : Result(f, none, h, Len(s), V)
        BY <1>0, <2>1, <3>1, Recursion, Zenon
      <3> QED
        BY <3>2, Zenon DEF Result
    <2>4. ASSUME NEW i \in 0..Len(s)
          PROVE  f[i] = IF i = 0 THEN << >>
                        ELSE IF s[i] \in kept THEN Append(f[i-1], s[i]) ELSE f[i-1]
      <3>1. CASE i = 0
        BY <2>3, <3>1, Zenon DEF none
      <3>2. CASE i # 0
        <4>1. i \in 1..Len(s) /\ i - 1 \in 0..Len(s)
          BY <3>2
        <4>2. f[i - 1] \in V /\ f[i] = h[i][f[i - 1]]
          BY <2>3, <4>1
        <4> QED
          BY <2>2, <3>2, <4>1, <4>2, Zenon
      <3> QED
        BY <3>1, <3>2
    <2>5. f = Body(f)
      <3>1. f = [i \in 0..Len(s) |-> f[i]]
        BY <2>3, Zenon
      <3> QED
        BY <2>4, <3>1, Zenon
    <2> QED
      BY <2>5, Zenon
  <1> HIDE DEF P
  <1>3. P(taken)
    BY <1>2, Zenon
  <1> HIDE DEF taken
  <1>4. ASSUME NEW i \in 0..Len(s)
        PROVE  taken[i] = IF i = 0 THEN << >>
                          ELSE IF s[i] \in kept THEN Append(taken[i-1], s[i]) ELSE taken[i-1]
    <2> DEFINE b == Body(taken)
    <2>1. taken = b
      BY <1>3, Zenon DEF P
    <2>2. b[i] = IF i = 0 THEN << >>
                 ELSE IF s[i] \in kept THEN Append(taken[i-1], s[i]) ELSE taken[i-1]
      BY Zenon
    <2> HIDE DEF b
    <2>3. taken[i] = b[i]
      BY <2>1, Zenon
    <2> QED
      BY <2>2, <2>3, Zenon
  <1>5. Takes(s, kept, taken)
    <2>1. taken[0] = << >>
      BY <1>0, <1>4
    <2>2. ASSUME NEW i \in 1..Len(s)
          PROVE  taken[i] = IF s[i] \in kept THEN Append(taken[i - 1], s[i]) ELSE taken[i - 1]
      <3>1. i \in 0..Len(s) /\ i # 0
        OBVIOUS
      <3> QED
        BY <1>4, <3>1, Zenon
    <2> QED
      BY <2>1, <2>2, Zenon DEF Takes
  <1> QED
    BY <1>1, <1>5, Zenon

\* One more binding.
LEMMA Appended ==
    ASSUME NEW S, NEW s \in Seq(S), NEW e \in S
    PROVE  Append(s, e) \in Seq(S) /\ ToSet(Append(s, e)) = ToSet(s) \cup {e}
  <1> DEFINE t == Append(s, e)
             N == Len(s)
  <1>1. t \in Seq(S) /\ DOMAIN t = 1..(N + 1) /\ DOMAIN s = 1..N /\ N \in Nat
    OBVIOUS
  <1>2. t[N + 1] = e /\ \A i \in 1..N : t[i] = s[i]
    OBVIOUS
  <1> HIDE DEF t, N
  <1>3. 1..(N + 1) = 1..N \cup {N + 1}
    BY <1>1
  <1>4. ToSet(t) = {t[i] : i \in 1..N \cup {N + 1}} /\ ToSet(s) = {s[i] : i \in 1..N}
    BY <1>1, <1>3, Zenon DEF ToSet
  <1>5. ToSet(t) = ToSet(s) \cup {e}
    BY <1>2, <1>4, Zenon
  <1> QED
    BY <1>1, <1>5, Zenon DEF t

\* Only keeps the bindings it should.
LEMMA OnlyElements ==
    ASSUME NEW S, NEW s \in Seq(S), NEW kept
    PROVE  Only(s, kept) \in Seq(S) /\ ToSet(Only(s, kept)) = ToSet(s) \cap kept
  <1>0. Len(s) \in Nat /\ DOMAIN s = 1..Len(s) /\ \A i \in 1..Len(s) : s[i] \in S
    OBVIOUS
  <1>1. PICK t : Takes(s, kept, t) /\ Only(s, kept) = t[Len(s)]
    BY OnlyTakes, Zenon
  <1> DEFINE Right(i) == t[i] \in Seq(S) /\ ToSet(t[i]) = {s[j] : j \in 1..i} \cap kept
             G == {i \in 0..Len(s) : Right(i)}
  <1>2. 0 \in G
    <2>1. t[0] = << >>
      BY <1>1, Zenon DEF Takes
    <2>2. << >> \in Seq(S) /\ ToSet(<< >>) = {}
      BY DEF ToSet
    <2>3. {s[j] : j \in 1..0} = {} /\ 0 \in 0..Len(s)
      BY <1>0
    <2>4. ToSet(<< >>) = {s[j] : j \in 1..0} \cap kept
      BY <2>2, <2>3, Zenon
    <2> QED
      BY <2>1, <2>2, <2>3, <2>4, Zenon
  <1>3. ASSUME NEW i \in 1..Len(s), i - 1 \in G PROVE i \in G
    <2>1. Right(i - 1)
      BY <1>3, Zenon
    <2>2. 1..i = 1..(i - 1) \cup {i} /\ i \in 0..Len(s)
      BY <1>0
    <2>3. {s[j] : j \in 1..i} = {s[j] : j \in 1..(i - 1)} \cup {s[i]}
      BY <2>2, Zenon
    <2>4. t[i] = IF s[i] \in kept THEN Append(t[i - 1], s[i]) ELSE t[i - 1]
      BY <1>1, Zenon DEF Takes
    <2>5. CASE s[i] \in kept
      <3>1. /\ Append(t[i - 1], s[i]) \in Seq(S)
            /\ ToSet(Append(t[i - 1], s[i])) = ToSet(t[i - 1]) \cup {s[i]}
        BY <1>0, <2>1, Appended
      <3>2. t[i] = Append(t[i - 1], s[i])
        BY <2>4, <2>5, Zenon
      <3>3. ToSet(t[i]) = {s[j] : j \in 1..i} \cap kept
        BY <2>1, <2>3, <2>5, <3>1, <3>2, Zenon
      <3> QED
        BY <2>2, <3>1, <3>2, <3>3, Zenon
    <2>6. CASE s[i] \notin kept
      <3>1. t[i] = t[i - 1]
        BY <2>4, <2>6, Zenon
      <3>2. {s[j] : j \in 1..i} \cap kept = {s[j] : j \in 1..(i - 1)} \cap kept
        BY <2>3, <2>6, Zenon
      <3> QED
        BY <2>1, <2>2, <3>1, <3>2, Zenon
    <2> QED
      BY <2>5, <2>6
  <1>4. Right(Len(s))
    <2>1. \A i \in 0..Len(s) : i \in G
      <3> HIDE DEF G
      <3> QED
        BY <1>0, <1>2, <1>3, UpTo, Zenon
    <2>2. Len(s) \in 0..Len(s)
      BY <1>0
    <2> QED
      BY <2>1, <2>2, Zenon
  <1> QED
    BY <1>0, <1>1, <1>4, Zenon DEF ToSet

LEMMA ListOf ==
    ASSUME NEW S, NEW s \in Seq(S)
    PROVE  IsList(s) /\ ToSet(s) \subseteq S
  BY DEF IsList, ToSet

\* The bindings there may be once creations are made.
Possible(bs, creations) == ToSet(bs) \cup {Binding(c) : c \in ToSet(creations)}

LEMMA CreatedMakes ==
    ASSUME NEW S, NEW bs \in Seq(S), NEW c, Binding(c) \in S
    PROVE  Created(bs, c) \in Seq(S)
  <1>1. Append(bs, Binding(c)) \in Seq(S)
    BY Appended, Zenon
  <1> QED
    BY <1>1, Zenon DEF Created

\* create_acls makes a list of bindings.
LEMMA CreateMakesList ==
    ASSUME NEW bs, IsList(bs), NEW creations, IsList(creations)
    PROVE  IsList(create_acls(bs, creations))
  <1> DEFINE S == Possible(bs, creations)
             N == Len(creations)
             V == Seq(S)
             Body(f) == [i \in 0..N |-> IF i = 0 THEN bs ELSE Created(f[i-1], creations[i])]
             P(f) == f = Body(f)
             made == CHOOSE f : P(f)
             h == [i \in 1..N |-> [t \in V |-> Created(t, creations[i])]]
  <1>0. N \in Nat /\ \A i \in 1..N : creations[i] \in ToSet(creations)
    BY DEF IsList, ToSet
  <1>1. create_acls(bs, creations) = made[N]
    BY Zenon DEF create_acls
  <1>2. bs \in V
    <2>1. ToSet(bs) \subseteq S
      BY Zenon DEF Possible
    <2> HIDE DEF S
    <2> QED
      BY <2>1 DEF IsList
  <1>3. \A i \in 1..N : \A t \in V : Created(t, creations[i]) \in V
    <2>1. \A i \in 1..N : Binding(creations[i]) \in S
      BY <1>0, Zenon DEF Possible
    <2> HIDE DEF S, N
    <2> QED
      BY <2>1, CreatedMakes, Zenon
  <1>4. Steps(h, N, V) /\ \A i \in 1..N : \A t \in V : h[i][t] = Created(t, creations[i])
    <2> HIDE DEF V, N
    <2> QED
      BY <1>3, Zenon DEF Steps
  <1> HIDE DEF V, h, S
  <1>5. \E f : P(f)
    <2>1. PICK f : Result(f, bs, h, N, V)
      <3> HIDE DEF N
      <3> QED
        BY <1>0, <1>2, <1>4, Recursion, Zenon
    <2>2. f \in [0..N -> V] /\ f[0] = bs /\ \A i \in 1..N : f[i] = h[i][f[i - 1]]
      BY <2>1, Zenon DEF Result
    <2>3. ASSUME NEW i \in 0..N PROVE f[i] = IF i = 0 THEN bs ELSE Created(f[i-1], creations[i])
      <3>1. CASE i = 0
        BY <2>2, <3>1, Zenon
      <3>2. CASE i # 0
        <4>1. i \in 1..N /\ i - 1 \in 0..N
          BY <1>0, <3>2
        <4>2. f[i - 1] \in V /\ f[i] = h[i][f[i - 1]]
          BY <2>2, <4>1
        <4> QED
          BY <1>4, <3>2, <4>1, <4>2, Zenon
      <3> QED
        BY <3>1, <3>2
    <2>4. f = Body(f)
      <3>1. f = [i \in 0..N |-> f[i]]
        BY <2>2, Zenon
      <3> QED
        BY <2>3, <3>1, Zenon
    <2> QED
      BY <2>4, Zenon
  <1> HIDE DEF P
  <1>6. P(made)
    BY <1>5, Zenon
  <1> HIDE DEF made
  <1>7. ASSUME NEW i \in 0..N PROVE made[i] = IF i = 0 THEN bs ELSE Created(made[i-1], creations[i])
    <2> DEFINE b == Body(made)
    <2>1. made = b
      BY <1>6, Zenon DEF P
    <2>2. b[i] = IF i = 0 THEN bs ELSE Created(made[i-1], creations[i])
      BY Zenon
    <2> HIDE DEF b
    <2> QED
      BY <2>1, <2>2, Zenon
  <1> DEFINE G == {i \in 0..N : made[i] \in V}
  <1>8. 0 \in G
    <2>1. 0 \in 0..N
      BY <1>0
    <2>2. made[0] = bs
      BY <1>7, <2>1, Zenon
    <2> QED
      BY <1>2, <2>1, <2>2, Zenon
  <1>9. ASSUME NEW i \in 1..N, i - 1 \in G PROVE i \in G
    <2>1. i \in 0..N /\ i # 0
      BY <1>0
    <2>2. made[i] = Created(made[i-1], creations[i])
      BY <1>7, <2>1, Zenon
    <2> QED
      BY <1>3, <1>9, <2>1, <2>2, Zenon
  <1>10. made[N] \in V
    <2>1. N \in 0..N
      BY <1>0
    <2>2. \A i \in 0..N : i \in G
      <3> HIDE DEF G, N
      <3> QED
        BY <1>0, <1>8, <1>9, UpTo, Zenon
    <2> QED
      BY <2>1, <2>2, Zenon
  <1> QED
    BY <1>1, <1>10, ListOf, Zenon DEF V

\* What a filter takes, and what it leaves.
Gone(bs, f) == {b \in ToSet(bs) : DeleteMatches(f, b)}
Rest(bs, f) == Only(bs, ToSet(bs) \ Gone(bs, f))

\* left is the list of what delete_acls leaves after each filter.
Leaves(bs, filters, left) ==
    left[0] = bs /\ \A i \in 1..Len(filters) : left[i] = Rest(left[i - 1], filters[i])

LEMMA DeleteLeaves ==
    ASSUME NEW S, NEW bs \in Seq(S), NEW filters, IsList(filters)
    PROVE  \E left : /\ Leaves(bs, filters, left)
                     /\ delete_acls(bs, filters) =
                           [bindings |-> left[Len(filters)],
                            removed |-> [i \in 1..Len(filters) |->
                                            Only(left[i - 1], Gone(left[i - 1], filters[i]))]]
  <1> DEFINE N == Len(filters)
             V == Seq(S)
             Body(f) == [i \in 0..N |-> IF i = 0 THEN bs ELSE Rest(f[i-1], filters[i])]
             P(f) == f = Body(f)
             left == CHOOSE f : P(f)
             h == [i \in 1..N |-> [t \in V |-> Rest(t, filters[i])]]
  <1>0. N \in Nat
    BY DEF IsList
  <1>1. delete_acls(bs, filters) =
            [bindings |-> left[N],
             removed |-> [i \in 1..N |-> Only(left[i - 1], Gone(left[i - 1], filters[i]))]]
    BY Zenon DEF delete_acls, Gone, Rest
  <1>2. \A t \in V : \A f : Rest(t, f) \in V
    BY OnlyElements, Zenon DEF Rest
  <1>3. Steps(h, N, V) /\ \A i \in 1..N : \A t \in V : h[i][t] = Rest(t, filters[i])
    <2> HIDE DEF V, N
    <2> QED
      BY <1>2, Zenon DEF Steps
  <1>4. bs \in V
    OBVIOUS
  <1> HIDE DEF V, h
  <1>5. \E f : P(f)
    <2>1. PICK f : Result(f, bs, h, N, V)
      <3> HIDE DEF N
      <3> QED
        BY <1>0, <1>3, <1>4, Recursion, Zenon
    <2>2. f \in [0..N -> V] /\ f[0] = bs /\ \A i \in 1..N : f[i] = h[i][f[i - 1]]
      BY <2>1, Zenon DEF Result
    <2>3. ASSUME NEW i \in 0..N PROVE f[i] = IF i = 0 THEN bs ELSE Rest(f[i-1], filters[i])
      <3>1. CASE i = 0
        BY <2>2, <3>1, Zenon
      <3>2. CASE i # 0
        <4>1. i \in 1..N /\ i - 1 \in 0..N
          BY <1>0, <3>2
        <4>2. f[i - 1] \in V /\ f[i] = h[i][f[i - 1]]
          BY <2>2, <4>1
        <4> QED
          BY <1>3, <3>2, <4>1, <4>2, Zenon
      <3> QED
        BY <3>1, <3>2
    <2>4. f = Body(f)
      <3>1. f = [i \in 0..N |-> f[i]]
        BY <2>2, Zenon
      <3> QED
        BY <2>3, <3>1, Zenon
    <2> QED
      BY <2>4, Zenon
  <1> HIDE DEF P
  <1>6. P(left)
    BY <1>5, Zenon
  <1> HIDE DEF left
  <1>7. ASSUME NEW i \in 0..N PROVE left[i] = IF i = 0 THEN bs ELSE Rest(left[i-1], filters[i])
    <2> DEFINE b == Body(left)
    <2>1. left = b
      BY <1>6, Zenon DEF P
    <2>2. b[i] = IF i = 0 THEN bs ELSE Rest(left[i-1], filters[i])
      BY Zenon
    <2> HIDE DEF b
    <2> QED
      BY <2>1, <2>2, Zenon
  <1>8. Leaves(bs, filters, left)
    <2>1. 0 \in 0..N /\ \A i \in 1..N : i \in 0..N /\ i # 0
      BY <1>0
    <2>2. left[0] = bs
      BY <1>7, <2>1, Zenon
    <2>3. \A i \in 1..N : left[i] = Rest(left[i - 1], filters[i])
      BY <1>7, <2>1, Zenon
    <2> QED
      BY <2>2, <2>3, Zenon DEF Leaves
  <1> QED
    BY <1>1, <1>8, Zenon

\* delete_acls leaves a list of bindings.
LEMMA DeleteMakesList ==
    ASSUME NEW bs, IsList(bs), NEW filters, IsList(filters)
    PROVE  IsList(delete_acls(bs, filters).bindings)
  <1> DEFINE S == ToSet(bs)
             N == Len(filters)
  <1>0. bs \in Seq(S) /\ N \in Nat
    BY DEF IsList
  <1> HIDE DEF S
  <1>1. PICK left : /\ Leaves(bs, filters, left)
                    /\ delete_acls(bs, filters) =
                           [bindings |-> left[N],
                            removed |-> [i \in 1..N |->
                                            Only(left[i - 1], Gone(left[i - 1], filters[i]))]]
    BY <1>0, DeleteLeaves, Zenon
  <1>2. delete_acls(bs, filters).bindings = left[N]
    BY <1>1
  <1> DEFINE G == {i \in 0..N : left[i] \in Seq(S)}
  <1>3. 0 \in G
    <2>1. 0 \in 0..N
      BY <1>0
    <2> QED
      BY <1>0, <1>1, <2>1, Zenon DEF Leaves
  <1>4. ASSUME NEW i \in 1..N, i - 1 \in G PROVE i \in G
    <2>1. i \in 0..N
      BY <1>0
    <2>2. left[i - 1] \in Seq(S) /\ left[i] = Rest(left[i - 1], filters[i])
      BY <1>1, <1>4, Zenon DEF Leaves
    <2>3. Rest(left[i - 1], filters[i]) \in Seq(S)
      BY <2>2, OnlyElements DEF Rest
    <2> QED
      BY <2>1, <2>2, <2>3, Zenon
  <1>5. left[N] \in Seq(S)
    <2>1. N \in 0..N
      BY <1>0
    <2>2. \A i \in 0..N : i \in G
      <3> HIDE DEF G, N
      <3> QED
        BY <1>0, <1>3, <1>4, UpTo, Zenon
    <2> QED
      BY <2>1, <2>2, Zenon
  <1> QED
    BY <1>2, <1>5, ListOf, Zenon

\* A filter deletes what it describes, and describes nothing afterwards.
LEMMA DeletesWhatItDescribes ==
    ASSUME NEW bs, IsList(bs), NEW f, NEW d, d = delete_acls(bs, <<f>>)
    PROVE  /\ d.removed[1] = describe_acls(bs, f)
           /\ describe_acls(d.bindings, f) = <<>>
           /\ ToSet(d.bindings) = ToSet(bs) \ ToSet(d.removed[1])
  <1> DEFINE S == ToSet(bs)
             fs == <<f>>
  <1>0. bs \in Seq(S) /\ Len(fs) = 1 /\ fs[1] = f /\ IsList(fs)
    BY DEF IsList, ToSet
  <1>1. PICK left : /\ Leaves(bs, fs, left)
                    /\ d = [bindings |-> left[Len(fs)],
                            removed |-> [i \in 1..Len(fs) |->
                                            Only(left[i - 1], Gone(left[i - 1], fs[i]))]]
    <2> HIDE DEF S, fs
    <2> QED
      BY <1>0, DeleteLeaves, Zenon DEF fs
  <1>2. left[0] = bs /\ left[1] = Rest(bs, f)
    <2>1. 1 \in 1..Len(fs) /\ 1 - 1 = 0
      BY <1>0
    <2> HIDE DEF fs
    <2>2. left[1] = Rest(left[1 - 1], fs[1])
      BY <1>1, <2>1, Zenon DEF Leaves
    <2> QED
      BY <1>0, <1>1, <2>1, <2>2, Zenon DEF Leaves
  <1>3. d.bindings = Rest(bs, f) /\ d.removed[1] = Only(bs, Gone(bs, f))
    <2> HIDE DEF fs
    <2>1. d.bindings = left[1] /\ d.removed[1] = Only(left[1 - 1], Gone(left[1 - 1], fs[1]))
      BY <1>0, <1>1
    <2>2. 1 - 1 = 0
      OBVIOUS
    <2> QED
      BY <1>0, <1>2, <2>1, <2>2, Zenon
  <1> HIDE DEF S
  <1>4. \A ds : {b \in ToSet(ds) : DescribeMatches(f, b)} = Gone(ds, f)
    BY Zenon DEF Gone, DescribeMatches, DeleteMatches
  <1>5. d.removed[1] = describe_acls(bs, f)
    BY <1>3, <1>4, Zenon DEF describe_acls
  <1>6. /\ ToSet(d.removed[1]) = ToSet(bs) \cap Gone(bs, f)
        /\ d.bindings \in Seq(S)
        /\ ToSet(d.bindings) = ToSet(bs) \cap (ToSet(bs) \ Gone(bs, f))
    <2> DEFINE taken == Gone(bs, f)
               rest == ToSet(bs) \ taken
    <2>1. d.bindings = Only(bs, rest) /\ d.removed[1] = Only(bs, taken)
      BY <1>3, Zenon DEF Rest
    <2> HIDE DEF taken, rest
    <2>2. \A kept : Only(bs, kept) \in Seq(S) /\ ToSet(Only(bs, kept)) = ToSet(bs) \cap kept
      BY <1>0, OnlyElements
    <2>3. /\ ToSet(d.removed[1]) = ToSet(bs) \cap taken
          /\ d.bindings \in Seq(S)
          /\ ToSet(d.bindings) = ToSet(bs) \cap rest
      BY <2>1, <2>2, Zenon
    <2> QED
      BY <2>3, Zenon DEF taken, rest
  <1>7. Gone(d.bindings, f) = {}
    BY <1>6, Zenon DEF Gone
  <1>8. describe_acls(d.bindings, f) = <<>>
    <2> DEFINE e == Only(d.bindings, {})
    <2>1. e \in Seq(S) /\ ToSet(e) = {}
      <3>1. \A kept : Only(d.bindings, kept) \in Seq(S)
                      /\ ToSet(Only(d.bindings, kept)) = ToSet(d.bindings) \cap kept
        BY <1>6, OnlyElements
      <3>2. ToSet(d.bindings) \cap {} = {}
        OBVIOUS
      <3> QED
        BY <3>1, <3>2, Zenon
    <2>2. describe_acls(d.bindings, f) = e
      BY <1>4, <1>7, Zenon DEF describe_acls
    <2> HIDE DEF e
    <2>3. e = <<>>
      BY <2>1 DEF ToSet
    <2> QED
      BY <2>2, <2>3, Zenon
  <1> QED
    BY <1>5, <1>6, <1>8, Zenon

------------------------------------------------------------------------------
(* Plans: what the needs of a group say of its calls.                       *)

\* The needs of a group: at most two.
FewNeeds(needs) ==
    \/ needs = <<>>
    \/ \E a : needs = <<a>>
    \/ \E a, b : needs = <<a, b>>

\* The group's needs are permissions its handler accepts for k; a call for the
\* names that were granted needs what granting them did.
Covered(api, needs, k) ==
    /\ ~OnGranted(k) => \/ Accepts(api, k) = {}
                        \/ needs # <<>> /\ ToSet(needs) \subseteq Accepts(api, k)
    /\ OnGranted(k) => \A n : Accepts(api, Call(k.op, n)) = Accepts(api, Call("grant", n))
    /\ k = Call(k.op, k.on)

GroupOK(api, g) == FewNeeds(g.needs) /\ \A k \in g.calls : Covered(api, g.needs, k)

PlanOK(api, P) == IsList(P) /\ \A i \in DOMAIN P : GroupOK(api, P[i])

\* A plan with one group for every element of a list.
Along(P, s) == P = [i \in DOMAIN s |-> P[i]]

LEMMA EachOK ==
    ASSUME NEW s, IsList(s), NEW api, NEW P, Along(P, s),
           \A i \in DOMAIN s : GroupOK(api, P[i])
    PROVE  PlanOK(api, P)
  <1>0. DOMAIN P = DOMAIN s
    BY Zenon DEF Along
  <1>1. DOMAIN s = 1..Len(s) /\ Len(s) \in Nat
    BY DEF IsList
  <1>2. \A i \in DOMAIN P : P[i] \in ToSet(P)
    BY DEF ToSet
  <1>3. P \in [1..Len(s) -> ToSet(P)]
    BY <1>0, <1>1, <1>2 DEF Along
  <1>4. IsList(P)
    BY <1>1, <1>3 DEF IsList
  <1> QED
    BY <1>0, <1>4, Zenon DEF PlanOK

LEMMA OneOK ==
    ASSUME NEW api, NEW g, GroupOK(api, g)
    PROVE  PlanOK(api, <<g>>)
  <1>1. IsList(<<g>>) /\ DOMAIN <<g>> = {1} /\ <<g>>[1] = g
    BY DEF IsList, ToSet
  <1> QED
    BY <1>1, Zenon DEF PlanOK

LEMMA MoreOK ==
    ASSUME NEW api, NEW P, PlanOK(api, P), NEW g, GroupOK(api, g)
    PROVE  PlanOK(api, Append(P, g)) /\ PlanOK(api, <<g>> \o P)
  <1> DEFINE N == Len(P)
             S == ToSet(P) \cup {g}
             A == Append(P, g)
             B == <<g>> \o P
  <1>1. P \in Seq(S) /\ g \in S
    BY DEF PlanOK, IsList
  <1>2. N \in Nat /\ DOMAIN P = 1..N /\ \A i \in 1..N : GroupOK(api, P[i])
    BY DEF PlanOK, IsList
  <1> HIDE DEF S
  <1>3. A \in Seq(S) /\ DOMAIN A = 1..(N + 1) /\ A[N + 1] = g /\ \A i \in 1..N : A[i] = P[i]
    BY <1>1
  <1>4. B \in Seq(S) /\ DOMAIN B = 1..(N + 1) /\ B[1] = g /\ \A i \in 2..(N + 1) : B[i] = P[i - 1]
    BY <1>1
  <1>5. IsList(A) /\ IsList(B)
    <2> HIDE DEF A, B
    <2> QED
      BY <1>3, <1>4, ListOf, Zenon
  <1> HIDE DEF A, B, N
  <1>6. \A i \in DOMAIN A : GroupOK(api, A[i])
    <2> SUFFICES ASSUME NEW i \in DOMAIN A PROVE GroupOK(api, A[i])
      OBVIOUS
    <2>1. A[i] = g \/ \E j \in 1..N : A[i] = P[j]
      <3>1. i \in 1..N \/ i = N + 1
        BY <1>2, <1>3
      <3> QED
        BY <1>3, <3>1, Zenon
    <2> QED
      BY <1>2, <2>1, Zenon
  <1>7. \A i \in DOMAIN B : GroupOK(api, B[i])
    <2> SUFFICES ASSUME NEW i \in DOMAIN B PROVE GroupOK(api, B[i])
      OBVIOUS
    <2>1. B[i] = g \/ \E j \in 1..N : B[i] = P[j]
      <3>1. i = 1 \/ (i \in 2..(N + 1) /\ i - 1 \in 1..N)
        BY <1>2, <1>4
      <3> QED
        BY <1>4, <3>1, Zenon
    <2> QED
      BY <1>2, <2>1, Zenon
  <1> QED
    BY <1>5, <1>6, <1>7, Zenon DEF PlanOK, A, B

\* A group with its calls.
LEMMA GroupIs ==
    ASSUME NEW api, NEW needs, NEW calls, FewNeeds(needs),
           \A k \in calls : Covered(api, needs, k)
    PROVE  GroupOK(api, Group(needs, calls))
  <1>1. Group(needs, calls).needs = needs /\ Group(needs, calls).calls = calls
    BY DEF Group
  <1> QED
    BY <1>1, Zenon DEF GroupOK

LEMMA FewOnes == FewNeeds(<<>>) /\ (\A a : FewNeeds(<<a>>)) /\ (\A a, b : FewNeeds(<<a, b>>))
  BY Zenon DEF FewNeeds

LEMMA CallIs == \A op, on : Call(op, on).op = op /\ Call(op, on).on = on
  BY DEF Call

\* A call that needs name, and one that requires nothing.
LEMMA CoveredBy ==
    ASSUME NEW api, NEW needs, NEW op, NEW on, op \notin {"describe_groups", "delete_groups"},
           \/ Accepts(api, Call(op, on)) = {}
           \/ needs # <<>> /\ ToSet(needs) \subseteq Accepts(api, Call(op, on))
    PROVE  Covered(api, needs, Call(op, on))
  <1>1. Call(op, on).op = op /\ Call(op, on).on = on
    BY CallIs, Zenon
  <1> QED
    BY <1>1, Zenon DEF Covered, OnGranted

LEMMA OneNeed == \A a : <<a>> # <<>> /\ ToSet(<<a>>) = {a}
  BY DEF ToSet

LEMMA TwoNeeds == \A a, b : <<a, b>> # <<>> /\ ToSet(<<a, b>>) = {a, b}
  BY DEF ToSet

\* A plan of one group, with one call and one need.
LEMMA SinglePlan ==
    ASSUME NEW api, NEW a, NEW op, NEW on, op \notin {"describe_groups", "delete_groups"},
           Accepts(api, Call(op, on)) = {a} \/ Accepts(api, Call(op, on)) = {}
    PROVE  PlanOK(api, <<Group(<<a>>, {Call(op, on)})>>)
  <1> DEFINE needs == <<a>>
             k == Call(op, on)
  <1>1. FewNeeds(needs) /\ needs # <<>> /\ ToSet(needs) = {a}
    BY FewOnes, OneNeed, Zenon
  <1> HIDE DEF needs
  <1>2. Covered(api, needs, k)
    BY <1>1, CoveredBy, Zenon
  <1>3. GroupOK(api, Group(needs, {k}))
    BY <1>1, <1>2, GroupIs, Zenon
  <1> QED
    BY <1>3, OneOK, Zenon DEF needs

\* The same with no need, for a call that requires nothing.
LEMMA FreePlan ==
    ASSUME NEW api, NEW op, NEW on, op \notin {"describe_groups", "delete_groups"},
           Accepts(api, Call(op, on)) = {}
    PROVE  PlanOK(api, <<Group(<<>>, {Call(op, on)})>>)
  <1> DEFINE needs == <<>>
             k == Call(op, on)
  <1>1. FewNeeds(needs)
    BY FewOnes, Zenon
  <1> HIDE DEF needs
  <1>2. Covered(api, needs, k)
    BY CoveredBy, Zenon
  <1>3. GroupOK(api, Group(needs, {k}))
    BY <1>1, <1>2, GroupIs, Zenon
  <1> QED
    BY <1>3, OneOK, Zenon DEF needs

\* A group with two needs and one call that asks for them.
LEMMA TwoNeedsGroup ==
    ASSUME NEW api, NEW a, NEW b, NEW calls,
           \A k \in calls : \E op, on : /\ k = Call(op, on)
                                        /\ op \notin {"describe_groups", "delete_groups"}
                                        /\ Accepts(api, k) = {a, b}
    PROVE  GroupOK(api, Group(<<a, b>>, calls))
  <1> DEFINE needs == <<a, b>>
  <1>1. FewNeeds(needs) /\ needs # <<>> /\ ToSet(needs) = {a, b}
    BY FewOnes, TwoNeeds, Zenon
  <1> HIDE DEF needs
  <1>2. ASSUME NEW k \in calls PROVE Covered(api, needs, k)
    <2>1. PICK op, on : /\ k = Call(op, on)
                        /\ op \notin {"describe_groups", "delete_groups"}
                        /\ Accepts(api, k) = {a, b}
      BY Zenon
    <2>2. ToSet(needs) \subseteq Accepts(api, Call(op, on))
      BY <1>1, <2>1, Zenon
    <2>3. Covered(api, needs, Call(op, on))
      BY <1>1, <2>1, <2>2, CoveredBy, Zenon
    <2> QED
      BY <2>1, <2>3, Zenon
  <1>3. GroupOK(api, Group(needs, calls))
    BY <1>1, <1>2, GroupIs, Zenon
  <1> QED
    BY <1>3, Zenon DEF needs

LEMMA OneNeedGroup ==
    ASSUME NEW api, NEW a, NEW calls,
           \A k \in calls : \E op, on : /\ k = Call(op, on)
                                        /\ op \notin {"describe_groups", "delete_groups"}
                                        /\ a \in Accepts(api, k)
    PROVE  GroupOK(api, Group(<<a>>, calls))
  <1> DEFINE needs == <<a>>
  <1>1. FewNeeds(needs) /\ needs # <<>> /\ ToSet(needs) = {a}
    BY FewOnes, OneNeed, Zenon
  <1> HIDE DEF needs
  <1>2. ASSUME NEW k \in calls PROVE Covered(api, needs, k)
    <2>1. PICK op, on : /\ k = Call(op, on)
                        /\ op \notin {"describe_groups", "delete_groups"}
                        /\ a \in Accepts(api, k)
      BY Zenon
    <2>2. ToSet(needs) \subseteq Accepts(api, Call(op, on))
      BY <1>1, <2>1, Zenon
    <2>3. Covered(api, needs, Call(op, on))
      BY <1>1, <2>1, <2>2, CoveredBy, Zenon
    <2> QED
      BY <2>1, <2>3, Zenon
  <1>3. GroupOK(api, Group(needs, calls))
    BY <1>1, <1>2, GroupIs, Zenon
  <1> QED
    BY <1>3, Zenon DEF needs

LEMMA FreeGroup ==
    ASSUME NEW api, NEW calls,
           \A k \in calls : \E op, on : /\ k = Call(op, on)
                                        /\ op \notin {"describe_groups", "delete_groups"}
                                        /\ Accepts(api, k) = {}
    PROVE  GroupOK(api, Group(<<>>, calls))
  <1> DEFINE needs == <<>>
  <1>1. FewNeeds(needs)
    BY FewOnes, Zenon
  <1> HIDE DEF needs
  <1>2. ASSUME NEW k \in calls PROVE Covered(api, needs, k)
    <2>1. PICK op, on : /\ k = Call(op, on)
                        /\ op \notin {"describe_groups", "delete_groups"}
                        /\ Accepts(api, k) = {}
      BY Zenon
    <2>2. Accepts(api, Call(op, on)) = {}
      BY <2>1, Zenon
    <2>3. Covered(api, needs, Call(op, on))
      BY <2>1, <2>2, CoveredBy, Zenon
    <2> QED
      BY <2>1, <2>3, Zenon
  <1>3. GroupOK(api, Group(needs, calls))
    BY <1>1, <1>2, GroupIs, Zenon
  <1> QED
    BY <1>3, Zenon DEF needs

\* The plans of the requests over topics.
LEMMA ListOffsetsOK ==
    ASSUME NEW r, IsList(r.topics)
    PROVE  PlanOK("ListOffsets", ListOffsets(r))
  <1> DEFINE s == r.topics
             P == ListOffsets(r)
             G(t) == Group(<<OnTopic(t, "Describe")>>, {Call("list_offsets", t)})
  <1>1. P = [i \in DOMAIN s |-> G(s[i])]
    BY Zenon DEF ListOffsets, ForEach
  <1>2. ASSUME NEW t PROVE GroupOK("ListOffsets", G(t))
    <2>1. Accepts("ListOffsets", Call("list_offsets", t)) = {OnTopic(t, "Describe")}
      BY DEF Accepts, NeverAsks, AlsoAccepts, Requires, Call
    <2> QED
      BY <2>1, OneNeedGroup, Zenon
  <1> HIDE DEF G, P, s
  <1>3. Along(P, s) /\ \A i \in DOMAIN s : GroupOK("ListOffsets", P[i])
    BY <1>1, <1>2, Zenon DEF Along
  <1> QED
    BY <1>3, EachOK, Zenon DEF P, s

LEMMA CreateTopicsOK ==
    ASSUME NEW r, IsList(r.topics)
    PROVE  PlanOK("CreateTopics", CreateTopics(r))
  <1> DEFINE s == r.topics
             P == CreateTopics(r)
             G(t) == Group(<<OnTopic(t, "Create"), OnCluster("Create")>>,
                           IF r.validate_only THEN {} ELSE {Call("create_topic", t)})
  <1>1. P = [i \in DOMAIN s |-> G(s[i])]
    BY Zenon DEF CreateTopics, ForEach
  <1>2. ASSUME NEW t PROVE GroupOK("CreateTopics", G(t))
    <2>1. Accepts("CreateTopics", Call("create_topic", t)) = {OnTopic(t, "Create"), OnCluster("Create")}
      BY DEF Accepts, NeverAsks, AlsoAccepts, Requires, Call
    <2> QED
      BY <2>1, TwoNeedsGroup, Zenon
  <1> HIDE DEF G, P, s
  <1>3. Along(P, s) /\ \A i \in DOMAIN s : GroupOK("CreateTopics", P[i])
    BY <1>1, <1>2, Zenon DEF Along
  <1> QED
    BY <1>3, EachOK, Zenon DEF P, s

LEMMA DeleteTopicsOK ==
    ASSUME NEW r, IsList(r.topics)
    PROVE  PlanOK("DeleteTopics", DeleteTopics(r))
  <1> DEFINE s == r.topics
             P == DeleteTopics(r)
             G(t) == Group(<<OnTopic(t, "Delete"), OnCluster("Delete")>>, {Call("delete_topic", t)})
  <1>1. P = [i \in DOMAIN s |-> G(s[i])]
    BY Zenon DEF DeleteTopics, ForEach
  <1>2. ASSUME NEW t PROVE GroupOK("DeleteTopics", G(t))
    <2>1. Accepts("DeleteTopics", Call("delete_topic", t)) = {OnTopic(t, "Delete"), OnCluster("Delete")}
      BY DEF Accepts, NeverAsks, AlsoAccepts, Requires, Call
    <2> QED
      BY <2>1, TwoNeedsGroup, Zenon
  <1> HIDE DEF G, P, s
  <1>3. Along(P, s) /\ \A i \in DOMAIN s : GroupOK("DeleteTopics", P[i])
    BY <1>1, <1>2, Zenon DEF Along
  <1> QED
    BY <1>3, EachOK, Zenon DEF P, s

LEMMA DeleteRecordsOK ==
    ASSUME NEW r, IsList(r.topics)
    PROVE  PlanOK("DeleteRecords", DeleteRecords(r))
  <1> DEFINE s == r.topics
             P == DeleteRecords(r)
             G(t) == Group(<<OnTopic(t, "Delete"), OnCluster("Delete")>>, {Call("delete_records", t)})
  <1>1. P = [i \in DOMAIN s |-> G(s[i])]
    BY Zenon DEF DeleteRecords, ForEach
  <1>2. ASSUME NEW t PROVE GroupOK("DeleteRecords", G(t))
    <2>1. Accepts("DeleteRecords", Call("delete_records", t)) = {OnTopic(t, "Delete"), OnCluster("Delete")}
      BY DEF Accepts, NeverAsks, AlsoAccepts, Requires, Call
    <2> QED
      BY <2>1, TwoNeedsGroup, Zenon
  <1> HIDE DEF G, P, s
  <1>3. Along(P, s) /\ \A i \in DOMAIN s : GroupOK("DeleteRecords", P[i])
    BY <1>1, <1>2, Zenon DEF Along
  <1> QED
    BY <1>3, EachOK, Zenon DEF P, s

LEMMA CreatePartitionsOK ==
    ASSUME NEW r, IsList(r.topics)
    PROVE  PlanOK("CreatePartitions", CreatePartitions(r))
  <1> DEFINE s == r.topics
             P == CreatePartitions(r)
             G(t) == Group(<<OnTopic(t, "Alter"), OnCluster("Alter")>>, {Call("create_partitions", t)})
  <1>1. P = [i \in DOMAIN s |-> G(s[i])]
    BY Zenon DEF CreatePartitions, ForEach
  <1>2. ASSUME NEW t PROVE GroupOK("CreatePartitions", G(t))
    <2>1. Accepts("CreatePartitions", Call("create_partitions", t)) =
              {OnTopic(t, "Alter"), OnCluster("Alter")}
      BY DEF Accepts, NeverAsks, AlsoAccepts, Requires, Call
    <2> QED
      BY <2>1, TwoNeedsGroup, Zenon
  <1> HIDE DEF G, P, s
  <1>3. Along(P, s) /\ \A i \in DOMAIN s : GroupOK("CreatePartitions", P[i])
    BY <1>1, <1>2, Zenon DEF Along
  <1> QED
    BY <1>3, EachOK, Zenon DEF P, s

DataOps == {"get_or_create_partition", "append_records", "read_records"}

LEMMA DataNeeds ==
    ASSUME NEW k, k.op \in DataOps
    PROVE  /\ Accepts("Produce", k) = {OnTopic(k.on[1], "Write")}
           /\ Accepts("Fetch", k) = {OnTopic(k.on[1], "Read")}
  <1>1. k.op \notin {"show_partitions", "list_offsets", "find_coordinator"}
    BY DEF DataOps
  <1> DEFINE a == {OnTopic(k.on[1], "Write")}
             b == {OnTopic(k.on[1], "Read")}
  <1> HIDE DEF a, b
  <1>2. Accepts("Produce", k) = a
    BY <1>1 DEF Accepts, NeverAsks, AlsoAccepts, Requires, a
  <1>3. Accepts("Fetch", k) = b
    BY <1>1 DEF Accepts, NeverAsks, AlsoAccepts, Requires, b
  <1> QED
    BY <1>2, <1>3, Zenon DEF a, b

LEMMA ProduceOK ==
    ASSUME NEW r, NEW fault, IsList(r.topics)
    PROVE  PlanOK("Produce", Produce(r, fault))
  <1> DEFINE s == r.topics
             P == Produce(r, fault)
             Stored(p) == ~fault /\ p \in {"good"} \cup IF SchemaValidation THEN {} ELSE {"invalid"}
             calls(t) == [op : {"get_or_create_partition"}, on : {t.name} \X DOMAIN t.partitions]
                         \cup {Call("append_records", <<t.name, i>>) :
                                  i \in {j \in DOMAIN t.partitions : Stored(t.partitions[j])}}
             G(t) == Group(<<OnTopic(t.name, "Write")>>, calls(t))
  <1>1. P = [i \in DOMAIN s |-> G(s[i])]
    BY Zenon DEF Produce, ForEach
  <1>2. ASSUME NEW t PROVE GroupOK("Produce", G(t))
    <2>1. ASSUME NEW k \in calls(t)
          PROVE  \E op, on : /\ k = Call(op, on)
                             /\ op \notin {"describe_groups", "delete_groups"}
                             /\ OnTopic(t.name, "Write") \in Accepts("Produce", k)
      <3>1. \E i : \/ k = Call("get_or_create_partition", <<t.name, i>>)
                   \/ k = Call("append_records", <<t.name, i>>)
        <4>1. CASE k \in [op : {"get_or_create_partition"}, on : {t.name} \X DOMAIN t.partitions]
          <5>1. k = [op |-> k.op, on |-> k.on] /\ k.op = "get_or_create_partition"
                /\ k.on \in {t.name} \X DOMAIN t.partitions
            BY <4>1
          <5>2. \E i : k.on = <<t.name, i>>
            BY <5>1
          <5> QED
            BY <5>1, <5>2, Zenon DEF Call
        <4>2. CASE \E i \in DOMAIN t.partitions : k = Call("append_records", <<t.name, i>>)
          BY <4>2, Zenon
        <4> HIDE DEF Stored
        <4> QED
          BY <4>1, <4>2, Zenon
      <3> HIDE DEF calls, Stored
      <3>2. PICK i : \/ k = Call("get_or_create_partition", <<t.name, i>>)
                     \/ k = Call("append_records", <<t.name, i>>)
        BY <3>1, Zenon
      <3>3. k.on[1] = t.name
        BY <3>2 DEF Call
      <3>4. OnTopic(t.name, "Write") \in Accepts("Produce", k)
        <4>0. k.op \in DataOps
          BY <3>2 DEF Call, DataOps
        <4>1. Accepts("Produce", k) = {OnTopic(k.on[1], "Write")}
          BY <4>0, DataNeeds, Zenon
        <4> QED
          BY <3>3, <4>1, Zenon
      <3>5. {"get_or_create_partition", "append_records"} \cap {"describe_groups", "delete_groups"} = {}
        OBVIOUS
      <3> QED
        BY <3>2, <3>4, <3>5, Zenon
    <2> HIDE DEF calls
    <2> QED
      BY <2>1, OneNeedGroup, Zenon
  <1> HIDE DEF G, P, s
  <1>3. Along(P, s) /\ \A i \in DOMAIN s : GroupOK("Produce", P[i])
    BY <1>1, <1>2, Zenon DEF Along
  <1> QED
    BY <1>3, EachOK, Zenon DEF P, s

LEMMA FetchOK ==
    ASSUME NEW r, NEW fault, IsList(r.topics)
    PROVE  PlanOK("Fetch", Fetch(r, fault))
  <1> DEFINE s == r.topics
             P == Fetch(r, fault)
             Ops == {"get_or_create_partition"} \cup IF fault THEN {} ELSE {"read_records"}
             calls(t) == [op : Ops, on : {t.name} \X (1 .. t.partitions)]
             G(t) == Group(<<OnTopic(t.name, "Read")>>, calls(t))
  <1>1. P = [i \in DOMAIN s |-> G(s[i])]
    BY Zenon DEF Fetch, ForEach
  <1>2. ASSUME NEW t PROVE GroupOK("Fetch", G(t))
    <2>1. ASSUME NEW k \in calls(t)
          PROVE  \E op, on : /\ k = Call(op, on)
                             /\ op \notin {"describe_groups", "delete_groups"}
                             /\ OnTopic(t.name, "Read") \in Accepts("Fetch", k)
      <3>1. k = [op |-> k.op, on |-> k.on] /\ k.on \in {t.name} \X (1 .. t.partitions)
            /\ k.op \in Ops
        <4> HIDE DEF Ops
        <4> QED
          OBVIOUS
      <3>2. k.op \notin {"describe_groups", "delete_groups"}
        BY <3>1
      <3>3. k.on[1] = t.name
        BY <3>1
      <3>4. OnTopic(t.name, "Read") \in Accepts("Fetch", k)
        <4>0. k.op \in DataOps
          BY <3>1 DEF DataOps
        <4>1. Accepts("Fetch", k) = {OnTopic(k.on[1], "Read")}
          BY <4>0, DataNeeds, Zenon
        <4> QED
          BY <3>3, <4>1, Zenon
      <3>5. k = Call(k.op, k.on)
        BY <3>1, Zenon DEF Call
      <3> QED
        BY <3>2, <3>4, <3>5, Zenon
    <2> HIDE DEF calls
    <2> QED
      BY <2>1, OneNeedGroup, Zenon
  <1> HIDE DEF G, P, s
  <1>3. Along(P, s) /\ \A i \in DOMAIN s : GroupOK("Fetch", P[i])
    BY <1>1, <1>2, Zenon DEF Along
  <1> QED
    BY <1>3, EachOK, Zenon DEF P, s

LEMMA MetadataOK ==
    ASSUME NEW r, IsList(r.topics)
    PROVE  PlanOK("Metadata", Metadata(r))
  <1> DEFINE s == r.topics
             G(t) == Group(<<OnTopic(t, "Describe")>>, {Call("show_partitions", t)})
             Q == [i \in DOMAIN s |-> G(s[i])]
             calls == IF r.auto_create THEN {Call("auto_create", t) : t \in ToSet(s)} ELSE {}
             first == Group(<<>>, calls)
  <1>1. Metadata(r) = <<first>> \o Q
    BY Zenon DEF Metadata, ForEach
  <1>2. ASSUME NEW t PROVE GroupOK("Metadata", G(t))
    <2>1. Accepts("Metadata", Call("show_partitions", t)) = {OnTopic(t, "Describe")}
      BY DEF Accepts, NeverAsks, AlsoAccepts, Requires, Call
    <2> QED
      BY <2>1, OneNeedGroup, Zenon
  <1>3. GroupOK("Metadata", first)
    <2>1. \A t : Accepts("Metadata", Call("auto_create", t)) = {}
      BY DEF Accepts, NeverAsks, AlsoAccepts, Requires, Call
    <2> QED
      BY <2>1, FreeGroup, Zenon
  <1> HIDE DEF G, first, s
  <1>4. Along(Q, s) /\ \A i \in DOMAIN s : GroupOK("Metadata", Q[i])
    BY <1>2, Zenon DEF Along
  <1> HIDE DEF Q
  <1>5. PlanOK("Metadata", Q)
    BY <1>4, EachOK, Zenon DEF s
  <1>6. PlanOK("Metadata", <<first>> \o Q)
    BY <1>3, <1>5, MoreOK, Zenon
  <1> QED
    BY <1>1, <1>6, Zenon

\* The needs of a configuration resource cover the call for it.
LEMMA ConfigGroup ==
    ASSUME NEW api \in {"DescribeConfigs", "AlterConfigs"}, NEW res, NEW calls,
           \A k \in calls :
               \/ res.type = 2 /\ k = Call("describe_topic_configs", res.name)
               \/ res.type = 2 /\ k = Call("update_topic_configs", res.name)
               \/ res.type = 4 /\ k = Call("describe_broker_configs", ClusterName)
    PROVE  GroupOK(api, Group(ConfigNeeds(res, api), calls))
  <1>1. \A n : /\ Accepts(api, Call("describe_topic_configs", n)) = {OnTopic(n, api), OnCluster(api)}
               /\ Accepts(api, Call("update_topic_configs", n)) = {OnTopic(n, api), OnCluster(api)}
               /\ OnCluster(api) \in Accepts(api, Call("describe_broker_configs", n))
    <2> SUFFICES ASSUME NEW n
                 PROVE  /\ Accepts(api, Call("describe_topic_configs", n)) = {OnTopic(n, api), OnCluster(api)}
                        /\ Accepts(api, Call("update_topic_configs", n)) = {OnTopic(n, api), OnCluster(api)}
                        /\ OnCluster(api) \in Accepts(api, Call("describe_broker_configs", n))
      BY Zenon
    <2> DEFINE a == OnTopic(n, api)
               b == OnCluster(api)
    <2> HIDE DEF a, b
    <2>1. ASSUME NEW op PROVE Accepts(api, Call(op, n)) = Requires(api, Call(op, n)) \cup {b}
      BY DEF Accepts, NeverAsks, AlsoAccepts, b
    <2>2. ASSUME NEW op \in {"describe_topic_configs", "update_topic_configs"}
          PROVE  Requires(api, Call(op, n)) = {a}
      BY DEF Requires, Call, a
    <2>3. "describe_topic_configs" \in {"describe_topic_configs", "update_topic_configs"}
          /\ "update_topic_configs" \in {"describe_topic_configs", "update_topic_configs"}
      OBVIOUS
    <2>4. {a} \cup {b} = {a, b}
      BY Zenon
    <2>5. /\ Accepts(api, Call("describe_topic_configs", n)) = {a, b}
          /\ Accepts(api, Call("update_topic_configs", n)) = {a, b}
      BY <2>1, <2>2, <2>3, <2>4, Zenon
    <2>6. b \in Accepts(api, Call("describe_broker_configs", n))
      BY <2>1, Zenon
    <2> QED
      BY <2>5, <2>6, Zenon DEF a, b
  <1>2. CASE res.type = 2
    <2>1. ConfigNeeds(res, api) = <<OnTopic(res.name, api), OnCluster(api)>>
      BY <1>2 DEF ConfigNeeds
    <2>2. \A k \in calls : \E op, on : /\ k = Call(op, on)
                                       /\ op \notin {"describe_groups", "delete_groups"}
                                       /\ Accepts(api, k) = {OnTopic(res.name, api), OnCluster(api)}
      <3>1. \A k \in calls : \/ k = Call("describe_topic_configs", res.name)
                             \/ k = Call("update_topic_configs", res.name)
        BY <1>2
      <3>2. {"describe_topic_configs", "update_topic_configs"} \cap {"describe_groups", "delete_groups"} = {}
        OBVIOUS
      <3> QED
        BY <1>1, <3>1, <3>2, Zenon
    <2>3. GroupOK(api, Group(<<OnTopic(res.name, api), OnCluster(api)>>, calls))
      BY <2>2, TwoNeedsGroup, Zenon
    <2> QED
      BY <2>1, <2>3, Zenon
  <1>3. CASE res.type = 4
    <2>1. ConfigNeeds(res, api) = <<OnCluster(api)>>
      BY <1>3 DEF ConfigNeeds
    <2>2. \A k \in calls : \E op, on : /\ k = Call(op, on)
                                       /\ op \notin {"describe_groups", "delete_groups"}
                                       /\ OnCluster(api) \in Accepts(api, k)
      <3>1. \A k \in calls : k = Call("describe_broker_configs", ClusterName)
        BY <1>3
      <3> QED
        BY <1>1, <3>1, Zenon
    <2>3. GroupOK(api, Group(<<OnCluster(api)>>, calls))
      BY <2>2, OneNeedGroup, Zenon
    <2> QED
      BY <2>1, <2>3, Zenon
  <1>4. CASE res.type # 2 /\ res.type # 4
    <2>1. ConfigNeeds(res, api) = <<>>
      BY <1>4 DEF ConfigNeeds
    <2>2. GroupOK(api, Group(<<>>, calls))
      BY <1>4, FreeGroup, Zenon
    <2> QED
      BY <2>1, <2>2, Zenon
  <1> QED
    BY <1>2, <1>3, <1>4, Zenon

LEMMA DescribeConfigsOK ==
    ASSUME NEW r, IsList(r.resources)
    PROVE  PlanOK("DescribeConfigs", DescribeConfigs(r))
  <1> DEFINE s == r.resources
             P == DescribeConfigs(r)
             calls(res) == CASE res.type = 2 -> {Call("describe_topic_configs", res.name)}
                             [] res.type = 4 -> {Call("describe_broker_configs", ClusterName)}
                             [] OTHER -> {}
             G(res) == Group(ConfigNeeds(res, "DescribeConfigs"), calls(res))
  <1>1. P = [i \in DOMAIN s |-> G(s[i])]
    BY Zenon DEF DescribeConfigs, ForEach
  <1>2. ASSUME NEW res PROVE GroupOK("DescribeConfigs", G(res))
    <2> DEFINE a == Call("describe_topic_configs", res.name)
               b == Call("describe_broker_configs", ClusterName)
    <2> HIDE DEF a, b
    <2>1. calls(res) = CASE res.type = 2 -> {a} [] res.type = 4 -> {b} [] OTHER -> {}
      BY Zenon DEF a, b
    <2> HIDE DEF calls
    <2>2. \A k \in calls(res) : (res.type = 2 /\ k = a) \/ (res.type = 4 /\ k = b)
      BY <2>1
    <2>3. "DescribeConfigs" \in {"DescribeConfigs", "AlterConfigs"}
      OBVIOUS
    <2> QED
      BY <2>2, <2>3, ConfigGroup, Zenon DEF a, b
  <1> HIDE DEF G, P, s
  <1>3. Along(P, s) /\ \A i \in DOMAIN s : GroupOK("DescribeConfigs", P[i])
    BY <1>1, <1>2, Zenon DEF Along
  <1> QED
    BY <1>3, EachOK, Zenon DEF P, s

LEMMA AlterConfigsOK ==
    ASSUME NEW r, IsList(r.resources)
    PROVE  PlanOK("AlterConfigs", AlterConfigs(r))
  <1> DEFINE s == r.resources
             P == AlterConfigs(r)
             calls(res) == IF res.type = 2 /\ ~r.validate_only
                           THEN {Call("update_topic_configs", res.name)} ELSE {}
             G(res) == Group(ConfigNeeds(res, "AlterConfigs"), calls(res))
  <1>1. P = [i \in DOMAIN s |-> G(s[i])]
    BY Zenon DEF AlterConfigs, ForEach
  <1>2. ASSUME NEW res PROVE GroupOK("AlterConfigs", G(res))
    <2>1. \A k \in calls(res) : res.type = 2 /\ k = Call("update_topic_configs", res.name)
      BY Zenon
    <2>2. "AlterConfigs" \in {"DescribeConfigs", "AlterConfigs"}
      OBVIOUS
    <2> HIDE DEF calls
    <2> QED
      BY <2>1, <2>2, ConfigGroup, Zenon
  <1> HIDE DEF G, P, s
  <1>3. Along(P, s) /\ \A i \in DOMAIN s : GroupOK("AlterConfigs", P[i])
    BY <1>1, <1>2, Zenon DEF Along
  <1> QED
    BY <1>3, EachOK, Zenon DEF P, s

\* One call for the names that were granted.
LEMMA GrantedGroup ==
    ASSUME NEW api \in OverGroups, NEW op \in {"describe_groups", "delete_groups"}
    PROVE  GroupOK(api, Group(<<>>, {Call(op, <<>>)}))
  <1> DEFINE k == Call(op, <<>>)
             none == <<>>
  <1>1. k.op = op /\ k.on = none
    BY CallIs, Zenon
  <1>2. \A n : Accepts(api, Call(op, n)) = Accepts(api, Call("grant", n))
    <2>1. CASE api = "DescribeGroups"
      BY <2>1 DEF Accepts, NeverAsks, AlsoAccepts, Requires, Call
    <2>2. CASE api = "DeleteGroups"
      BY <2>2 DEF Accepts, NeverAsks, AlsoAccepts, Requires, Call
    <2> QED
      BY <2>1, <2>2 DEF OverGroups
  <1>3. FewNeeds(none)
    BY FewOnes, Zenon
  <1>k. k = Call(op, none)
    OBVIOUS
  <1> HIDE DEF none, k
  <1>4. Covered(api, none, k)
    <2>1. OnGranted(k)
      BY <1>1, Zenon DEF OnGranted
    <2>2. k = Call(k.op, k.on)
      BY <1>k, <1>1, Zenon
    <2>3. \A n : Accepts(api, Call(k.op, n)) = Accepts(api, Call("grant", n))
      BY <1>1, <1>2, Zenon
    <2> QED
      BY <2>1, <2>2, <2>3, Zenon DEF Covered
  <1>5. GroupOK(api, Group(none, {k}))
    BY <1>3, <1>4, GroupIs, Zenon
  <1> QED
    BY <1>5, Zenon DEF none, k

LEMMA DescribeGroupsOK ==
    ASSUME NEW r, IsList(r.groups)
    PROVE  PlanOK("DescribeGroups", DescribeGroups(r))
  <1> DEFINE s == r.groups
             G(g) == Group(<<OnGroup(g, "Describe"), OnCluster("Describe")>>, {Call("grant", g)})
             Q == [i \in DOMAIN s |-> G(s[i])]
             last == Group(<<>>, {Call("describe_groups", <<>>)})
  <1>1. DescribeGroups(r) = Append(Q, last)
    BY Zenon DEF DescribeGroups, ForEach
  <1>2. ASSUME NEW g PROVE GroupOK("DescribeGroups", G(g))
    <2>1. Accepts("DescribeGroups", Call("grant", g)) = {OnGroup(g, "Describe"), OnCluster("Describe")}
      BY DEF Accepts, NeverAsks, AlsoAccepts, Requires, Call
    <2> QED
      BY <2>1, TwoNeedsGroup, Zenon
  <1>3. GroupOK("DescribeGroups", last)
    <2>1. "DescribeGroups" \in OverGroups /\ "describe_groups" \in {"describe_groups", "delete_groups"}
      BY DEF OverGroups
    <2> QED
      BY <2>1, GrantedGroup, Zenon
  <1> HIDE DEF G, last, s
  <1>4. Along(Q, s) /\ \A i \in DOMAIN s : GroupOK("DescribeGroups", Q[i])
    BY <1>2, Zenon DEF Along
  <1> HIDE DEF Q
  <1>5. PlanOK("DescribeGroups", Q)
    BY <1>4, EachOK, Zenon DEF s
  <1>6. PlanOK("DescribeGroups", Append(Q, last))
    BY <1>3, <1>5, MoreOK, Zenon
  <1> QED
    BY <1>1, <1>6, Zenon

LEMMA DeleteGroupsOK ==
    ASSUME NEW r, IsList(r.groups)
    PROVE  PlanOK("DeleteGroups", DeleteGroups(r))
  <1> DEFINE s == r.groups
             G(g) == Group(<<OnGroup(g, "Delete"), OnCluster("Delete")>>, {Call("grant", g)})
             Q == [i \in DOMAIN s |-> G(s[i])]
             last == Group(<<>>, {Call("delete_groups", <<>>)})
  <1>1. DeleteGroups(r) = Append(Q, last)
    BY Zenon DEF DeleteGroups, ForEach
  <1>2. ASSUME NEW g PROVE GroupOK("DeleteGroups", G(g))
    <2>1. Accepts("DeleteGroups", Call("grant", g)) = {OnGroup(g, "Delete"), OnCluster("Delete")}
      BY DEF Accepts, NeverAsks, AlsoAccepts, Requires, Call
    <2> QED
      BY <2>1, TwoNeedsGroup, Zenon
  <1>3. GroupOK("DeleteGroups", last)
    <2>1. "DeleteGroups" \in OverGroups /\ "delete_groups" \in {"describe_groups", "delete_groups"}
      BY DEF OverGroups
    <2> QED
      BY <2>1, GrantedGroup, Zenon
  <1> HIDE DEF G, last, s
  <1>4. Along(Q, s) /\ \A i \in DOMAIN s : GroupOK("DeleteGroups", Q[i])
    BY <1>2, Zenon DEF Along
  <1> HIDE DEF Q
  <1>5. PlanOK("DeleteGroups", Q)
    BY <1>4, EachOK, Zenon DEF s
  <1>6. PlanOK("DeleteGroups", Append(Q, last))
    BY <1>3, <1>5, MoreOK, Zenon
  <1> QED
    BY <1>1, <1>6, Zenon

\* The requests with one check and one call.
LEMMA SinglesOK ==
    ASSUME NEW r
    PROVE  /\ PlanOK("OffsetFetch", OffsetFetch(r))
           /\ PlanOK("Heartbeat", Heartbeat(r))
           /\ PlanOK("LeaveGroup", LeaveGroup(r))
           /\ PlanOK("AddPartitionsToTxn", AddPartitionsToTxn(r))
           /\ PlanOK("AddOffsetsToTxn", AddOffsetsToTxn(r))
           /\ PlanOK("EndTxn", EndTxn(r))
           /\ PlanOK("DescribeAcls", DescribeAcls(r))
           /\ PlanOK("CreateAcls", CreateAcls(r))
           /\ PlanOK("DeleteAcls", DeleteAcls(r))
           /\ PlanOK("ListGroups", ListGroups(r))
  <1>1. PlanOK("OffsetFetch", OffsetFetch(r))
    <2>1. \A on : Accepts("OffsetFetch", Call("fetch_offset", on)) = {OnGroup(on, "Describe")}
      BY DEF Accepts, NeverAsks, AlsoAccepts, Requires, Call
    <2>2. PlanOK("OffsetFetch", <<Group(<<OnGroup(r.group, "Describe")>>, {Call("fetch_offset", r.group)})>>)
      BY <2>1, SinglePlan, Zenon
    <2> QED
      BY <2>2, Zenon DEF OffsetFetch
  <1>2. PlanOK("Heartbeat", Heartbeat(r))
    <2>1. \A on : Accepts("Heartbeat", Call("handle_heartbeat", on)) = {OnGroup(on, "Read")}
      BY DEF Accepts, NeverAsks, AlsoAccepts, Requires, Call
    <2>2. PlanOK("Heartbeat", <<Group(<<OnGroup(r.group, "Read")>>, {Call("handle_heartbeat", r.group)})>>)
      BY <2>1, SinglePlan, Zenon
    <2> QED
      BY <2>2, Zenon DEF Heartbeat
  <1>3. PlanOK("LeaveGroup", LeaveGroup(r))
    <2>1. \A on : Accepts("LeaveGroup", Call("handle_leave_group", on)) = {OnGroup(on, "Read")}
      BY DEF Accepts, NeverAsks, AlsoAccepts, Requires, Call
    <2>2. PlanOK("LeaveGroup", <<Group(<<OnGroup(r.group, "Read")>>, {Call("handle_leave_group", r.group)})>>)
      BY <2>1, SinglePlan, Zenon
    <2> QED
      BY <2>2, Zenon DEF LeaveGroup
  <1>4. PlanOK("AddPartitionsToTxn", AddPartitionsToTxn(r))
    <2>1. \A on : \/ Accepts("AddPartitionsToTxn", Call("add_partitions", on)) = {OnTxn(on, "Write")}
                    \/ Accepts("AddPartitionsToTxn", Call("add_partitions", on)) = {}
      BY DEF Accepts, NeverAsks, AlsoAccepts, Requires, Call
    <2>2. PlanOK("AddPartitionsToTxn", <<Group(<<OnTxn(r.txn, "Write")>>, {Call("add_partitions", r.txn)})>>)
      BY <2>1, SinglePlan, Zenon
    <2> QED
      BY <2>2, Zenon DEF AddPartitionsToTxn
  <1>5. PlanOK("AddOffsetsToTxn", AddOffsetsToTxn(r))
    <2>1. \A on : \/ Accepts("AddOffsetsToTxn", Call("add_offsets", on)) = {OnTxn(on, "Write")}
                    \/ Accepts("AddOffsetsToTxn", Call("add_offsets", on)) = {}
      BY DEF Accepts, NeverAsks, AlsoAccepts, Requires, Call
    <2>2. PlanOK("AddOffsetsToTxn", <<Group(<<OnTxn(r.txn, "Write")>>, {Call("add_offsets", r.txn)})>>)
      BY <2>1, SinglePlan, Zenon
    <2> QED
      BY <2>2, Zenon DEF AddOffsetsToTxn
  <1>6. PlanOK("EndTxn", EndTxn(r))
    <2>1. \A on : \/ Accepts("EndTxn", Call("end_txn", on)) = {OnTxn(on, "Write")}
                    \/ Accepts("EndTxn", Call("end_txn", on)) = {}
      BY DEF Accepts, NeverAsks, AlsoAccepts, Requires, Call
    <2>2. PlanOK("EndTxn", <<Group(<<OnTxn(r.txn, "Write")>>, {Call("end_txn", r.txn)})>>)
      BY <2>1, SinglePlan, Zenon
    <2> QED
      BY <2>2, Zenon DEF EndTxn
  <1>7. PlanOK("DescribeAcls", DescribeAcls(r))
    <2>1. \A on : Accepts("DescribeAcls", Call("describe_acls", on)) = {OnCluster("Describe")}
      BY DEF Accepts, NeverAsks, AlsoAccepts, Requires, Call
    <2>2. PlanOK("DescribeAcls", <<Group(<<OnCluster("Describe")>>, {Call("describe_acls", r.filter)})>>)
      BY <2>1, SinglePlan, Zenon
    <2> QED
      BY <2>2, Zenon DEF DescribeAcls
  <1>8. PlanOK("CreateAcls", CreateAcls(r))
    <2>1. \A on : Accepts("CreateAcls", Call("create_acls", on)) = {OnCluster("Alter")}
      BY DEF Accepts, NeverAsks, AlsoAccepts, Requires, Call
    <2>2. PlanOK("CreateAcls", <<Group(<<OnCluster("Alter")>>, {Call("create_acls", r.creations)})>>)
      BY <2>1, SinglePlan, Zenon
    <2> QED
      BY <2>2, Zenon DEF CreateAcls
  <1>9. PlanOK("DeleteAcls", DeleteAcls(r))
    <2>1. \A on : Accepts("DeleteAcls", Call("delete_acls", on)) = {OnCluster("Alter")}
      BY DEF Accepts, NeverAsks, AlsoAccepts, Requires, Call
    <2>2. PlanOK("DeleteAcls", <<Group(<<OnCluster("Alter")>>, {Call("delete_acls", r.filters)})>>)
      BY <2>1, SinglePlan, Zenon
    <2> QED
      BY <2>2, Zenon DEF DeleteAcls
  <1>10. PlanOK("ListGroups", ListGroups(r))
    <2>1. \A on : Accepts("ListGroups", Call("list_groups", on)) = {OnCluster("Describe")}
      BY DEF Accepts, NeverAsks, AlsoAccepts, Requires, Call
    <2>2. PlanOK("ListGroups", <<Group(<<OnCluster("Describe")>>, {Call("list_groups", ClusterName)})>>)
      BY <2>1, SinglePlan, Zenon
    <2> QED
      BY <2>2, Zenon DEF ListGroups
  <1> QED
    BY <1>1, <1>2, <1>3, <1>4, <1>5, <1>6, <1>7, <1>8, <1>9, <1>10, Zenon

LEMMA OffsetCommitOK ==
    ASSUME NEW r
    PROVE  PlanOK("OffsetCommit", OffsetCommit(r))
  <1> DEFINE a == OnGroup(r.group, "Read")
             calls == {Call("commit_offset", r.group) : i \in 1 .. r.partitions}
             g == Group(<<a>>, calls)
  <1>1. OffsetCommit(r) = <<g>>
    BY Zenon DEF OffsetCommit
  <1>2. \A on : Accepts("OffsetCommit", Call("commit_offset", on)) = {OnGroup(on, "Read")}
    BY DEF Accepts, NeverAsks, AlsoAccepts, Requires, Call
  <1>3. \A k \in calls : k = Call("commit_offset", r.group)
    BY Zenon
  <1>4. "commit_offset" \notin {"describe_groups", "delete_groups"}
    OBVIOUS
  <1>5. \A k \in calls : \E op, on : /\ k = Call(op, on)
                                     /\ op \notin {"describe_groups", "delete_groups"}
                                     /\ a \in Accepts("OffsetCommit", k)
    <2> HIDE DEF calls
    <2> QED
      BY <1>2, <1>3, <1>4, Zenon
  <1> HIDE DEF a, calls
  <1>6. GroupOK("OffsetCommit", g)
    BY <1>5, OneNeedGroup, Zenon
  <1> HIDE DEF g
  <1> QED
    BY <1>1, <1>6, OneOK, Zenon

LEMMA InitProducerIdOK ==
    ASSUME NEW r
    PROVE  PlanOK("InitProducerId", InitProducerId(r))
  <1> DEFINE on == r.txn
             k == Call("init_producer_id", on)
  <1>0. "init_producer_id" \notin {"describe_groups", "delete_groups"}
    OBVIOUS
  <1>1. CASE on = <<>>
    <2>1. InitProducerId(r) = <<Group(<<>>, {k})>>
      BY <1>1, Zenon DEF InitProducerId
    <2>2. Accepts("InitProducerId", k) = {}
      <3> HIDE DEF on
      <3> QED
        BY <1>1 DEF Accepts, NeverAsks, AlsoAccepts, Requires, Call
    <2> HIDE DEF on
    <2>3. PlanOK("InitProducerId", <<Group(<<>>, {k})>>)
      BY <1>0, <2>2, FreePlan, Zenon
    <2> QED
      BY <2>1, <2>3, Zenon
  <1>2. CASE on # <<>>
    <2> DEFINE a == OnTxn(on, "Write")
    <2>1. InitProducerId(r) = <<Group(<<a>>, {k})>>
      BY <1>2, Zenon DEF InitProducerId
    <2> HIDE DEF on
    <2>2. Accepts("InitProducerId", k) = {a}
      BY <1>2 DEF Accepts, NeverAsks, AlsoAccepts, Requires, Call
    <2> HIDE DEF a
    <2>3. PlanOK("InitProducerId", <<Group(<<a>>, {k})>>)
      BY <1>0, <2>2, SinglePlan, Zenon
    <2> QED
      BY <2>1, <2>3, Zenon
  <1> QED
    BY <1>1, <1>2, Zenon

LEMMA FindCoordinatorOK ==
    ASSUME NEW r
    PROVE  PlanOK("FindCoordinator", FindCoordinator(r))
  <1> DEFINE on == <<r.key_type, r.key>>
             k == Call("find_coordinator", on)
             a == OnGroup(r.key, "Describe")
             b == OnTxn(r.key, "Describe")
  <1>0. "find_coordinator" \notin {"describe_groups", "delete_groups"}
    OBVIOUS
  <1>1. k.op = "find_coordinator" /\ k.on[1] = r.key_type /\ k.on[2] = r.key
    BY DEF Call
  <1>2. /\ r.key_type = 0 => FindCoordinator(r) = <<Group(<<a>>, {k})>>
        /\ r.key_type = 1 => FindCoordinator(r) = <<Group(<<b>>, {k})>>
        /\ r.key_type # 0 /\ r.key_type # 1 => FindCoordinator(r) = <<Group(<<>>, {k})>>
    <2> HIDE DEF k, a, b
    <2> QED
      BY DEF FindCoordinator, k, a, b
  <1>3. /\ r.key_type = 0 => Accepts("FindCoordinator", k) = {OnGroup(k.on[2], "Describe")}
        /\ r.key_type = 1 => Accepts("FindCoordinator", k) = {OnTxn(k.on[2], "Describe")}
        /\ r.key_type # 0 /\ r.key_type # 1 => Accepts("FindCoordinator", k) = {}
    <2> HIDE DEF k
    <2> QED
      BY <1>1 DEF Accepts, NeverAsks, AlsoAccepts, Requires
  <1>4. /\ r.key_type = 0 => Accepts("FindCoordinator", k) = {a}
        /\ r.key_type = 1 => Accepts("FindCoordinator", k) = {b}
    <2> HIDE DEF k
    <2> QED
      BY <1>1, <1>3, Zenon
  <1> HIDE DEF on, a, b
  <1>5. CASE r.key_type = 0
    <2>1. PlanOK("FindCoordinator", <<Group(<<a>>, {k})>>)
      BY <1>0, <1>4, <1>5, SinglePlan, Zenon
    <2> QED
      BY <1>2, <1>5, <2>1, Zenon
  <1>6. CASE r.key_type = 1
    <2>1. PlanOK("FindCoordinator", <<Group(<<b>>, {k})>>)
      BY <1>0, <1>4, <1>6, SinglePlan, Zenon
    <2> QED
      BY <1>2, <1>6, <2>1, Zenon
  <1>7. CASE r.key_type # 0 /\ r.key_type # 1
    <2>1. PlanOK("FindCoordinator", <<Group(<<>>, {k})>>)
      BY <1>0, <1>3, <1>7, FreePlan, Zenon
    <2> QED
      BY <1>2, <1>7, <2>1, Zenon
  <1> QED
    BY <1>5, <1>6, <1>7, Zenon

\* Every request that is handled has a plan whose needs cover its calls.
LEMMA PlansAreOK ==
    ASSUME NEW r, Decoded(r), r.api \in Planned, NEW fault
    PROVE  PlanOK(r.api, Plan(r, fault))
  <1>1. CASE r.api = "Metadata"
    <2>1. Plan(r, fault) = Metadata(r)
      BY <1>1 DEF Plan
    <2>2. IsList(r.topics)
      BY <1>1 DEF Decoded, OverTopics
    <2> QED
      BY <1>1, <2>1, <2>2, MetadataOK, Zenon
  <1>2. CASE r.api = "Produce"
    <2>1. Plan(r, fault) = Produce(r, fault)
      BY <1>2 DEF Plan
    <2>2. IsList(r.topics)
      BY <1>2 DEF Decoded, OverTopics
    <2> QED
      BY <1>2, <2>1, <2>2, ProduceOK, Zenon
  <1>3. CASE r.api = "Fetch"
    <2>1. Plan(r, fault) = Fetch(r, fault)
      BY <1>3 DEF Plan
    <2>2. IsList(r.topics)
      BY <1>3 DEF Decoded, OverTopics
    <2> QED
      BY <1>3, <2>1, <2>2, FetchOK, Zenon
  <1>4. CASE r.api = "ListOffsets"
    <2>1. Plan(r, fault) = ListOffsets(r)
      BY <1>4 DEF Plan
    <2>2. IsList(r.topics)
      BY <1>4 DEF Decoded, OverTopics
    <2> QED
      BY <1>4, <2>1, <2>2, ListOffsetsOK, Zenon
  <1>5. CASE r.api = "FindCoordinator"
    <2>1. Plan(r, fault) = FindCoordinator(r)
      BY <1>5 DEF Plan
    <2> QED
      BY <1>5, <2>1, FindCoordinatorOK, Zenon
  <1>6. CASE r.api = "OffsetCommit"
    <2>1. Plan(r, fault) = OffsetCommit(r)
      BY <1>6 DEF Plan
    <2> QED
      BY <1>6, <2>1, OffsetCommitOK, Zenon
  <1>7. CASE r.api = "OffsetFetch"
    <2>1. Plan(r, fault) = OffsetFetch(r)
      BY <1>7 DEF Plan
    <2> QED
      BY <1>7, <2>1, SinglesOK, Zenon
  <1>8. CASE r.api = "Heartbeat"
    <2>1. Plan(r, fault) = Heartbeat(r)
      BY <1>8 DEF Plan
    <2> QED
      BY <1>8, <2>1, SinglesOK, Zenon
  <1>9. CASE r.api = "LeaveGroup"
    <2>1. Plan(r, fault) = LeaveGroup(r)
      BY <1>9 DEF Plan
    <2> QED
      BY <1>9, <2>1, SinglesOK, Zenon
  <1>10. CASE r.api = "InitProducerId"
    <2>1. Plan(r, fault) = InitProducerId(r)
      BY <1>10 DEF Plan
    <2> QED
      BY <1>10, <2>1, InitProducerIdOK, Zenon
  <1>11. CASE r.api = "AddPartitionsToTxn"
    <2>1. Plan(r, fault) = AddPartitionsToTxn(r)
      BY <1>11 DEF Plan
    <2> QED
      BY <1>11, <2>1, SinglesOK, Zenon
  <1>12. CASE r.api = "AddOffsetsToTxn"
    <2>1. Plan(r, fault) = AddOffsetsToTxn(r)
      BY <1>12 DEF Plan
    <2> QED
      BY <1>12, <2>1, SinglesOK, Zenon
  <1>13. CASE r.api = "EndTxn"
    <2>1. Plan(r, fault) = EndTxn(r)
      BY <1>13 DEF Plan
    <2> QED
      BY <1>13, <2>1, SinglesOK, Zenon
  <1>14. CASE r.api = "DescribeAcls"
    <2>1. Plan(r, fault) = DescribeAcls(r)
      BY <1>14 DEF Plan
    <2> QED
      BY <1>14, <2>1, SinglesOK, Zenon
  <1>15. CASE r.api = "CreateAcls"
    <2>1. Plan(r, fault) = CreateAcls(r)
      BY <1>15 DEF Plan
    <2> QED
      BY <1>15, <2>1, SinglesOK, Zenon
  <1>16. CASE r.api = "DeleteAcls"
    <2>1. Plan(r, fault) = DeleteAcls(r)
      BY <1>16 DEF Plan
    <2> QED
      BY <1>16, <2>1, SinglesOK, Zenon
  <1>17. CASE r.api = "CreateTopics"
    <2>1. Plan(r, fault) = CreateTopics(r)
      BY <1>17 DEF Plan
    <2>2. IsList(r.topics)
      BY <1>17 DEF Decoded, OverTopics
    <2> QED
      BY <1>17, <2>1, <2>2, CreateTopicsOK, Zenon
  <1>18. CASE r.api = "DeleteTopics"
    <2>1. Plan(r, fault) = DeleteTopics(r)
      BY <1>18 DEF Plan
    <2>2. IsList(r.topics)
      BY <1>18 DEF Decoded, OverTopics
    <2> QED
      BY <1>18, <2>1, <2>2, DeleteTopicsOK, Zenon
  <1>19. CASE r.api = "DescribeConfigs"
    <2>1. Plan(r, fault) = DescribeConfigs(r)
      BY <1>19 DEF Plan
    <2>2. IsList(r.resources)
      BY <1>19 DEF Decoded, OverResources
    <2> QED
      BY <1>19, <2>1, <2>2, DescribeConfigsOK, Zenon
  <1>20. CASE r.api = "AlterConfigs"
    <2>1. Plan(r, fault) = AlterConfigs(r)
      BY <1>20 DEF Plan
    <2>2. IsList(r.resources)
      BY <1>20 DEF Decoded, OverResources
    <2> QED
      BY <1>20, <2>1, <2>2, AlterConfigsOK, Zenon
  <1>21. CASE r.api = "ListGroups"
    <2>1. Plan(r, fault) = ListGroups(r)
      BY <1>21 DEF Plan
    <2> QED
      BY <1>21, <2>1, SinglesOK, Zenon
  <1>22. CASE r.api = "DescribeGroups"
    <2>1. Plan(r, fault) = DescribeGroups(r)
      BY <1>22 DEF Plan
    <2>2. IsList(r.groups)
      BY <1>22 DEF Decoded, OverGroups
    <2> QED
      BY <1>22, <2>1, <2>2, DescribeGroupsOK, Zenon
  <1>23. CASE r.api = "DeleteGroups"
    <2>1. Plan(r, fault) = DeleteGroups(r)
      BY <1>23 DEF Plan
    <2>2. IsList(r.groups)
      BY <1>23 DEF Decoded, OverGroups
    <2> QED
      BY <1>23, <2>1, <2>2, DeleteGroupsOK, Zenon
  <1>24. CASE r.api = "DeleteRecords"
    <2>1. Plan(r, fault) = DeleteRecords(r)
      BY <1>24 DEF Plan
    <2>2. IsList(r.topics)
      BY <1>24 DEF Decoded, OverTopics
    <2> QED
      BY <1>24, <2>1, <2>2, DeleteRecordsOK, Zenon
  <1>25. CASE r.api = "CreatePartitions"
    <2>1. Plan(r, fault) = CreatePartitions(r)
      BY <1>25 DEF Plan
    <2>2. IsList(r.topics)
      BY <1>25 DEF Decoded, OverTopics
    <2> QED
      BY <1>25, <2>1, <2>2, CreatePartitionsOK, Zenon
  <1> QED
    BY <1>1, <1>2, <1>3, <1>4, <1>5, <1>6, <1>7, <1>8, <1>9, <1>10, <1>11, <1>12,
       <1>13, <1>14, <1>15, <1>16, <1>17, <1>18, <1>19, <1>20, <1>21, <1>22, <1>23, <1>24, <1>25
       DEF Planned, OverTopics, OverResources, OverGroups

\* A fault changes what is called, never what is asked for.
LEMMA FaultKeepsNeeds ==
    ASSUME NEW r, r.api \in Planned, NEW fault
    PROVE  /\ DOMAIN Plan(r, fault) = DOMAIN Plan(r, FALSE)
           /\ \A i \in DOMAIN Plan(r, fault) : Plan(r, fault)[i].needs = Plan(r, FALSE)[i].needs
  <1>1. CASE r.api = "Produce"
    <2>1. \A f : Plan(r, f) = Produce(r, f)
      BY <1>1 DEF Plan
    <2>2. ASSUME NEW f
          PROVE  /\ DOMAIN Produce(r, f) = DOMAIN r.topics
                 /\ \A i \in DOMAIN r.topics :
                        Produce(r, f)[i].needs = <<OnTopic(r.topics[i].name, "Write")>>
      BY Zenon DEF Produce, ForEach, Group
    <2> QED
      BY <2>1, <2>2, Zenon
  <1>2. CASE r.api = "Fetch"
    <2>1. \A f : Plan(r, f) = Fetch(r, f)
      BY <1>2 DEF Plan
    <2>2. ASSUME NEW f
          PROVE  /\ DOMAIN Fetch(r, f) = DOMAIN r.topics
                 /\ \A i \in DOMAIN r.topics :
                        Fetch(r, f)[i].needs = <<OnTopic(r.topics[i].name, "Read")>>
      BY Zenon DEF Fetch, ForEach, Group
    <2> QED
      BY <2>1, <2>2, Zenon
  <1>3. CASE r.api \notin {"Produce", "Fetch"}
    <2>1. Plan(r, fault) = Plan(r, FALSE)
      BY <1>3 DEF Plan, Planned, OverTopics, OverResources, OverGroups
    <2> QED
      BY <2>1, Zenon
  <1> QED
    BY <1>1, <1>2, <1>3, Zenon

LEMMA NeedsInPlan ==
    ASSUME NEW r, r.api \in Planned, NEW fault, NEW i \in DOMAIN Plan(r, fault)
    PROVE  ToSet(Plan(r, fault)[i].needs) \subseteq NeedsOf(r)
  <1> DEFINE Q == Plan(r, FALSE)
  <1>1. i \in DOMAIN Q /\ Plan(r, fault)[i].needs = Q[i].needs
    BY FaultKeepsNeeds, Zenon
  <1>2. Q[i] \in ToSet(Q)
    BY <1>1, Zenon DEF ToSet
  <1>3. ToSet(Q[i].needs) \subseteq NeedsOf(r)
    BY <1>2, Zenon DEF NeedsOf
  <1> QED
    BY <1>1, <1>3, Zenon

------------------------------------------------------------------------------
(* A task under way.                                                        *)

\* What the handler accepts for k was permitted, or it asks for nothing.
Granted(api, k, allowed) ==
    Accepts(api, k) = {} \/ Accepts(api, k) \cap allowed # {}

\* The calls of a group that are made as they stand.
Direct(g) == {k \in g.calls : k.op # "grant" /\ ~OnGranted(k)}

\* A group that is behind: its calls were made, or its needs refused.
Passed(g, made, refused) == Direct(g) \subseteq made \/ ToSet(g.needs) \subseteq refused

\* A call was made with all the calls of a group of the plan, or for the names
\* that were granted.
MadeWhole(P, k, made) ==
    \/ OnGranted(k)
    \/ \E i \in DOMAIN P : k \in P[i].calls /\ Direct(P[i]) \subseteq made

\* Where the task stands: the check after those that were refused, or past one
\* that was granted.
Standing(P, w) ==
    /\ w.group \in 1..(Len(P) + 1)
    /\ w.need \in Nat
    /\ w.need = 0 => w.group <= Len(P) /\ ToSet(P[w.group].needs) \cap w.allowed # {}
    /\ w.need # 0 => \A j \in 1..(w.need - 1) : P[w.group].needs[j] \in w.refused

Justified(w) ==
    /\ Decoded(w.req) /\ w.req.api \in Planned
    /\ w.fault = "unknown" => w.group = 1 /\ w.need = 1 /\ w.made = {} /\ w.granted = {}
    /\ Standing(CurrentPlan(w), w)
    /\ \A k \in w.made : Granted(w.req.api, k, w.allowed)
    /\ \A n \in w.granted : Granted(w.req.api, Call("grant", n), w.allowed)
    /\ \A i \in 1..(w.group - 1) : Passed(CurrentPlan(w)[i], w.made, w.refused)
    /\ \A k \in w.made : MadeWhole(CurrentPlan(w), k, w.made)

\* The history has what the bindings bs permit and refuse.
Watched(w, bs) ==
    \A n \in NeedsOf(w.req) :
        IF Permitted(ToSet(bs), w.principal, Host, n) THEN n \in w.allowed ELSE n \in w.refused

\* v is w with a longer history.
Older(w, v) ==
    /\ DOMAIN v = DOMAIN w
    /\ v.at = w.at /\ v.req = w.req /\ v.principal = w.principal /\ v.group = w.group
    /\ v.need = w.need /\ v.made = w.made /\ v.granted = w.granted /\ v.fault = w.fault
    /\ w.allowed \subseteq v.allowed /\ w.refused \subseteq v.refused

LEMMA ObservedOlder ==
    ASSUME NEW w, TaskFields \subseteq DOMAIN w, NEW bs
    PROVE  Older(w, Observed(w, bs)) /\ Watched(Observed(w, bs), bs)
  <1> DEFINE v == Observed(w, bs)
             now == {n \in NeedsOf(w.req) : Permitted(ToSet(bs), w.principal, Host, n)}
  <1>1. v = [w EXCEPT !.allowed = @ \cup now, !.refused = @ \cup (NeedsOf(w.req) \ now)]
    BY Zenon DEF Observed
  <1> HIDE DEF v
  <1>2. v.allowed = w.allowed \cup now /\ v.refused = w.refused \cup (NeedsOf(w.req) \ now)
    <2> HIDE DEF now
    <2> QED
      BY <1>1 DEF TaskFields
  <1>3. /\ DOMAIN v = DOMAIN w
        /\ v.at = w.at /\ v.req = w.req /\ v.principal = w.principal /\ v.group = w.group
        /\ v.need = w.need /\ v.made = w.made /\ v.granted = w.granted /\ v.fault = w.fault
    <2> HIDE DEF now
    <2> QED
      BY <1>1 DEF TaskFields
  <1>4. Older(w, v)
    BY <1>2, <1>3, Zenon DEF Older
  <1>5. Watched(v, bs)
    <2> SUFFICES ASSUME NEW n \in NeedsOf(w.req)
                 PROVE  IF Permitted(ToSet(bs), w.principal, Host, n)
                        THEN n \in v.allowed ELSE n \in v.refused
      BY <1>3, Zenon DEF Watched
    <2> QED
      BY <1>2, Zenon
  <1> QED
    BY <1>4, <1>5, Zenon DEF v

\* A longer history takes nothing away.
LEMMA OlderJustified ==
    ASSUME NEW w, NEW v, Older(w, v), Justified(w)
    PROVE  Justified(v)
  <1> DEFINE P == CurrentPlan(w)
             A == w.allowed
             B == v.allowed
  <1>0. /\ v.req = w.req /\ v.group = w.group /\ v.need = w.need /\ v.made = w.made
        /\ v.granted = w.granted /\ v.fault = w.fault
        /\ A \subseteq B /\ w.refused \subseteq v.refused
    BY Zenon DEF Older
  <1>1. CurrentPlan(v) = P
    BY <1>0, Zenon DEF CurrentPlan
  <1>2. \A api, k : Granted(api, k, A) => Granted(api, k, B)
    BY <1>0, Zenon DEF Granted
  <1>3. \A g : Passed(g, w.made, w.refused) => Passed(g, w.made, v.refused)
    BY <1>0, Zenon DEF Passed
  <1> HIDE DEF P
  <1>4. Standing(P, w) => Standing(P, v)
    BY <1>0, Zenon DEF Standing
  <1>5. /\ Decoded(w.req) /\ w.req.api \in Planned
        /\ w.fault = "unknown" => w.group = 1 /\ w.need = 1 /\ w.made = {} /\ w.granted = {}
        /\ Standing(P, w)
        /\ \A k \in w.made : Granted(w.req.api, k, A)
        /\ \A n \in w.granted : Granted(w.req.api, Call("grant", n), A)
        /\ \A i \in 1..(w.group - 1) : Passed(P[i], w.made, w.refused)
        /\ \A k \in w.made : MadeWhole(P, k, w.made)
    BY Zenon DEF Justified, P
  <1>6. /\ \A k \in w.made : Granted(w.req.api, k, B)
        /\ \A n \in w.granted : Granted(w.req.api, Call("grant", n), B)
    <2> HIDE DEF A, B
    <2> QED
      BY <1>2, <1>5, Zenon
  <1>7. \A i \in 1..(w.group - 1) : Passed(P[i], w.made, v.refused)
    BY <1>3, <1>5, Zenon
  <1> QED
    BY <1>0, <1>1, <1>4, <1>5, <1>6, <1>7, Zenon DEF Justified

\* The plan of a task under way, and its groups.
LEMMA PlanOf ==
    ASSUME NEW w, Decoded(w.req), w.req.api \in Planned
    PROVE  /\ Len(CurrentPlan(w)) \in Nat
           /\ DOMAIN CurrentPlan(w) = 1..Len(CurrentPlan(w))
           /\ \A i \in DOMAIN CurrentPlan(w) :
                  /\ GroupOK(w.req.api, CurrentPlan(w)[i])
                  /\ ToSet(CurrentPlan(w)[i].needs) \subseteq NeedsOf(w.req)
  <1> DEFINE P == CurrentPlan(w)
  <1>1. P = Plan(w.req, w.fault = "yes")
    BY Zenon DEF CurrentPlan
  <1>2. PlanOK(w.req.api, P)
    BY <1>1, PlansAreOK, Zenon
  <1>3. \A i \in DOMAIN P : ToSet(P[i].needs) \subseteq NeedsOf(w.req)
    BY <1>1, NeedsInPlan, Zenon
  <1> HIDE DEF P
  <1>4. Len(P) \in Nat /\ DOMAIN P = 1..Len(P)
    BY <1>2 DEF PlanOK, IsList
  <1> QED
    BY <1>2, <1>3, <1>4, Zenon DEF P, PlanOK

LEMMA NeedsAreList ==
    ASSUME NEW needs, FewNeeds(needs)
    PROVE  /\ Len(needs) \in 0..2 /\ DOMAIN needs = 1..Len(needs)
           /\ ToSet(needs) = {needs[j] : j \in 1..Len(needs)}
           /\ Len(needs) = 0 <=> needs = <<>>
  <1>1. /\ Len(needs) \in 0..2 /\ DOMAIN needs = 1..Len(needs)
        /\ Len(needs) = 0 <=> needs = <<>>
    BY DEF FewNeeds
  <1> QED
    BY <1>1, Zenon DEF ToSet

\* A task that starts.
LEMMA StartJustified ==
    ASSUME NEW w, Decoded(w.req), w.req.api \in Planned,
           w.group = 1, w.need = 1, w.made = {}, w.granted = {}
    PROVE  Justified(w)
  <1> DEFINE P == CurrentPlan(w)
  <1>1. Len(P) \in Nat
    BY PlanOf, Zenon
  <1> HIDE DEF P
  <1>2. Standing(P, w)
    BY <1>1 DEF Standing
  <1>3. 1..(w.group - 1) = {}
    OBVIOUS
  <1> QED
    BY <1>2, <1>3, Zenon DEF Justified, P

\* v is w at another place of its plan.
Moved(w, v) ==
    /\ DOMAIN v = DOMAIN w
    /\ v.at = w.at /\ v.req = w.req /\ v.principal = w.principal
    /\ v.made = w.made /\ v.granted = w.granted /\ v.fault = w.fault
    /\ v.allowed = w.allowed /\ v.refused = w.refused

LEMMA MovedJustified ==
    ASSUME NEW w, NEW v, Justified(w), w.fault # "unknown", Moved(w, v),
           Standing(CurrentPlan(w), v),
           \A i \in 1..(v.group - 1) : Passed(CurrentPlan(w)[i], w.made, w.refused)
    PROVE  Justified(v)
  <1> DEFINE P == CurrentPlan(w)
  <1>1. /\ v.req = w.req /\ v.made = w.made /\ v.granted = w.granted /\ v.fault = w.fault
        /\ v.allowed = w.allowed /\ v.refused = w.refused
    BY Zenon DEF Moved
  <1>2. CurrentPlan(v) = P
    BY <1>1, Zenon DEF CurrentPlan
  <1>3. /\ Decoded(w.req) /\ w.req.api \in Planned
        /\ \A k \in w.made : Granted(w.req.api, k, w.allowed)
        /\ \A n \in w.granted : Granted(w.req.api, Call("grant", n), w.allowed)
        /\ \A k \in w.made : MadeWhole(P, k, w.made)
    BY Zenon DEF Justified
  <1>4. Standing(P, v) /\ \A i \in 1..(v.group - 1) : Passed(P[i], w.made, w.refused)
    OBVIOUS
  <1> HIDE DEF P
  <1> QED
    BY <1>1, <1>2, <1>3, <1>4, Zenon DEF Justified

LEMMA NextIndex ==
    ASSUME NEW k \in Nat, NEW n \in 1..k, NEW m, m = n + 1
    PROVE  m \in 1..(k + 1) /\ m \in Nat /\ m # 0 /\ \A j \in 1..(m - 1) : j \in 1..(n - 1) \/ j = n
  OBVIOUS

LEMMA NeedMoves ==
    ASSUME NEW w, TaskFields \subseteq DOMAIN w, NEW k
    PROVE  /\ Moved(w, [w EXCEPT !.need = k])
           /\ [w EXCEPT !.need = k].group = w.group /\ [w EXCEPT !.need = k].need = k
  BY DEF Moved, TaskFields

LEMMA GroupMoves ==
    ASSUME NEW w, TaskFields \subseteq DOMAIN w, NEW k
    PROVE  /\ Moved(w, [w EXCEPT !.group = k, !.need = 1])
           /\ [w EXCEPT !.group = k, !.need = 1].group = k
           /\ [w EXCEPT !.group = k, !.need = 1].need = 1
  BY DEF Moved, TaskFields

LEMMA FirstIndex == 1 \in Nat /\ 1 # 0 /\ 1..(1 - 1) = {}
  OBVIOUS

\* One check: v is what becomes of w.
LEMMA CheckJustified ==
    ASSUME NEW w, TaskFields \subseteq DOMAIN w, Justified(w), w.fault # "unknown",
           NEW bs, IsList(bs), Watched(w, bs),
           w.group <= Len(CurrentPlan(w)),
           w.need \in DOMAIN CurrentPlan(w)[w.group].needs,
           NEW v,
           v = IF authorize(bs, w.principal, Host, CurrentPlan(w)[w.group].needs[w.need])
               THEN [w EXCEPT !.need = 0]
               ELSE IF w.need < Len(CurrentPlan(w)[w.group].needs) THEN [w EXCEPT !.need = @ + 1]
               ELSE [w EXCEPT !.group = @ + 1, !.need = 1]
    PROVE  Justified(v) /\ Moved(w, v)
  <1> DEFINE P == CurrentPlan(w)
             g == w.group
             needs == P[g].needs
             n == needs[w.need]
             ok == authorize(bs, w.principal, Host, n)
  <1>0. /\ Decoded(w.req) /\ w.req.api \in Planned /\ Standing(P, w)
        /\ \A i \in 1..(g - 1) : Passed(P[i], w.made, w.refused)
    BY Zenon DEF Justified
  <1>1. Len(P) \in Nat /\ DOMAIN P = 1..Len(P)
        /\ \A i \in DOMAIN P : GroupOK(w.req.api, P[i]) /\ ToSet(P[i].needs) \subseteq NeedsOf(w.req)
    BY <1>0, PlanOf, Zenon
  <1>2. g <= Len(P) /\ w.need \in DOMAIN needs
    OBVIOUS
  <1>3. v = IF ok THEN [w EXCEPT !.need = 0]
            ELSE IF w.need < Len(needs) THEN [w EXCEPT !.need = @ + 1]
            ELSE [w EXCEPT !.group = @ + 1, !.need = 1]
    BY Zenon
  <1>4. ok <=> Permitted(ToSet(bs), w.principal, Host, n)
    <2>1. bs \in Seq(ToSet(bs))
      BY Zenon DEF IsList
    <2> HIDE DEF n
    <2> QED
      BY <2>1, AuthorizeIgnoresOrder
  <1> HIDE DEF P
  <1>5. g \in 1..Len(P) /\ g \in DOMAIN P
    <2>1. g \in 1..(Len(P) + 1)
      BY <1>0, Zenon DEF Standing
    <2> QED
      BY <1>1, <1>2, <2>1
  <1>6. FewNeeds(needs) /\ ToSet(needs) \subseteq NeedsOf(w.req)
    BY <1>1, <1>5, Zenon DEF GroupOK
  <1> HIDE DEF needs
  <1>7. /\ Len(needs) \in 0..2 /\ DOMAIN needs = 1..Len(needs)
        /\ ToSet(needs) = {needs[j] : j \in 1..Len(needs)}
    BY <1>6, NeedsAreList, Zenon
  <1>8. w.need \in 1..Len(needs)
    BY <1>2, <1>7, Zenon
  <1>9. n \in ToSet(needs) /\ n \in NeedsOf(w.req)
    BY <1>6, <1>7, <1>8, Zenon
  <1>10. IF ok THEN n \in w.allowed ELSE n \in w.refused
    <2> HIDE DEF ok, n
    <2> QED
      BY <1>4, <1>9, Zenon DEF Watched
  <1>11. \A j \in 1..(w.need - 1) : needs[j] \in w.refused
    <2>1. w.need # 0
      BY <1>7, <1>8
    <2> QED
      BY <1>0, <2>1, Zenon DEF Standing, needs
  <1>15. Len(needs) \in Nat
    BY <1>7
  <1> HIDE DEF ok, n
  <1>12. CASE ok
    <2>1. v = [w EXCEPT !.need = 0]
      BY <1>3, <1>12, Zenon
    <2>2. Moved(w, v) /\ v.group = g /\ v.need = 0
      <3> DEFINE x == [w EXCEPT !.need = 0]
      <3>1. Moved(w, x) /\ x.group = g /\ x.need = 0
        BY NeedMoves, Zenon
      <3>2. v = x
        BY <2>1, Zenon
      <3> HIDE DEF x
      <3> QED
        BY <3>1, <3>2, Zenon
    <2>3. ToSet(needs) \cap v.allowed # {}
      BY <1>9, <1>10, <1>12, <2>2, Zenon DEF Moved
    <2>4. g \in 1..(Len(P) + 1)
      BY <1>1, <1>5
    <2>5. Standing(P, v)
      <3>1. 0 \in Nat
        OBVIOUS
      <3> QED
        BY <1>2, <2>2, <2>3, <2>4, <3>1, Zenon DEF Standing, needs
    <2> QED
      BY <1>0, <2>2, <2>5, MovedJustified, Zenon DEF P
  <1>13. CASE ~ok /\ w.need < Len(needs)
    <2>1. v = [w EXCEPT !.need = @ + 1]
      BY <1>3, <1>13, Zenon
    <2>2. Moved(w, v) /\ v.group = g /\ v.need = w.need + 1
      <3> DEFINE x == [w EXCEPT !.need = w.need + 1]
      <3>1. Moved(w, x) /\ x.group = g /\ x.need = w.need + 1
        BY NeedMoves, Zenon
      <3>2. v = x
        BY <2>1, Zenon
      <3> HIDE DEF x
      <3> QED
        BY <3>1, <3>2, Zenon
    <2>7. v.need \in Nat /\ v.need # 0 /\ \A j \in 1..(v.need - 1) : j \in 1..(w.need - 1) \/ j = w.need
      <3> DEFINE k == Len(needs)
                 m == v.need
                 o == w.need
      <3>1. k \in Nat /\ o \in 1..k /\ m = o + 1
        BY <1>8, <1>15, <2>2, Zenon
      <3> HIDE DEF k, m, o
      <3>2. m \in Nat /\ m # 0 /\ \A j \in 1..(m - 1) : j \in 1..(o - 1) \/ j = o
        BY <3>1, NextIndex, Zenon
      <3> QED
        BY <3>2, Zenon DEF m, o
    <2>3. \A j \in 1..(v.need - 1) : needs[j] \in v.refused
      <3>1. \A j \in 1..(v.need - 1) : j \in 1..(w.need - 1) \/ j = w.need
        BY <2>7, Zenon
      <3>2. v.refused = w.refused
        BY <2>2, Zenon DEF Moved
      <3> QED
        BY <1>10, <1>11, <1>13, <3>1, <3>2, Zenon DEF n
    <2>4. g \in 1..(Len(P) + 1)
      BY <1>1, <1>5
    <2>5. v.need \in Nat /\ v.need # 0
      BY <2>7, Zenon
    <2>6. Standing(P, v)
      BY <2>2, <2>3, <2>4, <2>5, Zenon DEF Standing, needs
    <2> QED
      BY <1>0, <2>2, <2>6, MovedJustified, Zenon DEF P
  <1>14. CASE ~ok /\ ~(w.need < Len(needs))
    <2>1. v = [w EXCEPT !.group = @ + 1, !.need = 1]
      BY <1>3, <1>14, Zenon
    <2>2. Moved(w, v) /\ v.group = g + 1 /\ v.need = 1
      <3> DEFINE x == [w EXCEPT !.group = w.group + 1, !.need = 1]
      <3>1. Moved(w, x) /\ x.group = g + 1 /\ x.need = 1
        BY GroupMoves, Zenon
      <3>2. v = x
        BY <2>1, Zenon
      <3> HIDE DEF x
      <3> QED
        BY <3>1, <3>2, Zenon
    <2>3. ToSet(needs) \subseteq w.refused
      <3>1. \A j \in 1..Len(needs) : j \in 1..(w.need - 1) \/ j = w.need
        BY <1>7, <1>8, <1>14
      <3>2. \A j \in 1..Len(needs) : needs[j] \in w.refused
        BY <1>10, <1>11, <1>14, <3>1, Zenon DEF n
      <3> QED
        BY <1>7, <3>2, Zenon
    <2>4. v.group \in 1..(Len(P) + 1) /\ v.need \in Nat /\ v.need # 0 /\ 1..(v.need - 1) = {}
      BY <1>1, <1>5, <2>2, NextIndex, FirstIndex, Zenon
    <2>5. Standing(P, v)
      BY <2>4, Zenon DEF Standing
    <2>6. \A i \in 1..(v.group - 1) : i \in 1..(g - 1) \/ i = g
      BY <1>1, <1>5, <2>2, NextIndex, Zenon
    <2>7. Passed(P[g], w.made, w.refused)
      BY <2>3, Zenon DEF Passed, needs
    <2>8. \A i \in 1..(v.group - 1) : Passed(P[i], w.made, w.refused)
      BY <1>0, <2>6, <2>7, Zenon
    <2> QED
      BY <2>2, <2>5, <2>8, MovedJustified, Zenon DEF P
  <1> QED
    BY <1>12, <1>13, <1>14, Zenon

\* The calls a group adds to those made, and the names it sets aside.
Adds(g, granted) ==
    Direct(g) \cup UNION {{Call(k.op, n) : n \in granted} : k \in {k \in g.calls : OnGranted(k)}}
SetsAside(g) == {k.on : k \in {k \in g.calls : k.op = "grant"}}

LEMMA ServedIs ==
    ASSUME NEW w, TaskFields \subseteq DOMAIN w
    PROVE  LET v == Served(w)
               g == CurrentPlan(w)[w.group]
           IN /\ DOMAIN v = DOMAIN w
              /\ v.at = w.at /\ v.req = w.req /\ v.principal = w.principal /\ v.fault = w.fault
              /\ v.allowed = w.allowed /\ v.refused = w.refused
              /\ v.group = w.group + 1 /\ v.need = 1
              /\ v.made = w.made \cup Adds(g, w.granted)
              /\ v.granted = w.granted \cup SetsAside(g)
  <1> DEFINE v == Served(w)
             g == CurrentPlan(w)[w.group]
             a == Adds(g, w.granted)
             b == SetsAside(g)
  <1>1. v = [w EXCEPT !.group = @ + 1, !.need = 1, !.made = @ \cup a, !.granted = @ \cup b]
    BY Zenon DEF Served, Adds, SetsAside, Direct
  <1> HIDE DEF v, a, b
  <1>2. /\ DOMAIN v = DOMAIN w
        /\ v.at = w.at /\ v.req = w.req /\ v.principal = w.principal /\ v.fault = w.fault
        /\ v.allowed = w.allowed /\ v.refused = w.refused
        /\ v.group = w.group + 1 /\ v.need = 1
    BY <1>1 DEF TaskFields
  <1>3. v.made = w.made \cup a /\ v.granted = w.granted \cup b
    BY <1>1 DEF TaskFields
  <1> QED
    BY <1>2, <1>3, Zenon DEF v, a, b

\* The calls of a group that is let through were permitted.
LEMMA AddsGranted ==
    ASSUME NEW api, NEW g, GroupOK(api, g), NEW allowed, NEW granted,
           g.needs = <<>> \/ ToSet(g.needs) \cap allowed # {},
           \A n \in granted : Granted(api, Call("grant", n), allowed)
    PROVE  /\ \A k \in Adds(g, granted) : Granted(api, k, allowed)
           /\ \A n \in SetsAside(g) : Granted(api, Call("grant", n), allowed)
  <1>0. \A k \in g.calls : Covered(api, g.needs, k)
    BY Zenon DEF GroupOK
  <1>1. ASSUME NEW k \in g.calls, ~OnGranted(k) PROVE Granted(api, k, allowed)
    <2>1. \/ Accepts(api, k) = {}
          \/ g.needs # <<>> /\ ToSet(g.needs) \subseteq Accepts(api, k)
      BY <1>0, <1>1, Zenon DEF Covered
    <2>2. CASE Accepts(api, k) = {}
      BY <2>2, Zenon DEF Granted
    <2>3. CASE g.needs # <<>> /\ ToSet(g.needs) \subseteq Accepts(api, k)
      <3>1. ToSet(g.needs) \cap allowed # {}
        BY <2>3, Zenon
      <3>2. Accepts(api, k) \cap allowed # {}
        BY <2>3, <3>1, Zenon
      <3> QED
        BY <3>2, Zenon DEF Granted
    <2> QED
      BY <2>1, <2>2, <2>3, Zenon
  <1>2. ASSUME NEW k \in g.calls, OnGranted(k), NEW n \in granted
        PROVE  Granted(api, Call(k.op, n), allowed)
    <2>1. Accepts(api, Call(k.op, n)) = Accepts(api, Call("grant", n))
      BY <1>0, <1>2, Zenon DEF Covered
    <2>2. Granted(api, Call("grant", n), allowed)
      BY Zenon
    <2> QED
      BY <2>1, <2>2, Zenon DEF Granted
  <1>3. \A k \in Adds(g, granted) : Granted(api, k, allowed)
    BY <1>1, <1>2, Zenon DEF Adds, Direct
  <1>4. ASSUME NEW k \in g.calls, k.op = "grant" PROVE Granted(api, Call("grant", k.on), allowed)
    <2>1. ~OnGranted(k)
      BY <1>4 DEF OnGranted
    <2>2. k = Call("grant", k.on)
      BY <1>0, <1>4, Zenon DEF Covered
    <2>3. Granted(api, k, allowed)
      BY <1>1, <2>1, Zenon
    <2> QED
      BY <2>2, <2>3, Zenon
  <1>5. \A n \in SetsAside(g) : Granted(api, Call("grant", n), allowed)
    BY <1>4, Zenon DEF SetsAside
  <1> QED
    BY <1>3, <1>5, Zenon

\* A task that has made the calls of a group.
LEMMA ServedJustified ==
    ASSUME NEW w, TaskFields \subseteq DOMAIN w, Justified(w), w.fault # "unknown",
           w.group <= Len(CurrentPlan(w)),
           w.need = 0 \/ CurrentPlan(w)[w.group].needs = <<>>
    PROVE  Justified(Served(w))
  <1> DEFINE P == CurrentPlan(w)
             g == P[w.group]
             v == Served(w)
             api == w.req.api
             added == Adds(g, w.granted)
             aside == SetsAside(g)
  <1>0. /\ Decoded(w.req) /\ w.req.api \in Planned /\ Standing(P, w)
        /\ \A k \in w.made : Granted(api, k, w.allowed)
        /\ \A n \in w.granted : Granted(api, Call("grant", n), w.allowed)
        /\ \A i \in 1..(w.group - 1) : Passed(P[i], w.made, w.refused)
        /\ \A k \in w.made : MadeWhole(P, k, w.made)
    BY Zenon DEF Justified
  <1>1. Len(P) \in Nat /\ DOMAIN P = 1..Len(P)
        /\ \A i \in DOMAIN P : GroupOK(w.req.api, P[i])
    BY <1>0, PlanOf, Zenon
  <1>2. /\ v.req = w.req /\ v.fault = w.fault
        /\ v.allowed = w.allowed /\ v.refused = w.refused
        /\ v.group = w.group + 1 /\ v.need = 1
        /\ v.made = w.made \cup added /\ v.granted = w.granted \cup aside
    BY ServedIs, Zenon
  <1>3. CurrentPlan(v) = P
    BY <1>2, Zenon DEF CurrentPlan
  <1>4. w.group <= Len(P) /\ (w.need = 0 \/ g.needs = <<>>)
    OBVIOUS
  <1> HIDE DEF P, v
  <1>5. w.group \in 1..Len(P) /\ w.group \in DOMAIN P
    <2>1. w.group \in 1..(Len(P) + 1)
      BY <1>0, Zenon DEF Standing
    <2> QED
      BY <1>1, <1>4, <2>1
  <1>6. g.needs = <<>> \/ ToSet(g.needs) \cap w.allowed # {}
    BY <1>0, <1>4, Zenon DEF Standing
  <1>7. GroupOK(api, g)
    BY <1>1, <1>5, Zenon
  <1>8. /\ \A k \in added : Granted(api, k, w.allowed)
        /\ \A n \in aside : Granted(api, Call("grant", n), w.allowed)
    <2> HIDE DEF g, api
    <2> QED
      BY <1>0, <1>6, <1>7, AddsGranted, Zenon
  <1>9. Standing(P, v)
    <2>1. v.group \in 1..(Len(P) + 1) /\ v.need \in Nat /\ v.need # 0 /\ 1..(v.need - 1) = {}
      BY <1>1, <1>2, <1>5, NextIndex, FirstIndex, Zenon
    <2> QED
      BY <2>1, Zenon DEF Standing
  <1>10. Direct(g) \subseteq v.made /\ w.made \subseteq v.made
    BY <1>2, Zenon DEF Adds
  <1>11. \A i \in 1..(v.group - 1) : Passed(P[i], v.made, v.refused)
    <2>1. \A i \in 1..(v.group - 1) : i \in 1..(w.group - 1) \/ i = w.group
      BY <1>1, <1>2, <1>5, NextIndex, Zenon
    <2>2. Passed(g, v.made, v.refused)
      BY <1>10, Zenon DEF Passed
    <2>3. \A i \in 1..(w.group - 1) : Passed(P[i], v.made, v.refused)
      BY <1>0, <1>2, <1>10, Zenon DEF Passed
    <2> QED
      BY <2>1, <2>2, <2>3, Zenon
  <1>12. \A k \in v.made : MadeWhole(P, k, v.made)
    <2>1. ASSUME NEW k \in w.made PROVE MadeWhole(P, k, v.made)
      BY <1>0, <1>10, Zenon DEF MadeWhole
    <2>2. ASSUME NEW k \in Direct(g) PROVE MadeWhole(P, k, v.made)
      <3>1. k \in g.calls
        BY Zenon DEF Direct
      <3> QED
        BY <1>5, <1>10, <3>1, Zenon DEF MadeWhole
    <2>3. ASSUME NEW k \in g.calls, OnGranted(k), NEW n PROVE MadeWhole(P, Call(k.op, n), v.made)
      <3>1. Call(k.op, n).op = k.op
        BY CallIs, Zenon
      <3>2. OnGranted(Call(k.op, n))
        BY <2>3, <3>1, Zenon DEF OnGranted
      <3> QED
        BY <3>2, Zenon DEF MadeWhole
    <2> HIDE DEF g
    <2>4. ASSUME NEW k \in added PROVE MadeWhole(P, k, v.made)
      <3>1. k \in Direct(g) \/ \E j \in g.calls : OnGranted(j) /\ \E n : k = Call(j.op, n)
        BY Zenon DEF Adds
      <3> QED
        BY <2>2, <2>3, <3>1, Zenon
    <2> HIDE DEF added
    <2> QED
      BY <1>2, <2>1, <2>4, Zenon
  <1>13. /\ \A k \in v.made : Granted(api, k, w.allowed)
         /\ \A n \in v.granted : Granted(api, Call("grant", n), w.allowed)
    <2> HIDE DEF added, aside, api
    <2> QED
      BY <1>0, <1>2, <1>8, Zenon
  <1> HIDE DEF added, aside
  <1> QED
    BY <1>0, <1>2, <1>3, <1>9, <1>11, <1>12, <1>13, Zenon DEF Justified, v

\* What holds of a task when the bindings are bs.
Busy(w, bs) == w.at = "handling" => Justified(w) /\ Watched(w, bs)

AccessInv ==
    /\ require_sasl \in SaslRequired
    /\ IsList(bindings)
    /\ \A c \in Connections : Busy(work[c], bindings)

LEMMA AccessInit == Init => AccessInv
  <1> SUFFICES ASSUME Init PROVE AccessInv
    OBVIOUS
  <1>1. IsList(bindings)
    <2>1. bindings = <<>>
      BY Zenon DEF Init
    <2> QED
      BY <2>1 DEF IsList, ToSet
  <1>2. \A c \in Connections : work[c].at # "handling"
    BY EndsOK, Zenon DEF Init
  <1>3. require_sasl \in SaslRequired
    BY Zenon DEF Init
  <1> QED
    BY <1>1, <1>2, <1>3, Zenon DEF AccessInv, Busy

\* A step of one task that leaves the bindings alone.
LEMMA OneTask ==
    ASSUME SessionInv, AccessInv, NEW c \in Connections, NEW w, work' = [work EXCEPT ![c] = w],
           bindings' = bindings, require_sasl' = require_sasl, Busy(w, bindings)
    PROVE  AccessInv'
  <1>1. work = [d \in Connections |-> work[d]]
    BY Zenon DEF SessionInv
  <1>2. work'[c] = w /\ \A d \in Connections \ {c} : work'[d] = work[d]
    BY <1>1, Zenon
  <1>3. \A d \in Connections : Busy(work[d], bindings)
    BY Zenon DEF AccessInv
  <1>4. \A d \in Connections : Busy(work'[d], bindings)
    BY <1>2, <1>3, Zenon
  <1>5. \A d \in Connections : Busy(work[d], bindings)'
    BY <1>4, Zenon
  <1>6. (require_sasl \in SaslRequired)' /\ IsList(bindings)'
    BY Zenon DEF AccessInv
  <1> QED
    BY <1>5, <1>6, Zenon DEF AccessInv

LEMMA IdleIsNotBusy == \A bs : Busy(Closed, bs) /\ Busy(Idle, bs) /\ Busy(Answering, bs)
  BY EndsOK, Zenon DEF Busy

\* The steps after which the task handles nothing.
LEMMA RestInv ==
    ASSUME SessionInv, AccessInv, NEW c \in Connections, NEW r,
           \/ Connect(c) \/ Close(c) \/ Answer(c) \/ ApiVersions(c, r)
           \/ SaslHandshake(c, r) \/ SaslAuthenticate(c, r)
    PROVE  AccessInv'
  <1>1. bindings' = bindings /\ require_sasl' = require_sasl
    <2>1. CASE Connect(c) \/ Close(c) \/ Answer(c) \/ ApiVersions(c, r)
      BY <2>1, Zenon DEF Connect, Close, Answer, ApiVersions
    <2>2. CASE SaslHandshake(c, r) \/ SaslAuthenticate(c, r)
      BY <2>2, Zenon DEF SaslHandshake, SaslAuthenticate
    <2> QED
      BY <2>1, <2>2, Zenon
  <1>2. \/ work' = [work EXCEPT ![c] = Closed]
        \/ work' = [work EXCEPT ![c] = Idle]
        \/ work' = [work EXCEPT ![c] = Answering]
    <2>1. CASE Connect(c) \/ Close(c) \/ Answer(c) \/ ApiVersions(c, r)
      BY <2>1, Zenon DEF Connect, Close, Answer, ApiVersions
    <2>2. CASE SaslHandshake(c, r) \/ SaslAuthenticate(c, r)
      BY <2>2, Zenon DEF SaslHandshake, SaslAuthenticate
    <2> QED
      BY <2>1, <2>2, Zenon
  <1> QED
    BY <1>1, <1>2, IdleIsNotBusy, OneTask, Zenon

\* A request is read.
LEMMA ReceiveAccess ==
    ASSUME SessionInv, AccessInv, NEW c \in Connections, NEW r \in Sends(c, require_sasl),
           Receive(c, r)
    PROVE  AccessInv'
  <1> DEFINE t == [at |-> "handling", req |-> r, principal |-> Principal(session[c]),
                   group |-> 1, need |-> 1, made |-> {}, granted |-> {},
                   fault |-> IF r.api \in FaultTargets THEN "unknown" ELSE "no",
                   allowed |-> {}, refused |-> {}]
             w == Observed(t, bindings)
  <1>1. /\ work' = [work EXCEPT ![c] = w]
        /\ bindings' = bindings /\ require_sasl' = require_sasl
        /\ r.api \notin AuthApis \cup Unhandled
    BY Zenon DEF Receive
  <1>2. Decoded(r)
    <2>1. require_sasl \in SaslRequired
      BY Zenon DEF AccessInv
    <2> QED
      BY <2>1, RequestsAreDecoded, Zenon
  <1>3. r.api \in Planned
    BY <1>1, <1>2, Zenon DEF Decoded
  <1>4. /\ TaskFields \subseteq DOMAIN t /\ t.req = r /\ t.group = 1 /\ t.need = 1
        /\ t.made = {} /\ t.granted = {}
    BY DEF TaskFields
  <1> HIDE DEF t
  <1>5. Justified(t)
    BY <1>2, <1>3, <1>4, StartJustified, Zenon
  <1>6. Older(t, w) /\ Watched(w, bindings)
    BY <1>4, ObservedOlder, Zenon
  <1>7. Justified(w)
    BY <1>5, <1>6, OlderJustified, Zenon
  <1>8. Busy(w, bindings)
    BY <1>6, <1>7, Zenon DEF Busy
  <1> HIDE DEF w
  <1> QED
    BY <1>1, <1>8, OneTask, Zenon

\* A task under way.
LEMMA TaskUnderWay ==
    ASSUME SessionInv, AccessInv, NEW c \in Connections, Handling(c)
    PROVE  /\ TaskFields \subseteq DOMAIN work[c] /\ Justified(work[c])
           /\ Watched(work[c], bindings)
  <1>1. TaskOK(work[c]) /\ Busy(work[c], bindings) /\ work[c].at = "handling"
    BY Zenon DEF SessionInv, ConnectionOK, AccessInv, Handling
  <1> QED
    BY <1>1, Zenon DEF TaskOK, Busy

\* The fault is decided.
LEMMA CheckFaultAccess ==
    ASSUME SessionInv, AccessInv, NEW c \in Connections, CheckFault(c)
    PROVE  AccessInv'
  <1> DEFINE u == work[c]
  <1>1. /\ TaskFields \subseteq DOMAIN u /\ Justified(u) /\ Watched(u, bindings)
        /\ u.fault = "unknown"
    BY TaskUnderWay, Zenon DEF CheckFault
  <1>2. PICK f : work' = [work EXCEPT ![c].fault = f]
    BY Zenon DEF CheckFault
  <1> DEFINE w == [u EXCEPT !.fault = f]
  <1>3. work' = [work EXCEPT ![c] = w] /\ bindings' = bindings /\ require_sasl' = require_sasl
    <2>1. work' = [work EXCEPT ![c] = w]
      BY <1>2
    <2> QED
      BY <2>1, Zenon DEF CheckFault
  <1>4. /\ w.req = u.req /\ w.group = u.group /\ w.need = u.need /\ w.made = u.made
        /\ w.granted = u.granted /\ w.allowed = u.allowed /\ w.refused = u.refused
        /\ w.principal = u.principal
    <2> HIDE DEF u
    <2> QED
      BY <1>1 DEF TaskFields
  <1> HIDE DEF w, u
  <1>5. Justified(w)
    <2>1. /\ Decoded(w.req) /\ w.req.api \in Planned
          /\ w.group = 1 /\ w.need = 1 /\ w.made = {} /\ w.granted = {}
      BY <1>1, <1>4, Zenon DEF Justified
    <2> QED
      BY <2>1, StartJustified, Zenon
  <1>6. Watched(w, bindings)
    BY <1>1, <1>4, Zenon DEF Watched
  <1>7. Busy(w, bindings)
    BY <1>5, <1>6, Zenon DEF Busy
  <1> QED
    BY <1>3, <1>7, OneTask, Zenon

\* A check.
LEMMA AuthorizeAccess ==
    ASSUME SessionInv, AccessInv, NEW c \in Connections, Authorize(c)
    PROVE  AccessInv'
  <1> DEFINE u == work[c]
             needs == CurrentPlan(u)[u.group].needs
             w == IF authorize(bindings, u.principal, Host, needs[u.need])
                  THEN [u EXCEPT !.need = 0]
                  ELSE IF u.need < Len(needs) THEN [u EXCEPT !.need = @ + 1]
                  ELSE [u EXCEPT !.group = @ + 1, !.need = 1]
  <1>1. /\ TaskFields \subseteq DOMAIN u /\ Justified(u) /\ Watched(u, bindings)
    BY TaskUnderWay, Zenon DEF Authorize
  <1>2. /\ u.fault # "unknown" /\ u.group <= Len(CurrentPlan(u)) /\ u.need \in DOMAIN needs
        /\ work' = [work EXCEPT ![c] = w] /\ bindings' = bindings /\ require_sasl' = require_sasl
    BY Zenon DEF Authorize
  <1>3. IsList(bindings)
    BY Zenon DEF AccessInv
  <1> HIDE DEF u
  <1>4. Justified(w) /\ Moved(u, w)
    BY <1>1, <1>2, <1>3, CheckJustified, Zenon
  <1> HIDE DEF w
  <1>5. Watched(w, bindings)
    BY <1>1, <1>4, Zenon DEF Watched, Moved
  <1>6. Busy(w, bindings)
    BY <1>4, <1>5, Zenon DEF Busy
  <1> QED
    BY <1>2, <1>6, OneTask, Zenon

\* The bindings stay a list.
LEMMA ReboundList ==
    ASSUME NEW bs, IsList(bs), NEW r, Decoded(r)
    PROVE  IsList(Rebound(bs, r))
  <1>1. CASE r.api = "CreateAcls"
    <2>1. Rebound(bs, r) = create_acls(bs, r.creations)
      BY <1>1 DEF Rebound
    <2>2. IsList(r.creations)
      BY <1>1, Zenon DEF Decoded
    <2> QED
      BY <2>1, <2>2, CreateMakesList, Zenon
  <1>2. CASE r.api = "DeleteAcls"
    <2>1. Rebound(bs, r) = delete_acls(bs, r.filters).bindings
      BY <1>2 DEF Rebound
    <2>2. IsList(r.filters)
      BY <1>2, Zenon DEF Decoded
    <2> QED
      BY <2>1, <2>2, DeleteMakesList, Zenon
  <1>3. CASE r.api # "CreateAcls" /\ r.api # "DeleteAcls"
    <2>1. Rebound(bs, r) = bs
      BY <1>3 DEF Rebound
    <2> QED
      BY <2>1, Zenon
  <1> QED
    BY <1>1, <1>2, <1>3, Zenon

\* The calls of a group: every task under way takes note of the new bindings.
LEMMA ActAccess ==
    ASSUME SessionInv, AccessInv, NEW c \in Connections, Act(c)
    PROVE  AccessInv'
  <1> DEFINE u == work[c]
             v(d) == IF d = c THEN Served(u) ELSE work[d]
  <1>1. /\ TaskFields \subseteq DOMAIN u /\ Justified(u)
    BY TaskUnderWay, Zenon DEF Act
  <1>2. /\ u.fault # "unknown" /\ u.group <= Len(CurrentPlan(u))
        /\ u.need = 0 \/ CurrentPlan(u)[u.group].needs = <<>>
        /\ bindings' = Rebound(bindings, u.req) /\ require_sasl' = require_sasl
    BY Zenon DEF Act
  <1>3. work' = [d \in Connections |->
                    IF v(d).at = "handling" THEN Observed(v(d), bindings') ELSE v(d)]
    BY Zenon DEF Act
  <1>4. IsList(bindings')
    <2>1. IsList(bindings) /\ Decoded(u.req)
      BY <1>1, Zenon DEF AccessInv, Justified
    <2>2. IsList(Rebound(bindings, u.req))
      BY <2>1, ReboundList, Zenon
    <2> QED
      BY <1>2, <2>2, Zenon
  <1>5. ASSUME NEW d \in Connections, v(d).at = "handling"
        PROVE  TaskFields \subseteq DOMAIN v(d) /\ Justified(v(d))
    <2>1. CASE d = c
      <3>1. v(d) = Served(u)
        BY <2>1, Zenon
      <3> HIDE DEF u, v
      <3>2. Justified(Served(u))
        BY <1>1, <1>2, ServedJustified, Zenon
      <3>3. DOMAIN Served(u) = DOMAIN u
        BY <1>1, ServedIs, Zenon
      <3> QED
        BY <1>1, <3>1, <3>2, <3>3, Zenon
    <2>2. CASE d # c
      <3>1. v(d) = work[d] /\ Handling(d)
        BY <1>5, <2>2, Zenon DEF Handling
      <3> QED
        BY <3>1, TaskUnderWay, Zenon
    <2> QED
      BY <2>1, <2>2, Zenon
  <1> HIDE DEF v
  <1>6. \A d \in Connections :
            work'[d] = IF v(d).at = "handling" THEN Observed(v(d), bindings') ELSE v(d)
    BY <1>3, Zenon
  <1>7. ASSUME NEW d \in Connections PROVE Busy(work'[d], bindings')
    <2>1. CASE v(d).at = "handling"
      <3>1. work'[d] = Observed(v(d), bindings')
        BY <1>6, <2>1, Zenon
      <3>2. Older(v(d), work'[d]) /\ Watched(work'[d], bindings')
        BY <1>5, <2>1, <3>1, ObservedOlder, Zenon
      <3>3. Justified(work'[d])
        BY <1>5, <2>1, <3>2, OlderJustified, Zenon
      <3> QED
        BY <3>2, <3>3, Zenon DEF Busy
    <2>2. CASE v(d).at # "handling"
      <3>1. work'[d] = v(d)
        BY <1>6, <2>2, Zenon
      <3> QED
        BY <2>2, <3>1, Zenon DEF Busy
    <2> QED
      BY <2>1, <2>2, Zenon
  <1>8. require_sasl' \in SaslRequired
    BY <1>2, Zenon DEF AccessInv
  <1>9. \A d \in Connections : Busy(work[d], bindings)'
    BY <1>7, Zenon
  <1> QED
    BY <1>4, <1>8, <1>9, Zenon DEF AccessInv

LEMMA AccessStep == SessionInv /\ AccessInv /\ [Next]_vars => AccessInv'
  <1> SUFFICES ASSUME SessionInv, AccessInv, [Next]_vars PROVE AccessInv'
    OBVIOUS
  <1>1. ASSUME NEW c \in Connections, Connect(c) \/ Hangup(c) PROVE AccessInv'
    BY <1>1, RestInv, Zenon DEF Hangup
  <1>2. ASSUME NEW c \in Connections, Task(c) PROVE AccessInv'
    <2>1. ASSUME NEW r, Reject(c, r) \/ ApiVersions(c, r) \/ SaslHandshake(c, r)
                        \/ SaslAuthenticate(c, r)
          PROVE  AccessInv'
      BY <2>1, RestInv, Zenon DEF Reject
    <2>2. ASSUME NEW r \in Sends(c, require_sasl), Receive(c, r) PROVE AccessInv'
      BY <2>2, ReceiveAccess, Zenon
    <2>3. CASE Answer(c) \/ AnswerAndClose(c)
      BY <2>3, RestInv, Zenon DEF AnswerAndClose
    <2>4. CASE CheckFault(c)
      BY <2>4, CheckFaultAccess, Zenon
    <2>5. CASE Authorize(c)
      BY <2>5, AuthorizeAccess, Zenon
    <2>6. CASE Act(c)
      BY <2>6, ActAccess, Zenon
    <2> QED
      BY <1>2, <2>1, <2>2, <2>3, <2>4, <2>5, <2>6, Zenon DEF Task
  <1>3. CASE UNCHANGED <<require_sasl, work, bindings>>
    BY <1>3, Zenon DEF AccessInv, Busy
  <1>4. CASE ClearRules \/ \E rule \in ChaosRules : AddRule(rule)
    BY <1>3, <1>4, Zenon DEF ClearRules, AddRule
  <1>5. CASE UNCHANGED vars
    BY <1>3, <1>5, Zenon DEF vars
  <1> QED
    BY <1>1, <1>2, <1>4, <1>5, Zenon DEF Next

LEMMA AccessAlways == Spec => [](SessionInv /\ AccessInv)
  <1>1. Init => SessionInv /\ AccessInv
    BY InitInv, AccessInit
  <1>2. SessionInv /\ AccessInv /\ [Next]_vars => SessionInv' /\ AccessInv'
    BY StepInv, AccessStep
  <1> QED
    BY <1>1, <1>2, PTL DEF Spec

------------------------------------------------------------------------------
(* The theorems.                                                            *)

\* For any requests, users, bindings and number of connections, and whatever
\* other connections do to the bindings meanwhile, a handler makes no call
\* whose permission was refused throughout: authorize is asked before every
\* part of a request, with the README's permission or one of the departures
\* that AlsoAccepts names.  Topics that Metadata creates are the exception
\* (NeverAsks).
THEOREM CallsAreAlwaysPermitted == Spec => []CallsWerePermitted
  <1>1. SessionInv /\ AccessInv => CallsWerePermitted
    <2> SUFFICES ASSUME SessionInv, AccessInv, NEW c \in Connections, Handling(c),
                        NEW k \in work[c].made
                 PROVE  LET need == Accepts(work[c].req.api, k)
                        IN need = {} \/ need \cap work[c].allowed # {}
      BY Zenon DEF CallsWerePermitted
    <2>1. Justified(work[c])
      BY TaskUnderWay, Zenon
    <2>2. Granted(work[c].req.api, k, work[c].allowed)
      BY <2>1, Zenon DEF Justified
    <2> QED
      BY <2>2, Zenon DEF Granted
  <1> QED
    BY <1>1, AccessAlways, PTL

\* The answer to a request leaves out only what was refused while it was
\* handled: a client that holds a permission throughout is served.
THEOREM PermittedIsAlwaysServed == Spec => []PermittedIsServed
  <1>1. SessionInv /\ AccessInv => PermittedIsServed
    <2> SUFFICES ASSUME SessionInv, AccessInv, NEW c \in Connections, Handling(c), Complete(c),
                        NEW g \in ToSet(CurrentPlan(work[c])), NEW k \in g.calls
                 PROVE  \/ k.op = "grant" \/ OnGranted(k)
                        \/ k \in work[c].made
                        \/ ToSet(g.needs) \subseteq work[c].refused
      BY Zenon DEF PermittedIsServed
    <2> DEFINE w == work[c]
               P == CurrentPlan(w)
    <2>1. Justified(w)
      BY TaskUnderWay, Zenon
    <2>2. w.group > Len(P)
      <3>1. w # Answering
        BY EndsOK, Zenon DEF Handling
      <3> QED
        BY <3>1, Zenon DEF Complete
    <2> HIDE DEF w
    <2>3. Len(P) \in Nat /\ DOMAIN P = 1..Len(P)
      BY <2>1, PlanOf, Zenon DEF Justified
    <2>4. PICK i \in DOMAIN P : g = P[i]
      <3>1. g \in ToSet(P)
        BY Zenon DEF w
      <3> HIDE DEF P
      <3> QED
        BY <3>1, Zenon DEF ToSet
    <2>5. w.group \in 1..(Len(P) + 1)
      BY <2>1, Zenon DEF Justified, Standing
    <2>6. i \in 1..(w.group - 1)
      <3> HIDE DEF P
      <3> QED
        BY <2>2, <2>3, <2>4, <2>5
    <2>7. Passed(g, w.made, w.refused)
      BY <2>1, <2>4, <2>6, Zenon DEF Justified
    <2> QED
      BY <2>7, Zenon DEF Passed, Direct, w
  <1> QED
    BY <1>1, AccessAlways, PTL

\* authorize, which scans the bindings in the order they were created in,
\* decides every check by the set of bindings alone.
THEOREM OrderNeverMatters == Spec => []AuthorizeMatchesRules
  <1>1. SessionInv /\ AccessInv => AuthorizeMatchesRules
    <2> SUFFICES ASSUME AccessInv, NEW c \in Connections, NEW n
                 PROVE  authorize(bindings, work[c].principal, Host, n)
                            <=> Permitted(ToSet(bindings), work[c].principal, Host, n)
      BY Zenon DEF AuthorizeMatchesRules
    <2>1. bindings \in Seq(ToSet(bindings))
      BY Zenon DEF AccessInv, IsList
    <2> QED
      BY <2>1, AuthorizeIgnoresOrder
  <1> QED
    BY <1>1, AccessAlways, PTL

\* Whatever bindings are there, delete_acls removes what describe_acls lists
\* for the same filter, keeps the rest, and leaves nothing for it to list.
THEOREM DeleteAlwaysMatchesDescribe == Spec => []DeleteMatchesDescribe
  <1>1. SessionInv /\ AccessInv => DeleteMatchesDescribe
    <2> SUFFICES ASSUME AccessInv, NEW f \in Filters
                 PROVE  LET d == delete_acls(bindings, <<f>>)
                        IN /\ d.removed[1] = describe_acls(bindings, f)
                           /\ describe_acls(d.bindings, f) = <<>>
                           /\ ToSet(d.bindings) = ToSet(bindings) \ ToSet(d.removed[1])
      BY Zenon DEF DeleteMatchesDescribe
    <2> DEFINE d == delete_acls(bindings, <<f>>)
    <2>1. IsList(bindings)
      BY Zenon DEF AccessInv
    <2>2. /\ d.removed[1] = describe_acls(bindings, f)
          /\ describe_acls(d.bindings, f) = <<>>
          /\ ToSet(d.bindings) = ToSet(bindings) \ ToSet(d.removed[1])
      BY <2>1, DeletesWhatItDescribes, Zenon
    <2> QED
      BY <2>2, Zenon
  <1> QED
    BY <1>1, AccessAlways, PTL

\* The calls of Produce and Fetch for a topic.
LEMMA FetchCalls ==
    ASSUME NEW r, NEW fault, NEW i \in DOMAIN Fetch(r, fault)
    PROVE  LET calls == Fetch(r, fault)[i].calls
           IN /\ fault => \A k \in calls : k.op \notin {"append_records", "read_records"}
              /\ ~fault => \A k \in calls : Call("read_records", k.on) \in calls
  <1> DEFINE t == r.topics[i]
             Ops == {"get_or_create_partition"} \cup IF fault THEN {} ELSE {"read_records"}
             S == {t.name} \X (1 .. t.partitions)
             calls == [op : Ops, on : S]
  <1>1. Fetch(r, fault)[i].calls = calls
    BY Zenon DEF Fetch, ForEach, Group
  <1> HIDE DEF S
  <1>2. \A k \in calls : k.op \in Ops /\ k.on \in S
    OBVIOUS
  <1>3. fault => \A k \in calls : k.op \notin {"append_records", "read_records"}
    <2>1. fault => \A op \in Ops : op \notin {"append_records", "read_records"}
      OBVIOUS
    <2> QED
      BY <1>2, <2>1, Zenon
  <1>4. ~fault => \A k \in calls : Call("read_records", k.on) \in calls
    <2>1. ~fault => "read_records" \in Ops
      OBVIOUS
    <2>2. \A op \in Ops, on \in S : Call(op, on) \in calls
      <3> HIDE DEF Ops
      <3> QED
        BY DEF Call
    <2> QED
      BY <1>2, <2>1, <2>2, Zenon
  <1> HIDE DEF calls
  <1> QED
    BY <1>1, <1>3, <1>4, Zenon

\* The partitions of the topic t that are good are appended to.
StoresGood(calls, t) ==
    \A k \in calls :
        /\ k.on[1] = t.name /\ k.on[2] \in DOMAIN t.partitions
        /\ t.partitions[k.on[2]] = "good" => Call("append_records", k.on) \in calls

LEMMA ProduceCalls ==
    ASSUME NEW r, NEW fault, NEW i \in DOMAIN Produce(r, fault)
    PROVE  /\ fault => \A k \in Produce(r, fault)[i].calls :
                           k.op \notin {"append_records", "read_records"}
           /\ ~fault => StoresGood(Produce(r, fault)[i].calls, r.topics[i])
  <1> DEFINE t == r.topics[i]
             D == DOMAIN t.partitions
             Stored(p) == ~fault /\ p \in {"good"} \cup IF SchemaValidation THEN {} ELSE {"invalid"}
             A == [op : {"get_or_create_partition"}, on : {t.name} \X D]
             B == {Call("append_records", <<t.name, j>>) : j \in {j \in D : Stored(t.partitions[j])}}
  <1>1. Produce(r, fault)[i].calls = A \cup B
    BY Zenon DEF Produce, ForEach, Group
  <1>2. ASSUME NEW k \in A PROVE k.op = "get_or_create_partition" /\ k.on \in {t.name} \X D
    OBVIOUS
  <1>3. ASSUME NEW k \in B
        PROVE  k.op = "append_records" /\ ~fault /\ \E j \in D : k.on = <<t.name, j>>
    <2>1. PICK j \in D : Stored(t.partitions[j]) /\ k = Call("append_records", <<t.name, j>>)
      BY Zenon
    <2>2. ~fault
      BY <2>1, Zenon
    <2> HIDE DEF Stored
    <2>3. k.op = "append_records" /\ k.on = <<t.name, j>>
      BY <2>1 DEF Call
    <2> QED
      BY <2>2, <2>3, Zenon
  <1>4. ASSUME NEW j \in D, ~fault, t.partitions[j] = "good"
        PROVE  Call("append_records", <<t.name, j>>) \in B
    <2>1. Stored(t.partitions[j])
      BY <1>4, Zenon
    <2> QED
      BY <2>1, Zenon
  <1> HIDE DEF A, B, D, t
  <1>5. ASSUME fault, NEW k \in A \cup B PROVE k.op \notin {"append_records", "read_records"}
    <2>1. k.op = "get_or_create_partition"
      BY <1>2, <1>3, <1>5, Zenon
    <2> QED
      BY <2>1
  <1>6. ASSUME ~fault, NEW k \in A \cup B
        PROVE  /\ k.on[1] = t.name /\ k.on[2] \in D
               /\ t.partitions[k.on[2]] = "good" => Call("append_records", k.on) \in A \cup B
    <2>1. \E j \in D : k.on = <<t.name, j>>
      <3>1. CASE k \in A
        <4>1. k.on \in {t.name} \X D
          BY <1>2, <3>1, Zenon
        <4> QED
          BY <4>1
      <3>2. CASE k \in B
        BY <1>3, <3>2, Zenon
      <3> QED
        BY <3>1, <3>2, Zenon
    <2>2. PICK j \in D : k.on = <<t.name, j>>
      BY <2>1, Zenon
    <2>3. k.on[1] = t.name /\ k.on[2] = j
      BY <2>2
    <2>4. t.partitions[j] = "good" => Call("append_records", k.on) \in B
      BY <1>4, <1>6, <2>2, Zenon
    <2> QED
      BY <2>3, <2>4, Zenon
  <1>7. ~fault => StoresGood(A \cup B, t)
    BY <1>6, Zenon DEF StoresGood, D
  <1> QED
    BY <1>1, <1>5, <1>7, Zenon DEF t

\* A fault rule that hits a Produce or a Fetch fails all of its partitions,
\* one that does not fails none, although the rules change while it runs:
\* check_fault is asked once for the request.
THEOREM FaultsAreWhole == Spec => []FaultIsWhole
  <1>1. SessionInv /\ AccessInv => FaultIsWhole
    <2> SUFFICES ASSUME SessionInv, AccessInv, NEW c \in Connections, Handling(c)
                 PROVE  LET touched == {k.on : k \in {k \in work[c].made : k.op = "get_or_create_partition"}}
                            served == {k.on : k \in {k \in work[c].made :
                                                         k.op \in {"append_records", "read_records"}}}
                            good == {p \in touched : work[c].req.api = "Fetch" \/
                                        \A t \in ToSet(work[c].req.topics) :
                                            t.name = p[1] /\ p[2] \in DOMAIN t.partitions
                                                => t.partitions[p[2]] = "good"}
                        IN work[c].req.api \in FaultTargets => served = {} \/ good \subseteq served
      BY Zenon DEF FaultIsWhole
    <2> DEFINE w == work[c]
               M == w.made
               P == CurrentPlan(w)
               r == w.req
               fault == w.fault = "yes"
    <2>1. Justified(w)
      BY TaskUnderWay, Zenon
    <2> HIDE DEF w
    <2>2. /\ \A k \in M : MadeWhole(P, k, M)
          /\ Decoded(r) /\ r.api \in Planned
      BY <2>1, Zenon DEF Justified
    <2>3. P = Plan(r, fault)
      BY Zenon DEF CurrentPlan
    <2> DEFINE Whole(k) == \E i \in DOMAIN P : k \in P[i].calls /\ Direct(P[i]) \subseteq M
               DataCall(k) == k.op \in DataOps
    <2>4. ASSUME NEW k \in M, k.op \in DataOps PROVE Whole(k)
      <3>1. ~OnGranted(k)
        BY <2>4 DEF DataOps, OnGranted
      <3> QED
        BY <2>2, <3>1, Zenon DEF MadeWhole
    <2>5. ASSUME NEW g, NEW on, NEW op \in DataOps, Call(op, on) \in g.calls, Direct(g) \subseteq M
          PROVE  Call(op, on) \in M
      <3>1. Call(op, on).op = op
        BY CallIs, Zenon
      <3>2. op # "grant" /\ op \notin {"describe_groups", "delete_groups"}
        BY DEF DataOps
      <3> QED
        BY <2>5, <3>1, <3>2, Zenon DEF Direct, OnGranted
    <2> DEFINE touched == {k.on : k \in {k \in M : k.op = "get_or_create_partition"}}
               served == {k.on : k \in {k \in M : k.op \in {"append_records", "read_records"}}}
               good == {p \in touched : r.api = "Fetch" \/
                           \A t \in ToSet(r.topics) :
                               t.name = p[1] /\ p[2] \in DOMAIN t.partitions
                                                => t.partitions[p[2]] = "good"}
    <2>6. {"get_or_create_partition", "append_records", "read_records"} \subseteq DataOps
      BY Zenon DEF DataOps
    <2>7. ASSUME NEW on, NEW op \in {"append_records", "read_records"}, Call(op, on) \in M
          PROVE  on \in served
      <3>1. Call(op, on).op = op /\ Call(op, on).on = on
        BY CallIs, Zenon
      <3> HIDE DEF M
      <3> QED
        BY <2>7, <3>1, Zenon
    <2>8. CASE r.api = "Fetch"
      <3>1. P = Fetch(r, fault)
        BY <2>3, <2>8 DEF Plan
      <3>2. CASE fault
        <4>1. \A i \in DOMAIN P : \A k \in P[i].calls : k.op \notin {"append_records", "read_records"}
          <5> HIDE DEF P, fault
          <5> QED
            BY <3>1, <3>2, FetchCalls, Zenon
        <4>2. \A k \in M : k.op \notin {"append_records", "read_records"}
          BY <2>4, <2>6, <4>1, Zenon
        <4>3. served = {}
          BY <4>2, Zenon
        <4> QED
          BY <4>3, Zenon DEF w
      <3>3. CASE ~fault
        <4>1. \A i \in DOMAIN P : \A k \in P[i].calls : Call("read_records", k.on) \in P[i].calls
          <5> HIDE DEF P, fault
          <5> QED
            BY <3>1, <3>3, FetchCalls, Zenon
        <4>2. ASSUME NEW k \in M, k.op = "get_or_create_partition" PROVE k.on \in served
          <5>1. PICK i \in DOMAIN P : k \in P[i].calls /\ Direct(P[i]) \subseteq M
            BY <2>4, <2>6, <4>2, Zenon
          <5>2. Call("read_records", k.on) \in M
            BY <2>5, <2>6, <4>1, <5>1, Zenon
          <5> QED
            BY <2>7, <5>2, Zenon
        <4>3. touched \subseteq served
          <5> HIDE DEF served
          <5> QED
            BY <4>2, Zenon
        <4>4. good \subseteq served
          <5> HIDE DEF served, touched
          <5> QED
            BY <4>3, Zenon
        <4> QED
          BY <4>4, Zenon DEF w
      <3> QED
        BY <3>2, <3>3, Zenon
    <2>9. CASE r.api = "Produce"
      <3>1. P = Produce(r, fault)
        BY <2>3, <2>9 DEF Plan
      <3>2. CASE fault
        <4>1. \A i \in DOMAIN P : \A k \in P[i].calls : k.op \notin {"append_records", "read_records"}
          <5> HIDE DEF P, fault
          <5> QED
            BY <3>1, <3>2, ProduceCalls, Zenon
        <4>2. \A k \in M : k.op \notin {"append_records", "read_records"}
          BY <2>4, <2>6, <4>1, Zenon
        <4>3. served = {}
          BY <4>2, Zenon
        <4> QED
          BY <4>3, Zenon DEF w
      <3>3. CASE ~fault
        <4>0. DOMAIN P = DOMAIN r.topics
          <5> HIDE DEF P
          <5> QED
            BY <3>1, Zenon DEF Produce, ForEach
        <4>1. \A i \in DOMAIN P : \A k \in P[i].calls :
                  /\ k.on[1] = r.topics[i].name /\ k.on[2] \in DOMAIN r.topics[i].partitions
                  /\ r.topics[i].partitions[k.on[2]] = "good" =>
                         Call("append_records", k.on) \in P[i].calls
          <5>1. \A i \in DOMAIN P : StoresGood(P[i].calls, r.topics[i])
            <6> HIDE DEF P, fault
            <6> QED
              BY <3>1, <3>3, ProduceCalls, Zenon
          <5> HIDE DEF P
          <5> QED
            BY <5>1, Zenon DEF StoresGood
        <4>2. ASSUME NEW p \in good PROVE p \in served
          <5>1. PICK k \in M : k.op = "get_or_create_partition" /\ p = k.on
            BY Zenon
          <5>2. \A t \in ToSet(r.topics) :
                    t.name = p[1] /\ p[2] \in DOMAIN t.partitions => t.partitions[p[2]] = "good"
            <6>1. r.api # "Fetch"
              BY <2>9
            <6> HIDE DEF touched
            <6> QED
              BY <6>1, Zenon
          <5>3. PICK i \in DOMAIN P : k \in P[i].calls /\ Direct(P[i]) \subseteq M
            BY <2>4, <2>6, <5>1, Zenon
          <5>4. r.topics[i] \in ToSet(r.topics)
            BY <4>0, <5>3, Zenon DEF ToSet
          <5>5. Call("append_records", p) \in P[i].calls
            BY <4>1, <5>1, <5>2, <5>3, <5>4, Zenon
          <5>6. Call("append_records", p) \in M
            BY <2>5, <2>6, <5>3, <5>5, Zenon
          <5> QED
            BY <2>7, <5>6, Zenon
        <4>3. good \subseteq served
          BY <4>2, Zenon
        <4> QED
          BY <4>3, Zenon DEF w
      <3> QED
        BY <3>2, <3>3, Zenon
    <2> QED
      BY <2>8, <2>9, Zenon DEF FaultTargets, w
  <1> QED
    BY <1>1, AccessAlways, PTL
==============================================================================
