--------------------------------- MODULE Sasl ---------------------------------
(***************************************************************************)
(* The authentication state of a connection (ConnectionAuthState) and what *)
(* SaslHandshake and SaslAuthenticate make of it.                          *)
(*                                                                         *)
(* The bytes a client sends are one of                                     *)
(*   [kind |-> "plain", parts, user, password]  NUL-separated parts;       *)
(*   [kind |-> "first", user]       the client-first message of SCRAM,     *)
(*                                  user = NoUser when it names none;      *)
(*   [kind |-> "final", nonce, password]  the client-final message with    *)
(*                                  the proof this password gives; its     *)
(*                                  nonce is that of the pending challenge *)
(*                                  ("pending") or of an earlier one.      *)
(* Server nonces are 16 random bytes: two challenges never share one.      *)
(* Key derivation, signatures and base64 are abstracted to which password  *)
(* a proof was computed from.                                              *)
(***************************************************************************)
CONSTANTS
    Passwords,           \* the users and their passwords (--sasl-users)
    Enabled,             \* the enabled mechanisms (--sasl-mechanisms)
    NoUser               \* not a user

Scram == {"SCRAM-SHA-256", "SCRAM-SHA-512"}

Unauthenticated == [state |-> "Unauthenticated"]
HandshakeReceived(m) == [state |-> "HandshakeReceived", mechanism |-> m]
ScramChallengeSent(m, user) ==
    [state |-> "ScramChallengeSent", mechanism |-> m, username |-> user]
Authenticated(user) == [state |-> "Authenticated", principal |-> user]
Failed == [state |-> "Failed"]

Sessions(users) ==
    {Unauthenticated, Failed}
    \cup {HandshakeReceived(m) : m \in Enabled}
    \cup {ScramChallengeSent(m, u) : m \in Enabled, u \in users}
    \cup {Authenticated(u) : u \in users}

\* A handshake for an enabled mechanism starts over, whatever went before.
\* Mutant: an authenticated connection stays so.
Handshake_KeepsSession(s, mechanism) ==
    IF mechanism \in Enabled /\ s.state # "Authenticated"
    THEN HandshakeReceived(mechanism) ELSE s

Handshake(s, mechanism) ==
    IF mechanism \in Enabled THEN HandshakeReceived(mechanism) ELSE s

authenticate_plain(bytes) ==
    IF /\ bytes.kind = "plain" /\ bytes.parts = 3
       /\ bytes.user \in DOMAIN Passwords
       /\ bytes.password = Passwords[bytes.user]
    THEN Authenticated(bytes.user) ELSE Failed

\* The user is not looked up yet.
process_client_first(mechanism, bytes) ==
    IF bytes.kind = "first" /\ bytes.user # NoUser
    THEN ScramChallengeSent(mechanism, bytes.user) ELSE Failed

process_client_final(s, bytes) ==
    IF /\ s.username \in DOMAIN Passwords
       /\ bytes.kind = "final"
       /\ bytes.nonce = "pending"
       /\ bytes.password = Passwords[s.username]
    THEN Authenticated(s.username) ELSE Failed

\* In any other state the answer is IllegalSaslState and nothing changes.
Authenticate(s, bytes) ==
    CASE s.state = "HandshakeReceived" /\ s.mechanism = "PLAIN" -> authenticate_plain(bytes)
      [] s.state = "HandshakeReceived" /\ s.mechanism \in Scram ->
            process_client_first(s.mechanism, bytes)
      [] s.state = "ScramChallengeSent" -> process_client_final(s, bytes)
      [] OTHER -> s
==============================================================================
