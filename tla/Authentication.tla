--------------------------- MODULE Authentication ---------------------------
(***************************************************************************)
(* The setup of an authenticated session: resolve_service, then            *)
(* authenticate_service (connector/src/tls.rs), on one clock.  Endpoints   *)
(* are attempted in canonical order until one accepts the connection; that *)
(* connection alone carries the TLS handshake.  Endpoints and the TLS      *)
(* library are external: an attempt ends in any way, at any time.          *)
(***************************************************************************)
EXTENDS Resolution

CONSTANTS
    EndpointAttempts,  \* limits.endpoint_attempts
    SetupDeadline,     \* limits.setup_time_ms
    HandshakeLimit     \* limits.tls_handshake_bytes

ASSUME AuthenticationNumbers ==
    /\ EndpointAttempts \in Nat /\ SetupDeadline \in Nat
    /\ HandshakeLimit \in Nat

VARIABLES
    tls,         \* control point of authenticate_service
    attempts,    \* results of the endpoint attempts, in order
    attemptEnd,  \* deadline of the current attempt
    lastFailure, \* last_failure
    handshake,   \* handshake bytes metered in both directions
    authAt,      \* authenticated_ns
    tlsError     \* TlsError

tlsVars == <<tls, attempts, attemptEnd, lastFailure, handshake, authAt,
             tlsError>>
vars == <<clock, resolutionVars, tlsVars>>

Results == {"Refused", "TimedOut", "Failed", "Connected"}
TlsErrors == {"EndpointUnavailable", "EndpointAttemptLimit",
    "EndpointAttemptDeadline", "SetupDeadline", "AnswerExpired",
    "TrustRootSetInvalid", "ServiceNameInvalid", "ServiceNameMismatch",
    "Configuration", "Authentication", "Resumption", "Version",
    "HandshakeLimit", "CertificateChainMissing"}

Init ==
    /\ ResolutionInit
    /\ tls = "start" /\ attempts = <<>> /\ attemptEnd = 0
    /\ lastFailure = "EndpointUnavailable" /\ handshake = 0 /\ authAt = 0
    /\ tlsError = "none"

-----------------------------------------------------------------------------
TlsFail(e) ==
    /\ tls' = "failed" /\ tlsError' = e
    /\ UNCHANGED <<clock, resolutionVars, attemptEnd, lastFailure, handshake,
                   authAt>>

\* The answer of the attempt in progress, or of the connected one.
Selected == answers[Len(attempts) + (IF tls = "connect" THEN 1 ELSE 0)]

\* terminal_absolute_deadline_kind
Passed(answer) ==
    IF clock >= answer.expires THEN "AnswerExpired"
    ELSE IF clock >= SetupDeadline THEN "SetupDeadline" ELSE "none"

\* The failure named when connection_timeout leaves no time.
PassedOrAttempt(answer) ==
    IF Passed(answer) # "none" THEN Passed(answer)
                               ELSE "EndpointAttemptDeadline"
TimeLeft(answer, end) == clock < end /\ Passed(answer) = "none"

\* build_config with the trust roots.
Configure ==
    /\ tls = "start" /\ dns = "resolved"
    /\ tls' = "next"
    /\ UNCHANGED <<clock, resolutionVars, attempts, attemptEnd, lastFailure,
                   handshake, authAt, tlsError>>
ConfigureFail(e) ==
    /\ tls = "start" /\ dns = "resolved"
    /\ e \in {"TrustRootSetInvalid", "Configuration", "SetupDeadline"}
    /\ TlsFail(e) /\ UNCHANGED attempts

More == Len(attempts) < Min2(EndpointAttempts, Len(answers))

\* The next endpoint in canonical order.
StartAttempt ==
    /\ tls = "next" /\ More
    /\ LET answer == answers[Len(attempts) + 1]
           end    == clock + AttemptDeadline
       IN  IF TimeLeft(answer, end)
           THEN /\ tls' = "connect" /\ attemptEnd' = end
                /\ UNCHANGED <<clock, resolutionVars, attempts, lastFailure,
                               handshake, authAt, tlsError>>
           ELSE TlsFail(PassedOrAttempt(answer)) /\ UNCHANGED attempts

\* No endpoint is left: terminal_connect_failure.
Exhausted ==
    /\ tls = "next" /\ ~More
    /\ TlsFail(IF lastFailure = "EndpointAttemptDeadline" THEN lastFailure
               ELSE IF /\ Len(attempts) >= EndpointAttempts
                       /\ Len(answers) > Len(attempts)
                    THEN "EndpointAttemptLimit" ELSE "EndpointUnavailable")
    /\ UNCHANGED attempts

\* connect_timeout returns.  A connection that comes too late is dropped,
\* and a deadline of the session ends the loop.
ConnectReturns(outcome) ==
    /\ tls = "connect"
    /\ LET over   == Passed(Selected) # "none"
           result == IF over \/ clock >= attemptEnd THEN "TimedOut"
                                                    ELSE outcome
       IN  /\ attempts' = Append(attempts, result)
           /\ IF over THEN TlsFail(Passed(Selected))
              ELSE /\ tls' = IF result = "Connected" THEN "hello" ELSE "next"
                   /\ lastFailure' =
                        CASE result = "Connected" -> lastFailure
                          [] result = "TimedOut" -> "EndpointAttemptDeadline"
                          [] OTHER -> "EndpointUnavailable"
                   /\ UNCHANGED <<clock, resolutionVars, attemptEnd,
                                  handshake, authAt, tlsError>>

\* The time left is computed again and the client connection is created.
Hello ==
    /\ tls = "hello"
    /\ IF TimeLeft(Selected, attemptEnd)
       THEN /\ tls' = "handshake"
            /\ UNCHANGED <<clock, resolutionVars, attempts, attemptEnd,
                           lastFailure, handshake, authAt, tlsError>>
       ELSE TlsFail(PassedOrAttempt(Selected)) /\ UNCHANGED attempts
HelloFail(e) ==
    /\ tls = "hello" /\ e \in {"ServiceNameInvalid", "Configuration"}
    /\ TlsFail(e) /\ UNCHANGED attempts

\* MeteredTcpStream moves at most the bytes the limit leaves.
HandshakeIo ==
    /\ tls = "handshake" /\ clock < attemptEnd /\ handshake < HandshakeLimit
    /\ Passed(Selected) = "none"
    /\ handshake' = handshake + 1
    /\ UNCHANGED <<clock, resolutionVars, tls, attempts, attemptEnd,
                   lastFailure, authAt, tlsError>>

\* Mutant: another endpoint is tried after a failed handshake.
HandshakeFailTriesNext(e) ==
    /\ tls = "handshake" /\ tls' = "next"
    /\ UNCHANGED <<clock, resolutionVars, attempts, attemptEnd, lastFailure,
                   handshake, authAt, tlsError>>

\* complete_io fails: it times out, the byte limit is reached, or the TLS
\* library refuses the peer.  After an io that succeeds the deadlines are read
\* again, that of the setup first.
HandshakeFail(e) ==
    /\ tls = "handshake"
    /\ \/ e = PassedOrAttempt(Selected)
       \/ e = "HandshakeLimit" /\ handshake >= HandshakeLimit
       \/ e = "Authentication"
       \/ e = "SetupDeadline" /\ clock >= SetupDeadline
       \/ e = "AnswerExpired" /\ clock >= Selected.expires
             /\ clock < SetupDeadline
    /\ TlsFail(e) /\ UNCHANGED attempts

\* The peer is not the declared service under the declared policy.
PolicyFail(e) ==
    /\ tls = "handshake"
    /\ e \in {"Resumption", "Version", "CertificateChainMissing",
              "ServiceNameMismatch", "Authentication"}
    /\ TlsFail(e) /\ UNCHANGED attempts

\* The handshake is complete, its policy holds and no deadline has passed.
Authenticated ==
    /\ tls = "handshake" /\ handshake > 0
    /\ IF Passed(Selected) # "none"
       THEN TlsFail(Passed(Selected)) /\ UNCHANGED attempts
       ELSE /\ tls' = "authenticated" /\ authAt' = clock
            /\ UNCHANGED <<clock, resolutionVars, attempts, attemptEnd,
                           lastFailure, handshake, tlsError>>

AuthenticationStep ==
    \/ Configure \/ StartAttempt \/ Exhausted \/ Hello \/ HandshakeIo
    \/ Authenticated
    \/ \E outcome \in Results : ConnectReturns(outcome)
    \/ \E e \in TlsErrors :
          ConfigureFail(e) \/ HelloFail(e) \/ HandshakeFail(e) \/ PolicyFail(e)

Over == dns = "failed" \/ tls \in {"failed", "authenticated"}

Next ==
    \/ ResolutionStep /\ UNCHANGED tlsVars
    \/ AuthenticationStep
    \/ ~Over /\ Elapse /\ UNCHANGED <<resolutionVars, tlsVars>>
    \/ Over /\ UNCHANGED vars

Spec == Init /\ [][Next]_vars

\* Steps that need nothing from the resolver or an endpoint: the connector's
\* own, and the timeouts of the connection and of the metered socket.
OwnStep ==
    \/ (Ask \/ ExchangeTimeout \/ Merge) /\ UNCHANGED tlsVars
    \/ Configure \/ StartAttempt \/ Exhausted \/ Hello
    \/ /\ tls \in {"connect", "handshake"}
       /\ ~TimeLeft(Selected, attemptEnd)
       /\ \/ ConnectReturns("TimedOut")
          \/ \E e \in TlsErrors : HandshakeFail(e)

-----------------------------------------------------------------------------
(* Properties. *)

\* The address that is connected rests on sound evidence.  Every alias chain
\* that is followed starts at the service, is connected, never returns to a
\* name and stays within the declared depth, whatever the resolver answers
\* (resolve_record_type, reconcile_chains).  Every record on the way, for
\* either record type, had not expired when the session was authenticated
\* (apply_chain_expiry, merge_cname_observations).  Endpoints are attempted
\* in canonical order, never more than declared, and a connection ends the
\* attempts: no TLS failure moves on to another endpoint
\* (authenticate_service).
ChainIsAPath(p) ==
    /\ Len(p) <= MaxDepth
    /\ p # <<>> => p[1].owner = Service
    /\ \A i \in 1 .. Len(p) - 1 : p[i].target = p[i + 1].owner
    /\ Cardinality({Service} \union {p[i].target : i \in 1 .. Len(p)})
         = Len(p) + 1
NoRecordExpired ==
    /\ \A k \in Kinds : \A i \in 1 .. Len(found[k].links) :
          authAt < found[k].links[i].expires
    /\ \E k \in Kinds : \E a \in found[k].answers :
          /\ a.address = answers[Len(attempts)].address
          /\ authAt < a.expires
    /\ authAt < SetupDeadline
OneConnection ==
    /\ Len(attempts) <= Min2(EndpointAttempts, Len(answers))
    /\ \A i \in 1 .. Len(attempts) :
          attempts[i] = "Connected" => i = Len(attempts)
    /\ tls \in {"hello", "handshake", "authenticated"} =>
          attempts # <<>> /\ attempts[Len(attempts)] = "Connected"
    /\ \A i, j \in 1 .. Len(answers) :
          i < j => answers[i].address < answers[j].address
EndpointIsEvidenced ==
    /\ \A p \in {path, chain, found["A"].links, found["AAAA"].links} :
          ChainIsAPath(p)
    /\ tls = "authenticated" => NoRecordExpired
    /\ OneConnection
=============================================================================
