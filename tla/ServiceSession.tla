--------------------------- MODULE ServiceSession ---------------------------
(***************************************************************************)
(* The work of one connector process between its bootstrap and its last    *)
(* report (run_connector_process, linux/src/connector_process.rs): the     *)
(* service is resolved and authenticated, Ready is reported, and the       *)
(* authenticated connection is proxied.  Each part ends the session when   *)
(* it fails.                                                               *)
(***************************************************************************)
EXTENDS Authentication, ChannelProxy

\* authenticate_service returned: Ready takes the evidence of the setup with
\* it and nothing reads it afterwards.  The supervisor may be gone.
SendReady ==
    /\ tls = "authenticated"
    /\ \/ tls' = "proxying" /\ tlsError' = "none"
       \/ tls' = "failed" /\ tlsError' = "Protocol"
    /\ clock' = 0 /\ dns' = "resolved" /\ messages' = 0 /\ kind' = "A"
    /\ current' = Service /\ path' = <<>> /\ deadline' = 0
    /\ found' = [k \in Kinds |-> Nothing] /\ chain' = <<>> /\ answers' = <<>>
    /\ dnsError' = "none" /\ attempts' = <<>> /\ attemptEnd' = 0
    /\ lastFailure' = "EndpointUnavailable" /\ handshake' = 0 /\ authAt' = 0
    /\ UNCHANGED channelVars

SessionOver == dns = "failed" \/ tls = "failed" \/ pc = "done"

SessionInit == Init /\ ProxyInit

SessionNext ==
    \/ tls # "proxying" /\ ~Over /\ Next /\ UNCHANGED channelVars
    \/ SendReady
    \/ tls = "proxying" /\ ProxyNext /\ UNCHANGED vars
    \/ SessionOver /\ UNCHANGED <<vars, channelVars>>

sessionVars == <<vars, channelVars>>
SessionSpec == SessionInit /\ [][SessionNext]_sessionVars

\* The connector keeps running and the clock advances.
FairSession ==
    /\ SessionSpec
    /\ WF_sessionVars(tls # "proxying" /\ OwnStep /\ UNCHANGED channelVars)
    /\ WF_sessionVars(/\ tls # "proxying" /\ ~Over /\ Elapse
                      /\ UNCHANGED <<resolutionVars, tlsVars, channelVars>>)
    /\ WF_sessionVars(SendReady)
    /\ WF_sessionVars(tls = "proxying" /\ ProxyStep /\ UNCHANGED vars)
    /\ WF_sessionVars(tls = "proxying" /\ Expire /\ UNCHANGED vars)

-----------------------------------------------------------------------------
(* Properties. *)

\* The session ends, whatever the resolver, the endpoints, the child and the
\* service do or do not do: setup ends by its deadlines, and a silent child
\* and a silent service hold the proxy only until the session limit.
SessionEnds == <>SessionOver
=============================================================================
