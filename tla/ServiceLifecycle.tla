-------------------------- MODULE ServiceLifecycle --------------------------
(***************************************************************************)
(* The pure lifecycle of one service session: ServiceSessionLifecycle      *)
(* (core/src/service_lifecycle.rs).  It is the abstract specification that *)
(* ConnectorProcess is shown to implement.                                 *)
(***************************************************************************)
VARIABLES phase, failure

Reasons == {"Resolution", "Endpoint", "Tls", "Connector", "Channel",
            "Limit", "Launcher", "Cleanup"}

IsTerminal == phase \in {"Closed", "Failed"}

Init == phase = "Created" /\ failure = "none"

\* One accepted event of transition: its phase before and its phase after.
Move(from, to) == phase = from /\ phase' = to /\ failure' = "none"

BeginResolution    == Move("Created", "Resolving")
ResolutionComplete == Move("Resolving", "Connecting")
EndpointConnected  == Move("Connecting", "Authenticating")
TlsAuthenticated   == Move("Authenticating", "Ready")
ChildReleased      == Move("Ready", "Active")
BeginClose         == Move("Active", "Closing")
CloseComplete      == Move("Closing", "Closed")

\* A typed failure is accepted in every phase that is not terminal.
Fail(reason) == ~IsTerminal /\ phase' = "Failed" /\ failure' = reason

Next ==
    \/ BeginResolution \/ ResolutionComplete \/ EndpointConnected
    \/ TlsAuthenticated \/ ChildReleased \/ BeginClose \/ CloseComplete
    \/ \E reason \in Reasons : Fail(reason)

Spec == Init /\ [][Next]_<<phase, failure>>
=============================================================================
