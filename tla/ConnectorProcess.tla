-------------------------- MODULE ConnectorProcess --------------------------
(***************************************************************************)
(* One service connector process and its supervision                       *)
(* (linux/src/connector_process.rs): prepare_connector_process, spawn,     *)
(* take_child_channel and finish on the supervisor's side,                 *)
(* run_connector_process on the connector's, the one-way packet channel    *)
(* of reports between the two, and the reaper thread that collects a       *)
(* connector the supervisor gave up.                                       *)
(*                                                                         *)
(* A report carries what the supervisor checks: whether a Ready holds the  *)
(* binding of this session, and the traffic a Terminal counts.  Resolution *)
(* and TLS are one step each here.                                         *)
(***************************************************************************)
EXTENDS Naturals, Sequences

CONSTANTS
    ByteLimit,      \* limit on the bytes of each direction of the session
    Scenes          \* the situations a session may be in:
                    \*   volatile: artifacts whose bytes may change
                    \*   rogue: the connector executable may be a foreign
                    \*     one, which sends any report at any time
                    \*   transferFirst: the caller takes the channel
                    \*     before it finishes

ASSUME LimitAssumption == ByteLimit \in Nat

VARIABLES
    scene,       \* the situation of this session
    sup,         \* control point of the supervisor
    checked,     \* artifacts revalidated in the current pass, in order
    changed,     \* artifacts whose bytes are no longer the identified ones
    late,        \* the current deadline (setup, then session) has passed
    conn,        \* control point of the connector
    stage,       \* the furthest setup stage the connector reached, or
                 \* "foreign" if it does not follow the protocol (history)
    readChanged, \* inputs the connector read after they changed (history)
    moved,       \* bytes proxied in each direction
    reports,     \* packets on the control channel
    control,     \* the supervisor's end of the control channel is open
    channel,     \* owner of the child's end of the data channel
    ready,       \* the Ready report the supervisor accepted
    report,      \* the Failure or Terminal report whose sender is reaped
    exit,        \* exit status of the connector
    doomed,      \* SIGKILL is pending on the connector
    owner,       \* who will collect the exit status
    result       \* what the last supervisor call returned

supVars  == <<sup, checked, ready, report, result>>
connVars == <<conn, stage, readChanged, moved, exit>>
wireVars == <<reports, control>>
vars == <<scene, sup, checked, changed, late, conn, stage, readChanged, moved,
          reports, control, channel, ready, report, exit, doomed,
          owner, result>>

Artifacts == {"plan", "connector", "trust", "resolver", "closure"}
ASSUME SceneAssumption ==
    \A s \in Scenes : /\ s.volatile \subseteq Artifacts
                      /\ s.rogue \in BOOLEAN /\ s.transferFirst \in BOOLEAN

\* The order in which prepare and spawn revalidate the artifacts.
PrepareOrder == <<"plan", "connector", "trust", "resolver", "closure">>
SpawnOrder   == <<"connector", "plan", "trust", "resolver", "closure">>

Directions == {"childToService", "serviceToChild"}
Nothing    == [d \in Directions |-> 0]
FailureStages == {"Bootstrap", "Resolution", "Authentication", "Channel"}

Ready(bound)     == [kind |-> "Ready", bound |-> bound]
Terminal(n, act) == [kind |-> "Terminal", bytes |-> n, active |-> act]
Failure(s)       == [kind |-> "Failure", stage |-> s]
Malformed        == [kind |-> "Malformed"]
NoReport         == [kind |-> "none"]

\* Reports a connector that does not follow the protocol may send: a Ready of
\* another session, traffic beyond the limit, a Terminal for another Ready.
AnyReport ==
    {Ready(TRUE), Ready(FALSE), Malformed}
      \union {Failure(s) : s \in FailureStages}
      \union {Terminal(Nothing, a) : a \in BOOLEAN}
      \union {Terminal([Nothing EXCEPT !["childToService"] = ByteLimit + 1],
                       TRUE)}

SupPoints == {"prepare", "spawn", "awaitReady", "reapSetup", "ready",
              "awaitTerminal", "reapTerminal", "reapChannel", "returned"}
ConnPoints == {"absent", "foreign", "readPlan", "readTrust", "digest", "resolving",
               "connecting", "authenticating", "reportReady", "proxying",
               "reportTerminal", "leaving", "failing", "dead"}
Running == conn \notin {"absent", "dead"}

PrepareErrors == {"ArtifactRole", "ArtifactTooLarge", "PlanInvalid",
    "ConnectorExecutableInvalid", "ConnectorLoaderMissing",
    "ConnectorNotExecutable", "BindingInvalid"}
Errors == PrepareErrors \union {"ArtifactIdentityDrift", "Timeout",
    "ReaperUnavailable", "Channel", "BootstrapInvalid", "Spawn", "Protocol",
    "Exit", "Wait", "ConnectorFailed", "Dropped"}

Init ==
    /\ scene \in Scenes
    /\ sup = "prepare" /\ checked = 0 /\ changed = {} /\ late = FALSE
    /\ conn = "absent" /\ stage = "none" /\ readChanged = {}
    /\ moved = Nothing /\ reports = <<>> /\ control = FALSE
    /\ channel = "none" /\ ready = NoReport /\ report = NoReport
    /\ exit = "none" /\ doomed = FALSE
    /\ owner = "none" /\ result = "none"

-----------------------------------------------------------------------------
(* The environment. *)

\* The deadline in force passes.  Setup time starts once the plan is parsed,
\* session time when Ready is accepted.
Tick ==
    /\ ~late /\ sup # "returned" /\ ~(sup = "prepare" /\ checked = 0)
    /\ late' = TRUE
    /\ UNCHANGED <<supVars, changed, connVars, wireVars, channel, doomed,
                   owner>>

\* The bytes behind an artifact change.  A foreign connector reads none.
Change(a) ==
    /\ a \notin changed /\ stage # "foreign"
    /\ changed' = changed \union {a}
    /\ UNCHANGED <<supVars, late, connVars, wireVars, channel, doomed, owner>>

\* The child closes its end of the channel, or exits.
ChildClose ==
    /\ channel = "child"
    /\ channel' = "closed"
    /\ UNCHANGED <<supVars, changed, late, connVars, wireVars, doomed, owner>>

-----------------------------------------------------------------------------
(* The connector process. *)

ConnStep(from, to) ==
    /\ conn = from
    /\ conn' = to
    /\ UNCHANGED <<supVars, changed, late, control, channel, doomed, owner>>

\* send_packet fails once the supervisor closed its end; the connector then
\* exits with status 125 as it does after a report of failure.
SendAndGo(from, packet, to) ==
    /\ ConnStep(from, IF control THEN to ELSE "failing")
    /\ reports' = IF control THEN Append(reports, packet) ELSE reports

\* read_inherited_file and, once both inputs are read, the digest check.
ReadPlan ==
    /\ ConnStep("readPlan", "readTrust")
    /\ readChanged' = readChanged \union ({"plan"} \intersect changed)
    /\ UNCHANGED <<stage, moved, exit, reports>>

ReadTrust ==
    /\ ConnStep("readTrust", "digest")
    /\ readChanged' = readChanged \union ({"trust"} \intersect changed)
    /\ UNCHANGED <<stage, moved, exit, reports>>

CheckDigestsSkipped ==
    /\ ConnStep("digest", "resolving")
    /\ stage' = "resolving"
    /\ UNCHANGED <<readChanged, moved, exit, reports>>


CheckDigests ==
    /\ readChanged = {}
    /\ ConnStep("digest", "resolving")
    /\ stage' = "resolving"
    /\ UNCHANGED <<readChanged, moved, exit, reports>>

\* resolve_service, then authenticate_service: connect and TLS handshake.
Resolve ==
    /\ ConnStep("resolving", "connecting")
    /\ stage' = "connecting"
    /\ UNCHANGED <<readChanged, moved, exit, reports>>

Connect ==
    /\ ConnStep("connecting", "authenticating")
    /\ stage' = "authenticating"
    /\ UNCHANGED <<readChanged, moved, exit, reports>>

Authenticate ==
    /\ ConnStep("authenticating", "reportReady")
    /\ stage' = "authenticated"
    /\ UNCHANGED <<readChanged, moved, exit, reports>>

SendReady ==
    /\ SendAndGo("reportReady", Ready(TRUE), "proxying")
    /\ UNCHANGED <<stage, readChanged, moved, exit>>

\* proxy_authenticated_channel accounts one more byte in a direction.
Proxy(d) ==
    /\ moved[d] < ByteLimit
    /\ d = "childToService" => channel = "child"
    /\ ConnStep("proxying", "proxying")
    /\ moved' = [moved EXCEPT ![d] = @ + 1]
    /\ UNCHANGED <<stage, readChanged, exit, reports>>

\* The service closed the session and no byte is pending.
ProxyEnd ==
    /\ ConnStep("proxying", "reportTerminal")
    /\ UNCHANGED <<stage, readChanged, moved, exit, reports>>

SendTerminalSwapped ==
    /\ SendAndGo("reportTerminal",
                 Terminal([childToService |-> moved["serviceToChild"],
                           serviceToChild |-> moved["childToService"]], TRUE),
                 "leaving")
    /\ UNCHANGED <<stage, readChanged, moved, exit>>


SendTerminal ==
    /\ SendAndGo("reportTerminal", Terminal(moved, TRUE), "leaving")
    /\ UNCHANGED <<stage, readChanged, moved, exit>>

\* The stage a failure of each control point reports.
StageOf(point) ==
    CASE point \in {"readPlan", "readTrust", "digest"} -> "Bootstrap"
      [] point = "resolving" -> "Resolution"
      [] point \in {"connecting", "authenticating"} -> "Authentication"
      [] point = "proxying" -> "Channel"
      [] OTHER -> "none"

\* Every error is reported with its stage: send_failure.
ConnectorFail ==
    /\ StageOf(conn) # "none"
    /\ SendAndGo(conn, Failure(StageOf(conn)), "failing")
    /\ UNCHANGED <<stage, readChanged, moved, exit>>

Die(status) ==
    /\ conn' = "dead" /\ exit' = status
    /\ UNCHANGED <<supVars, changed, late, stage, readChanged, moved,
                   wireVars, channel, doomed, owner>>

ConnectorExit ==
    \/ conn = "leaving" /\ Die("success")
    \/ conn = "failing" /\ Die("failure")
\* The bootstrap arguments are refused, or a descriptor cannot be taken.
BootstrapFail == conn = "readPlan" /\ Die("failure")
Killed        == Running /\ doomed /\ Die("failure")
\* The connector crashes or the host kills it.
Crash         == Running /\ Die("failure")

\* A connector executable that does not follow the protocol.
RogueSend(p) ==
    /\ conn = "foreign" /\ control /\ Len(reports) < 2
    /\ reports' = Append(reports, p)
    /\ UNCHANGED <<supVars, changed, late, connVars, control, channel, doomed,
                   owner>>
RogueExit(status) == conn = "foreign" /\ Die(status)

-----------------------------------------------------------------------------
(* The supervisor. *)

FailWithoutKill(e) ==
    /\ sup' = "returned" /\ result' = e
    /\ control' = FALSE
    /\ channel' = IF channel = "supervisor" THEN "closed" ELSE channel
    /\ owner' = IF owner = "guard" THEN "reaper" ELSE owner
    /\ UNCHANGED <<checked, changed, late, connVars, reports, ready, report,
                   doomed>>

\* A call returns an error.  Dropping the guard closes the control channel
\* and, when it still holds the child, kills it and hands it to the reaper
\* thread; the retained end of the data channel closes with its owner.
FailWith(e) ==
    /\ sup' = "returned" /\ result' = e
    /\ control' = FALSE
    /\ channel' = IF channel = "supervisor" THEN "closed" ELSE channel
    /\ doomed' = IF owner = "guard" THEN TRUE ELSE doomed
    /\ owner' = IF owner = "guard" THEN "reaper" ELSE owner
    /\ UNCHANGED <<checked, changed, late, connVars, reports, ready, report>>

Refuse(e) == sup = "prepare" /\ e \in PrepareErrors /\ FailWith(e)

\* One revalidate_identity and the deadline check that follows it; see
\* Timeout.  Reading the plan, the first of prepare, starts the deadline.
Revalidate(point, order) ==
    /\ sup = point /\ checked < Len(order)
    /\ IF order[checked + 1] \in changed
         THEN FailWith("ArtifactIdentityDrift")
         ELSE /\ ~late
              /\ checked' = checked + 1
              /\ UNCHANGED <<sup, changed, late, connVars, wireVars, channel,
                             ready, report, doomed, owner, result>>

\* The prepared process is returned and the caller spawns it.
Prepared ==
    /\ sup = "prepare" /\ checked = Len(PrepareOrder) /\ ~late
    /\ sup' = "spawn" /\ checked' = 0
    /\ UNCHANGED <<changed, late, connVars, wireVars, channel, ready, report,
                   doomed, owner, result>>

\* The socket pairs and the process are created; the guard owns the child.
SpawnConnector ==
    /\ sup = "spawn" /\ checked = Len(SpawnOrder) /\ ~late
    /\ sup' = "awaitReady" /\ control' = TRUE
    /\ \/ conn' = "readPlan" /\ UNCHANGED stage
       \/ scene.rogue /\ conn' = "foreign" /\ stage' = "foreign"
    /\ channel' = "supervisor" /\ owner' = "guard"
    /\ UNCHANGED <<checked, changed, late, readChanged, moved, exit,
                   reports, ready, report, doomed, result>>

SpawnFail(e) ==
    /\ sup = "spawn"
    /\ \/ checked = 0 /\ e = "ReaperUnavailable"
       \/ /\ checked = Len(SpawnOrder)
          /\ e \in {"Channel", "BootstrapInvalid", "Spawn"}
    /\ FailWith(e)

\* Mutant: the loop of reap_before has no deadline.
TimeoutUnlessReaping ==
    /\ late
    /\ \/ sup = "prepare" /\ checked > 0
       \/ sup \in {"spawn", "awaitReady", "awaitTerminal"}
    /\ FailWith("Timeout")

\* require_before_deadline, receive_before and the loop of reap_before.
Timeout ==
    /\ late
    /\ \/ sup = "prepare" /\ checked > 0
       \/ sup \in {"spawn", "awaitReady", "reapSetup", "awaitTerminal",
                   "reapTerminal", "reapChannel"}
    /\ FailWith("Timeout")

\* receive_before and decode_report: one packet of the control channel.
Receive(point, p) ==
    /\ sup = point /\ ~late /\ reports # <<>> /\ p = Head(reports)

\* End of file, a failed read or a packet that does not decode.
ReceiveError ==
    /\ sup \in {"awaitReady", "awaitTerminal"} /\ ~late
    /\ FailWith("Protocol")

\* A Ready is accepted with the binding of this session only.
BindingHolds(p) == p.bound

AcceptReady(p) ==
    /\ Receive("awaitReady", p) /\ p.kind = "Ready"
    /\ IF BindingHolds(p)
         THEN /\ sup' = "ready" /\ ready' = p /\ late' = FALSE
              /\ reports' = Tail(reports)
              /\ UNCHANGED <<checked, changed, connVars, control, channel,
                             report, doomed, owner, result>>
         ELSE FailWith("BindingInvalid")

\* A failure report of setup is followed by the end of its sender.
SetupFailure(p) ==
    /\ Receive("awaitReady", p) /\ p.kind = "Failure"
    /\ IF p.stage = "Channel"
         THEN FailWith("Protocol")
         ELSE /\ sup' = "reapSetup" /\ report' = p
              /\ reports' = Tail(reports)
              /\ UNCHANGED <<checked, changed, late, connVars, control,
                             channel, ready, doomed, owner, result>>

WrongSetupReport(p) ==
    /\ Receive("awaitReady", p) /\ p.kind \in {"Terminal", "Malformed"}
    /\ FailWith("Protocol")

TakeChildChannelEarly ==
    /\ sup \in {"awaitReady", "ready"} /\ channel = "supervisor"
    /\ channel' = "child"
    /\ UNCHANGED <<supVars, changed, late, connVars, wireVars, doomed, owner>>

\* take_child_channel: the only child-side endpoint leaves the supervisor.
TakeChildChannel ==
    /\ sup = "ready" /\ channel = "supervisor"
    /\ channel' = "child"
    /\ UNCHANGED <<supVars, changed, late, connVars, wireVars, doomed, owner>>

\* finish drops an endpoint that was not transferred and checks the deadline.
Finish ==
    /\ sup = "ready"
    /\ scene.transferFirst => channel # "supervisor"
    /\ IF late
         THEN FailWith("Timeout")
         ELSE /\ sup' = "awaitTerminal"
              /\ channel' = IF channel = "supervisor" THEN "closed"
                                                      ELSE channel
              /\ UNCHANGED <<checked, changed, late, connVars, wireVars,
                             ready, report, doomed, owner, result>>

\* The caller drops the authenticated connector instead of finishing it.
Abandon == sup = "ready" /\ FailWith("Dropped")

AcceptTerminal(p) ==
    /\ Receive("awaitTerminal", p) /\ p.kind = "Terminal"
    /\ sup' = "reapTerminal" /\ report' = p
    /\ reports' = Tail(reports)
    /\ UNCHANGED <<checked, changed, late, connVars, control, channel, ready,
                   doomed, owner, result>>

ChannelFailure(p) ==
    /\ Receive("awaitTerminal", p) /\ p.kind = "Failure"
    /\ IF p.stage # "Channel"
         THEN FailWith("Protocol")
         ELSE /\ sup' = "reapChannel" /\ report' = p
              /\ reports' = Tail(reports)
              /\ UNCHANGED <<checked, changed, late, connVars, control,
                             channel, ready, doomed, owner, result>>

WrongTerminalReport(p) ==
    /\ Receive("awaitTerminal", p) /\ p.kind \in {"Ready", "Malformed"}
    /\ FailWith("Protocol")

\* reap_before collects the status and clears the guard: child and control.
ReapWith(e) ==
    /\ sup' = "returned" /\ result' = e
    /\ owner' = "collected" /\ control' = FALSE
    /\ channel' = IF channel = "supervisor" THEN "closed" ELSE channel
    /\ UNCHANGED <<checked, changed, late, connVars, reports, ready, report,
                   doomed>>

ReapFailedUnwaited ==
    /\ sup \in {"reapSetup", "reapChannel"} /\ ~late
    /\ ReapWith(IF exit # "success" THEN "ConnectorFailed" ELSE "Exit")

ReapFailed ==
    /\ sup \in {"reapSetup", "reapChannel"} /\ ~late /\ conn = "dead"
    /\ ReapWith(IF exit = "failure" THEN "ConnectorFailed" ELSE "Exit")

\* validate_terminal: both counts are within the limits of the plan, and the
\* session it closes is the one Ready opened.
TerminalValid ==
    report.active /\ \A d \in Directions : report.bytes[d] <= ByteLimit

ReapTerminal ==
    /\ sup = "reapTerminal" /\ ~late /\ conn = "dead"
    /\ ReapWith(IF exit # "success" THEN "Exit"
                ELSE IF TerminalValid THEN "Ok" ELSE "BindingInvalid")

\* The deadline passes between the reap and the last check of finish.
ReapTerminalLate ==
    /\ sup = "reapTerminal" /\ ~late /\ conn = "dead" /\ exit = "success"
    /\ TerminalValid
    /\ ReapWith("Timeout")

WaitFail ==
    /\ sup \in {"reapSetup", "reapTerminal", "reapChannel"}
    /\ FailWith("Wait")

\* The reaper thread waits for the child it was handed.
Reaper ==
    /\ owner = "reaper" /\ conn = "dead"
    /\ owner' = "collected"
    /\ UNCHANGED <<supVars, changed, late, connVars, wireVars, channel,
                   doomed>>

-----------------------------------------------------------------------------
ConnectorNext ==
    \/ ReadPlan \/ ReadTrust \/ CheckDigests \/ Resolve \/ Connect
    \/ Authenticate \/ SendReady \/ ProxyEnd \/ SendTerminal
    \/ \E d \in Directions : Proxy(d)
    \/ ConnectorFail \/ ConnectorExit \/ BootstrapFail \/ Crash
    \/ \E p \in AnyReport : RogueSend(p)
    \/ \E status \in {"success", "failure"} : RogueExit(status)

\* Steps the supervisor takes without its caller.
SupervisorStep ==
    \/ \E e \in PrepareErrors : Refuse(e)
    \/ Revalidate("prepare", PrepareOrder) \/ Prepared
    \/ Revalidate("spawn", SpawnOrder) \/ SpawnConnector
    \/ \E e \in Errors : SpawnFail(e)
    \/ Timeout \/ ReceiveError
    \/ \E p \in {reports[i] : i \in 1 .. Len(reports)} :
         \/ AcceptReady(p) \/ SetupFailure(p) \/ WrongSetupReport(p)
         \/ AcceptTerminal(p) \/ ChannelFailure(p) \/ WrongTerminalReport(p)
    \/ ReapFailed \/ ReapTerminal \/ ReapTerminalLate \/ WaitFail

CallerStep == TakeChildChannel \/ Finish \/ Abandon

Done ==
    /\ sup = "returned" /\ owner \in {"none", "collected"}
    /\ UNCHANGED vars

Next ==
    /\ \/ ConnectorNext \/ SupervisorStep \/ CallerStep \/ Killed \/ Reaper
       \/ Tick \/ ChildClose \/ Done
       \/ \E a \in scene.volatile : Change(a)
    /\ UNCHANGED scene

Spec == Init /\ [][Next]_vars

\* Time passes, a pending SIGKILL is delivered, and the threads of the
\* supervising process run.  No call of theirs need fail for it.
FairSpec ==
    /\ Spec
    /\ WF_vars(SupervisorStep /\ ~ReceiveError /\ ~WaitFail /\ UNCHANGED scene)
    /\ WF_vars(Tick /\ UNCHANGED scene) /\ WF_vars(Killed /\ UNCHANGED scene)
    /\ WF_vars(Reaper /\ UNCHANGED scene)

-----------------------------------------------------------------------------
(* Properties. *)

\* What spawn and finish return is what happened.  A session returned as
\* closed is one orderly session: its Ready was accepted, its connector exited
\* with success and has been collected, the supervisor kept no end of the data
\* channel, and its byte counts are within the plan's limits, whatever
\* executable was started; the repository's connector reports the traffic it
\* moved, even when the child wrote while the session closed.  A reported
\* failure is returned as such only for a connector that failed, in a stage
\* it could fail in.
ResultIsTruthful ==
    /\ result = "Ok" =>
          /\ ready = Ready(TRUE) /\ conn = "dead" /\ exit = "success"
          /\ owner = "collected" /\ channel # "supervisor"
          /\ report.kind = "Terminal"
          /\ \A d \in Directions : report.bytes[d] <= ByteLimit
          /\ stage # "foreign" => report.bytes = moved
    /\ result = "ConnectorFailed" =>
          /\ exit = "failure" /\ owner = "collected"
          /\ (report.stage = "Channel") = (ready # NoReport)
          /\ ready # NoReport => stage \in {"authenticated", "foreign"}

\* The child's end of the channel leaves the supervisor only after the
\* connector authenticated the service with the plan and the trust roots
\* that were identified (CheckDigests, AcceptReady, take_child_channel).
ChannelOnlyWhenAuthenticated ==
    channel = "child" /\ stage # "foreign" =>
        stage = "authenticated" /\ readChanged = {}

\* A connector the supervisor is done with is never left running: it has
\* been collected, or it is dead or being killed and the reaper thread has
\* it; and its reports reach nobody (terminate_without_blocking).
NoUnwatchedConnector ==
    sup = "returned" =>
        /\ ~control
        /\ \/ owner \in {"none", "collected"} /\ ~Running
           \/ owner = "reaper" /\ (Running => doomed)

\* spawn and finish return, no connector can hold them past their deadline,
\* and the connector of a call that returned is collected, so none stays a
\* zombie (wait_readable, wait_for_exit, the reaper thread).
CallsReturn ==
    /\ [](sup \notin {"ready", "returned"} =>
            <>(sup \in {"ready", "returned"}))
    /\ [](sup = "returned" => <>(owner \in {"none", "collected"}))

-----------------------------------------------------------------------------
(* The lifecycle this process implements. *)

Failed == result \notin {"none", "Ok"}

\* During setup the phase is the furthest stage of the connector.
SetupPhase ==
    [none |-> "Created", foreign |-> "Created", resolving |-> "Resolving",
     connecting |-> "Connecting", authenticating |-> "Authenticating",
     authenticated |-> "Authenticating"][stage]

Phase ==
    IF Failed THEN "Failed"
    ELSE IF result = "Ok" THEN "Closed"
    ELSE IF sup \in {"awaitTerminal", "reapTerminal", "reapChannel"} THEN "Closing"
    ELSE IF sup # "ready" THEN SetupPhase
    ELSE IF channel = "supervisor" THEN "Ready" ELSE "Active"

ReasonOf ==
    CASE ~Failed -> "none"
      [] result = "Timeout" -> "Limit"
      [] result = "Dropped" -> "Launcher"
      [] result = "Wait" -> "Cleanup"
      [] result = "ConnectorFailed" /\ report.stage = "Resolution" ->
            "Resolution"
      [] result = "ConnectorFailed" /\ report.stage = "Authentication" ->
            "Tls"
      [] result = "ConnectorFailed" /\ report.stage = "Channel" -> "Channel"
      [] OTHER -> "Connector"

\* The lifecycle is that of the repository's connector under a caller that
\* transfers the channel before it finishes; another session is at its start.
Orderly == scene.transferFirst /\ ~scene.rogue
SessionPhase   == IF Orderly THEN Phase ELSE "Created"
SessionFailure == IF Orderly THEN ReasonOf ELSE "none"
Lifecycle == INSTANCE ServiceLifecycle WITH
    phase <- SessionPhase, failure <- SessionFailure

\* A caller that transfers the channel before it finishes drives the pure
\* lifecycle: no phase is skipped, repeated or left after its end.
ImplementsLifecycle == Lifecycle!Spec
=============================================================================
