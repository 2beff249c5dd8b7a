----------------------------- MODULE Acceptance -----------------------------
(***************************************************************************)
(* The two commands that join evidence: pbr-compose (compose/src/main.rs)  *)
(* and pbr-accept (accept/src/main.rs, lib.rs).  A command reads its       *)
(* inputs one after another, runs two verifiers on the paths it has read,  *)
(* and publishes one file.  The host may replace an input at any moment,   *)
(* and another process may take the output path.                           *)
(***************************************************************************)
EXTENDS Composition

CONSTANTS
    Commands,      \* command lines: kind, expected policy identity,
                   \* commitment and execution, and whether the last two are
                   \* well formed
    Files,         \* the contents of each input, by name
    FirstDisk,     \* the inputs at the start
    FalseReports, FalseVerifications,  \* what a program that is not the
                                       \* verifier may print
    MaxDrifts,     \* bound on the inputs replaced
    None

VARIABLES
    command,     \* the command line
    disk,        \* content of each input now
    drifts,      \* inputs replaced so far
    step,        \* number of steps done
    held,        \* bytes read, by name
    report,      \* the release verifier's report, or None
    verification,  \* the execution verifier's report, or its failure
    result,      \* what is to be published
    output,      \* what the output path holds
    unsaid,      \* an error came after the publication (history)
    exit,        \* exit status
    saw          \* what the verifiers read, if they were the verifiers
                 \* (history)

vars == <<command, disk, drifts, step, held, report, verification, result,
          output, unsaid, exit, saw>>

\* The order in which each command works.
Steps ==
    [compose |->
       <<"begin", "envelope", "compiled", "tcb", "verifier", "observation",
         "verify-release", "manifest", "pbr", "pbr-native-launcher",
         "pbr-verify", "pbr-compose", "self", "receipt", "verify-execution",
         "decide", "stage", "link", "say">>,
     accept |->
       <<"begin", "policy", "envelope", "compiled", "tcb", "verifier",
         "directory", "observation", "manifest", "pbr",
         "pbr-native-launcher", "pbr-verify", "pbr-compose", "self",
         "receipt", "verify-release", "verify-execution", "decide", "stage",
         "link", "say">>]

Accepting == command.kind = "accept"
At(s) == exit = None /\ Steps[command.kind][step + 1] = s
Reads == DOMAIN Files \union {"directory"}

Init ==
    /\ command \in Commands
    /\ disk = FirstDisk /\ drifts = 0 /\ step = 0
    /\ held = [n \in {} |-> None]
    /\ report = None /\ verification = None /\ result = None
    /\ output = None /\ unsaid = FALSE /\ exit = None
    /\ saw = [compiled |-> None, receipt |-> None]

-----------------------------------------------------------------------------
(* Reading. *)

Proceed == step' = step + 1 /\ UNCHANGED <<command, disk, drifts>>
Stop(code) ==
    /\ exit' = code
    /\ UNCHANGED <<command, disk, drifts, step, held, report, verification,
                   output, saw>>

\* require_directory, require_bundle_inventory, require_absent.
Begin ==
    /\ At("begin") /\ output = None
    /\ Proceed
    /\ UNCHANGED <<held, report, verification, result, output,
                   unsaid, exit, saw>>

\* release_directory_digest covers every file of the release directory.
DirectoryDigest == [n \in {"envelope", "compiled", "tcb"} |-> disk[n]]

ReadInput(n) ==
    LET content == IF n = "directory" THEN DirectoryDigest ELSE disk[n] IN
    /\ At(n)
    /\ n = "policy" => content.valid
    /\ n = "self" /\ ~Accepting => content = held["pbr-compose"]
    /\ held' = [m \in DOMAIN held \union {n} |->
                  IF m = n THEN content ELSE held[m]]
    /\ Proceed
    /\ UNCHANGED <<report, verification, result, output, unsaid,
                   exit, saw>>

\* A file that cannot be read, a policy that is not valid, a composer that
\* is not the bundle's, or an output path that is taken ends the command.
ReadFail ==
    /\ \E s \in Reads \union {"begin"} : At(s)
    /\ Stop(IF At("self") /\ ~Accepting THEN "refused" ELSE "invalid")
    /\ UNCHANGED <<result, unsaid>>

-----------------------------------------------------------------------------
(* The verifiers, run by path on paths. *)

\* The release verifier reports on the release it finds.
Honest(d) ==
    [schema |-> "current", verdict |-> "bytes-observed",
     payload |-> d.compiled, project |-> d.compiled.project,
     context |-> d.compiled.context, claims |-> d.compiled.statuses,
     residual |-> [i \in DOMAIN d.compiled.statuses |->
        [id |-> d.compiled.statuses[i].id,
         assumptions |-> d.compiled.statuses[i].assumptions,
         exclusions |-> d.compiled.excluded, obligations |-> {}]]]
ReleaseReports ==
    IF disk.verifier # "proofbound-verify" THEN FalseReports \union {None}
    ELSE IF disk.envelope.payload = disk.compiled THEN {Honest(disk), None}
    ELSE {None}

VerifyRelease ==
    /\ At("verify-release")
    /\ \E rep \in ReleaseReports :
          /\ rep = None => Accepting
          /\ report' = rep
    /\ saw' = IF disk.verifier = "proofbound-verify"
              THEN [saw EXCEPT !.compiled = disk.compiled] ELSE saw
    /\ Proceed
    /\ UNCHANGED <<held, verification, result, output, unsaid,
                   exit>>

\* pbr-verify accepts a valid receipt with the expected commitment.
Failure(code) == [valid |-> FALSE, code |-> code]
Verifications ==
    IF disk["pbr-verify"] # "verify" THEN FalseVerifications
    ELSE IF disk.receipt.diagnostic THEN {Failure("diagnostic")}
    ELSE IF disk.receipt.valid /\ disk.receipt = command.commitment
    THEN {[valid |-> TRUE, eligibility |-> disk.receipt.eligibility,
           commitment |-> command.commitment], Failure("other")}
    ELSE {Failure("other")}

VerifyExecution ==
    /\ At("verify-execution")
    /\ \E ver \in Verifications :
          /\ ver.valid \/ Accepting
          /\ verification' = ver
    /\ saw' = IF disk["pbr-verify"] = "verify"
              THEN [saw EXCEPT !.receipt = disk.receipt] ELSE saw
    /\ Proceed
    /\ UNCHANGED <<held, report, result, output, unsaid, exit>>

\* pbr-compose stops at a verifier that fails; both commands stop at one
\* that does not start or prints too much.
VerifierFail ==
    /\ At("verify-release") \/ At("verify-execution")
    /\ Stop(IF Accepting THEN "invalid" ELSE "refused")
    /\ UNCHANGED <<result, unsaid>>

-----------------------------------------------------------------------------
(* evaluate: every clause of the policy that fails adds its reason. *)

ExecutionReason ==
    [version |-> "RuntimeVersionMismatch", platform |-> "PlatformMismatch",
     architecture |-> "ArchitectureMismatch", plan |-> "PlanIdMismatch",
     executable |-> "ExecutableMismatch", authority |-> "AuthorityMismatch",
     resources |-> "ResourceMismatch"]
FacetReason ==
    [formal |-> "ClaimFormalMismatch", linkage |-> "ClaimLinkageMismatch",
     assumption |-> "ClaimAssumptionMismatch",
     admitted |-> "ClaimPolicyMismatch"]

EvaluateExecution(policy, receipt, bundle) ==
    {ExecutionReason[f] : f \in
       {f \in DOMAIN ExecutionReason : receipt.facts[f] # policy.execution[f]}}
    \union {ExecutionReason[f] : f \in
       {f \in {"version", "architecture"} :
          bundle.manifest[f] # policy.execution[f]}}
    \union (IF receipt.eligibility.status # policy.eligibility
            THEN {"EligibilityMismatch"} ELSE {})

\* compare_claim, with the claim of the same name if there is one.
ClaimReasons(required, claims) ==
    LET same == {i \in DOMAIN claims : claims[i].id = required.id}
    IN  IF same = {} THEN {"ClaimMissing"}
        ELSE {FacetReason[f] : f \in
                {f \in DOMAIN FacetReason :
                   claims[Min(same)].facets[f] # required.facets[f]}}

EvaluateRelease(policy, composed, h) ==
    LET ids(entries, f) == {e[f] : e \in entries}
        when(c, r) == IF c THEN {r} ELSE {}
        hits(forbidden, actual) == forbidden \intersect actual # {}
    IN  when(composed.release.project # policy.project,
             "ReleaseProjectMismatch")
        \union when(composed.release.payload # policy.payload,
                    "ReleasePayloadMismatch")
        \union when(composed.release.context # policy.context,
                    "ReleaseContextMismatch")
        \union when(h.directory # policy.directory,
                    "ReleaseDirectoryMismatch")
        \union when(h.verifier # policy.verifier, "ReleaseVerifierMismatch")
        \union UNION {ClaimReasons(c, composed.claims) : c \in policy.claims}
        \union when(hits(policy.assumptions, ids(composed.assumptions, "id")),
                    "ForbiddenAssumption")
        \union when(hits(policy.exclusions, composed.exclusions),
                    "ForbiddenExclusion")
        \union when(hits(policy.obligations, composed.obligations),
                    "ForbiddenOpenObligation")
        \union when(hits(policy.roles, ids(composed.tcb, "role")),
                    "ForbiddenTcbRole")

PolicyReason(h) ==
    IF h.policy = command.identity THEN {} ELSE {"PolicyIdentityMismatch"}

\* verified_decision needs a version 2 receipt.
Decidable(h) ==
    h.receipt.version = 2 /\ h.receipt.valid
      /\ h.receipt = command.commitment

CompositionRejection(error) ==
    IF error = "ExecutionReplayed" THEN "ExecutionReplay"
    ELSE IF error = "AssumptionOmitted" THEN "InputVerificationFailed"
    ELSE "CompositionMissing"

\* The reasons of the decision and the composition it rests on.
Decision(h, rep, ver) ==
    LET rejected(r) == [composed |-> None, reasons |-> {r} \union PolicyReason(h)]
        error == CompositionError(h, rep, ver, command)
        composed == Composed(h, rep, ver, command)
    IN  IF rep = None THEN rejected("ReleaseVerificationFailed")
        ELSE IF ~ver.valid
        THEN rejected(IF ver.code = "diagnostic"
                      THEN "DiagnosticProfileNotReusable"
                      ELSE "ExecutionVerificationFailed")
        ELSE IF error # "none" THEN rejected(CompositionRejection(error))
        ELSE IF ~Decidable(h) THEN rejected("InputVerificationFailed")
        ELSE [composed |-> composed,
              reasons |-> PolicyReason(h)
                \union (IF h.receipt.execution # command.execution
                        THEN {"InputVerificationFailed"} ELSE {})
                \union EvaluateExecution(h.policy, h.receipt, composed.bundle)
                \union EvaluateRelease(h.policy, composed, h)]

Decide ==
    /\ At("decide")
    /\ IF Accepting
       THEN command.wellFormed
              /\ result' = Decision(held, report, verification)
       ELSE /\ CompositionError(held, report, verification, command) = "none"
            /\ result' = [composed |-> Composed(held, report, verification,
                                               command),
                          reasons |-> {}]
    /\ Proceed
    /\ UNCHANGED <<held, report, verification, output, unsaid, exit,
                   saw>>

\* A composition that is refused, or a decision that cannot be encoded.
DecideFail ==
    /\ At("decide")
    /\ IF Accepting THEN ~command.wellFormed
       ELSE CompositionError(held, report, verification, command) # "none"
    /\ Stop(IF Accepting THEN "invalid" ELSE "refused")
    /\ UNCHANGED <<result, unsaid>>

-----------------------------------------------------------------------------
(* publish_no_replace and the summary. *)

\* The output path is looked at again, then a new file is written and synced.
Stage ==
    /\ At("stage") /\ output = None
    /\ Proceed
    /\ UNCHANGED <<held, report, verification, result, output, unsaid, exit,
                   saw>>

\* Mutant: a path that is already taken counts as published.
LinkOrExisting ==
    /\ At("link")
    /\ output' = IF output = None THEN result ELSE output
    /\ Proceed
    /\ UNCHANGED <<held, report, verification, result, unsaid, exit, saw>>

\* hard_link, the sync of the directory and the removal of the temporary
\* name, of which a crash may leave one behind.
Link ==
    /\ At("link") /\ output = None
    /\ output' = result /\ Proceed
    /\ UNCHANGED <<held, report, verification, result, unsaid, exit, saw>>

PublishFail ==
    /\ At("stage") \/ At("link")
    /\ Stop("invalid")
    /\ UNCHANGED <<result, unsaid>>

\* The directory cannot be synced after the link, or the summary cannot be
\* written: the output stays.
LateFail ==
    /\ At("say") /\ unsaid' = TRUE
    /\ Stop("invalid")
    /\ UNCHANGED result

Say ==
    /\ At("say")
    /\ Stop(IF result.reasons = {} THEN "success" ELSE "refused")
    /\ UNCHANGED <<result, unsaid>>

Drift(n) ==
    /\ exit = None /\ drifts < MaxDrifts
    /\ \E content \in Files[n] \ {disk[n]} :
          disk' = [disk EXCEPT ![n] = content]
    /\ drifts' = drifts + 1
    /\ UNCHANGED <<command, step, held, report, verification, result, output, unsaid, exit, saw>>

Rival ==
    /\ exit = None /\ output = None
    /\ output' = [composed |-> None, reasons |-> {"rival"}]
    /\ UNCHANGED <<command, disk, drifts, step, held, report, verification,
                   result, unsaid, exit, saw>>

Next ==
    \/ Begin \/ \E n \in Reads : ReadInput(n)
    \/ ReadFail \/ VerifyRelease \/ VerifyExecution \/ VerifierFail
    \/ Decide \/ DecideFail \/ Stage \/ Link \/ PublishFail \/ LateFail \/ Say
    \/ Rival \/ \E n \in DOMAIN Files : Drift(n)

\* A command that is killed takes no more steps.
Spec == Init /\ [][Next]_vars

-----------------------------------------------------------------------------
(* Properties. *)

Composing == result # None /\ result.composed # None

\* Whatever is replaced while the command works, the compiled release and
\* the receipt it joins are the very ones the verifiers read: the payload
\* identity and the commitment tie each report to the bytes held.
ReportsAreAboutHeld ==
    Composing =>
        /\ saw.compiled \in {None, held.compiled}
        /\ saw.receipt \in {None, held.receipt}

\* A published acceptance holds of the bytes it names: the policy is the one
\* that was asked for, the receipt is valid and of the expected execution,
\* it ran the bundle's runtime and launcher, every required claim stands in
\* the compiled release as required, and nothing the policy forbids is among
\* the assumptions and components of either part.
AcceptedSatisfiesPolicy ==
    Accepting /\ Composing /\ result.reasons = {} =>
        LET p == command.identity
            claims == held.compiled.statuses
            components ==
                {e[1] : e \in held.receipt.tcb}
                  \union {"proofbound-component" : c \in held.tcb.components}
        IN  /\ held.policy = p
            /\ held.receipt = command.commitment /\ held.receipt.valid
            /\ held.receipt.execution = command.execution
            /\ held.receipt.runtime.file = held.pbr
            /\ held.receipt.launcher.file = held["pbr-native-launcher"]
            /\ \A c \in p.claims : \E i \in DOMAIN claims :
                  claims[i].id = c.id /\ claims[i].facets = c.facets
            /\ \A i \in DOMAIN claims :
                  claims[i].assumptions \intersect p.assumptions = {}
            /\ held.receipt.assumptions \intersect p.assumptions = {}
            /\ components \intersect p.roles = {}

\* The exit status tells what the output path holds: success and refusal of
\* pbr-accept mean that its own decision is there, and an error means it is
\* not, unless the error came after the publication.
ExitTellsOutput ==
    /\ exit = "success" => output = result /\ result.reasons = {}
    /\ exit = "refused" /\ Accepting => output = result /\ result.reasons # {}
    /\ exit = "invalid" /\ ~unsaid => result = None \/ output # result
=============================================================================
