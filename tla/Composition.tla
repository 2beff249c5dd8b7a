---------------------------- MODULE Composition -----------------------------
(***************************************************************************)
(* compose (compose/src/lib.rs): the checks that join one release, one     *)
(* Runtime bundle and one execution into a composed receipt.               *)
(*                                                                         *)
(* A file is its parsed content and is its own digest.  `h` holds the      *)
(* bytes a command has read, by name; `rep` and `ver` are the reports of   *)
(* the release verifier and of the execution verifier; `want` holds the    *)
(* commitment and the execution identity given on the command line.        *)
(***************************************************************************)
EXTENDS Integers, FiniteSets, FiniteSetsExt, Sequences, SequencesExt

Bundle == <<"pbr", "pbr-native-launcher", "pbr-verify", "pbr-compose">>

\* The code of the first check that fails.
FirstFailure(checks) ==
    LET bad == {i \in DOMAIN checks : checks[i][1]}
    IN  IF bad = {} THEN "none" ELSE checks[Min(bad)][2]

ClaimIds(claims) == {claims[i].id : i \in DOMAIN claims}
Duplicated(claims) == Cardinality(ClaimIds(claims)) # Len(claims)

ParsedError(h, rep, want) ==
    FirstFailure(<<
      <<\E file \in {h.envelope, rep, h.compiled, h.tcb, h.manifest} :
           file.schema = "malformed", "SchemaInvalid">>,
      <<h.receipt.version = 2
          /\ ~(h.receipt.valid /\ h.receipt = want.commitment),
        "ExecutionInvalid">>
    >>)

\* Mutant: the report's payload identity is not compared.
ReleaseErrorUnbound(h, rep) ==
    FirstFailure(<<
      <<h.envelope.payload # h.compiled \/ rep.project # h.compiled.project,
        "ReleaseSubstituted">>,
      <<rep.claims # h.compiled.statuses, "ReleaseDowngraded">>
    >>)

ReleaseError(h, rep) ==
    FirstFailure(<<
      <<"old" \in {h.envelope.schema, rep.schema, h.compiled.schema}
          \/ rep.verdict = "weaker", "ReleaseDowngraded">>,
      <<\/ {h.envelope.schema, rep.schema, h.compiled.schema} # {"current"}
        \/ rep.verdict # "bytes-observed" \/ ~h.compiled.clean,
        "SchemaInvalid">>,
      <<h.compiled.context # rep.context, "ReleaseContextMismatch">>,
      <<\/ h.envelope.payload # h.compiled \/ rep.payload # h.envelope.payload
        \/ rep.project # h.compiled.project, "ReleaseSubstituted">>,
      <<\/ Duplicated(rep.claims) \/ Duplicated(h.compiled.statuses)
        \/ h.compiled.statuses = <<>>, "SchemaInvalid">>,
      <<ClaimIds(rep.claims) # ClaimIds(h.compiled.statuses),
        "ReleaseClaimOmitted">>,
      <<rep.claims # h.compiled.statuses, "ReleaseDowngraded">>
    >>)

BundleError(h) ==
    LET listed == h.manifest.artifacts
        bad == {i \in DOMAIN Bundle :
                  listed[i] # [name |-> Bundle[i], digest |-> h[Bundle[i]]]}
    IN  IF h.manifest.schema # "current" THEN "SchemaInvalid"
        ELSE IF Len(listed) # Len(Bundle) THEN "BundleRoleMismatch"
        ELSE IF bad = {} THEN "none"
        ELSE IF listed[Min(bad)].name # Bundle[Min(bad)]
        THEN "BundleRoleMismatch" ELSE "BundleSubstituted"

ValidEligibility(e) ==
    \/ e.status = "reusable" /\ e.reasons = {}
    \/ e.status = "non-reusable" /\ e.reasons # {}

\* validate_wire_artifact.
ArtifactChecks(wire, role, file) ==
    <<<<wire.role # role, "BundleRoleMismatch">>,
      <<wire.file # file, "BundleSubstituted">>>>

ExecutionError(h, ver, want) ==
    LET r == h.receipt IN
    FirstFailure(<<
      <<\/ r.schema # "current" \/ ~ver.valid
        \/ ~ValidEligibility(ver.eligibility)
        \/ ver.eligibility # r.eligibility
        \/ ver.commitment # want.commitment \/ r # want.commitment,
        "ExecutionInvalid">>,
      <<r.execution # want.execution, "ExecutionReplayed">>>>
    \o ArtifactChecks(r.runtime, "runtime-binary", h.pbr)
    \o ArtifactChecks(r.launcher, "launcher-binary", h["pbr-native-launcher"])
    \o ArtifactChecks(r.producer, "runtime-binary", h.pbr)
    \o <<
      <<~({<<"runtime-binary", h.pbr>>,
           <<"launcher-binary", h["pbr-native-launcher"]>>} \subseteq r.tcb),
        "TrustedComputingBaseOmitted">>
    >>)

\* residual_obligations: every claim has one row that repeats its
\* assumptions.
ResidualError(rep) ==
    LET rows == rep.residual IN
    FirstFailure(<<
      <<Duplicated(rows) \/ ClaimIds(rows) # ClaimIds(rep.claims),
        "ReleaseClaimOmitted">>,
      <<\E i \in DOMAIN rows : \E j \in DOMAIN rep.claims :
           /\ rows[i].id = rep.claims[j].id
           /\ rows[i].assumptions # rep.claims[j].assumptions,
        "ReleaseDowngraded">>
    >>)
Residual(rep, field) ==
    UNION {{<<rep.residual[i].id, x>> : x \in rep.residual[i][field]} :
             i \in DOMAIN rep.residual}

\* Mutant: the assumptions of the claims are not carried over.
InheritedAssumptionsOfExecution(claims, execution) ==
    {[id |-> a, origins |-> {"execution"}] : a \in execution}

InheritedAssumptions(claims, execution) ==
    LET release == UNION {claims[i].assumptions : i \in DOMAIN claims}
    IN  {[id |-> a,
          origins |-> {o \in {"release", "execution"} :
                         a \in IF o = "release" THEN release ELSE execution}]
           : a \in release \union execution}

TcbError(h) ==
    IF h.tcb.schema # "current" \/ h.tcb.components = {} THEN "SchemaInvalid"
    ELSE "none"
\* A release component and an execution entry never have one role.
InheritedTcb(h) ==
    {[role |-> "proofbound-component", identity |-> c, origin |-> "release"]
       : c \in h.tcb.components}
    \union {[role |-> e[1], identity |-> e[2], origin |-> "execution"]
              : e \in h.receipt.tcb}

CompositionError(h, rep, ver, want) ==
    LET stages == <<ParsedError(h, rep, want),
                    ReleaseError(h, rep), BundleError(h),
                    ExecutionError(h, ver, want), ResidualError(rep),
                    TcbError(h)>>
    IN  FirstFailure([i \in DOMAIN stages |->
                        <<stages[i] # "none", stages[i]>>])

\* The composed receipt, which is its own composition identity.
Composed(h, rep, ver, want) ==
    [schema |-> h.receipt.version,
     assumptions |-> InheritedAssumptions(rep.claims, h.receipt.assumptions),
     claims |-> rep.claims,
     exclusions |-> Residual(rep, "exclusions"),
     obligations |-> Residual(rep, "obligations"),
     tcb |-> InheritedTcb(h),
     execution |-> [commitment |-> want.commitment, id |-> h.receipt.execution,
                    eligibility |-> h.receipt.eligibility.status,
                    receipt |-> h.receipt, report |-> ver],
     release |-> [payload |-> h.envelope.payload, project |-> rep.project,
                  context |-> rep.context, report |-> rep,
                  verifier |-> h.verifier],
     bundle |-> [manifest |-> h.manifest,
                 artifacts |-> [i \in DOMAIN Bundle |-> h[Bundle[i]]]]]
=============================================================================
