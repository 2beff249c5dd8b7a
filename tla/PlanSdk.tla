------------------------------- MODULE PlanSdk -------------------------------
(***************************************************************************)
(* The plan SDKs for Rust (sdk/src/lib.rs), Python and TypeScript.  Each   *)
(* validates a plan on its own and encodes it for the command it is meant  *)
(* for; they share no code with each other, nor with the parser of core,   *)
(* which has the last word.                                                *)
(***************************************************************************)
EXTENDS PlanContract

-----------------------------------------------------------------------------
(* The Rust crate. *)

RequireUnique(texts) == When(~IsInjective(texts), "sdk-duplicate")
HasNull(texts) == \E i \in DOMAIN texts : texts[i].form = "null"

RequiredText(text) == text.form \notin {"empty", "null"}
CanonicalAbsolutePath(text) == text.form = "absolute"
ValidServiceName(name) == name.form = "dns"

\* validate_plan_input.
PlanInputError(w) ==
    LET lists == <<w.read, w.runtime, w.write, w.execute, w.environment>> IN
    First(<<
        When(~w.idValid, "sdk-id"),
        When(~RequiredText(w.executable) \/ ~RequiredText(w.directory),
             "sdk-field"),
        When("null" \in ToSet(w.arguments), "sdk-field"),
        Each(lists, LAMBDA texts : First(<<When(HasNull(texts), "sdk-field"),
                                           RequireUnique(texts)>>)),
        When(\E name \in ToSet(w.environment) : name.form \in {"empty", "equals"},
             "sdk-field"),
        When(\E path \in ToSet(w.runtime) : path.form \in {"empty", "relative"},
             "sdk-runtime-read"),
        When(Len(w.write) # 1 \/ w.execute # <<w.executable>>, "sdk-shape"),
        When(\/ w.limits.processes = 0 \/ w.limits.wall = 0
             \/ w.limits.memory \notin Quantum..MaxBytes
             \/ w.limits.swap > MaxBytes, "sdk-limit"),
        When(w.limits.memory % Quantum # 0 \/ w.limits.swap % Quantum # 0,
             "sdk-limit-quantum")>>)

SdkSessionValid(n) ==
    /\ ValidServiceName(n.service) /\ n.port # 0 /\ n.resolver.port # 0
    /\ CanonicalAbsolutePath(n.resolver.configuration)
    /\ 0 \notin {n.resolver.cnames, n.resolver.answers, n.resolver.response,
                 n.resolver.deadline, n.resolver.attempt}
    /\ n.resolver.attempt <= n.resolver.deadline
    /\ CanonicalAbsolutePath(n.tls.roots)
    /\ n.tls.version \in {"tls-1.2", "tls-1.3"}
    /\ CanonicalAbsolutePath(n.connector)
    /\ \A path \in ToSet(n.runtimeRead) : CanonicalAbsolutePath(path)
    /\ n.descriptor >= 3

SdkLimitsValid(n) ==
    /\ 0 \notin {n.limits.setup, n.limits.session, n.limits.sent,
                 n.limits.received, n.limits.attempts, n.limits.handshake}
    /\ n.limits.dns >= 2
    /\ n.limits.attempts <= n.resolver.answers
    /\ n.resolver.deadline <= n.limits.setup

\* Mutant: the credential may name another service.
NetworkInputErrorAnyService(w) ==
    IF w.network.mode = "deny" THEN NoValue
    ELSE LET n == w.network IN
         First(<<
            When(~SdkSessionValid(n), "sdk-network"),
            RequireUnique(n.runtimeRead),
            When(~SdkLimitsValid(n), "sdk-network"),
            When(/\ n.credential # NoValue
                 /\ \/ ~n.credential.idValid
                    \/ n.credential.environment \notin ToSet(w.environment),
                 "sdk-network")>>)

\* validate_network_input.
NetworkInputError(w) ==
    IF w.network.mode = "deny" THEN NoValue
    ELSE LET n == w.network IN
         First(<<
            When(~SdkSessionValid(n), "sdk-network"),
            RequireUnique(n.runtimeRead),
            When(~SdkLimitsValid(n), "sdk-network"),
            When(/\ n.credential # NoValue
                 /\ \/ ~n.credential.idValid
                    \/ n.credential.service # n.service
                    \/ n.credential.environment \notin ToSet(w.environment),
                 "sdk-network")>>)

SdkError(w) == First(<<PlanInputError(w), NetworkInputError(w)>>)

\* What a caller of the crate can pass: the input is typed, so that every
\* field is there and the resolver address has its length.
IsTypedInput(w) ==
    /\ w.network.mode \in {"deny", "session"}
    /\ w.missing = {} /\ w.unknown = {}
    /\ w.network.mode = "session" =>
          w.network.resolver.addressValid /\ ~w.network.extra

-----------------------------------------------------------------------------
(* The Python package: build_plan and _validate_network. *)

PythonCanonical(text) == text.form = "absolute"
PythonServiceName(name) == name.form = "dns"

PythonTextsError(w) ==
    First(<<
        When("null" \in ToSet(w.arguments), "sdk-field"),
        Each(<<w.read, w.runtime, w.write, w.execute, w.environment>>,
             LAMBDA texts : First(<<
                When(\E t \in ToSet(texts) : t.form = "null", "sdk-field"),
                When(Cardinality(ToSet(texts)) # Len(texts), "sdk-duplicate")>>)),
        When({"empty", "null"} \intersect
                {w.executable.form, w.directory.form} # {}, "sdk-field"),
        When(\E name \in ToSet(w.environment) : name.form \in {"empty", "equals"},
             "sdk-field"),
        When(Len(w.write) # 1 \/ Len(w.execute) # 1, "sdk-shape"),
        When(w.execute # <<w.executable>>, "sdk-shape"),
        When(\E path \in ToSet(w.runtime) : path.form \in {"empty", "relative"},
             "sdk-runtime-read")>>)

PythonLimitError(l) ==
    First(<<
        When(\/ l.processes < 1 \/ l.wall < 1
             \/ l.memory \notin Quantum..MaxBytes \/ l.swap \notin 0..MaxBytes,
             "sdk-limit"),
        When(l.memory % Quantum # 0 \/ l.swap % Quantum # 0,
             "sdk-limit-quantum")>>)

PythonNetworkValid(n, environment) ==
    /\ n.mode = "session" /\ ~n.extra
    /\ PythonServiceName(n.service) /\ n.port >= 1
    /\ n.resolver.addressValid /\ n.resolver.port >= 1
    /\ PythonCanonical(n.resolver.configuration)
    /\ \A bound \in {n.resolver.cnames, n.resolver.answers, n.resolver.response,
                     n.resolver.deadline, n.resolver.attempt} : bound >= 1
    /\ ~(n.resolver.attempt > n.resolver.deadline)
    /\ PythonCanonical(n.tls.roots) /\ n.tls.version \in {"tls-1.2", "tls-1.3"}
    /\ \A bound \in {n.limits.setup, n.limits.session, n.limits.sent,
                     n.limits.received, n.limits.attempts, n.limits.handshake} :
          bound >= 1
    /\ n.limits.dns >= 2
    /\ ~(n.limits.attempts > n.resolver.answers)
    /\ ~(n.resolver.deadline > n.limits.setup)
    /\ PythonCanonical(n.connector)
    /\ \A path \in ToSet(n.runtimeRead) : PythonCanonical(path)
    /\ Cardinality(ToSet(n.runtimeRead)) = Len(n.runtimeRead)
    /\ n.descriptor >= 3
    /\ n.credential # NoValue =>
          /\ n.credential.idValid /\ n.credential.service = n.service
          /\ n.credential.environment \in ToSet(environment)

\* The arguments are keywords: one too many or too few is refused by the
\* language itself.
PythonError(w) ==
    First(<<
        When(w.missing # {} \/ w.unknown # {}, "type-error"),
        When(~w.idValid, "sdk-id"),
        PythonTextsError(w), PythonLimitError(w.limits),
        When(/\ w.network.mode # "deny"
             /\ \/ w.network.mode = "host"
                \/ ~PythonNetworkValid(w.network, w.environment),
             "sdk-network")>>)

-----------------------------------------------------------------------------
(* The TypeScript package: buildPlan and validateNetwork. *)

TypeScriptUnique(texts) == Cardinality(ToSet(texts)) = Len(texts)
TypeScriptCanonical(text) == text.form = "absolute"
TypeScriptServiceName(name) == name.form = "dns"

TypeScriptTextsError(w) ==
    First(<<
        When("null" \in ToSet(w.arguments), "sdk-field"),
        Each(<<w.read, w.runtime, w.write, w.execute, w.environment>>,
             LAMBDA texts : First(<<
                When("null" \in {t.form : t \in ToSet(texts)}, "sdk-field"),
                When(~TypeScriptUnique(texts), "sdk-duplicate")>>)),
        When(w.executable.form \in {"empty", "null"}, "sdk-field"),
        When(w.directory.form \in {"empty", "null"}, "sdk-field"),
        When(\E name \in ToSet(w.environment) : name.form \in {"empty", "equals"},
             "sdk-field"),
        When(Len(w.write) # 1 \/ w.execute # <<w.executable>>, "sdk-shape"),
        When(\E path \in ToSet(w.runtime) : path.form \in {"empty", "relative"},
             "sdk-runtime-read")>>)

\* unsigned and networkUnsigned, for bounds that fit their width.
Unsigned(value, minimum, maximum) == value \in minimum..maximum

TypeScriptLimitError(l) ==
    First(<<
        When(~(l.processes >= 1 /\ l.wall >= 1), "sdk-limit"),
        When(~Unsigned(l.memory, Quantum, MaxBytes), "sdk-limit"),
        When(~Unsigned(l.swap, 0, MaxBytes), "sdk-limit"),
        When(l.memory % Quantum # 0 \/ l.swap % Quantum # 0,
             "sdk-limit-quantum")>>)
TypeScriptNetworkValid(n, environment) ==
    LET r == n.resolver
        l == n.limits IN
    /\ ~n.extra /\ n.mode = "session"
    /\ TypeScriptServiceName(n.service) /\ n.port # 0
    /\ r.addressValid /\ r.port # 0 /\ TypeScriptCanonical(r.configuration)
    /\ 0 \notin {r.cnames, r.answers, r.response, r.deadline, r.attempt}
    /\ r.attempt <= r.deadline
    /\ TypeScriptCanonical(n.tls.roots)
    /\ n.tls.version \in {"tls-1.2", "tls-1.3"}
    /\ 0 \notin {l.setup, l.session, l.sent, l.received, l.attempts, l.handshake}
    /\ l.dns >= 2 /\ l.attempts <= r.answers /\ r.deadline <= l.setup
    /\ TypeScriptCanonical(n.connector)
    /\ TypeScriptUnique(n.runtimeRead)
    /\ \A path \in ToSet(n.runtimeRead) : TypeScriptCanonical(path)
    /\ n.descriptor >= 3
    /\ n.credential # NoValue =>
          /\ n.credential.idValid /\ n.credential.service = n.service
          /\ n.credential.environment \in ToSet(environment)

TypeScriptError(w) ==
    First(<<
        When(w.missing # {} \/ w.unknown # {}, "sdk-unknown-field"),
        When(~w.idValid, "sdk-id"),
        TypeScriptTextsError(w), TypeScriptLimitError(w.limits),
        When(/\ w.network.mode # "deny"
             /\ \/ w.network.mode = "host"
                \/ ~TypeScriptNetworkValid(w.network, w.environment),
             "sdk-network")>>)

-----------------------------------------------------------------------------
(* Properties. *)

\* A plan an SDK writes has the schema and the form the SDK gives it, and goes
\* to the command for its kind of network.
IsSdkPlan(w) ==
    /\ w.form = "cbor" /\ w.schema = "plan/2" /\ "schema" \notin w.missing
    /\ (w.network.mode = "session") = (w.for = "service")

\* The SDKs that can be given the plan, and what each of them says to it.
Verdicts(w) ==
    {PythonError(w), TypeScriptError(w)}
        \union (IF IsTypedInput(w) THEN {SdkError(w)} ELSE {})

Repeats(w) ==
    \/ \E texts \in {w.read, w.runtime, w.write, w.execute, w.environment} :
          ~IsInjective(texts)
    \/ w.network.mode = "session" /\ ~IsInjective(w.network.runtimeRead)

\* A plan the SDK builds is accepted by the parser: "Successful construction
\* returns the exact deterministic-CBOR bytes defined by
\* schemas/execution-plan-v2.cddl" (docs/specs/0012_plan_sdks.md).
SdkPlanIsAccepted ==
    IsSdkPlan(wire) /\ IsTypedInput(wire) /\ SdkError(wire) = NoValue =>
        error = NoValue

\* The four validators of a plan differ only where they may.  The SDKs
\* build the same plans.  A plan they build is refused by the parser for
\* nothing but an empty path or a runtime library path with a component
\* ".."; and they refuse a plan the parser accepts for nothing but a
\* repetition, which the parser removes.
SdkAgreesWithParser ==
    step = "done" /\ IsSdkPlan(wire) =>
        /\ NoValue \in Verdicts(wire) => Verdicts(wire) = {NoValue}
        /\ NoValue \in Verdicts(wire) =>
              error \in {NoValue, "path-empty", "runtime-library-path"}
        /\ policy # NoValue /\ NoValue \notin Verdicts(wire) => Repeats(wire)
=============================================================================
