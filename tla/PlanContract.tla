---------------------------- MODULE PlanContract ----------------------------
(***************************************************************************)
(* From the bytes of a plan to the policy that is installed: the parsers   *)
(* of core/src/plan.rs, the values of core/src/authority.rs and            *)
(* core/src/network.rs, normalization, and the compilers of                *)
(* core/src/policy.rs and core/src/service_policy.rs.                      *)
(*                                                                         *)
(* A plan is what its bytes decode to.  A text is its form, which is all   *)
(* the parsers look at, and its rank in byte order.                        *)
(***************************************************************************)
EXTENDS Integers, FiniteSets, Sequences, SequencesExt

CONSTANTS
    WirePlans,     \* the plans that are presented
    Quantum,       \* RESOURCE_QUANTUM
    MaxBytes,      \* the greatest memory or swap limit
    NoValue

ASSUME LimitAssumption ==
    /\ Quantum \in Nat \ {0} /\ MaxBytes \in Nat
    /\ MaxBytes >= Quantum /\ MaxBytes % Quantum = 0

VARIABLES
    wire,          \* the plan presented
    step,          \* "parse", "paths", "names", "compile" or "done"
    error,         \* the code it was refused with
    rules,         \* the normalized paths
    policy,        \* the compiled policy
    declared, items, phase, write, read, index, cursor

normal == <<declared, items, phase, write, read, index, cursor>>
planVars == <<wire, step, error, rules, policy, normal>>

N == INSTANCE Normalization WITH Plans <- {}

-----------------------------------------------------------------------------
(* Texts and numbers. *)

PathForms ==
    {"empty", "null", "relative", "absolute",
     "parent",     \* absolute, with a component ".."
     "uncanonical" \* absolute, with a component "." or an empty one
    }

\* AuthorityPath::new and EnvironmentName::new.
PathError(text) ==
    CASE text.form = "empty" -> "path-empty"
      [] text.form = "null" -> "path-null"
      [] OTHER -> NoValue

NameError(text) ==
    CASE text.form = "empty" -> "environment-empty"
      [] text.form = "null" -> "environment-null"
      [] text.form = "equals" -> "environment-equals"
      [] OTHER -> NoValue

\* Path::components drops "." and empty components, so only ".." is seen.
RuntimeReadError(text) ==
    IF PathError(text) # NoValue THEN PathError(text)
    ELSE IF text.form \in {"relative", "parent"} THEN "runtime-library-path"
    ELSE NoValue

\* NetworkSupportPath::new looks at the text itself.
SupportPathError(text) ==
    IF text.form # "absolute" THEN "support-path" ELSE NoValue

ServiceNameError(name) ==
    IF name.form = "address" THEN "service-name-address"
    ELSE IF name.form # "dns" THEN "service-name-invalid"
    ELSE NoValue

PortError(port) == IF port = 0 THEN "port-zero" ELSE NoValue

MemoryError(bytes) ==
    IF bytes < Quantum THEN "memory-below-minimum"
    ELSE IF bytes > MaxBytes THEN "memory-above-maximum"
    ELSE IF bytes % Quantum # 0 THEN "memory-not-quantized"
    ELSE NoValue

SwapError(bytes) ==
    IF bytes > MaxBytes THEN "swap-above-maximum"
    ELSE IF bytes % Quantum # 0 THEN "swap-not-quantized"
    ELSE NoValue

\* The first error of a sequence of checks, in the order the code makes them.
First(errors) ==
    LET found == SelectSeq(errors, LAMBDA e : e # NoValue) IN
    IF found = <<>> THEN NoValue ELSE Head(found)
When(condition, code) == IF condition THEN code ELSE NoValue
Each(texts, Check(_)) == First([i \in DOMAIN texts |-> Check(texts[i])])

-----------------------------------------------------------------------------
(* The service session. *)

\* ResolutionPolicy::new.
ResolutionError(r) ==
    First(<<
        When(0 \in {r.cnames, r.answers, r.response, r.deadline, r.attempt},
             "resolver-bound-zero"),
        When(r.attempt > r.deadline, "attempt-exceeds-resolution")>>)

\* ServiceSessionLimits::new.
SessionLimitError(l, answers) ==
    First(<<
        When(0 \in {l.setup, l.session, l.sent, l.received, l.dns,
                    l.attempts, l.handshake}, "session-bound-zero"),
        When(l.dns < 2, "dns-messages-insufficient"),
        When(l.attempts > answers, "attempts-exceed-answers")>>)

\* parse_credential_source.
CredentialError(source, service, environment) ==
    IF source = NoValue THEN NoValue
    ELSE First(<<
        When(~source.idValid, "credential-id"),
        ServiceNameError(source.service),
        NameError(source.environment),
        When(source.environment \notin ToSet(environment),
             "credential-environment-missing"),
        When(source.service # service, "credential-service-mismatch")>>)

\* parse_network_authority and AuthenticatedServiceSession::new.
NetworkError(network, environment) ==
    IF network.mode = "deny" THEN NoValue
    ELSE IF network.mode # "session" THEN "network-unsupported"
    ELSE First(<<
            ServiceNameError(network.service), PortError(network.port),
            When(~network.resolver.addressValid, "invalid-schema"),
            PortError(network.resolver.port),
            SupportPathError(network.resolver.configuration),
            ResolutionError(network.resolver),
            SupportPathError(network.tls.roots),
            When(network.tls.version \notin {"tls-1.2", "tls-1.3"},
                 "invalid-schema"),
            SessionLimitError(network.limits, network.resolver.answers),
            SupportPathError(network.connector),
            Each(network.runtimeRead, SupportPathError),
            When(network.descriptor < 3, "descriptor-reserved"),
            CredentialError(network.credential, network.service, environment),
            When(network.extra, "unknown-field"),
            When(network.resolver.deadline > network.limits.setup,
                 "resolution-exceeds-setup")>>)

-----------------------------------------------------------------------------
(* The parsers. *)

\* Limits common to both versions.
LimitError(limits) ==
    First(<<When(limits.processes = 0, "processes-zero"),
            When(limits.wall = 0, "wall-time-zero")>>)

IdError(w) == When(~w.idValid, "plan-id")

CommandError(w) ==
    First(<<PathError(w.executable), PathError(w.directory),
            When(\E i \in DOMAIN w.arguments : w.arguments[i] = "null",
                 "argument-null")>>)

CountError(w) ==
    First(<<When(Len(w.execute) # 1, "executable-count"),
            When(Len(w.write) # 1, "output-root-count")>>)

\* append_paths for every list, and the executable must be among them.
AuthorityError(w) ==
    First(<<Each(w.read, PathError), Each(w.runtime, RuntimeReadError),
            Each(w.write, PathError), Each(w.execute, PathError),
            When(w.executable \notin ToSet(w.execute),
                 "executable-missing")>>)

\* parse_execution_plan: version 1, in TOML.
ParseV1Error(w) ==
    First(<<
        When(w.form # "toml", "malformed-toml"),
        When(w.unknown # {}, "unknown-field"),
        When(w.missing # {}, "invalid-schema"),
        When(w.schema # "plan/1", "unsupported-version"),
        When(w.network.mode # "deny", "network-unsupported"),
        CountError(w), IdError(w), CommandError(w), AuthorityError(w),
        Each(w.environment, NameError), LimitError(w.limits)>>)

\* parse_execution_plan_contract_v2: each closed map is emptied field by
\* field and must then be empty.  A map is missing when it, or the field it
\* is first asked for, is absent or of another type.
ParseV2Error(w) ==
    First(<<
        When(w.form # "cbor", "malformed-cbor"),
        When("schema" \in w.missing, "invalid-schema"),
        When(w.schema # "plan/2", "unsupported-version"),
        IdError(w),
        When("command" \in w.missing, "invalid-schema"),
        CommandError(w),
        When("command" \in w.unknown, "unknown-field"),
        When("authority" \in w.missing, "invalid-schema"),
        Each(w.environment, NameError),
        When("authority" \in w.unknown, "unknown-field"),
        CountError(w), NetworkError(w.network, w.environment),
        When("limits" \in w.missing, "invalid-schema"),
        LimitError(w.limits), MemoryError(w.limits.memory),
        SwapError(w.limits.swap),
        When(w.unknown \intersect {"limits", "root"} # {}, "unknown-field"),
        AuthorityError(w)>>)

\* parse_execution_plan_for_execution, which names a valid version 1 plan
\* obsolete, and parse_service_execution_plan.
ParseError(w) ==
    First(<<When(w.for = "execution" /\ ParseV1Error(w) = NoValue,
                 "execution-obsolete"),
            ParseV2Error(w),
            When((w.network.mode = "session") # (w.for = "service"),
                 "network-unsupported")>>)

\* The entries of the authority plan, in the order they are appended.
Entry(text, access, role) == [path |-> text.rank, access |-> access, role |-> role]
EntriesOf(texts, access, role) ==
    [i \in DOMAIN texts |-> Entry(texts[i], access, role)]
PathEntries(w) ==
    EntriesOf(w.read, 0, 0) \o EntriesOf(w.runtime, 0, 4)
        \o EntriesOf(w.write, 1, 1) \o EntriesOf(w.execute, 2, 2)
NameEntries(w) == EntriesOf(w.environment, 0, 0)

\* AuthenticatedServiceSession::new sorts and deduplicates its read paths.
Session(network) ==
    [network EXCEPT !.runtimeRead = {t.rank : t \in ToSet(@)}]

-----------------------------------------------------------------------------
(* The actions. *)

Idle ==
    /\ declared = <<>> /\ items = <<>> /\ phase = "idle"
    /\ write = 0 /\ read = 0 /\ index = 1 /\ cursor = 1

PlanInit ==
    /\ wire \in WirePlans /\ step = "parse"
    /\ error = NoValue /\ rules = <<>> /\ policy = NoValue
    /\ Idle

Normalize(entries) ==
    /\ declared' = entries /\ items' = entries /\ phase' = "deduplicate"
    /\ write' = 0 /\ read' = 0 /\ index' = 1 /\ cursor' = 1

ParsePlan ==
    /\ step = "parse"
    /\ IF ParseError(wire) = NoValue
       THEN step' = "paths" /\ Normalize(PathEntries(wire)) /\ UNCHANGED error
       ELSE /\ step' = "done" /\ error' = ParseError(wire)
            /\ UNCHANGED normal
    /\ UNCHANGED <<wire, rules, policy>>

NormalizeStep ==
    /\ step \in {"paths", "names"} /\ N!Next
    /\ UNCHANGED <<wire, step, error, rules, policy>>

NormalizeNames ==
    /\ step = "paths" /\ phase = "done"
    /\ step' = "names" /\ rules' = items
    /\ Normalize(NameEntries(wire))
    /\ UNCHANGED <<wire, error, policy>>

\* Mutant: the environment is taken before it is normalized.
CompilePolicyDeclared ==
    [rules |-> rules, environment |-> declared, limits |-> wire.limits,
     network |-> "deny-network", session |-> NoValue]

\* compile_policy takes the normalized authority as it is.
CompilePolicy ==
    [rules |-> rules, environment |-> items, limits |-> wire.limits,
     network |-> "deny-network", session |-> NoValue]

\* compile_service_policy keeps the session beside the child's policy and
\* leaves the child its channel.
Compile ==
    /\ step = "names" /\ phase = "done"
    /\ step' = "done"
    /\ policy' = IF wire.for # "service" THEN CompilePolicy
                 ELSE [CompilePolicy EXCEPT !.network = "channel-only",
                                            !.session = Session(wire.network)]
    /\ UNCHANGED <<wire, error, rules, normal>>

PlanNext == ParsePlan \/ NormalizeStep \/ NormalizeNames \/ Compile

PlanSpec == PlanInit /\ [][PlanNext]_planVars

-----------------------------------------------------------------------------
(* Properties. *)

\* A compiled policy grants exactly what the plan declares, in the one
\* canonical order, so that plans that differ only in the order or the
\* repetition of their entries compile to the same policy; the child has no
\* network of its own; and nothing is compiled from a refused plan.
PolicyIsExact ==
    policy # NoValue =>
        /\ error = NoValue
        /\ policy.rules = SetToSortSeq(ToSet(PathEntries(wire)), N!ComesBefore)
        /\ policy.environment =
              SetToSortSeq(ToSet(NameEntries(wire)), N!ComesBefore)
        /\ policy.limits = wire.limits
        /\ Cardinality({e \in ToSet(policy.rules) : e.access = 1}) = 1
        /\ Entry(wire.executable, 2, 2) \in ToSet(policy.rules)
        /\ policy.network = "deny-network" <=> wire.network.mode = "deny"
=============================================================================
