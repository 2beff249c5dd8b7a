---------------------------- MODULE MCAcceptance ----------------------------
(* Instances of Acceptance for TLC: see MCAcceptance.cfg. *)
EXTENDS Acceptance

Facets == [formal |-> "PROVED", linkage |-> "REFINED",
           assumption |-> "ASSUMED", admitted |-> TRUE]
Claim(facets) == [id |-> "c1", facets |-> facets, assumptions |-> {"a-claim"}]
Compiled(claim, build) ==
    [schema |-> "current", clean |-> TRUE, project |-> "p", context |-> "x",
     build |-> build, statuses |-> <<claim>>, excluded |-> {"e1"}]

\* A release, the same claims built again, and a claim that is still open.
K1 == Compiled(Claim(Facets), 1)
K2 == Compiled(Claim(Facets), 2)
K3 == Compiled(Claim([Facets EXCEPT !.formal = "OPEN"]), 1)
Envelope(k) == [schema |-> "current", payload |-> k]
T1 == [schema |-> "current", components |-> {"kernel"}]
T2 == [schema |-> "current", components |-> {}]

Binaries == <<"run1", "launch1", "verify", "compose">>
Manifest == [schema |-> "current", version |-> "v", architecture |-> "x86_64",
             artifacts |-> [i \in 1..4 |-> [name |-> Bundle[i],
                                            digest |-> Binaries[i]]]]

Wire(role, file) == [role |-> role, file |-> file]
Receipt(version, execution, launcher, reasons) ==
    [schema |-> "current", version |-> version, valid |-> TRUE,
     diagnostic |-> FALSE, execution |-> execution,
     eligibility |-> [status |-> IF reasons = {} THEN "reusable"
                                 ELSE "non-reusable", reasons |-> reasons],
     runtime |-> Wire("runtime-binary", "run1"),
     producer |-> Wire("runtime-binary", "run1"),
     launcher |-> Wire("launcher-binary", launcher),
     tcb |-> {<<"runtime-binary", "run1">>, <<"launcher-binary", launcher>>},
     assumptions |-> {"a-run"},
     facts |-> [version |-> "v", platform |-> "linux",
                architecture |-> "x86_64", plan |-> "plan",
                executable |-> "exe", authority |-> "auth",
                resources |-> "res"]]
R1 == Receipt(2, "id1", "launch1", {})
R2 == Receipt(2, "id2", "launch1", {})
R3 == Receipt(2, "id1", "launch2", {})
R4 == Receipt(2, "id1", "launch1", {"timed-out"})
R5 == Receipt(1, "id1", "launch1", {})
R6 == [R1 EXCEPT !.valid = FALSE]
R7 == [R1 EXCEPT !.valid = FALSE, !.diagnostic = TRUE]
R8 == [R1 EXCEPT !.producer.role = "launcher-binary"]

Policy(assumptions) ==
    [valid |-> TRUE, project |-> "p", payload |-> K1, context |-> "x",
     directory |-> [envelope |-> Envelope(K1), compiled |-> K1, tcb |-> T1],
     verifier |-> "proofbound-verify",
     claims |-> {[id |-> "c1", facets |-> Facets]},
     execution |-> R1.facts, eligibility |-> "reusable",
     assumptions |-> assumptions, exclusions |-> {}, obligations |-> {},
     roles |-> {}]
P1 == Policy({})
P2 == Policy({"a-claim"})
P3 == [Policy({}) EXCEPT !.valid = FALSE]
P4 == [Policy({}) EXCEPT !.payload = K3, !.directory.envelope = Envelope(K3),
                         !.directory.compiled = K3]

P5 == [P1 EXCEPT !.exclusions = {<<"c1", "e1">>}, !.roles = {"launcher-binary"}]
P6 == [P1 EXCEPT !.roles = {"proofbound-component"}]

Loose ==
    [policy |-> P1, envelope |-> Envelope(K1), compiled |-> K1, tcb |-> T1,
     verifier |-> "proofbound-verify", observation |-> "o",
     manifest |-> Manifest, receipt |-> R1, self |-> "compose"]
MCFirstDisk == [n \in DOMAIN Loose \union Range(Bundle) |->
              IF n \in Range(Bundle)
              THEN Binaries[CHOOSE i \in 1..4 : Bundle[i] = n]
              ELSE Loose[n]]
MCFiles ==
    [n \in DOMAIN MCFirstDisk |->
       CASE n = "policy" -> {P1, P2, P3, P4, P5, P6}
         [] n = "envelope" -> {Envelope(K1), Envelope(K2), Envelope(K3)}
         [] n = "compiled" -> {K1, K2, K3}
         [] n = "tcb" -> {T1, T2}
         [] n = "verifier" -> {"proofbound-verify", "other"}
         [] n = "pbr-native-launcher" -> {"launch1", "launch2"}
         [] n = "pbr-verify" -> {"verify", "other"}
         [] n = "pbr-compose" -> {"compose", "other"}
         [] n = "receipt" -> {R1, R2, R3, R4, R5, R6, R7, R8}
         [] OTHER -> {MCFirstDisk[n]}]

\* What another program would print to pass: the claims as required, and
\* a receipt that is valid.
MCFalseReports ==
    {[schema |-> "current", verdict |-> "bytes-observed", payload |-> k,
      project |-> "p", context |-> "x", claims |-> <<Claim(Facets)>>,
      residual |-> <<[id |-> "c1", assumptions |-> {"a-claim"},
                      exclusions |-> {}, obligations |-> {}]>>]
       : k \in {K1, K3}}
MCFalseVerifications ==
    {[valid |-> TRUE, eligibility |-> R1.eligibility, commitment |-> r]
       : r \in {R1, R6}}

Line(kind, identity, commitment, execution) ==
    [kind |-> kind, identity |-> identity, commitment |-> commitment,
     execution |-> execution, wellFormed |-> TRUE]
MCCommands ==
    {Line("compose", None, R1, "id1"), Line("compose", None, R5, "id1"),
     Line("accept", P1, R1, "id1"), Line("accept", P2, R1, "id1"),
     Line("accept", P1, R2, "id1"), Line("accept", P1, R3, "id1"),
     Line("accept", P1, R6, "id1"), Line("accept", P4, R1, "id1"),
     Line("accept", P1, R5, "id1"), Line("accept", P5, R1, "id1"),
     Line("accept", P6, R1, "id1"), Line("accept", P1, R8, "id1"),
     [Line("accept", P1, R1, "id1") EXCEPT !.wellFormed = FALSE]}
=============================================================================
