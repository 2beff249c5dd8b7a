------------------------------- MODULE MCPlan -------------------------------
(***************************************************************************)
(* Plans that differ from a valid one in one or two fields, with every     *)
(* form of every text and every boundary of every number.                  *)
(***************************************************************************)
EXTENDS PlanSdk

Text(form, rank) == [form |-> form, rank |-> rank]
Lib == Text("absolute", 3)
Tool == Text("relative", 2)
Out == Text("relative", 5)
Path == Text("relative", 1)
Name == Text("name", 1)

BasePlan ==
    [form |-> "cbor", schema |-> "plan/2", missing |-> {}, unknown |-> {},
     for |-> "run", idValid |-> TRUE, executable |-> Tool, directory |-> Path,
     arguments |-> <<"text">>, environment |-> <<Name>>, read |-> <<Path>>,
     runtime |-> <<Lib>>, write |-> <<Out>>, execute |-> <<Tool>>,
     network |-> [mode |-> "deny"],
     limits |-> [processes |-> 1, wall |-> 1, memory |-> Quantum, swap |-> 0]]

BaseNetwork ==
    [mode |-> "session", extra |-> FALSE, service |-> Text("dns", 1), port |-> 1,
     resolver |-> [addressValid |-> TRUE, port |-> 1, configuration |-> Lib,
                   cnames |-> 1, answers |-> 2, response |-> 1, deadline |-> 2,
                   attempt |-> 1],
     tls |-> [roots |-> Lib, version |-> "tls-1.3"],
     limits |-> [setup |-> 2, session |-> 1, sent |-> 1, received |-> 1,
                 dns |-> 2, attempts |-> 1, handshake |-> 1],
     connector |-> Lib, runtimeRead |-> <<Lib, Text("absolute", 4)>>,
     descriptor |-> 3,
     credential |-> [idValid |-> TRUE, service |-> Text("dns", 1),
                     environment |-> Name]]
BaseService == [BasePlan EXCEPT !.for = "service", !.network = BaseNetwork]

\* The lists of at most three entries, with repetitions and in every order.
Lists(texts) == UNION {[1..n -> texts] : n \in 0..3}
PathLists == Lists({Text("relative", 1), Text("relative", 2), Lib})
AnyPath == {Text(form, 3) : form \in PathForms}
AnyName == {Text(form, 1) : form \in {"name", "empty", "null", "equals"}}

OneField ==
    UNION {
        {[BasePlan EXCEPT !.form = x] : x \in {"toml", "other"}},
        {[BasePlan EXCEPT !.schema = x, !.form = y] :
            x \in {"plan/1", "plan/3"}, y \in {"cbor", "toml"}},
        {[BasePlan EXCEPT !.missing = {x}] :
            x \in {"schema", "command", "authority", "limits"}},
        {[BasePlan EXCEPT !.unknown = {x}] :
            x \in {"command", "authority", "limits", "root"}},
        {[BasePlan EXCEPT !.for = "service"], [BaseService EXCEPT !.for = "run"],
         [BasePlan EXCEPT !.idValid = FALSE],
         [BasePlan EXCEPT !.arguments = <<"text", "null">>],
         [BasePlan EXCEPT !.network.mode = "host"]},
        {[BasePlan EXCEPT !.executable = x, !.execute = <<x>>] : x \in AnyPath},
        {[BasePlan EXCEPT !.directory = x] : x \in AnyPath},
        {[BasePlan EXCEPT !.read = x] : x \in PathLists \union {<<p>> : p \in AnyPath}},
        {[BasePlan EXCEPT !.runtime = x] : x \in {<<p>> : p \in AnyPath} \union {<<Lib, Lib>>}},
        {[BasePlan EXCEPT !.write = x] : x \in {<<>>, <<Out, Path>>} \union {<<p>> : p \in AnyPath}},
        {[BasePlan EXCEPT !.execute = x] : x \in {<<>>, <<Path>>, <<Tool, Tool>>}},
        {[BasePlan EXCEPT !.environment = x] :
            x \in Lists({Name, Text("name", 2)}) \union {<<n>> : n \in AnyName}},
        {[BasePlan EXCEPT !.limits.processes = x, !.limits.wall = y] :
            x \in 0..1, y \in 0..1},
        {[BasePlan EXCEPT !.limits.memory = x, !.limits.swap = y] :
            x \in 0..(MaxBytes + Quantum), y \in 0..(MaxBytes + Quantum)}}

NetworkField ==
    UNION {
        {[BaseNetwork EXCEPT !.extra = TRUE],
         [BaseNetwork EXCEPT !.credential = NoValue],
         [BaseNetwork EXCEPT !.credential.idValid = FALSE],
         [BaseNetwork EXCEPT !.credential.service = Text("dns", 2)],
         [BaseNetwork EXCEPT !.credential.environment = Text("name", 2)],
         [BaseNetwork EXCEPT !.resolver.addressValid = FALSE],
         [BaseNetwork EXCEPT !.tls.version = "tls-1.1"],
         [BaseNetwork EXCEPT !.tls.version = "tls-1.2"]},
        {[BaseNetwork EXCEPT !.service = Text(x, 1)] : x \in {"address", "bad"}},
        {[BaseNetwork EXCEPT !.resolver.configuration = x] : x \in AnyPath},
        {[BaseNetwork EXCEPT !.tls.roots = x] : x \in AnyPath},
        {[BaseNetwork EXCEPT !.connector = x] : x \in AnyPath},
        {[BaseNetwork EXCEPT !.runtimeRead = <<Lib, x>>] : x \in AnyPath},
        {[BaseNetwork EXCEPT !.port = x, !.resolver.port = y] :
            x \in 0..1, y \in 0..1},
        {[BaseNetwork EXCEPT !.descriptor = x] : x \in 2..4},
        {[BaseNetwork EXCEPT !.resolver.answers = x, !.limits.attempts = y,
                             !.limits.dns = z] :
            x \in 0..2, y \in 0..3, z \in 0..2},
        {[BaseNetwork EXCEPT !.resolver.deadline = x, !.resolver.attempt = y,
                             !.limits.setup = z] :
            x \in 0..2, y \in 0..3, z \in 0..3},
        {[BaseNetwork EXCEPT !.resolver.cnames = x, !.resolver.response = y] :
            x \in 0..1, y \in 0..1},
        {[BaseNetwork EXCEPT !.limits.session = v[1], !.limits.sent = v[2],
                             !.limits.received = v[3], !.limits.handshake = v[4]] :
            v \in [1..4 -> 0..1]}}

MCWirePlans ==
    OneField \union {[BaseService EXCEPT !.network = n] : n \in NetworkField}
=============================================================================
