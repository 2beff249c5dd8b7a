---------------------------- MODULE MCDocuments ----------------------------
(***************************************************************************)
(* The programs that write and read the documents around a run.  They      *)
(* share no memory, so that a behaviour runs one of them: the decoders of  *)
(* a carrier, a plan from SDK input to policy, an SDK that runs pbr, pbr   *)
(* scaffold and the reader of its report, pbr-diagnose, the projection of  *)
(* composed documents, or the cgroup whose counters a receipt records.     *)
(***************************************************************************)
EXTENDS MCPlan, MCScaffold, MCDiagnoseCommand, Codec, ModelCodec, SdkRun,
        ResourceGroup

VARIABLE program

-----------------------------------------------------------------------------
(* Inputs of the CBOR decoders: every byte that selects another case, after *)
(* seeds that reach maps of two keys, the wide arguments and nested items.  *)

MCSeeds ==
    {<<>>,
     <<162, 97, 97>>, <<162, 98, 97, 97, 0>>,   \* maps with one key read
     <<162, 97, 97, 0, 97>>, <<129, 162, 97, 97>>,
     <<162, 97, 97, 24>>,                       \* a value of two bytes
     <<133, 0, 0, 0>>, <<134, 0, 0, 0>>, <<135>>,  \* around MaxItems
     <<26, 0>>, <<27, 0, 0, 0, 0>>, <<27, 0, 0, 0, 0, 0>>,
     <<91, 255, 255, 255, 255, 255, 255>>}      \* a length near 2^64
MCAlphabet ==
    {0, 1, 23, 24, 25, 32, 65, 97, 98, 128, 129, 130, 156, 159, 161, 162,
     192, 195, 245, 246, 255}

-----------------------------------------------------------------------------
(* pbr run with every outcome; programs that write more or other lines, to *)
(* either stream, than pbr does; result lines that differ from pbr's in    *)
(* one field; and calls with invalid arguments.                            *)

MCOutcomes ==
    {[kind |-> "exited", detail |-> n] : n \in {-1, 0, 255, 256}}
        \union {[kind |-> "signaled", detail |-> n] : n \in {1, 255}}
        \union {[kind |-> k, detail |-> NoAnswer] : k \in Plain}

AnyHelper == {"python", "typescript"}
Printed == JsonProjection([kind |-> "exited", detail |-> 0])
ExampleCall(helper) == PbrRun(helper, [kind |-> "exited", detail |-> 0])

\* Lines whose object is not one of pbr's.
OtherObjects ==
    UNION {
        {[Printed EXCEPT !.shape = "array"], Malformed,
         [Printed EXCEPT !.text = "other"],
         [Printed EXCEPT !.schema = "result/1"],
         [Printed EXCEPT !.receipt = "empty"],
         [Printed EXCEPT !.commitment = "other"]},
        {[Printed EXCEPT !.keys = x] : x \in {"extra", "short"}},
        {[Printed EXCEPT !.execution = x] : x \in {"v1", "other"}},
        {[Printed EXCEPT !.outcome =
            [kind |-> k, detail |-> n, number |-> f, keys |-> x]] :
            k \in {"exited", "signaled"}, n \in {0, 1, 255, 256},
            f \in {"integer", "fraction"}, x \in {"exact", "extra"}},
        {[Printed EXCEPT !.outcome =
            [kind |-> k, detail |-> NoAnswer, number |-> "integer", keys |-> x]] :
            k \in {"denied", "unknown"}, x \in {"exact", "extra"}}}

Lines == {<<>>, <<"text">>, <<"newline">>, <<"text", "newline", "newline">>,
          <<"text", "text", "newline">>, <<"text", "text", "text", "newline">>}
Texts == {[i \in 1..n |-> "text"] : n \in {0, 1, 5}}

MCOtherCalls ==
    UNION {
        {[ExampleCall(h) EXCEPT !.object = o] : h \in AnyHelper, o \in OtherObjects},
        {[ExampleCall(h) EXCEPT !.stdout = x, !.stderr = y, !.status = z] :
            h \in AnyHelper, x \in Lines \union {<<"text", "newline">>},
            y \in Texts, z \in {0, 1}},
        {[ExampleCall(h) EXCEPT !.starts = FALSE] : h \in AnyHelper},
        {[ExampleCall(h) EXCEPT !.arguments = x] : h \in AnyHelper,
            x \in {"path-not-absolute", "bound-invalid", "environment-invalid"}}}

-----------------------------------------------------------------------------
(* Plans with every control at its smallest and at another value, hosts    *)
(* that lack one thing each, and kernels whose event files hold the known  *)
(* names, one less, one more or one twice.                                 *)

MCGroupLimits ==
    {[processes |-> 1, memory |-> 2, swap |-> 0],
     [processes |-> 2, memory |-> 4, swap |-> 2],
     [processes |-> 1, memory |-> NoGroup, swap |-> NoGroup]}

Both == {"memory", "pids"}
GoodHost ==
    [mounted |-> TRUE, controllers |-> Both, opens |-> TRUE, sameParent |-> TRUE,
     enabled |-> Both, exists |-> FALSE]
MCHosts ==
    {GoodHost, [GoodHost EXCEPT !.mounted = FALSE],
     [GoodHost EXCEPT !.controllers = {"pids"}], [GoodHost EXCEPT !.opens = FALSE],
     [GoodHost EXCEPT !.sameParent = FALSE], [GoodHost EXCEPT !.enabled = {"memory"}],
     [GoodHost EXCEPT !.exists = TRUE]}

Memory == <<"low", "high", "max", "oom", "oom_kill", "oom_group_kill">>
GoodKernel == [memory |-> Memory, swap |-> <<"high", "max", "fail">>, peaks |-> TRUE]
MCKernels ==
    {GoodKernel, [GoodKernel EXCEPT !.swap = <<"max", "fail">>],
     [GoodKernel EXCEPT !.peaks = FALSE],
     [GoodKernel EXCEPT !.memory = Front(@)],
     [GoodKernel EXCEPT !.memory = Append(@, "new")],
     [GoodKernel EXCEPT !.swap = Append(@, "high")]}

-----------------------------------------------------------------------------
(* One program at a time. *)

documentVars ==
    <<program, codecVars, planVars, scaffoldVars, vars, modelVars,
      sdkRunVars, groupVars>>

Exemplary == CHOOSE x \in MCLoads : x.events = 2

CodecRests == input = <<>> /\ added = MaxAdded
PlanRests == PlanInit /\ wire = BasePlan
ScaffoldRests == ScaffoldInit /\ profile = Common /\ tree = Base
DiagnoseRests == Init /\ load = Exemplary
ModelRests ==
    /\ schema = "none" /\ place = <<>> /\ carrier = <<>>
    /\ model = Unread /\ again = Unread
SdkRunRests == SdkRunInit /\ call = ExampleCall("python")
GroupRests ==
    GroupInit /\ host = GoodHost /\ kernel = GoodKernel /\ limits.swap = 2

DocumentInit ==
    \/ program = "carrier" /\ CodecInit /\ PlanRests /\ SdkRunRests
       /\ ScaffoldRests /\ DiagnoseRests /\ ModelRests /\ GroupRests
    \/ program = "plan" /\ PlanInit /\ CodecRests /\ SdkRunRests
       /\ ScaffoldRests /\ DiagnoseRests /\ ModelRests /\ GroupRests
    \/ program = "helper" /\ SdkRunInit /\ CodecRests /\ PlanRests
       /\ ScaffoldRests /\ DiagnoseRests /\ ModelRests /\ GroupRests
    \/ program = "scaffold" /\ ScaffoldInit /\ CodecRests /\ PlanRests
       /\ SdkRunRests /\ DiagnoseRests /\ ModelRests /\ GroupRests
    \/ program = "diagnose" /\ Init /\ CodecRests /\ PlanRests
       /\ SdkRunRests /\ ScaffoldRests /\ ModelRests /\ GroupRests
    \/ program = "model" /\ ModelInit /\ CodecRests /\ PlanRests
       /\ SdkRunRests /\ ScaffoldRests /\ DiagnoseRests /\ GroupRests
    \/ program = "group" /\ GroupInit /\ CodecRests /\ PlanRests
       /\ SdkRunRests /\ ScaffoldRests /\ DiagnoseRests /\ ModelRests

DocumentNext ==
    \/ /\ program = "carrier" /\ CodecNext
       /\ UNCHANGED <<program, planVars, sdkRunVars, scaffoldVars, vars,
                      modelVars, groupVars>>
    \/ /\ program = "plan" /\ PlanNext
       /\ UNCHANGED <<program, codecVars, sdkRunVars, scaffoldVars, vars,
                      modelVars, groupVars>>
    \/ /\ program = "helper" /\ SdkRunNext
       /\ UNCHANGED <<program, codecVars, planVars, scaffoldVars, vars,
                      modelVars, groupVars>>
    \/ /\ program = "scaffold" /\ ScaffoldNext
       /\ UNCHANGED <<program, codecVars, planVars, sdkRunVars, vars,
                      modelVars, groupVars>>
    \/ /\ program = "diagnose" /\ Next
       /\ UNCHANGED <<program, codecVars, planVars, sdkRunVars, scaffoldVars,
                      modelVars, groupVars>>
    \/ /\ program = "model" /\ ModelNext
       /\ UNCHANGED <<program, codecVars, planVars, sdkRunVars, scaffoldVars,
                      vars, groupVars>>
    \/ /\ program = "group" /\ GroupNext
       /\ UNCHANGED <<program, codecVars, planVars, sdkRunVars, scaffoldVars,
                      vars, modelVars>>

DocumentSpec == DocumentInit /\ [][DocumentNext]_documentVars
=============================================================================
