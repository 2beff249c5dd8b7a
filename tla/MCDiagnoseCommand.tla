--------------------------- MODULE MCDiagnoseCommand ---------------------------
(***************************************************************************)
(* Small instances of pbr-diagnose: one command with two events of every   *)
(* shape, and up to three commands that share targets and output roots.    *)
(***************************************************************************)
EXTENDS DiagnoseCommand, TLC

CONSTANTS a, b, c, d, e, t1, t2, t3, d1, d2, r1, r2, r3

\* b names the targets of a in the other roles, c shares a receipt target,
\* the plan of d has an argument no receipt can hold, and the draft of e
\* would lie in its own output root.
MCReceiptOf == (a :> t1) @@ (b :> t2) @@ (c :> t1) @@ (d :> t1) @@ (e :> t1)
MCDraftOf == (a :> t2) @@ (b :> t1) @@ (c :> t3) @@ (d :> t2) @@ (e :> t3)
MCParent == (t1 :> d1) @@ (t2 :> d1) @@ (t3 :> d2)
MCRootOf == (a :> r1) @@ (b :> r2) @@ (c :> r2) @@ (d :> r1) @@ (e :> r3)
MCBeneath == (r1 :> {}) @@ (r2 :> {}) @@ (r3 :> {t3})

Library == <<"work", "lib">>
Closure ==
    {[role |-> "executable", path |-> <<"work", "tool">>, provenance |-> "static"],
     [role |-> "runtime-library", path |-> Library, provenance |-> "platform"]}
MCPlans ==
    [x \in Commands |-> [argumentsFit |-> x # d, namesFit |-> TRUE,
                         closure |-> IF x = a THEN Closure ELSE {}]]

Absolute(names) == [form |-> "absolute", names |-> names]
Known(mode) == [mode |-> mode]
PathOperands(flags) ==
    [kind |-> "path", path |-> Absolute(<<"work", "x">>), flags |-> flags,
     address |-> None]
Call(class, operands, result) ==
    [kind |-> "completed", process |-> 1, class |-> class,
     operands |-> operands, result |-> result, isError |-> result < 0,
     alone |-> TRUE, selected |-> None, candidate |-> None]
Stable(names, hops) ==
    [state |-> "stable", path |-> Absolute(names), hops |-> hops,
     before |-> Known(1), after |-> Known(1)]

Opened ==
    {[Call("openat", PathOperands(flags), 3) EXCEPT
        !.selected = [path |-> path, identity |-> Known(mode)]] :
      flags \in {{}, {"creat"}},
      path \in {Absolute(Library), Absolute(<<"usr", "x">>),
                [form |-> "deleted", names |-> <<"work", "x">>]},
      mode \in {1, MaxMode + 1}}
Denied ==
    {[Call(class, PathOperands(IF class = "openat" THEN {} ELSE None), -13)
        EXCEPT !.candidate = candidate] :
      class \in {"openat", "readlink"},
      candidate \in {None, Stable(Library, 0), Stable(<<"work", "y">>, 2),
                     [Stable(Library, 0) EXCEPT !.state = "drift"],
                     [Stable(Library, 0) EXCEPT !.state = "limit"]}}
Replaced ==
    {[Call("execve", PathOperands(None), 0) EXCEPT
        !.kind = "replaced",
        !.selected = [path |-> Absolute(<<"work", "tool">>),
                      identity |-> Known(1)]],
     [Call("execve", PathOperands(None), 0) EXCEPT !.kind = "replaced"],
     Call("execve", PathOperands(None), 0)}
Others ==
    {Call("connect", [kind |-> "socket-address", path |-> None,
                      flags |-> None, address |-> 2], -111),
     Call("socket", [kind |-> "socket-create", path |-> None,
                     flags |-> None, address |-> None], 3),
     [Call("clone", [kind |-> "process-create", path |-> None,
                     flags |-> None, address |-> None], 7)
        EXCEPT !.process = 2],
     Call("creat", [PathOperands(None) EXCEPT !.path.form = "binary"], -2),
     [Call("openat", PathOperands({"accmode"}), -2) EXCEPT !.process = 2,
                                                           !.alone = FALSE],
     [Call("fork", PathOperands(None), 0) EXCEPT !.kind = "lifecycle"]}
MCTraceEvents ==
    {x \in Opened \union Denied \union Replaced \union Others : IsTraceEvent(x)}

MCLoads == {[commands |-> {a}, events |-> 2], [commands |-> {a, b}, events |-> 0],
            [commands |-> {a, c}, events |-> 0], [commands |-> {d, e}, events |-> 0]}
MCEnds == {[directive |-> "complete", gaps |-> {}],
           [directive |-> "incomplete", gaps |-> {"observer-failed"}],
           [directive |-> "forbidden", gaps |-> {}]}
MCBounds == [events |-> 3, perProcess |-> 2, processes |-> 2, path |-> 3,
             hops |-> 2, address |-> 2, output |-> 8]
MCSizes == {8, 9}

Scope == [candidates |-> {<<"work">>}, temporary |-> {<<"scratch">>},
          home |-> <<"people">>]
Report == [schema |-> 1, source |-> 1, analyzer |-> 1, report |-> 1,
           valid |-> TRUE, complete |-> TRUE]
Inputs(candidates, report) ==
    [candidates |-> candidates, closure |-> Closure, scope |-> Scope,
     capsec |-> [profile |-> Report, report |-> report], differences |-> {}]
Offered(kind, path, provenance) ==
    [kind |-> kind, path |-> path, provenance |-> provenance]
MCComparisons ==
    {Inputs({}, Report),
     Inputs({Offered("read", Library, {"platform"}),
             Offered("read", Library, {"capsec"})}, Report),
     Inputs({Offered("execute", <<"work", "tool">>, {"static"})},
            [Report EXCEPT !.complete = FALSE]),
     [Inputs({}, Report) EXCEPT !.scope.temporary = {<<"work", "lib">>}]}
=============================================================================
