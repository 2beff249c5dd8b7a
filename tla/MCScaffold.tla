----------------------------- MODULE MCScaffold -----------------------------
EXTENDS Scaffold, TLC

Link(dir, name) == <<"link", <<dir, name>>>>
Inode(i) == <<"file", i>>

Dynamic(needed, rpath, runpath) ==
    <<"dynamic", <<<<"strtab", "mapped">>, <<"strsz", "within">>>>
        \o [i \in DOMAIN needed |-> <<"needed", needed[i]>>]
        \o (IF rpath = <<>> THEN <<>> ELSE <<<<"rpath", rpath>>>>)
        \o (IF runpath = <<>> THEN <<>> ELSE <<<<"runpath", runpath>>>>)
        \o <<<<"null", "end">>, <<"needed", "bad">>>>>>
Elf(segments) ==
    [kind |-> "elf", machine |-> "x86", executable |-> TRUE, size |-> 1,
     segments |-> segments]
Data(kind) == [kind |-> kind, executable |-> FALSE, size |-> 1]

Interp == <<"interp", <<"lib", "ld-linux">>>>
Load == <<"load">>
Application(needed, rpath) == Elf(<<Load, Interp, Dynamic(needed, rpath, <<>>)>>)

MCImage == <<
    Application(<<"a", "b">>, <<"$token", "$ORIGIN", "opt", "relative">>),
    Elf(<<Load>>),                                              \* 2 loader
    Elf(<<Load, Dynamic(<<"b", "c">>, <<>>, <<"lib">>)>>),      \* 3 a
    Elf(<<Load, Dynamic(<<"a">>, <<>>, <<>>)>>),                \* 4 b
    Elf(<<Load>>),                                              \* 5 c
    Elf(<<Load, Dynamic(<<"c", "c">>, <<>>, <<>>)>>),           \* 6 another a
    [Data("cache") EXCEPT !.kind = "cache"] @@ ("entries" :> <<<<"opt", "c">>>>),
    Elf(<<Load>>),                                              \* 8 ldconfig
    Data("paths") @@ ("directories" :> <<"opt", "opt">>),
    Data("noise"),                                              \* 10
    [Elf(<<Load>>) EXCEPT !.machine = "arm"],                   \* 11
    Elf(<<Load, Interp, Interp>>),                              \* 12
    Elf(<<Dynamic(<<>>, <<>>, <<>>), Dynamic(<<>>, <<>>, <<>>)>>),
    Elf(<<Dynamic(<<"slash">>, <<>>, <<>>)>>),                  \* 14
    Elf(<<<<"interp", <<"lib", "other">>>>>>),                  \* 15
    [Elf(<<Load>>) EXCEPT !.size = 3],                          \* 16
    Application(<<"a", "missing">>, <<>>),                      \* 17
    Elf(<<Load, Dynamic(<<"c">>, <<"opt">>, <<>>)>>)>>          \* 18 no loader

Base ==
    <<"bin", "app">> :> Inode(1) @@ <<"lib", "ld-linux">> :> Inode(2)
    @@ <<"lib", "a">> :> Link("opt", "a") @@ <<"opt", "a">> :> Inode(3)
    @@ <<"lib", "b">> :> Inode(4) @@ <<"lib", "c">> :> Inode(5)
    @@ <<"opt", "c">> :> Absent
    @@ <<"etc", "cache">> :> Inode(7) @@ <<"etc", "paths">> :> Inode(9)
    @@ <<"sbin", "ldconfig">> :> Inode(8)

Changed(path, node) == [Base EXCEPT ![path] = node]
MCFirstTrees ==
    {Base} \union {Changed(<<"bin", "app">>, Inode(i)) : i \in 10 .. 18}
    \union {Changed(<<"etc", "cache">>, Absent),
            Changed(<<"etc", "cache">>, Inode(10)),
            Changed(<<"etc", "paths">>, Absent),
            Changed(<<"etc", "paths">>, Inode(10)),
            Changed(<<"sbin", "ldconfig">>, Inode(10)),
            Changed(<<"bin", "app">>, Link("bin", "app")),
            Changed(<<"opt", "a">>, Link("lib", "a")),
            Changed(<<"opt", "c">>, Folder),
            Changed(<<"opt", "c">>, Link("lib", "c"))}

Common ==
    [architecture |-> "x86", directories |-> <<"lib">>,
     helpers |-> <<<<"usr", "ldconfig">>, <<"sbin", "ldconfig">>>>,
     cache |-> <<"etc", "cache">>, paths |-> <<"etc", "paths">>,
     interpreters |-> {"ld-linux"}, loader |-> "glibc"]
MCProfiles == {Common, [Common EXCEPT !.loader = "musl"]}

MCBinary == <<"bin", "app">>
MCPathOrder ==
    <<<<"bin", "app">>, <<"lib", "a">>, <<"lib", "b">>, <<"lib", "c">>,
      <<"lib", "ld-linux">>, <<"opt", "a">>, <<"opt", "c">>>>
MCNameOrder == <<"a", "b", "c", "missing">>
MCLibrarySets ==
    {{<<"lib", "a">>, <<"lib", "b">>, <<"lib", "c">>},
     {<<"lib", "a">>, <<"opt", "a">>, <<"lib", "b">>, <<"lib", "c">>, <<"opt", "c">>},
     {<<"lib", "a">>, <<"lib", "b">>}}
MCEdits ==
    {<<<<"opt", "a">>, Inode(6)>>, <<<<"opt", "a">>, Absent>>,
     <<<<"opt", "a">>, Link("lib", "b")>>,
     <<<<"lib", "a">>, Inode(6)>>, <<<<"opt", "c">>, Inode(5)>>,
     <<<<"bin", "app">>, Inode(17)>>}
=============================================================================
