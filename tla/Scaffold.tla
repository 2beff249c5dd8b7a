------------------------------ MODULE Scaffold ------------------------------
(***************************************************************************)
(* pbr scaffold (cli/src/scaffold.rs) walks the shared libraries of an     *)
(* executable and reports them; pbr-diagnose reads the report back and     *)
(* compares it with what its own plan resolves to (diagnose-cli/src        *)
(* /main.rs).  Files are replaced, rewritten and relinked meanwhile.       *)
(*                                                                         *)
(* A path is a directory and a name.  A file is an inode: its image is     *)
(* what its bytes hold, its version changes with every write, and inode    *)
(* and version together stand for digest, size, mode and times: two        *)
(* files never have the same bytes.                                        *)
(***************************************************************************)
EXTENDS Integers, FiniteSets, Sequences, SequencesExt

CONSTANTS
    Binary,          \* the executable that is inspected
    FirstTrees,      \* what each path may be at first
    Image,           \* per inode: what its bytes are
    Profiles,        \* host profiles: the loader family and its paths
    PathOrder,       \* the paths in the order of their text
    NameOrder,       \* the library names in the order of their text
    LibrarySets,     \* runtime libraries a plan may declare
    Edits,           \* what may happen to a path: <<path, node>>
    MaxEdits,        \* bound on the edits
    MaxDependencies, MaxLinks, MaxFile, MaxTotal   \* the command's bounds

VARIABLES
    profile,   \* the host profile of the command line
    tree,      \* what each path is: nothing, a directory, a link, an inode
    versions,  \* the version of each inode
    edits,     \* edits so far
    point,     \* where the command is
    task,      \* the inspection under way
    handle,    \* its open file
    total,     \* bytes read
    held,      \* executable, interpreter and loader inputs inspected
    cached,    \* what the loader data say
    queue,     \* objects whose libraries are still to be found
    position,  \* in the needed libraries of the first of them
    seen,      \* objects that were queued, and the inode they were read from
    records,   \* the dependencies
    notes,     \* the open items that depend on what was found
    fault,     \* the error of the command
    known,     \* what pbr-diagnose identifies
    closure    \* the closure it takes from the report

world == <<profile, tree, versions, edits>>
walk == <<held, cached, queue, position, seen, records, notes>>
after == <<known, closure>>
scaffoldVars ==
    <<world, point, task, handle, total, walk, fault, after>>

Absent == <<"absent">>
Folder == <<"directory">>
Nothing == [role |-> "none"]
NoCache == [entries |-> <<>>, extra |-> <<>>]

\* The path at the end of the links from a path, and what is there: a file
\* or a directory.
RECURSIVE Target(_, _)
Target(path, fuel) ==
    IF tree[path][1] = "link" /\ fuel > 0 THEN Target(tree[path][2], fuel - 1)
    ELSE path
Lookup(path) ==
    LET node == tree[Target(path, MaxLinks)] IN
    IF node[1] = "link" THEN Absent ELSE node
Exists(path) == path \in DOMAIN tree /\ Lookup(path) # Absent

Deduplicate(seq) ==
    FoldLeft(LAMBDA out, x : IF x \in ToSet(out) THEN out ELSE Append(out, x),
             <<>>, seq)

-----------------------------------------------------------------------------
(* parse_elf.  A file is a sequence of program headers; its dynamic section *)
(* is a sequence of tags with their values up to the null tag.  An offset   *)
(* that leads to no string is "bad".                                        *)

NoInfo == [error |-> "none", interpreter |-> Absent, needed |-> <<>>,
           rpath |-> <<>>, runpath |-> <<>>]

ElfError(code) == [NoInfo EXCEPT !.error = code]

\* The dynamic entries that count, and the last value of one tag.
BeforeNull(entries) ==
    LET nulls == {i \in DOMAIN entries : entries[i][1] = "null"} IN
    IF nulls = {} THEN entries ELSE SubSeq(entries, 1, Min(nulls) - 1)
Tagged(entries, tag) ==
    LET chosen == SelectSeq(entries, LAMBDA e : e[1] = tag) IN
    [i \in DOMAIN chosen |-> chosen[i][2]]
LastTagged(entries, tag, default) ==
    LET values == Tagged(entries, tag) IN
    IF values = <<>> THEN default ELSE Last(values)

ParseDynamic(entries, info) ==
    LET table == LastTagged(entries, "strtab", "missing")
        size == LastTagged(entries, "strsz", "missing")
        needed == Tagged(entries, "needed")
        rpath == LastTagged(entries, "rpath", <<>>)
        runpath == LastTagged(entries, "runpath", <<>>)
    IN
    IF \/ table # "mapped" \/ size # "within"
       \/ \E name \in ToSet(needed) : name \in {"bad", "slash"}
       \/ rpath = <<"bad">> \/ runpath = <<"bad">>
    THEN ElfError("elf-dynamic-invalid")
    ELSE [info EXCEPT !.needed = needed, !.rpath = rpath, !.runpath = runpath]

ParseElf(image) ==
    LET Of(type) == SelectSeq(image.segments, LAMBDA s : s[1] = type)
        interpreters == Of("interp")
        dynamics == Of("dynamic")
        info == [NoInfo EXCEPT !.interpreter =
                    IF interpreters = <<>> THEN Absent ELSE interpreters[1][2]]
    IN
    IF image.kind # "elf" THEN ElfError("elf-invalid")
    ELSE IF image.machine # profile.architecture
    THEN ElfError("architecture-mismatch")
    ELSE IF Len(interpreters) > 1 THEN ElfError("elf-invalid")
    ELSE IF Len(dynamics) > 1 THEN ElfError("elf-dynamic-invalid")
    ELSE IF dynamics = <<>> THEN info
    ELSE ParseDynamic(BeforeNull(dynamics[1][2]), info)

-----------------------------------------------------------------------------
(* Where a library is looked for. *)

\* expand_paths: $ORIGIN is the directory of the object; any other token and
\* any relative entry is skipped and left as an open item.
Unusable == {"$token", "relative"}
Expand(entries, object) ==
    LET usable == SelectSeq(entries, LAMBDA e : e \notin Unusable) IN
    Deduplicate([i \in DOMAIN usable |->
        IF usable[i] = "$ORIGIN" THEN object[1] ELSE usable[i]])
ExpandNotes(entries) ==
    {<<IF e = "relative" THEN "relative-search-path"
       ELSE "unsupported-dynamic-token", e>> : e \in ToSet(entries) \intersect Unusable}
TokenNotes(info) ==
    {<<"unsupported-dynamic-token", e>> :
        e \in (ToSet(info.rpath) \union ToSet(info.runpath)) \intersect {"$token"}}

OwnPaths(info) == IF info.runpath = <<>> THEN info.rpath ELSE info.runpath

\* search_candidates: the candidates that exist, be it as a directory, in
\* search order: under the object's own paths, under those it inherits, from
\* the loader cache, and under the directories of the path file and of the
\* profile.
Candidates(object, soname) ==
    LET In(directories) == [i \in DOMAIN directories |-> <<directories[i], soname>>]
        exact == SelectSeq(cached.entries, LAMBDA e : e[2] = soname)
        order == In(Expand(OwnPaths(object.info), object.path))
                 \o In(object.inherited) \o exact
                 \o In(cached.extra) \o In(profile.directories)
    IN
    SelectSeq(Deduplicate(order), Exists)

\* What the libraries of an object inherit: its own rpath unless a runpath
\* hides it.
Inherited(object) ==
    Deduplicate(object.inherited \o
        (IF object.info.runpath = <<>>
         THEN Expand(object.info.rpath, object.path) ELSE <<>>))

-----------------------------------------------------------------------------
(* inspect_artifact. *)

ScaffoldInit ==
    /\ profile \in Profiles /\ tree \in FirstTrees
    /\ versions = [i \in DOMAIN Image |-> 0] /\ edits = 0
    /\ point = "resolve"
    /\ task = [role |-> "executable", requested |-> Binary, at |-> Binary,
               hops |-> <<>>]
    /\ handle = Nothing /\ total = 0
    /\ held = <<>> /\ cached = NoCache /\ queue = <<>> /\ position = 1
    /\ seen = {} /\ records = <<>> /\ notes = {} /\ fault = "none"
    /\ known = Nothing /\ closure = {}

Begin(role, path) ==
    /\ task' = [role |-> role, requested |-> path, at |-> path, hops |-> <<>>]
    /\ point' = "resolve" /\ handle' = Nothing

MustExecute(role) == role \in {"executable", "interpreter", "helper"}
IsLoaderData(role) == role \in {"helper", "cache", "paths"}

\* Every error in the loader data has one code.
Refuse(code) ==
    /\ fault' = IF IsLoaderData(task.role) THEN "loader-data-invalid" ELSE code
    /\ point' = "failed"
    /\ UNCHANGED <<task, handle, total, walk, after>>

\* resolve_symlinks, one link at a time.
Follow ==
    /\ point = "resolve" /\ tree[task.at][1] = "link"
    /\ IF Len(task.hops) >= MaxLinks \/ task.at \in ToSet(task.hops)
       THEN Refuse("path-invalid")
       ELSE /\ task' = [task EXCEPT !.at = tree[task.at][2],
                                    !.hops = Append(@, task.at)]
            /\ UNCHANGED <<point, handle, total, walk, fault, after>>
    /\ UNCHANGED world

EndOfLinks ==
    /\ point = "resolve" /\ tree[task.at][1] # "link"
    /\ IF tree[task.at] = Absent THEN Refuse("read-failed")
       ELSE point' = "open" /\ UNCHANGED <<task, handle, total, walk, fault, after>>
    /\ UNCHANGED world

\* The file is opened, through any link that has taken its path since, and
\* its metadata are taken.
OpenFile ==
    LET node == Lookup(task.at)
        image == Image[node[2]]
    IN
    /\ point = "open"
    /\ IF node[1] # "file" THEN Refuse("read-failed")
       ELSE IF image.size > MaxFile \/ (MustExecute(task.role) /\ ~image.executable)
       THEN Refuse("read-failed")
       ELSE IF total + image.size > MaxTotal THEN Refuse("bound-exceeded")
       ELSE /\ handle' = [role |-> task.role, inode |-> node[2],
                          before |-> versions[node[2]], halves |-> {},
                          latest |-> 0]
            /\ total' = total + image.size /\ point' = "read"
            /\ UNCHANGED <<task, walk, fault, after>>
    /\ UNCHANGED world

\* The bytes are read in pieces, here two.
ReadFile ==
    /\ point \in {"read", "read on"}
    /\ handle' = [handle EXCEPT !.halves = @ \union {versions[handle.inode]}]
    /\ point' = IF point = "read" THEN "read on" ELSE "stat"
    /\ UNCHANGED <<world, task, total, walk, fault, after>>

StatFile ==
    /\ point = "stat"
    /\ handle' = [handle EXCEPT !.latest = versions[handle.inode]]
    /\ point' = "restat"
    /\ UNCHANGED <<world, task, total, walk, fault, after>>

\* Mutant: the metadata taken before the read are not compared.
DriftedSinceRead ==
    \/ Lookup(task.at) # <<"file", handle.inode>>
    \/ handle.latest # versions[handle.inode]

\* metadata_changed, of the open file and of what its path leads to now.
Drifted ==
    \/ handle.before # handle.latest
    \/ Lookup(task.at) # <<"file", handle.inode>>
    \/ handle.latest # versions[handle.inode]

Artifact ==
    [requested |-> task.requested, resolved |-> task.at, inode |-> handle.inode,
     version |-> handle.latest, halves |-> handle.halves, role |-> task.role]

\* require_interpreter_family.
InterpreterFits(info) ==
    info.interpreter = Absent \/ info.interpreter[2] \in profile.interpreters

\* The executable: its libraries are walked once the rest has been inspected.
TakeExecutable(info) ==
    IF info.error # "none" THEN Refuse(info.error)
    ELSE IF ~InterpreterFits(info) THEN Refuse("interpreter-mismatch")
    ELSE /\ held' = <<Artifact>>
         /\ queue' = <<[path |-> task.at, info |-> info, inherited |-> <<>>]>>
         /\ seen' = {<<task.at, handle.inode>>} /\ notes' = TokenNotes(info)
         /\ IF info.interpreter = Absent
            THEN point' = "loader" /\ UNCHANGED <<task, handle>>
            ELSE Begin("interpreter", info.interpreter)
         /\ UNCHANGED <<total, cached, position, records, fault, after>>

\* A library is recorded for every object that needs it, and queued once.
TakeDependency(info) ==
    LET parent == Head(queue) IN
    IF info.error # "none" THEN Refuse(info.error)
    ELSE /\ records' = Append(records,
               [soname |-> parent.info.needed[position], by |-> parent.path,
                selected |-> Artifact])
         /\ notes' = notes \union TokenNotes(info)
         /\ IF \E s \in seen : s[1] = task.at THEN UNCHANGED <<queue, seen>>
            ELSE /\ seen' = seen \union {<<task.at, handle.inode>>}
                 /\ queue' = Append(queue, [path |-> task.at, info |-> info,
                                            inherited |-> Inherited(parent)])
         /\ position' = position + 1
         /\ point' = "search" /\ task' = Nothing /\ handle' = Nothing
         /\ UNCHANGED <<total, held, cached, fault, after>>

\* The interpreter and the loader data.  The path file holds directories.
TakeHeld ==
    LET image == Image[handle.inode] IN
    IF task.role = "paths" /\ image.kind # "paths" THEN Refuse("loader-data-invalid")
    ELSE /\ held' = Append(held, Artifact)
         /\ CASE task.role = "interpreter" -> point' = "loader" /\ UNCHANGED <<task, handle>>
              [] task.role = "helper" -> Begin("cache", profile.cache)
              [] task.role = "cache" -> point' = "run helper" /\ UNCHANGED <<task, handle>>
              [] OTHER -> point' = "search" /\ task' = Nothing /\ handle' = Nothing
         /\ cached' = IF task.role = "paths"
                      THEN [cached EXCEPT !.extra = Deduplicate(image.directories)]
                      ELSE cached
         /\ UNCHANGED <<total, queue, position, seen, records, notes, fault, after>>

\* The path is looked at again and the file is taken.
Restat ==
    LET info == ParseElf(Image[handle.inode]) IN
    /\ point = "restat"
    /\ IF Drifted
       THEN Refuse(IF MustExecute(task.role) \/ Lookup(task.at) = Absent
                   THEN "executable-drift" ELSE "dependency-drift")
       ELSE CASE task.role = "executable" -> TakeExecutable(info)
              [] task.role = "dependency" -> TakeDependency(info)
              [] OTHER -> TakeHeld
    /\ UNCHANGED world

-----------------------------------------------------------------------------
(* The loader data, the walk and the report. *)

\* loader_cache: the first helper that exists and the cache, or the path
\* file of musl; without them the walk goes on and says so.
FindLoaderData ==
    LET helpers == SelectSeq(profile.helpers, Exists) IN
    /\ point = "loader"
    /\ IF profile.loader = "glibc" /\ helpers # <<>> /\ Exists(profile.cache)
       THEN Begin("helper", helpers[1]) /\ UNCHANGED notes
       ELSE IF profile.loader = "musl" /\ Exists(profile.paths)
       THEN Begin("paths", profile.paths) /\ UNCHANGED notes
       ELSE /\ notes' = notes \union {<<"loader-data-unavailable">>}
            /\ point' = "search" /\ task' = Nothing /\ handle' = Nothing
    /\ UNCHANGED <<world, total, held, cached, queue, position, seen, records,
                   fault, after>>

\* ldconfig -p prints the cache that is there now, or fails.
RunHelper ==
    LET node == Lookup(profile.cache)
        image == Image[node[2]]
    IN
    /\ point = "run helper"
    /\ IF node[1] # "file" \/ image.kind # "cache" THEN Refuse("loader-data-invalid")
       ELSE /\ cached' = [cached EXCEPT !.entries = image.entries]
            /\ point' = "search" /\ task' = Nothing /\ handle' = Nothing
            /\ UNCHANGED <<total, held, queue, position, seen, records, notes,
                           fault, after>>
    /\ UNCHANGED world

SearchLibrary ==
    LET parent == Head(queue)
        soname == parent.info.needed[position]
        found == Candidates(parent, soname)
    IN
    /\ point = "search" /\ queue # <<>>
    /\ IF position > Len(parent.info.needed)
       THEN /\ queue' = Tail(queue) /\ position' = 1
            /\ UNCHANGED <<point, task, handle, total, held, cached, seen,
                           records, notes, fault, after>>
       ELSE IF Len(records) >= MaxDependencies THEN Refuse("bound-exceeded")
       ELSE IF found = <<>> THEN Refuse("dependency-missing")
       ELSE /\ Begin("dependency", found[1])
            /\ notes' = notes \union ExpandNotes(OwnPaths(parent.info))
                  \union (IF Len(found) > 1
                          THEN {<<"search-path-conflict", soname>>} ELSE {})
            /\ UNCHANGED <<total, held, cached, queue, position, seen, records,
                           fault, after>>
    /\ UNCHANGED world

\* The records in the order of the declaring path and the library name.
SortRecords(all) ==
    LET Of(path, name) == SelectSeq(all, LAMBDA r : r.by = path /\ r.soname = name)
        By(path) == FoldLeft(LAMBDA out, name : out \o Of(path, name), <<>>, NameOrder)
    IN
    FoldLeft(LAMBDA out, path : out \o By(path), <<>>, PathOrder)

\* The report is written, or its output fails.
WriteReport ==
    /\ point = "search" /\ queue = <<>>
    /\ records' = SortRecords(records)
    /\ \/ point' = "reported" /\ UNCHANGED fault
       \/ point' = "failed" /\ fault' = "output"
    /\ UNCHANGED <<world, task, handle, total, held, cached, queue, position,
                   seen, notes, after>>

-----------------------------------------------------------------------------
(* pbr-diagnose reads the report. *)

\* What its plan resolves a path to.
Identity(path) ==
    LET node == Lookup(path) IN
    IF node[1] # "file" THEN Absent
    ELSE <<Target(path, MaxLinks), node[2], versions[node[2]]>>

\* The executable, its loader and the runtime libraries its plan declares,
\* all of which must resolve.
Identify(libraries) ==
    LET executable == Identity(Binary)
        interpreter == ParseElf(Image[executable[2]]).interpreter
        loader == IF interpreter = Absent THEN Absent ELSE Identity(interpreter)
        declared == {Identity(p) : p \in libraries}
    IN
    IF \/ executable = Absent \/ Absent \in declared
       \/ interpreter # Absent /\ loader = Absent
    THEN Nothing
    ELSE [role |-> "known", executable |-> executable, loader |-> loader,
          libraries |-> declared]

StaticIdentity(artifact) == <<artifact.resolved, artifact.inode, artifact.version>>
Interpreters == {a \in ToSet(held) : a.role = "interpreter"}
Dependencies == {r.selected : r \in ToSet(records)}

\* Mutant: a library is declared when its path is.
ScaffoldErrorByPath(plan) ==
    IF plan = Nothing THEN "resolve-failed"
    ELSE IF StaticIdentity(held[1]) # plan.executable THEN "target-mismatch"
    ELSE IF (Interpreters = {}) # (plan.loader = Absent) THEN "target-mismatch"
    ELSE IF \E a \in Interpreters : StaticIdentity(a) # plan.loader
    THEN "target-mismatch"
    ELSE IF \E d \in Dependencies :
               d.resolved \notin
                  {x[1] : x \in (plan.libraries \union {plan.loader}) \ {Absent}}
    THEN "dependency-not-declared"
    ELSE "none"

\* validate_static_scaffold.
ScaffoldError(plan) ==
    IF plan = Nothing THEN "resolve-failed"
    ELSE IF StaticIdentity(held[1]) # plan.executable THEN "target-mismatch"
    ELSE IF (Interpreters = {}) # (plan.loader = Absent) THEN "target-mismatch"
    ELSE IF \E a \in Interpreters : StaticIdentity(a) # plan.loader
    THEN "target-mismatch"
    ELSE IF \E d \in Dependencies :
               StaticIdentity(d) \notin plan.libraries \union {plan.loader}
    THEN "dependency-not-declared"
    ELSE "none"

\* load_static_scaffold: one entry for each resolved path, the first.
ClosureEntries ==
    LET listed == <<held[1]>> \o SetToSeq(Interpreters)
                  \o [i \in DOMAIN records |-> records[i].selected]
        Kept(i) == \A j \in 1 .. i - 1 : listed[j].resolved # listed[i].resolved
    IN
    {[role |-> listed[i].role, path |-> listed[i].resolved,
      identity |-> StaticIdentity(listed[i])] : i \in {i \in DOMAIN listed : Kept(i)}}

LoadScaffold ==
    /\ point = "reported"
    /\ \E libraries \in LibrarySets :
          /\ known' = Identify(libraries)
          /\ LET error == ScaffoldError(known') IN
             IF error # "none"
             THEN point' = "refused" /\ fault' = error /\ UNCHANGED closure
             ELSE point' = "loaded" /\ closure' = ClosureEntries /\ UNCHANGED fault
    /\ UNCHANGED <<world, task, handle, total, walk>>

-----------------------------------------------------------------------------
(* The host. *)

Running == point \notin {"failed", "refused", "loaded"}

\* A file is written in place.
Rewrite(inode) ==
    /\ Running /\ edits < MaxEdits /\ edits' = edits + 1
    /\ versions' = [versions EXCEPT ![inode] = @ + 1]
    /\ UNCHANGED <<profile, tree, point, task, handle, total, walk, fault, after>>

\* Another file, a link or nothing takes a path.
Replace(edit) ==
    /\ Running /\ edits < MaxEdits /\ edits' = edits + 1
    /\ tree[edit[1]] # edit[2]
    /\ tree' = [tree EXCEPT ![edit[1]] = edit[2]]
    /\ UNCHANGED <<profile, versions, point, task, handle, total, walk, fault, after>>

Writable == {tree[edit[1]][2] : edit \in {e \in Edits : tree[e[1]][1] = "file"}}

ScaffoldNext ==
    \/ Follow \/ EndOfLinks \/ OpenFile \/ ReadFile \/ StatFile \/ Restat
    \/ FindLoaderData \/ RunHelper
    \/ SearchLibrary \/ WriteReport \/ LoadScaffold
    \/ \E edit \in Edits : Replace(edit)
    \/ \E inode \in Writable : Rewrite(inode)

ScaffoldSpec == ScaffoldInit /\ [][ScaffoldNext]_scaffoldVars

-----------------------------------------------------------------------------
(* Properties. *)

\* A report is exact, whatever happens to the files while it is made: each
\* of its artifacts was read from one version of one file, the one whose
\* metadata stand beside the digest; every object it lists was walked; and
\* every walked object has exactly one record for each library it needs,
\* also when libraries need one another in a cycle.
WrittenIsExact ==
    point = "reported" =>
        /\ \A a \in ToSet(held) \union Dependencies : a.halves = {a.version}
        /\ {s[1] : s \in seen} =
              {held[1].resolved} \union {d.resolved : d \in Dependencies}
        /\ \A r \in ToSet(records) : \E s \in seen : s[1] = r.by
        /\ \A s \in seen :
              LET needed == ParseElf(Image[s[2]]).needed IN
              \A name \in ToSet(NameOrder) :
                 Cardinality({i \in DOMAIN needed : needed[i] = name}) =
                 Cardinality({i \in DOMAIN records :
                                records[i].by = s[1] /\ records[i].soname = name})

\* A closure that pbr-diagnose takes from a report holds each path once and
\* every path of the report, with the file its own plan resolves to there:
\* never one that the report saw before a change or after another.
LoadedIsCurrent ==
    point = "loaded" =>
        /\ \A x, y \in closure : x.path = y.path => x = y
        /\ \A x \in closure : x.identity \in
              known.libraries \union {known.executable, known.loader}
        /\ \A a \in Dependencies \union Interpreters \union {held[1]} :
              \E x \in closure : x.identity = StaticIdentity(a)

\* The report of pbr scaffold is exact when it is written, and what
\* pbr-diagnose makes of it later is true of the files it then finds.
ReportIsExact == WrittenIsExact /\ LoadedIsCurrent
=============================================================================
