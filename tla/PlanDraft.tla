------------------------------ MODULE PlanDraft ------------------------------
(***************************************************************************)
(* The plan draft built from a diagnostic receipt (diagnose/src/draft.rs): *)
(* candidates for review, open items for what the observation leaves open, *)
(* and the counts.  A draft suggests; it grants nothing.                   *)
(***************************************************************************)
EXTENDS DiagnosticArtifact

CONSTANTS
    Comparisons    \* the inputs compared with the receipt: candidates,
                   \* closure, scope, capsec, differences

\* What a candidate may be offered for.
CandidateKinds == {"execute", "read"}

ASSUME ComparisonAssumption ==
    /\ None \notin CandidateKinds
    /\ None \notin {"closure-invalid", "path-scope-invalid",
                    "candidate-invalid", "capsec-provenance-invalid"}
    /\ \A inputs \in Comparisons : \A c \in inputs.candidates :
          c \in [kind : CandidateKinds, path : {c.path},
                 provenance : {c.provenance}]

\* The directories no candidate may lie in.
SystemRoots ==
    {<<"bin">>, <<"boot">>, <<"dev">>, <<"etc">>, <<"home">>, <<"lib">>,
     <<"lib64">>, <<"media">>, <<"mnt">>, <<"opt">>, <<"proc">>, <<"root">>,
     <<"run">>, <<"sbin">>, <<"srv">>, <<"sys">>, <<"tmp">>, <<"usr">>,
     <<"var">>}

PathIsWithin(path, root) ==
    Len(root) <= Len(path) /\ SubSeq(path, 1, Len(root)) = root
IsSystemPath(path) == \E root \in SystemRoots : PathIsWithin(path, root)

\* DraftPathScope::new.
ScopeValid(scope) ==
    /\ scope.candidates # {} /\ <<>> \notin scope.candidates
    /\ scope.home # <<>>
    /\ \A root \in scope.candidates :
          /\ ~IsSystemPath(root)
          /\ \A out \in scope.temporary \union {scope.home} :
                ~PathIsWithin(root, out)

\* An absent scope allows nothing.
Allows(scope, path) ==
    /\ scope # None
    /\ ~IsSystemPath(path)
    /\ \A out \in scope.temporary \union {scope.home} :
          ~PathIsWithin(path, out)
    /\ \E root \in scope.candidates : PathIsWithin(path, root)

-----------------------------------------------------------------------------
(* The Capsec report, and the provenance a candidate may carry. *)

Usability(profile, report) ==
    IF report.schema # profile.schema THEN "schema-unknown"
    ELSE IF report.source # profile.source THEN "source-stale"
    ELSE IF report.analyzer # profile.analyzer THEN "analyzer-unknown"
    ELSE IF report.report # profile.report \/ ~report.valid
    THEN "report-invalid"
    ELSE IF ~report.complete THEN "incomplete"
    ELSE "usable"

CapsecUsable(inputs) ==
    /\ inputs.capsec # None
    /\ Usability(inputs.capsec.profile, inputs.capsec.report) = "usable"

\* IdentifiedClosureEntry::new pairs a role with one provenance.
ClosureEntryValid(entry) ==
    entry.provenance = IF entry.role = "executable" THEN "static" ELSE "platform"

ProvenanceIsBound(candidate, closure) ==
    \A source \in candidate.provenance :
        CASE source = "static" ->
               /\ candidate.kind = "execute"
               /\ \E e \in closure : /\ e.path = candidate.path
                                     /\ e.role = "executable"
                                     /\ e.provenance = source
          [] source = "platform" ->
               \E e \in closure :
                  /\ e.path = candidate.path /\ e.provenance = source
                  /\ <<e.role, candidate.kind>> \in
                        {<<"interpreter", "execute">>,
                         <<"runtime-library", "read">>}
          [] source = "capsec" -> TRUE
          [] OTHER -> FALSE

DraftError(inputs) ==
    IF \E e \in inputs.closure : ~ClosureEntryValid(e) THEN "closure-invalid"
    ELSE IF inputs.scope # None /\ ~ScopeValid(inputs.scope)
    THEN "path-scope-invalid"
    ELSE IF \E c \in inputs.candidates :
               \/ ~Allows(inputs.scope, c.path)
               \/ ~ProvenanceIsBound(c, inputs.closure)
    THEN "candidate-invalid"
    ELSE IF /\ ~CapsecUsable(inputs)
            /\ \E x \in inputs.candidates \union inputs.differences :
                  "capsec" \in x.provenance
    THEN "capsec-provenance-invalid"
    ELSE None

-----------------------------------------------------------------------------
(* The draft. *)

\* merge_candidate: one candidate for each kind and path, with the union of
\* the provenances.
MergeCandidate(candidates, new) ==
    LET same == {c \in candidates : c.kind = new.kind /\ c.path = new.path} IN
    (candidates \ same) \union
        {[new EXCEPT !.provenance =
            UNION {c.provenance : c \in same \union {new}}]}

\* The map that the candidates of the inputs are merged into.
MergeCandidates(offered) ==
    {[c EXCEPT !.provenance =
        UNION {d.provenance : d \in {d \in offered : /\ d.kind = c.kind
                                                    /\ d.path = c.path}}] :
      c \in offered}

\* An access mode other than reading, creation or truncation; flags that
\* were not captured may be any.
PathEventCanWrite(e) ==
    \/ e.class = "creat"
    \/ e.operands.flags = None
    \/ e.operands.flags \intersect {"accmode", "creat", "trunc"} # {}

MandatoryOpenItems ==
    {<<"choose-environment">>, <<"choose-limits">>, <<"choose-network-mode">>,
     <<"choose-write-roots">>}

CapsecOpenItem(inputs) ==
    IF inputs.capsec = None THEN {<<"capsec-missing">>}
    ELSE IF CapsecUsable(inputs) THEN {}
    ELSE {<<Usability(inputs.capsec.profile, inputs.capsec.report)>>}

EmptyDraft(inputs) ==
    [candidates |-> MergeCandidates(inputs.candidates),
     items |-> MandatoryOpenItems, denials |-> 0, unresolved |-> 0,
     broad |-> 0]

\* Mutant: a call that may have written is a read.
CandidateKindWriting(e) ==
    IF e.class \in ExecuteClasses THEN "execute"
    ELSE IF e.class \in ReadClasses THEN "read"
    ELSE None

CandidateKind(e) ==
    IF e.class \in ExecuteClasses THEN "execute"
    ELSE IF e.class \in ReadClasses /\ ~PathEventCanWrite(e) THEN "read"
    ELSE None

\* One turn of the loop of build_plan_draft.
AddEvent(draft, e, scope) ==
    LET counted == [draft EXCEPT
            !.denials = IF e.outcome.failed THEN @ + 1 ELSE @,
            !.items = IF e.class \in NetworkClasses
                      THEN @ \union {<<"network-attempt", e.sequence>>}
                      ELSE @]
        kind == CandidateKind(e)
    IN
    IF e.resolution \in {"unresolved", "redacted"}
    THEN [counted EXCEPT
            !.unresolved = @ + 1,
            !.items = @ \union {<<"observation-unresolved", e.sequence>>}]
    ELSE IF e.path = None \/ e.class \in NetworkClasses THEN counted
    ELSE IF ~Allows(scope, e.path)
    THEN [counted EXCEPT
            !.broad = @ + 1,
            !.items = @ \union {<<"too-broad", e.sequence>>}]
    ELSE IF kind = None THEN counted
    ELSE [counted EXCEPT
            !.candidates = MergeCandidate(@, [kind |-> kind, path |-> e.path,
                               provenance |-> {"observation"}])]

\* The draft after each number of turns.
Drafts(events, inputs) ==
    LET after[n \in 0 .. Len(events)] ==
            IF n = 0 THEN EmptyDraft(inputs)
            ELSE AddEvent(after[n - 1], events[n], inputs.scope)
    IN  after

Draft(receipt, inputs) ==
    [Drafts(receipt.events, inputs)[Len(receipt.events)] EXCEPT
        !.items = @ \union {<<"diagnostic-gap", g>> : g \in receipt.gaps}
                    \union CapsecOpenItem(inputs)]

-----------------------------------------------------------------------------
(* What a draft promises. *)

\* The open items that name an event.
EventItems == {"network-attempt", "observation-unresolved", "too-broad"}

\* A call that asked to create, to truncate or to write.
Writes(e) ==
    \/ e.class = "creat"
    \/ /\ e.operands.flags # None
       /\ e.operands.flags \intersect {"accmode", "creat", "trunc"} # {}

\* A read that the draft leaves out: readlink and readlinkat have no flags,
\* and path_event_can_write takes a call without flags for a write.
LinkReads == {"readlink", "readlinkat"}

\* The events that yield a candidate: the target of a call that read or
\* executed, exactly known and inside the reviewed roots.
Suggests(e, scope, kind) ==
    /\ e.resolution \in {"kernel-selected", "stable-candidate"}
    /\ Allows(scope, e.path)
    /\ kind = "execute" => e.class \in ExecuteClasses
    /\ kind = "read" => e.class \in ReadClasses \ LinkReads /\ ~Writes(e)

\* Every candidate of a draft is a declared one or was observed, carries
\* exactly the provenances that were offered for it, lies in the reviewed
\* roots, and is not suggested for a call that asked to write; every
\* observation is turned into a candidate or named in an open item, with two
\* exceptions inside the reviewed roots: a call that asked to write, and a
\* link that was read.  (The second is a gap of the code: is_read_candidate
\* lists readlink and readlinkat, and no draft ever shows one.)  The counts
\* say how many there are of each, whatever the order of the events.
Justified(receipt, inputs, draft) ==
    LET events == {receipt.events[i] : i \in DOMAIN receipt.events}
        Offers(c) ==
            {x.provenance : x \in {x \in inputs.candidates :
                                   x.kind = c.kind /\ x.path = c.path}}
            \union {{"observation"} : e \in {e \in events :
                        e.path = c.path /\ Suggests(e, inputs.scope, c.kind)}}
        Open(e) == \E item \in draft.items :
            item[1] \in EventItems /\ item[2] = e.sequence
    IN
    /\ \A c \in draft.candidates :
          /\ Offers(c) # {} /\ c.provenance = UNION Offers(c)
          /\ Allows(inputs.scope, c.path)
    /\ \A c, d \in draft.candidates :
          c.kind = d.kind /\ c.path = d.path => c = d
    /\ \A e \in events :
          \/ Open(e)
          \/ \E c \in draft.candidates :
                /\ c.path = e.path /\ "observation" \in c.provenance
                /\ Suggests(e, inputs.scope, c.kind)
          \/ Allows(inputs.scope, e.path) /\ (Writes(e) \/ e.class \in LinkReads)
    /\ draft.broad + draft.unresolved =
          Cardinality({e \in events :
             \E item \in draft.items :
                /\ item[1] \in {"too-broad", "observation-unresolved"}
                /\ item[2] = e.sequence})
    /\ draft.denials = Cardinality({e \in events : e.outcome.failed})
    /\ \A g \in receipt.gaps : <<"diagnostic-gap", g>> \in draft.items
    /\ MandatoryOpenItems \subseteq draft.items
=============================================================================
