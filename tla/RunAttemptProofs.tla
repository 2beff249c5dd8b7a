-------------------------- MODULE RunAttemptProofs --------------------------
(***************************************************************************)
(* What `pbr run` owes to other invocations and to whoever reads its       *)
(* receipt, for any number of invocations, output roots, receipt names and *)
(* changes of artifacts: the output root is its own, no receipt is ever    *)
(* replaced, a receipt that can be seen is complete, and the launcher is   *)
(* not started over a change that a check could see.                       *)
(***************************************************************************)
EXTENDS RunAttempt, TLAPS

\* The types of the variables the arguments use.
TypeInv ==
    /\ pc \in [Runs -> Points]
    /\ step \in [Runs -> 0 .. 5]
    /\ rootOf \in [Runs -> Roots \union {None}]
    /\ targetOf \in [Runs -> Targets \union {None}]
    /\ dirs \in [Roots -> Runs \union {None, Other}]
    /\ slot \in [Targets -> Runs \union {None, Other}]
    /\ temp \in [Runs -> BOOLEAN]
    /\ data \in [Runs -> {"none", "partial", "written", "synced"}]
    /\ group \in [Runs -> {"absent", "present", "removed"}]
    /\ outcome \in [Runs -> {"none", "child", "launcherFailed"}]
    /\ result \in [Runs -> {"none", "ok", "error"}]
    /\ powerLost \in BOOLEAN
    /\ \A r \in Runs : pc[r] \notin {"start"} \union Ended =>
          rootOf[r] \in Roots /\ targetOf[r] \in Targets

\* Where an invocation is tells how far its receipt has come.
ReceiptAt(r) ==
    /\ pc[r] \in {"inventory", "outputs", "build", "create", "write", "sync",
                  "link", "unlink", "report", "done"} =>
          outcome[r] # "none" /\ group[r] = "removed"
    /\ pc[r] \in {"link", "unlink", "report", "done"} => data[r] = "synced"
    /\ pc[r] \in {"unlink", "report"} => slot[targetOf[r]] = r
    /\ pc[r] = "done" => slot[targetOf[r]] = r \/ powerLost
    /\ pc[r] \in {"report", "done"} => ~temp[r]
    /\ result[r] = "ok" => pc[r] = "done"

\* A name is linked only to a receipt that has come all the way.
LinkedInv ==
    \A t \in Targets : \A r \in Runs : slot[t] = r =>
        /\ data[r] = "synced" /\ targetOf[r] = t
        /\ outcome[r] # "none" /\ group[r] = "removed"
        /\ pc[r] \in {"unlink", "report"} \union Ended

ReceiptInv == LinkedInv /\ \A r \in Runs : ReceiptAt(r)

USE DEF Points, Ended, Goto, hostVars, fileVars, attemptVars, givenVars,
        dirVars

-----------------------------------------------------------------------------
(* Types. *)

\* The initial state has the types.
LEMMA TypeInit == ASSUME Init PROVE TypeInv
<1>1. dirs \in [Roots -> Runs \union {None, Other}]
  BY DEF Init
<1>2. slot \in [Targets -> Runs \union {None, Other}]
  BY DEF Init
<1>3. temp \in [Runs -> BOOLEAN] /\ powerLost \in BOOLEAN
  BY Zenon DEF Init
<1> QED
  BY <1>1, <1>2, <1>3 DEF Init, TypeInv

\* A failing step keeps the types.
LEMMA TypeFail ==
    ASSUME TypeInv, NEW r \in Runs, Fail(r),
           UNCHANGED <<step, givenVars, powerLost, outcome>>,
           dirs' \in [Roots -> Runs \union {None, Other}]
    PROVE  TypeInv'
  BY DEF Fail, TypeInv

\* The steps of an invocation keep the types.
LEMMA TypeRun == ASSUME TypeInv, NEW r \in Runs, RunNext(r) PROVE TypeInv'
<1>1. CASE PrepareReceiptPath(r)
  BY <1>1 DEF PrepareReceiptPath, TypeInv
<1>2. CASE IdentifyPlan(r)
  BY <1>2 DEF IdentifyPlan, TypeInv
<1>3. CASE CreateOutputRoot(r)
  BY <1>3 DEF CreateOutputRoot, TypeInv
<1>4. CASE OutputRootRefused(r)
  <2>1. dirs' \in [Roots -> Runs \union {None, Other}]
    BY <1>4, Zenon DEF OutputRootRefused, TypeInv
  <2> QED
    BY <1>4, <2>1, TypeFail DEF OutputRootRefused
<1>5. CASE Identify(r)
  BY <1>5 DEF Identify, TypeInv, IdentifyOrder
<1>6. CASE CreateCgroup(r)
  BY <1>6 DEF CreateCgroup, TypeInv
<1>7. CASE CgroupLeaked(r)
  BY <1>7 DEF CgroupLeaked, TypeInv
<1>8. CASE BuildRequest(r)
  BY <1>8 DEF BuildRequest, TypeInv
<1>9. CASE Revalidate(r)
  BY <1>9 DEF Revalidate, TypeInv, RevalidateOrder
<1>10. CASE RevalidateEmpty(r)
  BY <1>10 DEF RevalidateEmpty, TypeInv
<1>11. CASE Spawn(r)
  BY <1>11 DEF Spawn, TypeInv
<1>12. CASE Supervised(r)
  BY <1>12 DEF Supervised, TypeInv
<1>13. CASE Inventory(r)
  BY <1>13 DEF Inventory, TypeInv
<1>14. CASE RevalidateOutputs(r)
  BY <1>14 DEF RevalidateOutputs, TypeInv
<1>15. CASE BuildReceipt(r)
  BY <1>15 DEF BuildReceipt, TypeInv
<1>16. CASE CreateTemporary(r)
  BY <1>16 DEF CreateTemporary, TypeInv
<1>17. CASE WriteAll(r)
  BY <1>17 DEF WriteAll, TypeInv
<1>18. CASE SyncAll(r)
  BY <1>18 DEF SyncAll, TypeInv
<1>19. CASE Publish(r)
  BY <1>19 DEF Publish, TypeInv
<1>20. CASE RemoveTemporary(r)
  BY <1>20 DEF RemoveTemporary, TypeInv
<1>21. CASE Report(r)
  BY <1>21 DEF Report, TypeInv
<1>22. CASE StepFails(r)
  BY <1>22, TypeFail, Zenon DEF StepFails, TypeInv
<1> QED
  BY <1>1, <1>2, <1>3, <1>4, <1>5, <1>6, <1>7, <1>8, <1>9, <1>10, <1>11,
     <1>12, <1>13, <1>14, <1>15, <1>16, <1>17, <1>18, <1>19, <1>20, <1>21,
     <1>22, Zenon
     DEF RunNext

\* So does the host.
LEMMA TypeHost == ASSUME TypeInv, HostNext PROVE TypeInv'
<1>1. ASSUME NEW a \in Artifacts, Edit(a) PROVE TypeInv'
  BY <1>1, Zenon DEF Edit, TypeInv
<1>2. ASSUME NEW a \in Artifacts, Replace(a) PROVE TypeInv'
  BY <1>2, Zenon DEF Replace, TypeInv
<1>3. ASSUME NEW o \in Roots, WriteIntoRoot(o) PROVE TypeInv'
  BY <1>3, Zenon DEF WriteIntoRoot, TypeInv
<1>4. ASSUME NEW r \in Runs, Crash(r) PROVE TypeInv'
  BY <1>4 DEF Crash, TypeInv
<1>5. CASE PowerLoss
  BY <1>5 DEF PowerLoss, TypeInv
<1> QED
  BY <1>1, <1>2, <1>3, <1>4, <1>5 DEF HostNext

\* The types hold in every state.
LEMMA TypeInvariance == Spec => []TypeInv
<1>1. ASSUME TypeInv, [Next]_vars PROVE TypeInv'
  <2>1. CASE UNCHANGED vars
    BY <1>1, <2>1, Zenon DEF vars, TypeInv
  <2> QED
    BY <1>1, <2>1, TypeRun, TypeHost DEF Next, Finished
<1> QED
  BY <1>1, TypeInit, PTL DEF Spec

-----------------------------------------------------------------------------
(* The output root. *)

\* An invocation never shares its output root and never takes over one that
\* exists: FreshOutputRoot::create is the only way past this point.
THEOREM RootsAreOwn == Spec => []OutputRootIsOwn
<1>1. Init => OutputRootIsOwn
  BY DEF Init, OutputRootIsOwn
<1>2. ASSUME TypeInv, OutputRootIsOwn, [Next]_vars PROVE OutputRootIsOwn'
  <2> USE DEF OutputRootIsOwn
  <2>1. CASE UNCHANGED vars
    BY <1>2, <2>1, Zenon DEF vars
  <2>2. ASSUME NEW r \in Runs, RunNext(r) PROVE OutputRootIsOwn'
    <3>1. CASE PrepareReceiptPath(r)
      BY <1>2, <3>1 DEF PrepareReceiptPath, TypeInv
    <3>2. CASE CreateOutputRoot(r)
      BY <1>2, <3>2, OwnersAssumption DEF CreateOutputRoot, TypeInv
    <3>3. CASE OutputRootRefused(r)
      BY <1>2, <3>3, OwnersAssumption DEF OutputRootRefused, Fail, TypeInv
    <3>4. CASE ~(\/ PrepareReceiptPath(r) \/ CreateOutputRoot(r)
                 \/ OutputRootRefused(r))
      <4>1. dirs' = dirs /\ rootOf' = rootOf
        BY <1>2, <2>2, <3>4, Zenon
           DEF RunNext, TypeInv, IdentifyPlan, Identify, CreateCgroup,
               CgroupLeaked, BuildRequest, Revalidate, RevalidateEmpty, Spawn,
               Supervised, Inventory, RevalidateOutputs, BuildReceipt,
               CreateTemporary, WriteAll, SyncAll, Publish, RemoveTemporary,
               Report, StepFails, Fail
      <4>2. ASSUME NEW q \in Runs \ {r} PROVE pc'[q] = pc[q]
        <5>1. CASE Identify(r)
          BY <1>2, <5>1 DEF Identify, TypeInv
        <5>2. CASE Revalidate(r)
          BY <1>2, <5>2 DEF Revalidate, TypeInv
        <5>3. CASE CgroupLeaked(r) \/ StepFails(r)
          BY <1>2, <5>3, ZenonT(60) DEF CgroupLeaked, StepFails, Fail, TypeInv
        <5>4. CASE \/ IdentifyPlan(r) \/ CreateCgroup(r) \/ BuildRequest(r)
                   \/ RevalidateEmpty(r) \/ Spawn(r) \/ Supervised(r)
          BY <1>2, <5>4
             DEF TypeInv, IdentifyPlan, CreateCgroup, BuildRequest,
                 RevalidateEmpty, Spawn, Supervised
        <5>5. CASE \/ Inventory(r) \/ RevalidateOutputs(r) \/ BuildReceipt(r)
                   \/ CreateTemporary(r) \/ WriteAll(r)
          BY <1>2, <5>5
             DEF TypeInv, Inventory, RevalidateOutputs, BuildReceipt,
                 CreateTemporary, WriteAll
        <5>6. CASE SyncAll(r) \/ Publish(r) \/ RemoveTemporary(r) \/ Report(r)
          BY <1>2, <5>6 DEF TypeInv, SyncAll, Publish, RemoveTemporary, Report
        <5> QED
          BY <2>2, <3>4, <5>1, <5>2, <5>3, <5>4, <5>5, <5>6, Zenon DEF RunNext
      <4>3. \/ pc'[r] \in {"root"} \union Ended
            \/ pc[r] \notin {"start", "plan", "root"} \union Ended
        BY <1>2, <2>2, <3>4, ZenonT(60)
           DEF RunNext, TypeInv, IdentifyPlan, Identify, CreateCgroup,
               CgroupLeaked, BuildRequest, Revalidate, RevalidateEmpty, Spawn,
               Supervised, Inventory, RevalidateOutputs, BuildReceipt,
               CreateTemporary, WriteAll, SyncAll, Publish, RemoveTemporary,
               Report, StepFails, Fail
      <4> QED
        BY <1>2, <4>1, <4>2, <4>3
    <3> QED
      BY <3>1, <3>2, <3>3, <3>4
  <2>3. CASE HostNext
    BY <1>2, <2>3 DEF HostNext, Edit, Replace, WriteIntoRoot, Crash,
                      PowerLoss, TypeInv
  <2> QED
    BY <1>2, <2>1, <2>2, <2>3, Zenon DEF Next, Finished
<1> QED
  BY <1>1, <1>2, TypeInvariance, PTL DEF Spec

-----------------------------------------------------------------------------
(* The receipt. *)

\* Only Publish and a power loss change the name of a receipt: an existing
\* one is never replaced (hard_link).
THEOREM ReceiptsAreKept == Spec => ReceiptNeverReplaced
<1> DEFINE Kept == \A t \in Targets :
              slot[t] # None /\ slot'[t] # slot[t] =>
                  powerLost' # powerLost /\ slot'[t] = None
<1>1. ASSUME TypeInv, [Next]_vars PROVE Kept \/ UNCHANGED vars
  <2>1. ASSUME NEW r \in Runs, RunNext(r) PROVE Kept
    <3>1. CASE Publish(r)
      BY <1>1, <3>1 DEF Publish, TypeInv
    <3>2. CASE ~Publish(r)
      <4>1. slot' = slot
        BY <2>1, <3>2, Zenon
           DEF RunNext, PrepareReceiptPath, CreateOutputRoot,
               OutputRootRefused, IdentifyPlan, Identify, CreateCgroup,
               CgroupLeaked, BuildRequest, Revalidate, RevalidateEmpty, Spawn,
               Supervised, Inventory, RevalidateOutputs, BuildReceipt,
               CreateTemporary, WriteAll, SyncAll, RemoveTemporary,
               Report, StepFails, Fail
      <4> QED
        BY <4>1
    <3> QED
      BY <3>1, <3>2
  <2>2. CASE HostNext
    BY <1>1, <2>2 DEF HostNext, Edit, Replace, WriteIntoRoot, Crash,
                      PowerLoss, TypeInv
  <2> QED
    BY <1>1, <2>1, <2>2 DEF Next, Finished
<1> QED
  BY <1>1, TypeInvariance, PTL DEF Spec, ReceiptNeverReplaced

\* The steps of an invocation keep what can be said of receipts.
LEMMA ReceiptRun ==
    ASSUME TypeInv, ReceiptInv, NEW r \in Runs, RunNext(r) PROVE ReceiptInv'
<1> USE DEF ReceiptInv, LinkedInv, ReceiptAt, TypeInv
<1>1. CASE PrepareReceiptPath(r)
  BY <1>1 DEF PrepareReceiptPath
<1>2. CASE IdentifyPlan(r)
  BY <1>2 DEF IdentifyPlan
<1>3. CASE CreateOutputRoot(r)
  BY <1>3 DEF CreateOutputRoot
<1>4. CASE OutputRootRefused(r)
  BY <1>4 DEF OutputRootRefused, Fail
<1>5. CASE Identify(r)
  BY <1>5 DEF Identify
<1>6. CASE CreateCgroup(r)
  BY <1>6 DEF CreateCgroup
<1>7. CASE CgroupLeaked(r)
  BY <1>7 DEF CgroupLeaked
<1>8. CASE BuildRequest(r)
  BY <1>8 DEF BuildRequest
<1>9. CASE Revalidate(r)
  BY <1>9 DEF Revalidate
<1>10. CASE RevalidateEmpty(r)
  BY <1>10 DEF RevalidateEmpty
<1>11. CASE Spawn(r)
  BY <1>11 DEF Spawn
<1>12. CASE Supervised(r)
  BY <1>12 DEF Supervised
<1>13. CASE Inventory(r)
  BY <1>13 DEF Inventory
<1>14. CASE RevalidateOutputs(r)
  BY <1>14 DEF RevalidateOutputs
<1>15. CASE BuildReceipt(r)
  BY <1>15 DEF BuildReceipt
<1>16. CASE CreateTemporary(r)
  BY <1>16 DEF CreateTemporary
<1>17. CASE WriteAll(r)
  BY <1>17 DEF WriteAll
<1>18. CASE SyncAll(r)
  BY <1>18 DEF SyncAll
<1>19. CASE Publish(r)
  BY <1>19, OwnersAssumption DEF Publish
<1>20. CASE RemoveTemporary(r)
  BY <1>20 DEF RemoveTemporary
<1>21. CASE Report(r)
  BY <1>21 DEF Report
<1>22. CASE StepFails(r)
  BY <1>22 DEF StepFails, Fail
<1> QED
  BY <1>1, <1>2, <1>3, <1>4, <1>5, <1>6, <1>7, <1>8, <1>9, <1>10, <1>11, Zenon,
     <1>12, <1>13, <1>14, <1>15, <1>16, <1>17, <1>18, <1>19, <1>20, <1>21,
     <1>22 DEF RunNext

\* So does the host: a power loss takes names away, and ends every invocation
\* that relies on one.
LEMMA ReceiptHost == ASSUME TypeInv, ReceiptInv, HostNext PROVE ReceiptInv'
<1> USE DEF ReceiptInv, LinkedInv, ReceiptAt, TypeInv
<1>1. ASSUME NEW a \in Artifacts, Edit(a) \/ Replace(a) PROVE ReceiptInv'
  <2>1. UNCHANGED <<pc, targetOf, outcome, group, temp, data, slot, result,
                    powerLost>>
    BY <1>1, Zenon DEF Edit, Replace
  <2> QED
    BY <2>1
<1>2. ASSUME NEW o \in Roots, WriteIntoRoot(o) PROVE ReceiptInv'
  BY <1>2 DEF WriteIntoRoot
<1>3. ASSUME NEW r \in Runs, Crash(r) PROVE ReceiptInv'
  BY <1>3 DEF Crash
<1>4. CASE PowerLoss
  <2>1. LinkedInv'
    BY <1>4, OwnersAssumption DEF PowerLoss
  <2>2. ASSUME NEW r \in Runs PROVE ReceiptAt(r)'
    <3>1. IF pc[r] \in {"start"} \union Ended THEN pc'[r] = pc[r]
                                              ELSE pc'[r] = "crashed"
      BY <1>4, Zenon DEF PowerLoss
    <3>2. /\ group[r] = "removed" => group'[r] = "removed"
          /\ data[r] = "synced" => data'[r] = "synced"
          /\ powerLost' = TRUE /\ outcome' = outcome /\ result' = result
      BY <1>4 DEF PowerLoss
    <3>3. ~temp[r] => ~temp'[r]
      BY <1>4 DEF PowerLoss
    <3>4. ReceiptAt(r)
      BY Zenon
    <3> HIDE DEF ReceiptInv, LinkedInv, TypeInv
    <3>5. CASE pc[r] = "done"
      BY <3>1, <3>2, <3>3, <3>4, <3>5, Zenon
    <3>6. CASE pc[r] # "done"
      BY <3>1, <3>2, <3>3, <3>4, <3>6, Zenon
    <3> QED
      BY <3>5, <3>6, Zenon
  <2> QED
    BY <2>1, <2>2, Zenon
<1> QED
  BY <1>1, <1>2, <1>3, <1>4, Zenon DEF HostNext

\* A receipt that can be seen is complete and its attempt is over; a reported
\* success is about the invocation's own receipt (persist_receipt).
THEOREM ReceiptsAreOwn == Spec => []PublishedReceiptIsOwn
<1>1. ASSUME Init PROVE ReceiptInv
  <2>1. ASSUME NEW t \in Targets, NEW r \in Runs PROVE slot[t] # r
    BY <1>1, OwnersAssumption, Zenon DEF Init
  <2>2. ASSUME NEW r \in Runs PROVE ReceiptAt(r)
    BY <1>1, Zenon DEF Init, ReceiptAt
  <2> QED
    BY <2>1, <2>2 DEF ReceiptInv, LinkedInv
<1>2. ASSUME TypeInv, ReceiptInv, [Next]_vars PROVE ReceiptInv'
  <2>1. CASE UNCHANGED vars
    BY <1>2, <2>1 DEF vars, ReceiptInv, LinkedInv, ReceiptAt
  <2> QED
    BY <1>2, <2>1, ReceiptRun, ReceiptHost, Zenon DEF Next, Finished
<1>3. ReceiptInv => PublishedReceiptIsOwn
  BY DEF ReceiptInv, LinkedInv, ReceiptAt, PublishedReceiptIsOwn
<1> QED
  BY <1>1, <1>2, <1>3, TypeInvariance, PTL DEF Spec

-----------------------------------------------------------------------------
(* The retained artifacts. *)

Retained == [recorded : Nat, now : Nat, linked : BOOLEAN]

\* The types of what is known about artifacts, and the checks that are still
\* to come at each control point.
FreshTypes ==
    /\ disk \in [Artifacts -> Nat]
    /\ held \in [Runs -> [Artifacts -> Retained]]
    /\ DOMAIN missed = Runs
    /\ \A r \in Runs :
          /\ pc[r] \in {"cgroup", "request"} => step[r] = 0
          /\ pc[r] \in {"root", "identify"} => step[r] \in 1..5

\* What has passed its last check has the recorded identity, unless it was
\* edited since.
PassedIsFresh ==
    \A r \in Runs : \A a \in Passed(r) \ missed[r] :
        held[r][a].now = held[r][a].recorded

FreshInv == FreshTypes /\ PassedIsFresh

\* The names in the order of the checks are the artifacts.
LEMMA RevalidateAll == {RevalidateOrder[i] : i \in 1..6} = Artifacts
  BY DEF RevalidateOrder, Artifacts

\* Only artifacts are checked.
LEMMA PassedAreArtifacts ==
    ASSUME TypeInv, NEW r \in Runs PROVE Passed(r) \subseteq Artifacts
<1>1. CASE pc[r] = "revalidate"
  <2>1. \A i \in 1..step[r] : i \in 1..6
    BY DEF TypeInv
  <2>2. Passed(r) = {RevalidateOrder[i] : i \in 1..step[r]}
    BY <1>1 DEF Passed
  <2> QED
    BY <2>1, <2>2, RevalidateAll, Zenon
<1>2. CASE pc[r] # "revalidate"
  BY <1>2 DEF Passed
<1> QED
  BY <1>1, <1>2

\* An edit is noted by every invocation that has already checked.
LEMMA FreshEdit ==
    ASSUME TypeInv, FreshInv, NEW a \in Artifacts, Edit(a) PROVE FreshInv'
<1> USE DEF FreshInv, FreshTypes
<1>1. UNCHANGED <<pc, step>> /\ disk' \in [Artifacts -> Nat]
  BY DEF Edit
<1>2. DOMAIN missed' = Runs
  BY DEF Edit
<1>3. held' \in [Runs -> [Artifacts -> Retained]]
  <2>1. ASSUME NEW r \in Runs
        PROVE  [held[r] EXCEPT ![a].now =
                   IF held[r][a].linked THEN disk[a] + 1 ELSE @]
                 \in [Artifacts -> Retained]
    <3> DEFINE v == IF held[r][a].linked THEN disk[a] + 1 ELSE held[r][a].now
    <3>1. held[r] \in [Artifacts -> Retained] /\ held[r][a] \in Retained
      BY Zenon
    <3>2. v \in Nat
      BY <3>1 DEF Retained
    <3>3. [held[r][a] EXCEPT !.now = v] \in Retained
      <4> HIDE DEF v
      <4> QED
        BY <3>1, <3>2, Zenon DEF Retained
    <3>4. [held[r] EXCEPT ![a] = [held[r][a] EXCEPT !.now = v]]
            \in [Artifacts -> Retained]
      <4> HIDE DEF v
      <4> QED
        BY <3>1, <3>3
    <3> QED
      BY <3>4, Zenon
  <2> QED
    BY <2>1, Zenon DEF Edit
<1>4. ASSUME NEW r \in Runs, NEW b \in Artifacts, b # a
      PROVE  held'[r][b] = held[r][b]
  <2>1. DOMAIN held[r] = Artifacts
    BY Zenon
  <2> QED
    BY <1>4, <2>1, Zenon DEF Edit
<1>5. ASSUME NEW r \in Runs
      PROVE  missed'[r] = missed[r] \union (Passed(r) \intersect {a})
  BY Zenon DEF Edit
<1>6. ASSUME NEW r \in Runs PROVE Passed(r)' = Passed(r)
  BY <1>1 DEF Passed
<1>7. PassedIsFresh'
  BY <1>4, <1>5, <1>6, PassedAreArtifacts DEF PassedIsFresh
<1> QED
  BY <1>1, <1>2, <1>3, <1>7, Zenon

\* A replaced artifact is still the one that is retained.
LEMMA FreshReplace ==
    ASSUME TypeInv, FreshInv, NEW a \in Artifacts, Replace(a) PROVE FreshInv'
<1> USE DEF FreshInv, FreshTypes
<1>1. UNCHANGED <<pc, step, missed>> /\ disk' \in [Artifacts -> Nat]
  BY DEF Replace
<1>2. ASSUME NEW r \in Runs, NEW b \in Artifacts
      PROVE  /\ held'[r][b] \in Retained
             /\ held'[r][b].now = held[r][b].now
             /\ held'[r][b].recorded = held[r][b].recorded
  <2>1. held[r][b] \in Retained
    BY Zenon
  <2>2. held'[r][b] = held[r][b]
          \/ held'[r][b] = [held[r][b] EXCEPT !.linked = FALSE]
    <3>1. DOMAIN held[r] = Artifacts
      OBVIOUS
    <3> QED
      BY <3>1, Zenon DEF Replace
  <2> QED
    BY <2>1, <2>2, Zenon DEF Retained
<1>3. ASSUME NEW r \in Runs
      PROVE  held'[r] = [b \in Artifacts |-> held'[r][b]]
  <2>1. held[r] \in [Artifacts -> Retained]
    BY Zenon
  <2> QED
    BY <2>1, Zenon DEF Replace
<1>4. held' \in [Runs -> [Artifacts -> Retained]]
  <2>1. held' = [r \in Runs |-> held'[r]]
    BY Zenon DEF Replace
  <2> QED
    BY <1>2, <1>3, <2>1, Zenon
<1>5. ASSUME NEW r \in Runs PROVE Passed(r)' = Passed(r)
  BY <1>1 DEF Passed
<1>6. PassedIsFresh'
  BY <1>1, <1>2, <1>5, PassedAreArtifacts DEF PassedIsFresh
<1> QED
  BY <1>1, <1>4, <1>6, Zenon

\* A step that keeps what is known about artifacts, and that leads to no new
\* check, keeps FreshInv.
LEMMA FreshKept ==
    ASSUME FreshInv, UNCHANGED <<disk, held, missed, step>>,
           \A r \in Runs :
              \/ pc'[r] = pc[r]
              \/ pc'[r] \notin {"root", "identify", "cgroup", "request",
                                "revalidate", "empty", "spawn"}
              \/ pc[r] = "root" /\ pc'[r] = "identify"
              \/ pc[r] = "cgroup" /\ pc'[r] = "request"
              \/ pc[r] = "empty" /\ pc'[r] = "spawn"
    PROVE  FreshInv'
<1>1. FreshTypes'
  BY Zenon DEF FreshInv, FreshTypes
<1>2. ASSUME NEW r \in Runs PROVE Passed(r)' \subseteq Passed(r)
  BY DEF Passed
<1> QED
  BY <1>1, <1>2, Zenon DEF FreshInv, PassedIsFresh

\* The steps of an invocation: a check that passes is what makes an artifact
\* one of those that passed.
LEMMA FreshRun ==
    ASSUME TypeInv, FreshInv, NEW r \in Runs, RunNext(r) PROVE FreshInv'
<1>1. CASE IdentifyPlan(r) \/ Identify(r)
  <2>1. \E b \in Artifacts :
           held' = [held EXCEPT ![r][b] =
                      [recorded |-> disk[b], now |-> disk[b], linked |-> TRUE]]
    <3>1. CASE IdentifyPlan(r)
      BY <3>1, Zenon DEF IdentifyPlan, Identified, Artifacts
    <3>2. CASE Identify(r)
      <4>1. step[r] + 1 \in 1..6
        BY DEF TypeInv
      <4>2. IdentifyOrder[step[r] + 1] \in Artifacts
        BY <4>1 DEF IdentifyOrder, Artifacts
      <4> QED
        BY <3>2, <4>2, Zenon DEF Identify, Identified
    <3> QED
      BY <1>1, <3>1, <3>2, Zenon
  <2>2. held' \in [Runs -> [Artifacts -> Retained]]
    BY <2>1 DEF FreshInv, FreshTypes, Retained
  <2>3. \A q \in Runs \ {r} : held'[q] = held[q]
    BY <2>1, Zenon DEF FreshInv, FreshTypes
  <2>4. UNCHANGED <<disk, missed>>
    BY <1>1, Zenon DEF IdentifyPlan, Identify
  <2>5. /\ \A q \in Runs \ {r} : pc'[q] = pc[q] /\ step'[q] = step[q]
        /\ pc'[r] \in {"root", "identify"} => step'[r] \in 1..5
        /\ pc'[r] = "cgroup" => step'[r] = 0
        /\ pc'[r] \in {"root", "identify", "cgroup"}
    <3>1. CASE IdentifyPlan(r)
      BY <3>1 DEF IdentifyPlan, TypeInv
    <3>2. CASE Identify(r)
      BY <3>2 DEF Identify, IdentifyOrder, TypeInv
    <3> QED
      BY <1>1, <3>1, <3>2, Zenon
  <2>6. FreshTypes'
    BY <2>2, <2>4, <2>5, Zenon DEF FreshInv, FreshTypes
  <2>7. PassedIsFresh'
    BY <2>3, <2>4, <2>5 DEF Passed, FreshInv, PassedIsFresh
  <2> QED
    BY <2>6, <2>7 DEF FreshInv
<1>2. CASE BuildRequest(r)
  <2>1. FreshTypes'
    BY <1>2, Zenon DEF BuildRequest, FreshInv, FreshTypes, TypeInv
  <2>2. Passed(r)' = {}
    <3>1. pc'[r] = "revalidate" /\ step'[r] = 0
      BY <1>2, Zenon DEF BuildRequest, FreshInv, FreshTypes, TypeInv
    <3> QED
      BY <3>1 DEF Passed
  <2>3. \A q \in Runs \ {r} : /\ Passed(q)' = Passed(q)
                             /\ missed'[q] = missed[q]
    BY <1>2 DEF BuildRequest, Passed, FreshInv, FreshTypes, TypeInv
  <2>4. held' = held
    BY <1>2, Zenon DEF BuildRequest
  <2> QED
    BY <2>1, <2>2, <2>3, <2>4, Zenon DEF FreshInv, PassedIsFresh
<1>3. CASE Revalidate(r)
  <2> DEFINE n == step[r] + 1
             a == RevalidateOrder[n]
  <2>1. n \in 1..6
    BY DEF TypeInv
  <2>2. UNCHANGED <<disk, held, missed>>
    BY <1>3, Zenon DEF Revalidate
  <2>3. /\ \A q \in Runs \ {r} : pc'[q] = pc[q] /\ step'[q] = step[q]
        /\ IF n = 6 THEN pc'[r] = "empty" /\ step'[r] = 0
                    ELSE pc'[r] = "revalidate" /\ step'[r] = n
        /\ pc[r] = "revalidate" /\ held[r][a].now = held[r][a].recorded
    BY <1>3 DEF Revalidate, RevalidateOrder, TypeInv
  <2> HIDE DEF a
  <2>4. FreshTypes'
    BY <2>2, <2>3, Zenon DEF FreshInv, FreshTypes
  <2>5. \A q \in Runs \ {r} : Passed(q)' = Passed(q)
    BY <2>3, Zenon DEF Passed
  <2>6. Passed(r)' \subseteq Passed(r) \union {a}
    <3>1. Passed(r) = {RevalidateOrder[i] : i \in 1..step[r]}
      BY <2>3 DEF Passed
    <3>2. Passed(r)' = {RevalidateOrder[i] : i \in 1..n}
      <4>1. CASE n = 6
        BY <2>3, <4>1, RevalidateAll DEF Passed
      <4>2. CASE n # 6
        BY <2>3, <4>2 DEF Passed
      <4> QED
        BY <4>1, <4>2, Zenon
    <3>3. \A i \in 1..n : i \in 1..step[r] \/ i = n
      BY DEF TypeInv
    <3> QED
      BY <3>1, <3>2, <3>3, Zenon DEF a
  <2> QED
    BY <2>2, <2>3, <2>4, <2>5, <2>6 DEF FreshInv, PassedIsFresh
<1>4. CASE ~(IdentifyPlan(r) \/ Identify(r) \/ BuildRequest(r) \/ Revalidate(r))
  <2>1. UNCHANGED <<disk, held, missed, step>>
    BY <1>4, Zenon DEF RunNext, PrepareReceiptPath, CreateOutputRoot,
           OutputRootRefused, CreateCgroup, CgroupLeaked, RevalidateEmpty,
           Spawn, Supervised, Inventory, RevalidateOutputs, BuildReceipt,
           CreateTemporary, WriteAll, SyncAll, Publish, RemoveTemporary,
           Report, StepFails
  <2>2. \A q \in Runs :
           \/ pc'[q] = pc[q]
           \/ pc'[q] \notin {"root", "identify", "cgroup", "request",
                             "revalidate", "empty", "spawn"}
           \/ pc[q] = "root" /\ pc'[q] = "identify"
           \/ pc[q] = "cgroup" /\ pc'[q] = "request"
           \/ pc[q] = "empty" /\ pc'[q] = "spawn"
    <3> DEFINE Late == {"plan", "supervise", "inventory", "outputs", "build",
                        "create", "write", "sync", "link", "unlink", "report",
                        "done", "failed"}
               Moves(x) == pc' = [pc EXCEPT ![r] = x]
    <3>1. CASE \E x \in Late : Moves(x)
      <4>1. PICK x \in Late : Moves(x)
        BY <3>1, Zenon
      <4>2. pc'[r] = x /\ \A q \in Runs \ {r} : pc'[q] = pc[q]
        BY <4>1 DEF TypeInv
      <4> QED
        BY <4>2, Zenon
    <3>2. CASE \/ pc[r] = "root" /\ Moves("identify")
               \/ pc[r] = "cgroup" /\ Moves("request")
               \/ pc[r] = "empty" /\ Moves("spawn")
      <4>1. /\ \A q \in Runs \ {r} : pc'[q] = pc[q]
            /\ \/ pc[r] = "root" /\ pc'[r] = "identify"
               \/ pc[r] = "cgroup" /\ pc'[r] = "request"
               \/ pc[r] = "empty" /\ pc'[r] = "spawn"
        BY <3>2 DEF TypeInv
      <4> QED
        BY <4>1, Zenon
    <3>3. \/ \E x \in Late : Moves(x)
          \/ pc[r] = "root" /\ Moves("identify")
          \/ pc[r] = "cgroup" /\ Moves("request")
          \/ pc[r] = "empty" /\ Moves("spawn")
      BY <1>4, Zenon
         DEF RunNext, PrepareReceiptPath, CreateOutputRoot, OutputRootRefused,
             CreateCgroup, CgroupLeaked, RevalidateEmpty, Spawn, Supervised,
             Inventory, RevalidateOutputs, BuildReceipt, CreateTemporary,
             WriteAll, SyncAll, Publish, RemoveTemporary, Report, StepFails,
             Fail
    <3> QED
      BY <3>1, <3>2, <3>3, Zenon
  <2> QED
    BY <2>1, <2>2, FreshKept, Zenon
<1> QED
  BY <1>1, <1>2, <1>3, <1>4, Zenon

\* The launcher is not started over a change that some check could have seen
\* (revalidate_identity before supervise_launcher).
THEOREM LaunchesAreFresh == Spec => []LaunchIsFresh
<1>1. ASSUME Init PROVE FreshInv
  <2>1. FreshTypes
    BY <1>1, Zenon DEF Init, FreshTypes, Retained
  <2>2. \A r \in Runs : Passed(r) = {}
    BY <1>1 DEF Init, Passed
  <2> QED
    BY <2>1, <2>2, Zenon DEF FreshInv, PassedIsFresh
<1>2. ASSUME TypeInv, FreshInv, [Next]_vars PROVE FreshInv'
  <2>1. ASSUME UNCHANGED <<disk, held, missed, step, pc>> PROVE FreshInv'
    BY <1>2, <2>1, FreshKept, Zenon
  <2>2. CASE UNCHANGED vars
    BY <2>1, <2>2, Zenon DEF vars
  <2>3. CASE HostNext
    <3>1. ASSUME NEW a \in Artifacts, Edit(a) \/ Replace(a) PROVE FreshInv'
      BY <1>2, <3>1, FreshEdit, FreshReplace
    <3>2. ASSUME NEW o \in Roots, WriteIntoRoot(o) PROVE FreshInv'
      BY <2>1, <3>2, Zenon DEF WriteIntoRoot
    <3>3. ASSUME NEW r \in Runs, Crash(r) PROVE FreshInv'
      <4>1. UNCHANGED <<disk, held, missed, step>>
        BY <3>3, Zenon DEF Crash
      <4>2. \A q \in Runs : pc'[q] = pc[q] \/ pc'[q] = "crashed"
        BY <1>2, <3>3, Zenon DEF Crash, TypeInv
      <4> QED
        BY <1>2, <4>1, <4>2, FreshKept, Zenon
    <3>4. CASE PowerLoss
      <4>1. UNCHANGED <<disk, held, missed, step>>
        BY <3>4, Zenon DEF PowerLoss
      <4>2. \A r \in Runs : pc'[r] = pc[r] \/ pc'[r] = "crashed"
        BY <3>4, Zenon DEF PowerLoss
      <4> QED
        BY <1>2, <4>1, <4>2, FreshKept, Zenon
    <3> QED
      BY <2>3, <3>1, <3>2, <3>3, <3>4, Zenon DEF HostNext
  <2> QED
    BY <1>2, <2>2, <2>3, FreshRun, Zenon DEF Next, Finished
<1>3. FreshInv => LaunchIsFresh
  BY DEF FreshInv, PassedIsFresh, Passed, LaunchIsFresh
<1> QED
  BY <1>1, <1>2, <1>3, TypeInvariance, PTL DEF Spec
=============================================================================
