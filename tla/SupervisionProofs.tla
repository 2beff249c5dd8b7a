-------------------------- MODULE SupervisionProofs --------------------------
(***************************************************************************)
(* The supervised attempt, for every number of descendants and of drain    *)
(* polls, with or without faults of the cgroup control files.  Type        *)
(* correctness; the safety property the launch protocol exists for (child  *)
(* code starts only inside the complete boundary); what a result of        *)
(* supervise_launcher means: nothing of the attempt is left, and the       *)
(* result says what really happened; what the two derivations of reuse     *)
(* eligibility promise; and what the result and the derivation give        *)
(* together.                                                               *)
(***************************************************************************)
EXTENDS Evidence, SequenceTheorems, TLAPS

\* What is known before the supervisor has accepted an acknowledgement.
BeforeResume == {"spawn", "guardWait", "waitPause", "place", "resume"}
BeforeAnswer == BeforeResume \union {"sendInstall", "await"}

\* The layers each control point of the launcher has already installed.
LayersAt(p) ==
    CASE p = "closed"     -> {"descriptors"}
      [] p = "locked"     -> {"descriptors", "privileges"}
      [] p = "landlocked" -> {"descriptors", "privileges", "landlock"}
      [] p \in {"filtered", "acked", "released", "child"} -> Layers
      [] OTHER            -> {}

\* The inductive invariant: where the process can be while the supervisor is
\* still before its resume, and what the release on the channel stands for.
LaunchInv ==
    /\ LayersAt(proc) \subseteq layers
    /\ proc \in (Installing \union {"acked", "released", "child"}) => placed
    /\ ran => layers = Layers /\ placed
    /\ sup \in BeforeResume =>
          proc \in {"absent", "starting", "stopped", "dead"} /\ ~ran
    /\ sup = "resume" => placed
    /\ sup \in BeforeAnswer => boundary = "none"
    /\ sup = "sendRelease" => boundary = "Installed"
    /\ boundary # "Installed" =>
          /\ down \in Seq({"Install"})
          /\ proc \notin {"released", "child"} /\ ~ran

USE DEF Streams, Layers, Statuses, Outcomes, Installing, LauncherPoints,
        ProcPoints, SupPoints, SupervisorErrors, selfVars,
        memberVars, killVars, channelVars, groupVars, byteVars, streamVars,
        resultVars

\* The end of the process preserves the type invariant.
LEMMA TypeEnd ==
    ASSUME TypeOK, NEW s \in Statuses, End(s),
           hidden' \subseteq {"failure", "sigsys"}
    PROVE  TypeOK'
<1>1. CASE Unread
  BY <1>1 DEF TypeOK, End
<1>2. CASE ~Unread
  BY <1>2 DEF TypeOK, End
<1> QED
  BY <1>1, <1>2, Zenon

\* So does an end that hides nothing.
LEMMA TypeDie == ASSUME TypeOK, NEW s \in Statuses, Die(s) PROVE TypeOK'
  BY TypeEnd, Zenon DEF TypeOK, Die

\* A step of launcher code preserves the type invariant.
LEMMA TypeLauncher == TypeOK /\ LauncherNext => TypeOK'
<1> SUFFICES ASSUME TypeOK, LauncherNext PROVE TypeOK'
  OBVIOUS
<1>1. CASE Pause
  BY <1>1 DEF TypeOK, Pause
<1>2. CASE BootstrapFail
  BY <1>2, TypeDie DEF BootstrapFail
<1>3. CASE LauncherExit
  BY <1>3, TypeDie DEF LauncherExit
<1>4. CASE ReceiveInstall
  BY <1>4 DEF TypeOK, ReceiveInstall, Advance
<1>5. CASE ReceiveExecRelease
  BY <1>5 DEF TypeOK, ReceiveExecRelease, Advance
<1>6. CASE CloseDescriptors
  BY <1>6 DEF TypeOK, CloseDescriptors, Advance
<1>7. CASE LockPrivileges
  BY <1>7 DEF TypeOK, LockPrivileges, Advance
<1>8. CASE InstallLandlock
  BY <1>8 DEF TypeOK, InstallLandlock, Advance
<1>9. CASE InstallDenyNetwork
  BY <1>9 DEF TypeOK, InstallDenyNetwork, Advance
<1>10. CASE Exec
  BY <1>10 DEF TypeOK, Exec, Advance
<1>11. CASE Acknowledge
  BY <1>11 DEF TypeOK, Acknowledge, Advance
<1>12. CASE LauncherFail
  BY <1>12 DEF TypeOK, LauncherFail, LauncherStops
<1>13. CASE LauncherFailUnheard
  BY <1>13 DEF TypeOK, LauncherFailUnheard, LauncherStops
<1> QED
  BY <1>1, <1>2, <1>3, <1>4, <1>5, <1>6, <1>7, <1>8, <1>9, <1>10, <1>11,
     <1>12, <1>13, Zenon
     DEF LauncherNext

\* What one read of capture_stream does to the bytes of a stream: it never
\* keeps more than the limit allows.
LEMMA CaptureBytes ==
    ASSUME TypeOK, NEW s \in Streams, NEW count \in Nat, CaptureStream(s, count)
    PROVE  /\ written' \in [Streams -> Nat] /\ kept' \in [Streams -> Nat]
           /\ written'[s] = written[s] + count
           /\ \/ /\ kept'[s] = kept[s] + count /\ truncated' = truncated
                 /\ kept'[s] <= OutputLimit[s]
              \/ /\ kept'[s] = OutputLimit[s] /\ kept[s] + count > OutputLimit[s]
                 /\ truncated' = truncated \union {s}
           /\ \A q \in Streams \ {s} :
                 written'[q] = written[q] /\ kept'[q] = kept[q]
<1> DEFINE retained == IF count < Remaining(s) THEN count ELSE Remaining(s)
<1>1. /\ written' = [written EXCEPT ![s] = @ + count]
      /\ kept' = [kept EXCEPT ![s] = @ + retained]
      /\ truncated' = IF retained < count THEN truncated \union {s} ELSE truncated
  BY Zenon DEF CaptureStream
<1>2. /\ kept[s] \in Nat /\ OutputLimit[s] \in Nat /\ kept[s] <= OutputLimit[s]
      /\ written[s] \in Nat
      /\ written \in [Streams -> Nat] /\ kept \in [Streams -> Nat]
  BY LimitAssumption, Zenon DEF TypeOK
<1>3. /\ retained \in Nat /\ kept[s] + retained <= OutputLimit[s]
      /\ retained < count =>
            /\ kept[s] + retained = OutputLimit[s]
            /\ kept[s] + count > OutputLimit[s]
      /\ ~(retained < count) => retained = count
  BY <1>2 DEF Remaining
<1> HIDE DEF retained
<1>4. /\ written' \in [Streams -> Nat] /\ kept' \in [Streams -> Nat]
      /\ written'[s] = written[s] + count /\ kept'[s] = kept[s] + retained
      /\ \A q \in Streams \ {s} : written'[q] = written[q] /\ kept'[q] = kept[q]
  BY <1>1, <1>2, <1>3
<1>5. CASE retained < count
  BY <1>1, <1>3, <1>4, <1>5, Zenon
<1>6. CASE ~(retained < count)
  BY <1>1, <1>3, <1>4, <1>6, Zenon
<1> QED
  BY <1>5, <1>6, Zenon

\* Child code writes a positive number of bytes to one of the streams.
LEMMA WriteIsCapture ==
    ASSUME ChildWrite
    PROVE  \E s \in Streams : \E count \in Nat \ {0} : CaptureStream(s, count)
<1>1. PICK s \in Streams : \E count \in 1 .. OutputLimit[s] + MaxExcess :
                              CaptureStream(s, count)
  BY Zenon DEF ChildWrite
<1>2. OutputLimit[s] \in Nat /\ MaxExcess \in Nat
  BY LimitAssumption, Zenon
<1>3. \A count \in 1 .. OutputLimit[s] + MaxExcess : count \in Nat \ {0}
  BY <1>2
<1> QED
  BY <1>1, <1>3, Zenon

\* So does a read of capture_stream.
LEMMA TypeCapture ==
    ASSUME TypeOK, NEW s \in Streams, NEW count \in Nat, CaptureStream(s, count)
    PROVE  TypeOK'
<1>1. UNCHANGED <<sup, proc, selfVars, memberVars, killVars, channelVars,
                  groupVars, capture, resultVars, late>>
  BY Zenon DEF CaptureStream
<1>2. /\ written' \in [Streams -> Nat] /\ kept' \in [Streams -> Nat]
      /\ truncated' \subseteq Streams
  <2>1. truncated \subseteq Streams
    BY Zenon DEF TypeOK
  <2>2. truncated' = truncated \/ truncated' = truncated \union {s}
    BY CaptureBytes, Zenon
  <2>3. truncated' \subseteq Streams
    BY <2>1, <2>2
  <2> QED
    BY <2>3, CaptureBytes, Zenon
<1>3. ASSUME NEW q \in Streams PROVE kept'[q] <= OutputLimit[q]
  <2>1. CASE q = s
    <3>1. OutputLimit[s] \in Nat
      BY LimitAssumption, Zenon
    <3>2. kept'[s] <= OutputLimit[s] \/ kept'[s] = OutputLimit[s]
      BY CaptureBytes, Zenon
    <3> QED
      BY <2>1, <3>1, <3>2
  <2>2. CASE q # s
    BY <2>2, CaptureBytes, Zenon DEF TypeOK
  <2> QED
    BY <2>1, <2>2, Zenon
<1> QED
  BY <1>1, <1>2, <1>3 DEF TypeOK

\* So does a step of child code, of the host or of a stream reader.
LEMMA TypeWorld == TypeOK /\ (ChildNext \/ HostNext \/ ReaderNext) => TypeOK'
<1> SUFFICES ASSUME TypeOK, ChildNext \/ HostNext \/ ReaderNext PROVE TypeOK'
  OBVIOUS
<1>1. CASE ChildEnd
  BY <1>1, TypeDie DEF ChildEnd
<1>2. CASE ChildWrite
  BY <1>2, WriteIsCapture, TypeCapture, Zenon
<1>3. CASE Fork
  BY <1>3, ForksAssumption DEF TypeOK, Fork
<1>4. CASE DescendantEnd
  BY <1>4, ForksAssumption DEF TypeOK, DescendantEnd
<1>5. CASE ProcessKilled
  BY <1>5, TypeDie DEF ProcessKilled
<1>6. CASE HostKill
  <2>1. PICK s \in {"sigsys", "signal"} :
               End(s) /\ hidden' = hidden \union ({s} \ {"signal"})
    BY <1>6, Zenon DEF HostKill
  <2>2. hidden' \subseteq {"failure", "sigsys"}
    BY <2>1, Zenon DEF TypeOK
  <2> QED
    BY <2>1, <2>2, TypeEnd, Zenon
<1>7. CASE MemoryLimit
  BY <1>7 DEF TypeOK, MemoryLimit
<1>8. CASE Tick
  BY <1>8 DEF TypeOK, Tick
<1>9. ASSUME NEW s \in Streams, ReaderEnd(s) PROVE TypeOK'
  BY <1>9 DEF TypeOK, ReaderEnd
<1>10. ASSUME NEW s \in Streams, ReaderFail(s) PROVE TypeOK'
  BY <1>10 DEF TypeOK, ReaderFail
<1> QED
  BY <1>1, <1>2, <1>3, <1>4, <1>5, <1>6, <1>7, <1>8, <1>9, <1>10
     DEF ChildNext, HostNext, ReaderNext
\* So does a step of the supervisor's lifecycle.
LEMMA TypeLifecycle == TypeOK /\ LifecycleNext => TypeOK'
<1> SUFFICES ASSUME TypeOK, LifecycleNext PROVE TypeOK'
  OBVIOUS
<1> USE DEF Goto
<1>1. CASE Spawn
  BY <1>1 DEF TypeOK, Spawn
<1>2. CASE SpawnFail
  BY <1>2 DEF TypeOK, SpawnFail
<1>3. CASE CaptureSpawnFail
  BY <1>3 DEF TypeOK, CaptureSpawnFail
<1>4. CASE GuardWait
  BY <1>4 DEF TypeOK, GuardWait
<1>5. CASE PauseObserved
  BY <1>5 DEF TypeOK, PauseObserved
<1>6. CASE PauseExited
  BY <1>6 DEF TypeOK, PauseExited, Fail
<1>7. CASE PauseTimeout
  BY <1>7 DEF TypeOK, PauseTimeout, Fail
<1>8. CASE PlaceProcess
  BY <1>8 DEF TypeOK, PlaceProcess
<1>9. CASE PlaceFail
  <2>1. Alive \in BOOLEAN
    BY DEF Alive
  <2>2. placed' \in BOOLEAN
    BY <1>9, <2>1, Zenon DEF PlaceFail
  <2> QED
    BY <1>9, <2>2 DEF TypeOK, PlaceFail, Fail
<1>10. CASE Resume
  BY <1>10 DEF TypeOK, Resume
<1>11. CASE ResumeFail
  BY <1>11 DEF TypeOK, ResumeFail, Fail
<1>12. CASE SendInstall
  BY <1>12 DEF TypeOK, SendInstall, Send
<1>13. CASE SendRelease
  BY <1>13 DEF TypeOK, SendRelease, Send
<1>14. CASE SendFail
  BY <1>14 DEF TypeOK, SendFail, Fail
<1>15. CASE ReceiveInstalled
  BY <1>15 DEF TypeOK, ReceiveInstalled, HasPacket
<1>16. CASE ReceiveFailure
  BY <1>16 DEF TypeOK, ReceiveFailure, HasPacket
<1>17. CASE ReceiveTimeout
  BY <1>17 DEF TypeOK, ReceiveTimeout
<1>18. CASE ReceiveError
  BY <1>18 DEF TypeOK, ReceiveError, Fail
<1>19. CASE TryWaitEnded
  <2>1. Classify(status) \in Outcomes
    BY DEF Classify
  <2>2. sup' \in SupPoints /\ outcome' \in Outcomes
    BY <1>19, <2>1 DEF TryWaitEnded, AfterMonitor
  <2>3. UNCHANGED <<late, byteVars, capture>>
    BY <1>19 DEF TryWaitEnded, AfterMonitor
  <2> QED
    BY <1>19, <2>2, <2>3 DEF TypeOK, TryWaitEnded
<1>20. CASE TryWaitRunning
  BY <1>20 DEF TypeOK, TryWaitRunning
<1>21. CASE TryWaitFail
  BY <1>21 DEF TypeOK, TryWaitFail, Fail
<1>22. CASE MonitorAgain
  BY <1>22 DEF TypeOK, MonitorAgain
<1>23. CASE MonitorTimeout
  <2>1. sup' \in SupPoints /\ outcome' \in Outcomes
    BY <1>23, Zenon DEF MonitorTimeout, AfterMonitor
  <2>2. UNCHANGED <<late, byteVars, capture>>
    BY <1>23, Zenon DEF MonitorTimeout, AfterMonitor
  <2>3. doomed' \subseteq {"process", "group"}
    BY <1>23, Zenon DEF TypeOK, MonitorTimeout
  <2> QED
    BY <1>23, <2>1, <2>2, <2>3 DEF TypeOK, MonitorTimeout
<1>24. CASE LateFailure
  BY <1>24 DEF TypeOK, LateFailure
<1>25. CASE LateError
  BY <1>25 DEF TypeOK, LateError, Fail
<1> QED
  BY <1>1, <1>2, <1>3, <1>4, <1>5, <1>6, <1>7, <1>8, <1>9, <1>10, <1>11,
     <1>12, <1>13, <1>14, <1>15, <1>16, <1>17, <1>18, <1>19, <1>20, <1>21,
     <1>22, <1>23, <1>24, <1>25, Zenon
     DEF LifecycleNext

\* So does a step of FreshCgroup::finish and Drop, of the final wait and of
\* the joins.
LEMMA TypeFinish == TypeOK /\ SupervisorNext => TypeOK'
<1> SUFFICES ASSUME TypeOK, SupervisorNext PROVE TypeOK'
  OBVIOUS
<1> USE DEF Goto, GroupOnly
<1>1. CASE LifecycleNext
  BY <1>1, TypeLifecycle
<1>2. ASSUME NEW f \in SupPoints, NEW t \in SupPoints, Drain(f, t)
      PROVE TypeOK'
  <2>1. CASE Populated
    BY <1>2, <2>1, PollsAssumption DEF TypeOK, Drain
  <2>2. CASE ~Populated
    BY <1>2, <2>2, PollsAssumption DEF TypeOK, Drain
  <2> QED
    BY <2>1, <2>2
<1>3. ASSUME NEW f \in SupPoints, NEW t \in SupPoints, Drained(f, t)
      PROVE TypeOK'
  BY <1>3, PollsAssumption DEF TypeOK, Drained
<1>4. CASE PollAgain
  BY <1>4, PollsAssumption DEF TypeOK, PollAgain
<1>5. CASE FinishFail
  BY <1>5, PollsAssumption DEF TypeOK, FinishFail
<1>6. CASE DropFail
  BY <1>6, PollsAssumption DEF TypeOK, DropFail, AfterDrop
<1>7. CASE Observe
  BY <1>7 DEF TypeOK, Observe
<1>8. ASSUME NEW f \in SupPoints, NEW t \in SupPoints, Remove(f, t)
      PROVE TypeOK'
  BY <1>8 DEF TypeOK, Remove
<1>9. CASE Reap
  BY <1>9 DEF TypeOK, Reap
<1>10. ASSUME NEW f \in SupPoints, NEW s \in Streams, NEW t \in SupPoints,
              Join(f, s, t)
       PROVE TypeOK'
  BY <1>10 DEF TypeOK, Join
<1>11. AfterDrop \in SupPoints
  BY Zenon DEF AfterDrop
<1> QED
  BY <1>1, <1>2, <1>3, <1>4, <1>5, <1>6, <1>7, <1>8, <1>9, <1>10, <1>11
     DEF SupervisorNext, FinishNext

\* Every variable of the attempt keeps its type, for every bound on the
\* descendants and on the drain polls.
THEOREM TypeCorrect == Spec => []TypeOK
<1>1. Init => TypeOK
  <2> SUFFICES ASSUME Init PROVE TypeOK
    OBVIOUS
  <2>1. forks \in 0..MaxForks /\ polls \in 0..CleanupPolls
    BY ForksAssumption, PollsAssumption DEF Init
  <2>2. capture \in [Streams -> {"reading", "Complete", "Truncated", "failed"}]
    BY Zenon DEF Init
  <2>3. /\ sup \in SupPoints /\ proc \in ProcPoints /\ layers \subseteq Layers
        /\ doomed \subseteq {"process", "group"} /\ truncated \subseteq Streams
        /\ hidden \subseteq {"failure", "sigsys"} /\ status \in Statuses /\ group \in {"present", "removed"}
    BY Zenon DEF Init
  <2>7. /\ written \in [Streams -> Nat] /\ kept \in [Streams -> Nat]
        /\ \A s \in Streams : kept[s] <= OutputLimit[s]
    BY LimitAssumption DEF Init
  <2>4. /\ ran \in BOOLEAN /\ placed \in BOOLEAN /\ reset \in BOOLEAN
        /\ late \in BOOLEAN /\ reaped \in BOOLEAN /\ memoryEvent \in BOOLEAN
        /\ dirty \in BOOLEAN
    BY Zenon DEF Init
  <2>5. /\ observation \in {"none", "complete", "limited", "incomplete"}
        /\ boundary \in {"none", "Installed", "Incomplete"}
        /\ outcome \in Outcomes \union {"none"}
        /\ error \in SupervisorErrors \union {"none"}
    BY DEF Init
  <2>6. /\ down \in Seq({"Install", "ExecRelease"})
        /\ up \in Seq({"BoundaryInstalled", "Failure"})
    BY DEF Init
  <2> QED
    BY <2>1, <2>2, <2>3, <2>4, <2>5, <2>6, <2>7, Zenon DEF TypeOK
<1>2. TypeOK /\ [Next]_vars => TypeOK'
  <2> SUFFICES ASSUME TypeOK, [Next]_vars PROVE TypeOK'
    OBVIOUS
  <2>1. CASE UNCHANGED vars
    BY <2>1 DEF vars, TypeOK
  <2>2. CASE Next
    BY <2>1, <2>2, TypeLauncher, TypeWorld, TypeFinish DEF Next, Finished
  <2> QED
    BY <2>1, <2>2
<1> QED
  BY <1>1, <1>2, PTL DEF Spec
-----------------------------------------------------------------------------
\* Most steps move neither the process nor the channel towards the launcher
\* and do not bring the supervisor back before the answer.
launchVars == <<proc, layers, ran, placed, down, boundary>>
SupMovesOn == sup' = sup \/ sup' \notin BeforeAnswer \union {"sendRelease"}

\* Such a step preserves the invariant.
LEMMA LaunchFrame ==
    LaunchInv /\ UNCHANGED launchVars /\ SupMovesOn => LaunchInv'
BY DEF LaunchInv, launchVars, SupMovesOn, LayersAt, BeforeAnswer, BeforeResume

\* The end of the process.
LEMMA LaunchDie == ASSUME TypeOK, LaunchInv, NEW s \in Statuses, End(s)
                   PROVE LaunchInv'
<1>1. LayersAt("dead") = {}
  BY DEF LayersAt
<1> QED
  BY <1>1, Zenon DEF LaunchInv, End

\* A step of launcher code: each layer is installed before the control point
\* that claims it, and the release is read only if it was sent.
LEMMA LaunchLauncher == TypeOK /\ LaunchInv /\ LauncherNext => LaunchInv'
<1> SUFFICES ASSUME TypeOK, LaunchInv, LauncherNext PROVE LaunchInv'
  OBVIOUS
<1> USE DEF BeforeAnswer, BeforeResume
<1>1. CASE Pause
  BY <1>1 DEF LaunchInv, Pause, LayersAt
<1>2. CASE BootstrapFail
  BY <1>2, LaunchDie, Zenon DEF BootstrapFail, Die
<1>3. CASE LauncherExit
  BY <1>3, LaunchDie, Zenon DEF LauncherExit, Die
<1>4. CASE ReceiveInstall
  BY <1>4 DEF TypeOK, LaunchInv, ReceiveInstall, Advance, LayersAt
<1>5. CASE ReceiveExecRelease
  BY <1>5 DEF TypeOK, LaunchInv, ReceiveExecRelease, Advance, LayersAt
<1>6. CASE CloseDescriptors
  BY <1>6 DEF LaunchInv, CloseDescriptors, Advance, LayersAt
<1>7. CASE LockPrivileges
  BY <1>7 DEF LaunchInv, LockPrivileges, Advance, LayersAt
<1>8. CASE InstallLandlock
  BY <1>8 DEF LaunchInv, InstallLandlock, Advance, LayersAt
<1>9. CASE InstallDenyNetwork
  BY <1>9 DEF TypeOK, LaunchInv, InstallDenyNetwork, Advance, LayersAt
<1>10. CASE Exec
  BY <1>10 DEF TypeOK, LaunchInv, Exec, Advance, LayersAt
<1>11. CASE Acknowledge
  BY <1>11 DEF LaunchInv, Acknowledge, Advance, LayersAt
<1>12. CASE LauncherFail
  BY <1>12 DEF TypeOK, LaunchInv, LauncherFail, LauncherStops, LayersAt
<1>13. CASE LauncherFailUnheard
  BY <1>13 DEF TypeOK, LaunchInv, LauncherFailUnheard, LauncherStops, LayersAt
<1> QED
  BY <1>1, <1>2, <1>3, <1>4, <1>5, <1>6, <1>7, <1>8, <1>9, <1>10, <1>11,
     <1>12, <1>13, Zenon DEF LauncherNext

\* A step of child code, of the host or of a reader.
LEMMA LaunchWorld ==
    TypeOK /\ LaunchInv /\ (ChildNext \/ HostNext \/ ReaderNext) => LaunchInv'
<1> SUFFICES ASSUME TypeOK, LaunchInv, ChildNext \/ HostNext \/ ReaderNext
             PROVE LaunchInv'
  OBVIOUS
<1>1. CASE ChildEnd
  BY <1>1, LaunchDie, Zenon DEF ChildEnd, Die
<1>2. CASE ProcessKilled \/ HostKill
  BY <1>2, LaunchDie, Zenon DEF ProcessKilled, HostKill, Die
<1>3. CASE ChildWrite \/ Fork \/ DescendantEnd
  BY <1>3, LaunchFrame, Zenon
     DEF ChildWrite, CaptureStream, Fork, DescendantEnd, launchVars, SupMovesOn
<1>4. CASE MemoryLimit \/ Tick
  BY <1>4, LaunchFrame, Zenon DEF MemoryLimit, Tick, launchVars, SupMovesOn
<1>5. CASE ReaderNext
  BY <1>5, LaunchFrame, Zenon
     DEF ReaderNext, ReaderEnd, ReaderFail, launchVars, SupMovesOn
<1> QED
  BY <1>1, <1>2, <1>3, <1>4, <1>5 DEF ChildNext, HostNext

\* A step of the supervisor: the launcher is resumed only after it was
\* placed, and the release is sent only after the acknowledgement.
LEMMA LaunchSupervisor == TypeOK /\ LaunchInv /\ SupervisorNext => LaunchInv'
<1> SUFFICES ASSUME TypeOK, LaunchInv, SupervisorNext PROVE LaunchInv'
  OBVIOUS
<1> USE DEF Goto, BeforeAnswer, BeforeResume
<1>1. CASE Spawn \/ CaptureSpawnFail
  BY <1>1 DEF LaunchInv, Spawn, CaptureSpawnFail, LayersAt
<1>2. CASE GuardWait \/ SpawnFail
  BY <1>2, LaunchFrame DEF GuardWait, SpawnFail, launchVars, SupMovesOn
<1>3. CASE PauseObserved
  BY <1>3, Zenon DEF LaunchInv, PauseObserved
<1>4. CASE PauseExited \/ PauseTimeout \/ ResumeFail \/ SendFail
             \/ ReceiveError \/ TryWaitFail \/ LateError
  BY <1>4, LaunchFrame, Zenon
     DEF PauseExited, PauseTimeout, ResumeFail, SendFail, ReceiveError,
         TryWaitFail, LateError, Fail, launchVars, SupMovesOn
<1>5. CASE PlaceProcess
  BY <1>5, Zenon DEF LaunchInv, PlaceProcess
<1>6. CASE PlaceFail
  BY <1>6 DEF LaunchInv, PlaceFail, Fail
<1>7. CASE Resume
  BY <1>7 DEF LaunchInv, Resume, LayersAt
<1>8. CASE SendInstall
  BY <1>8 DEF TypeOK, LaunchInv, SendInstall, Send
<1>9. CASE SendRelease
  BY <1>9, Zenon DEF TypeOK, LaunchInv, SendRelease, Send
<1>10. CASE ReceiveInstalled
  BY <1>10 DEF LaunchInv, ReceiveInstalled
<1>11. CASE ReceiveFailure
  BY <1>11, Zenon DEF LaunchInv, ReceiveFailure
<1>12. CASE ReceiveTimeout
  BY <1>12, Zenon DEF LaunchInv, ReceiveTimeout
<1>13. CASE TryWaitEnded \/ TryWaitRunning \/ MonitorAgain \/ MonitorTimeout
              \/ LateFailure
  BY <1>13, LaunchFrame, Zenon
     DEF TryWaitEnded, TryWaitRunning, MonitorAgain, MonitorTimeout,
         LateFailure, AfterMonitor, launchVars, SupMovesOn
<1>14. CASE FinishNext
  BY <1>14, LaunchFrame, Zenon
     DEF FinishNext, Drain, Drained, Observe, Remove, FinishFail, PollAgain,
         DropFail, AfterDrop, GroupOnly, launchVars, SupMovesOn
<1>15. CASE Reap
  BY <1>15, LaunchFrame, Zenon DEF Reap, launchVars, SupMovesOn
<1>16. CASE \/ Join("joinOut", "stdout", "joinErr")
            \/ Join("joinErr", "stderr", "returned")
  BY <1>16, LaunchFrame, Zenon DEF Join, launchVars, SupMovesOn
<1> QED
  BY <1>1, <1>2, <1>3, <1>4, <1>5, <1>6, <1>7, <1>8, <1>9, <1>10, <1>11,
     <1>12, <1>13, <1>14, <1>15, <1>16, Zenon
     DEF SupervisorNext, LifecycleNext

\* The invariant holds in every state.
LEMMA LaunchInvariance == Spec => []LaunchInv
<1>1. Init => LaunchInv
  BY DEF Init, LaunchInv, LayersAt, BeforeAnswer, BeforeResume
<1>2. TypeOK /\ LaunchInv /\ [Next]_vars => LaunchInv'
  <2> SUFFICES ASSUME TypeOK, LaunchInv, [Next]_vars PROVE LaunchInv'
    BY Zenon
  <2>1. CASE UNCHANGED vars
    BY <2>1, LaunchFrame, Zenon DEF vars, launchVars, SupMovesOn
  <2>2. CASE Next
    BY <2>1, <2>2, LaunchLauncher, LaunchWorld, LaunchSupervisor
       DEF Next, Finished
  <2> QED
    BY <2>1, <2>2
<1> QED
  BY <1>1, <1>2, TypeCorrect, PTL DEF Spec

\* PBR-SEQUENCE-003 for every bound: child code starts only in a process
\* that installed every layer, is a member of the fresh cgroup and was
\* released by a supervisor that had accepted its acknowledgement.
THEOREM BoundaryBeforeChild == Spec => []ChildOnlyInsideBoundary
<1>1. TypeOK /\ LaunchInv => ChildOnlyInsideBoundary
  BY Zenon DEF TypeOK, LaunchInv, ChildOnlyInsideBoundary
<1> QED
  BY <1>1, LaunchInvariance, TypeCorrect, PTL

-----------------------------------------------------------------------------
(* What a result of supervise_launcher means. *)

Drops == {"dropDrain", "dropPoll", "dropRemove"}
Joins == {"joinOut", "joinErr"}

\* What each step towards the result has established.  A drained group stays
\* empty: only its members fork.  An attempt that drops its group without
\* finishing it has an error.
EndInv ==
    /\ sup \in {"observe", "remove"} => ~Populated
    /\ sup \in {"reap"} \union Joins /\ ~dirty =>
          group = "removed" /\ ~Populated
    /\ sup \in Joins => proc = "dead" /\ reaped
    /\ sup \in {"guardWait"} \union Drops /\ ~dirty => error # "none"
    /\ Accepted => /\ proc = "dead" /\ forks = 0
                   /\ group = "removed" /\ reaped

\* The points from the accepted acknowledgement to receive_late_failure.
Watching == {"sendRelease", "tryWait", "checkDeadline", "lateFailure"}

\* What is on the channel towards the supervisor.  A Failure is the last
\* thing a launcher says, and it never becomes a child; a launcher that
\* acknowledged and then exits by itself has said so, unless its report was
\* not sent, and until receive_late_failure its Failure is still there to be
\* read.
ChannelInv ==
    /\ sup = "spawn" => proc = "absent"
    /\ proc # "dead" => status = "none"
    /\ status = "zero" => ran
    /\ status = "sigsys" => ran \/ "sigsys" \in hidden
    /\ proc = "child" => ran
    /\ ran => proc \in {"child", "dead"}
    /\ up # <<>> /\ up[Len(up)] = "Failure" => proc \in {"failing", "dead"} /\ ~ran
    /\ boundary = "none" =>
          /\ Len(up) <= 2
          /\ Len(up) = 2 => up[1] = "BoundaryInstalled" /\ up[2] = "Failure"
          /\ proc \in {"absent", "starting", "stopped"} \union Installing =>
                up = <<>>
          /\ proc = "acked" => Len(up) = 1
          /\ /\ up # <<>> /\ (proc = "failing" \/ status = "nonzero")
             /\ "failure" \notin hidden
             => up[Len(up)] = "Failure"
    /\ boundary = "Installed" =>
          /\ proc \notin {"absent", "starting", "stopped"} \union Installing
          /\ Len(up) <= 1 /\ (up # <<>> => up[1] = "Failure")
          /\ proc \in {"acked", "released", "child"} => up = <<>>
          /\ /\ sup \in Watching /\ ~ran
             /\ proc = "failing" \/ status = "nonzero"
             /\ "failure" \notin hidden
             => up # <<>>
    /\ sup \in {"tryWait", "checkDeadline"} => boundary # "none"
    /\ sup \in {"sendRelease", "lateFailure"} => boundary = "Installed"

\* What the outcome says once it is set.
OutcomeInv ==
    /\ outcome = "TimedOut" => late
    /\ outcome = "LauncherFailed" =>
          ~ran /\ (boundary = "Incomplete" \/ proc \in {"failing", "dead"})
    /\ outcome \in {"Exited0", "ExitedNonzero", "Denied"} =>
          /\ proc = "dead" /\ outcome = Classify(status)
          /\ \/ ran \/ sup = "lateFailure" \/ error # "none"
             \/ outcome = "ExitedNonzero" /\ "failure" \in hidden
             \/ outcome = "Denied" /\ "sigsys" \in hidden

\* What the reader of a stream holds: everything, or what the limit allows.
Holds(s) ==
    /\ s \notin truncated => kept[s] = written[s]
    /\ s \in truncated => kept[s] = OutputLimit[s] /\ kept[s] < written[s]

\* The evidence beside the outcome: the observation is read from an empty
\* group, and a stream is read to its end.
EvidenceInv ==
    /\ (sup \in {"remove", "reap"} \union Joins /\ ~dirty) \/ Accepted =>
          (memoryEvent => observation \in {"limited", "incomplete"})
    /\ \A s \in Streams :
          /\ Holds(s)
          /\ capture[s] = "Complete" => s \notin truncated
          /\ capture[s] = "Truncated" => s \in truncated
    /\ sup = "joinErr" => capture["stdout"] \in {"Complete", "Truncated"}
    /\ Accepted => \A s \in Streams : capture[s] \in {"Complete", "Truncated"}

USE DEF Drops, Joins, Watching

\* A step that leaves the supervisor where it is and forks nothing: a process
\* that is in the group stays in it or ends.
LEMMA EndFrame ==
    ASSUME TypeOK, EndInv,
           UNCHANGED <<sup, placed, group, reaped, dirty, error>>,
           Alive' => Alive, proc = "dead" => proc' = "dead",
           forks' \in Nat, forks' <= forks
    PROVE  EndInv'
<1>1. Populated' => Populated
  BY DEF Populated, TypeOK
<1>2. forks = 0 => forks' = 0
  BY DEF TypeOK
<1> QED
  BY <1>1, <1>2, Zenon DEF EndInv, Accepted, TypeOK

\* Steps of launcher code, of child code, of the host and of the readers.
LEMMA EndWorld ==
    ASSUME TypeOK, LaunchInv, EndInv,
           LauncherNext \/ ChildNext \/ HostNext \/ ReaderNext
    PROVE  EndInv'
<1>1. forks \in Nat
  BY ForksAssumption DEF TypeOK
<1>2. ASSUME NEW s \in Statuses, End(s) PROVE EndInv'
  BY <1>1, <1>2, EndFrame DEF End, Alive
<1>3. ASSUME NEW f \in LauncherPoints, NEW t \in LauncherPoints \union {"child"},
             NEW l, Advance(f, t, l)
      PROVE  EndInv'
  BY <1>1, <1>3, EndFrame DEF Advance, Alive
<1>4. CASE Pause \/ LauncherFail \/ LauncherFailUnheard
  BY <1>1, <1>4, EndFrame
     DEF Pause, LauncherFail, LauncherFailUnheard, LauncherStops, Alive
<1>5. CASE Fork
  <2>1. Populated
    BY <1>1, <1>5, Zenon DEF Fork, LaunchInv, Populated, Alive
  <2>2. sup \notin {"observe", "remove"} /\ ~(sup \in {"reap"} \union Joins /\ ~dirty)
        /\ ~Accepted
    <3>1. forks > 0 \/ proc # "dead"
      BY <2>1 DEF Populated, Alive
    <3> QED
      BY <2>1, <3>1 DEF EndInv
  <2>3. UNCHANGED <<sup, proc, placed, group, reaped, dirty, error>>
    BY <1>5, Zenon DEF Fork
  <2> QED
    BY <2>2, <2>3, Zenon DEF EndInv, Accepted
<1>6. CASE DescendantEnd
  <2>1. forks' \in Nat /\ forks' <= forks
    BY <1>1, <1>6 DEF DescendantEnd
  <2> QED
    BY <1>6, <2>1, EndFrame, Zenon DEF DescendantEnd, Alive
<1>7. CASE ChildWrite \/ MemoryLimit \/ Tick
  BY <1>1, <1>7, EndFrame
     DEF ChildWrite, CaptureStream, MemoryLimit, Tick, Alive
<1>8. CASE ReaderNext
  BY <1>1, <1>8, EndFrame DEF ReaderNext, ReaderEnd, ReaderFail, Alive
<1>9. CASE LauncherNext
  BY <1>2, <1>3, <1>4, <1>9, Zenon
     DEF LauncherNext, BootstrapFail, LauncherExit, ReceiveInstall,
         CloseDescriptors, LockPrivileges, InstallLandlock,
         InstallDenyNetwork, Acknowledge, ReceiveExecRelease, Exec, Die
<1> QED
  BY <1>2, <1>5, <1>6, <1>7, <1>8, <1>9, Zenon
     DEF ChildNext, HostNext, ChildEnd, ProcessKilled, HostKill, Die

\* Steps of supervise_lifecycle: they end in finish, or in a drop with an
\* error.
LEMMA EndLifecycle ==
    ASSUME TypeOK, EndInv, LifecycleNext PROVE EndInv'
<1> USE DEF Goto
<1>1. ASSUME NEW e \in SupervisorErrors, Fail(e) PROVE EndInv'
  BY <1>1, Zenon DEF Fail, EndInv, Accepted
<1>2. CASE Spawn \/ SpawnFail \/ CaptureSpawnFail
  BY <1>2, Zenon DEF Spawn, SpawnFail, CaptureSpawnFail, EndInv, Accepted
<1>3. CASE GuardWait
  BY <1>3, Zenon DEF GuardWait, EndInv, Accepted
<1>4. CASE PauseObserved \/ PlaceProcess \/ Resume
  BY <1>4, Zenon DEF PauseObserved, PlaceProcess, Resume, EndInv, Accepted
<1>5. CASE SendInstall \/ SendRelease
  BY <1>5, Zenon DEF SendInstall, SendRelease, Send, EndInv, Accepted
<1>6. CASE ReceiveInstalled \/ ReceiveFailure \/ ReceiveTimeout
  BY <1>6, Zenon
     DEF ReceiveInstalled, ReceiveFailure, ReceiveTimeout, EndInv, Accepted
<1>7. CASE TryWaitEnded \/ TryWaitRunning \/ MonitorAgain \/ MonitorTimeout
  <2>1. sup' \in {"drain", "lateFailure", "checkDeadline", "tryWait"}
    BY <1>7, Zenon
       DEF TryWaitEnded, TryWaitRunning, MonitorAgain, MonitorTimeout,
           AfterMonitor
  <2> QED
    BY <2>1, Zenon DEF EndInv, Accepted
<1>8. CASE LateFailure
  BY <1>8, Zenon DEF LateFailure, EndInv, Accepted
<1>9. CASE PauseExited \/ PauseTimeout \/ PlaceFail \/ ResumeFail \/ SendFail
             \/ ReceiveError \/ TryWaitFail \/ LateError
  BY <1>1, <1>9, Zenon DEF PauseExited, PauseTimeout, PlaceFail, ResumeFail,
                    SendFail, ReceiveError, TryWaitFail, LateError
<1> QED
  BY <1>2, <1>3, <1>4, <1>5, <1>6, <1>7, <1>8, <1>9, Zenon DEF LifecycleNext

\* Steps of finish and Drop, the last wait and the joins.
LEMMA EndFinish ==
    ASSUME TypeOK, EndInv,
           \/ FinishNext \/ Reap \/ Join("joinOut", "stdout", "joinErr")
           \/ Join("joinErr", "stderr", "returned")
    PROVE  EndInv'
<1> USE DEF Goto, GroupOnly
<1>1. ASSUME UNCHANGED <<proc, placed, forks>> PROVE Populated' <=> Populated
  BY <1>1 DEF Populated, Alive
<1>2. CASE Drain("drain", "poll") \/ Drain("dropDrain", "dropPoll")
  BY <1>1, <1>2, Zenon DEF Drain, EndInv, Accepted
<1>3. CASE Drained("poll", "observe") \/ Drained("dropPoll", "dropRemove")
  BY <1>1, <1>3, Zenon DEF Drained, EndInv, Accepted
<1>4. CASE Observe \/ PollAgain \/ FinishFail
  BY <1>1, <1>4, Zenon DEF Observe, PollAgain, FinishFail, EndInv, Accepted
<1>5. CASE Remove("remove", "reap")
  BY <1>1, <1>5, Zenon DEF Remove, EndInv, Accepted
<1>6. CASE Remove("dropRemove", AfterDrop) \/ DropFail
  BY <1>1, <1>6, Zenon DEF Remove, DropFail, AfterDrop, EndInv, Accepted
<1>7. CASE Reap
  BY <1>1, <1>7, Zenon DEF Reap, EndInv, Accepted
<1>8. CASE \/ Join("joinOut", "stdout", "joinErr")
           \/ Join("joinErr", "stderr", "returned")
  <2>1. UNCHANGED <<proc, placed, forks, group, reaped, dirty>>
    BY <1>8, Zenon DEF Join
  <2>2. ~Populated => forks = 0
    BY ForksAssumption DEF Populated, TypeOK
  <2> QED
    BY <1>1, <1>8, <2>1, <2>2, Zenon DEF Join, EndInv, Accepted
<1> QED
  BY <1>2, <1>3, <1>4, <1>5, <1>6, <1>7, <1>8, Zenon DEF FinishNext

\* EndInv holds in every state.
LEMMA EndInvariance == Spec => []EndInv
<1>1. Init => EndInv
  BY Zenon DEF Init, EndInv, Accepted
<1>2. ASSUME TypeOK, LaunchInv, EndInv, [Next]_vars PROVE EndInv'
  <2>1. CASE UNCHANGED vars
    BY <1>2, <2>1, Zenon DEF vars, EndInv, Accepted, Populated, Alive
  <2> QED
    BY <1>2, <2>1, EndWorld, EndLifecycle, EndFinish, Zenon
       DEF Next, SupervisorNext, Finished
<1> QED
  BY <1>1, <1>2, TypeCorrect, LaunchInvariance, PTL DEF Spec

\* When supervise_launcher returns a result, no process of the attempt is
\* left, its cgroup is removed and its status collected.
THEOREM NothingIsLeft == Spec => []NothingOutlivesResult
<1>1. EndInv => NothingOutlivesResult
  BY Zenon DEF EndInv, NothingOutlivesResult, Alive
<1> QED
  BY <1>1, EndInvariance, PTL

-----------------------------------------------------------------------------
(* The channel towards the supervisor. *)

\* The rest of a sequence.
LEMMA TailFacts ==
    ASSUME NEW S, NEW q \in Seq(S), q # <<>>
    PROVE  /\ Len(q) \in Nat /\ Len(q) >= 1 /\ Head(q) = q[1]
           /\ Tail(q) \in Seq(S) /\ Len(Tail(q)) = Len(q) - 1
           /\ \A i \in 1 .. Len(q) - 1 : Tail(q)[i] = q[i + 1]
           /\ Tail(q) = <<>> <=> Len(q) = 1
<1>1. Len(q) \in Nat /\ Len(q) # 0
  OBVIOUS
<1>2. Head(q) = q[1]
  OBVIOUS
<1>3. /\ Tail(q) \in Seq(S) /\ Len(Tail(q)) = Len(q) - 1
      /\ \A i \in 1 .. Len(q) - 1 : Tail(q)[i] = q[i + 1]
  BY <1>1
<1>4. Tail(q) = <<>> <=> Len(Tail(q)) = 0
  <2>1. \A t \in Seq(S) : t = <<>> <=> Len(t) = 0
    OBVIOUS
  <2> QED
    BY <1>3, <2>1, Zenon
<1> QED
  BY <1>1, <1>2, <1>3, <1>4

\* A step that neither the launcher, nor the channel, nor the supervisor's
\* reading of it takes part in.
LEMMA ChannelFrame ==
    ASSUME ChannelInv, UNCHANGED <<proc, ran, hidden, status, up, boundary>>,
           sup' = sup \/ sup' \notin Watching \union {"spawn"}
    PROVE  ChannelInv'
  BY DEF ChannelInv

\* The end of the process: a launcher that ends by itself does so from
\* "starting" or "failing".
LEMMA ChannelDie ==
    ASSUME TypeOK, LaunchInv, ChannelInv, proc # "absent",
           NEW s \in Statuses \ {"none"}, End(s), hidden \subseteq hidden',
           \/ s = "signal" \/ proc = "child"
           \/ s = "sigsys" /\ "sigsys" \in hidden'
           \/ s = "nonzero" /\ proc \in {"starting", "failing"}
    PROVE  ChannelInv'
<1>1. /\ proc' = "dead" /\ status' = s
      /\ UNCHANGED <<sup, ran, up, boundary>>
  BY Zenon DEF End
<1>2. CASE s = "signal" \/ (s = "sigsys" /\ "sigsys" \in hidden')
  BY <1>1, <1>2, Zenon DEF ChannelInv
<1>3. CASE proc = "child"
  <2>1. boundary # "none"
    BY <1>3, Zenon DEF LaunchInv
  <2> QED
    BY <1>1, <1>3, <2>1, Zenon DEF ChannelInv
<1>4. CASE s = "nonzero" /\ proc \in {"starting", "failing"}
  BY <1>1, <1>4, Zenon DEF ChannelInv
<1> QED
  BY <1>2, <1>3, <1>4

\* Steps of launcher code.
LEMMA ChannelLauncher ==
    ASSUME TypeOK, LaunchInv, ChannelInv, LauncherNext PROVE ChannelInv'
<1>1. CASE Pause
  BY <1>1, Zenon DEF Pause, ChannelInv
<1>2. CASE BootstrapFail \/ LauncherExit
  BY <1>2, ChannelDie, Zenon DEF BootstrapFail, LauncherExit, Die
<1>3. CASE ReceiveInstall
  BY <1>3, Zenon DEF ReceiveInstall, Advance, ChannelInv
<1>4. CASE CloseDescriptors
  BY <1>4, Zenon DEF CloseDescriptors, Advance, ChannelInv
<1>5. CASE LockPrivileges
  BY <1>5, Zenon DEF LockPrivileges, Advance, ChannelInv
<1>6. CASE InstallLandlock
  BY <1>6, Zenon DEF InstallLandlock, Advance, ChannelInv
<1>7. CASE InstallDenyNetwork
  BY <1>7, Zenon DEF InstallDenyNetwork, Advance, ChannelInv
<1>8. CASE Acknowledge
  <2>1. /\ up' # <<>> /\ Len(up') = Len(up) + 1
        /\ up'[Len(up')] = "BoundaryInstalled"
    BY <1>8 DEF Acknowledge, TypeOK
  <2> QED
    BY <1>8, <2>1 DEF Acknowledge, Advance, ChannelInv, TypeOK
<1>9. CASE ReceiveExecRelease
  BY <1>9 DEF ReceiveExecRelease, Advance, ChannelInv, LaunchInv, TypeOK
<1>10. CASE Exec
  BY <1>10, Zenon DEF Exec, Advance, ChannelInv, LaunchInv
<1>11. CASE LauncherFail
  <2>1. /\ up' # <<>> /\ Len(up') = Len(up) + 1
        /\ up'[Len(up')] = "Failure"
        /\ \A i \in 1..Len(up) : up'[i] = up[i]
    BY <1>11, SMTT(60) DEF LauncherFail, TypeOK
  <2>2. /\ proc \in Installing \union {"acked", "released"} /\ proc' = "failing"
        /\ UNCHANGED <<sup, ran, hidden, status, boundary>>
    BY <1>11, Zenon DEF LauncherFail, LauncherStops
  <2>3. Len(up) \in Nat /\ (Len(up) = 1 => up[1] \in {"BoundaryInstalled", "Failure"})
    BY DEF TypeOK
  <2>4. boundary = "none" => proc # "released"
    BY Zenon DEF LaunchInv
  <2>5. CASE boundary = "none"
    BY <2>1, <2>2, <2>3, <2>4, <2>5 DEF ChannelInv
  <2>6. CASE boundary = "Installed"
    BY <2>1, <2>2, <2>3, <2>6 DEF ChannelInv
  <2>7. CASE boundary = "Incomplete"
    BY <2>1, <2>2, <2>7, Zenon DEF ChannelInv
  <2> QED
    BY <2>5, <2>6, <2>7, Zenon DEF TypeOK
<1>12. CASE LauncherFailUnheard
  <2>1. /\ proc \in Installing \union {"acked", "released"} /\ proc' = "failing"
        /\ "failure" \in hidden' /\ hidden \subseteq hidden'
        /\ UNCHANGED <<sup, up, ran, status, boundary>>
    BY <1>12, Zenon DEF LauncherFailUnheard, LauncherStops
  <2> QED
    BY <2>1, Zenon DEF ChannelInv
<1> QED
  BY <1>1, <1>2, <1>3, <1>4, <1>5, <1>6, <1>7, <1>8, <1>9, <1>10, <1>11,
     <1>12, Zenon
     DEF LauncherNext

\* Steps of child code, of the host and of the readers.
LEMMA ChannelWorld ==
    ASSUME TypeOK, LaunchInv, ChannelInv, ChildNext \/ HostNext \/ ReaderNext
    PROVE  ChannelInv'
<1>1. CASE ChildEnd \/ ProcessKilled
  BY <1>1, ChannelDie, Zenon DEF ChildEnd, ProcessKilled, Alive, Die
<1>4. CASE HostKill
  BY <1>4, ChannelDie, Zenon DEF HostKill, Alive
<1>2. CASE ChildWrite \/ Fork \/ DescendantEnd \/ MemoryLimit \/ Tick
  BY <1>2, ChannelFrame, Zenon
     DEF ChildWrite, CaptureStream, Fork, DescendantEnd, MemoryLimit, Tick
<1>3. CASE ReaderNext
  BY <1>3, ChannelFrame, Zenon DEF ReaderNext, ReaderEnd, ReaderFail
<1> QED
  BY <1>1, <1>2, <1>3, <1>4, Zenon DEF ChildNext, HostNext

\* Steps of the supervisor.
LEMMA ChannelSupervisor ==
    ASSUME TypeOK, LaunchInv, ChannelInv, SupervisorNext PROVE ChannelInv'
<1> USE DEF Goto
<1>1. CASE Spawn \/ CaptureSpawnFail
  <2>1. /\ sup = "spawn" /\ proc' = "starting"
        /\ sup' \in {"waitPause", "guardWait"}
        /\ UNCHANGED <<ran, hidden, status, up, boundary>>
    BY <1>1, Zenon DEF Spawn, CaptureSpawnFail
  <2>2. boundary = "none"
    BY <2>1, Zenon DEF LaunchInv, BeforeAnswer, BeforeResume
  <2> QED
    BY <2>1, <2>2, Zenon DEF ChannelInv
<1>2. CASE GuardWait \/ SpawnFail \/ PauseObserved \/ PlaceProcess
  BY <1>2, ChannelFrame, Zenon
     DEF GuardWait, SpawnFail, PauseObserved, PlaceProcess
<1>3. CASE PauseExited \/ PauseTimeout \/ PlaceFail \/ ResumeFail \/ SendFail
             \/ ReceiveError \/ TryWaitFail \/ LateError
  BY <1>3, ChannelFrame, Zenon
     DEF PauseExited, PauseTimeout, PlaceFail, ResumeFail,
       SendFail, ReceiveError, TryWaitFail, LateError, Fail
<1>4. CASE Resume
  BY <1>4 DEF Resume, ChannelInv
<1>5. CASE SendInstall
  BY <1>5, ChannelFrame, Zenon DEF SendInstall, Send
<1>6. CASE SendRelease
  BY <1>6, ZenonT(60) DEF SendRelease, Send, ChannelInv
<1>7. CASE ReceiveInstalled
  <2>1. /\ up # <<>> /\ up[1] = "BoundaryInstalled" /\ up' = Tail(up)
        /\ boundary = "none" /\ boundary' = "Installed"
        /\ sup' = "sendRelease" /\ UNCHANGED <<proc, ran, hidden, status>>
    BY <1>7 DEF ReceiveInstalled, HasPacket, LaunchInv, BeforeAnswer, TypeOK
  <2>2. /\ Len(up') = Len(up) - 1 /\ Len(up) \in 1..2
        /\ Len(up) = 1 => up' = <<>>
        /\ Len(up) = 2 => up' # <<>> /\ up'[1] = up[2]
    <3>1. Len(up) <= 2
      BY <2>1, Zenon DEF ChannelInv
    <3>2. up \in Seq({"BoundaryInstalled", "Failure"})
      BY Zenon DEF TypeOK
    <3>3. /\ Len(up) \in Nat /\ Len(up) >= 1
          /\ Len(Tail(up)) = Len(up) - 1
          /\ \A i \in 1 .. Len(up) - 1 : Tail(up)[i] = up[i + 1]
          /\ Tail(up) = <<>> <=> Len(up) = 1
      BY <2>1, <3>2, TailFacts, Zenon
    <3> QED
      BY <2>1, <3>1, <3>3
  <2>3. ~ran /\ proc \notin {"released", "child"}
    BY <2>1, Zenon DEF LaunchInv
  <2> QED
    BY <2>1, <2>2, <2>3 DEF ChannelInv
<1>8. CASE ReceiveFailure
  <2>1. /\ up # <<>> /\ up' = Tail(up) /\ boundary' = "Incomplete"
        /\ boundary = "none" /\ sup' = "tryWait"
        /\ UNCHANGED <<proc, ran, hidden, status>>
    BY <1>8, Zenon DEF ReceiveFailure, HasPacket, LaunchInv, BeforeAnswer
  <2>2. up' # <<>> => up'[Len(up')] = up[Len(up)]
    BY <2>1 DEF TypeOK
  <2> QED
    BY <2>1, <2>2, Zenon DEF ChannelInv
<1>9. CASE ReceiveTimeout
  BY <1>9, Zenon DEF ReceiveTimeout, ChannelInv
<1>10. CASE TryWaitEnded \/ MonitorTimeout
  <2>1. /\ sup \in {"tryWait", "checkDeadline"}
        /\ sup' = "drain" \/ (sup' = "lateFailure" /\ boundary # "Incomplete")
        /\ UNCHANGED <<proc, status, ran, hidden, up, boundary>>
    BY <1>10 DEF TryWaitEnded, MonitorTimeout, AfterMonitor, Goto, selfVars,
                 channelVars
  <2> QED
    BY <2>1 DEF ChannelInv, TypeOK, Watching
<1>11. CASE TryWaitRunning \/ MonitorAgain
  BY <1>11 DEF TryWaitRunning, MonitorAgain, ChannelInv
<1>12. CASE LateFailure
  <2>1. /\ sup = "lateFailure" /\ sup' = "drain" /\ boundary = "Installed"
        /\ UNCHANGED <<proc, ran, hidden, status, boundary>>
    BY <1>12, Zenon DEF LateFailure, ChannelInv
  <2>2. up' = <<>>
    BY <1>12, <2>1 DEF LateFailure, ChannelInv, TypeOK
  <2> QED
    BY <2>1, <2>2 DEF ChannelInv
<1>13. CASE FinishNext
  BY <1>13, ChannelFrame, Zenon
     DEF FinishNext, Drain, Drained, Observe, Remove, FinishFail, PollAgain,
         DropFail, AfterDrop, GroupOnly
<1>14. CASE \/ Reap \/ Join("joinOut", "stdout", "joinErr")
            \/ Join("joinErr", "stderr", "returned")
  BY <1>14, ChannelFrame, Zenon DEF Reap, Join
<1> QED
  BY <1>1, <1>2, <1>3, <1>4, <1>5, <1>6, <1>7, <1>8, <1>9, <1>10, <1>11,
     <1>12, <1>13, <1>14, Zenon
     DEF SupervisorNext, LifecycleNext

\* ChannelInv holds in every state.
LEMMA ChannelInvariance == Spec => []ChannelInv
<1>1. Init => ChannelInv
  BY DEF Init, ChannelInv
<1>2. ASSUME TypeOK, LaunchInv, ChannelInv, [Next]_vars PROVE ChannelInv'
  <2>1. CASE UNCHANGED vars
    BY <1>2, <2>1, ChannelFrame, Zenon DEF vars
  <2> QED
    BY <1>2, <2>1, ChannelLauncher, ChannelWorld, ChannelSupervisor, Zenon
       DEF Next, Finished
<1> QED
  BY <1>1, <1>2, TypeCorrect, LaunchInvariance, PTL DEF Spec

-----------------------------------------------------------------------------
(* The outcome. *)

\* A step that leaves the result alone: the process only goes on or ends.
OutcomeKept ==
    /\ UNCHANGED <<outcome, boundary>> /\ hidden \subseteq hidden'
    /\ late' = late \/ late' = TRUE
    /\ ran' = ran \/ (proc = "released" /\ boundary # "Incomplete")
    /\ proc \in {"failing", "dead"} => proc' \in {proc, "dead"}
    /\ proc = "dead" => status' = status
    /\ error' = error \/ error' # "none"
    /\ sup' = sup \/ sup # "lateFailure" \/ error' # "none"

\* It keeps what the outcome says.
LEMMA OutcomeFrame == ASSUME OutcomeInv, OutcomeKept PROVE OutcomeInv'
<1> USE DEF OutcomeKept
<1>1. outcome = "LauncherFailed" => ran' = ran
  BY Zenon DEF OutcomeInv
<1>2. outcome \in {"Exited0", "ExitedNonzero", "Denied"} => ran' = ran
  BY Zenon DEF OutcomeInv
<1> QED
  BY <1>1, <1>2 DEF OutcomeInv

\* Steps of launcher code, of child code, of the host and of the readers.
LEMMA OutcomeWorld ==
    ASSUME TypeOK, LaunchInv, OutcomeInv,
           LauncherNext \/ ChildNext \/ HostNext \/ ReaderNext
    PROVE  OutcomeInv'
<1>1. ASSUME NEW s \in Statuses, End(s), hidden \subseteq hidden', proc # "dead"
      PROVE  OutcomeInv'
  <2>1. OutcomeKept
    BY <1>1, Zenon DEF End, OutcomeKept
  <2> QED
    BY <2>1, OutcomeFrame
<1>2. CASE ChildWrite \/ Fork \/ DescendantEnd \/ MemoryLimit \/ Tick
  <2>1. OutcomeKept
    BY <1>2, Zenon
       DEF ChildWrite, CaptureStream, Fork, DescendantEnd, MemoryLimit, Tick,
           OutcomeKept
  <2> QED
    BY <2>1, OutcomeFrame
<1>3. CASE ReaderNext
  <2>1. OutcomeKept
    BY <1>3, Zenon DEF ReaderNext, ReaderEnd, ReaderFail, OutcomeKept
  <2> QED
    BY <2>1, OutcomeFrame
<1>4. CASE Exec
  <2>1. boundary # "Incomplete"
    BY <1>4, Zenon DEF Exec, Advance, LaunchInv
  <2> QED
    <3>1. OutcomeKept
      BY <1>4, <2>1, Zenon DEF Exec, Advance, OutcomeKept
    <3> QED
      BY <3>1, OutcomeFrame
<1>5. CASE Pause \/ LauncherFail \/ LauncherFailUnheard
  <2>1. OutcomeKept
    BY <1>5, Zenon
       DEF Pause, LauncherFail, LauncherFailUnheard, LauncherStops, OutcomeKept
  <2> QED
    BY <2>1, OutcomeFrame
<1>6. ASSUME NEW f \in LauncherPoints \ {"failing"},
             NEW t \in LauncherPoints, NEW l, Advance(f, t, l)
      PROVE  OutcomeInv'
  <2>1. OutcomeKept
    BY <1>6, Zenon DEF Advance, OutcomeKept
  <2> QED
    BY <2>1, OutcomeFrame
<1>7. CASE LauncherNext
  BY <1>1, <1>4, <1>5, <1>6, <1>7, Zenon
     DEF LauncherNext, BootstrapFail, LauncherExit, ReceiveInstall,
         CloseDescriptors, LockPrivileges, InstallLandlock,
         InstallDenyNetwork, Acknowledge, ReceiveExecRelease, Die
<1> QED
  BY <1>1, <1>2, <1>3, <1>7, Zenon
     DEF ChildNext, HostNext, ChildEnd, ProcessKilled, HostKill, Alive, Die

\* Steps of the supervisor: an exit code is reported only with nothing left
\* to read from the channel.
LEMMA OutcomeSupervisor ==
    ASSUME TypeOK, LaunchInv, ChannelInv, OutcomeInv, SupervisorNext
    PROVE  OutcomeInv'
<1> USE DEF Goto
<1>1. CASE Spawn \/ CaptureSpawnFail
  <2>1. proc = "absent" /\ proc' = "starting"
    BY <1>1, Zenon DEF Spawn, CaptureSpawnFail, ChannelInv
  <2> QED
    <3>1. OutcomeKept
      BY <1>1, <2>1, Zenon DEF Spawn, CaptureSpawnFail, OutcomeKept
    <3> QED
      BY <3>1, OutcomeFrame
<1>2. CASE GuardWait \/ SpawnFail \/ PauseObserved \/ PlaceProcess
  <2>1. OutcomeKept
    BY <1>2, Zenon
       DEF GuardWait, SpawnFail, PauseObserved, PlaceProcess, OutcomeKept
  <2> QED
    BY <2>1, OutcomeFrame
<1>3. CASE PauseExited \/ PauseTimeout \/ PlaceFail \/ ResumeFail \/ SendFail
             \/ ReceiveError \/ TryWaitFail \/ LateError
  <2>1. OutcomeKept
    BY <1>3, Zenon
       DEF PauseExited, PauseTimeout, PlaceFail, ResumeFail, SendFail,
       ReceiveError, TryWaitFail, LateError, Fail, OutcomeKept
  <2> QED
    BY <2>1, OutcomeFrame
<1>4. CASE Resume
  <2>1. OutcomeKept
    BY <1>4, Zenon DEF Resume, OutcomeKept
  <2> QED
    BY <2>1, OutcomeFrame
<1>5. CASE SendInstall \/ SendRelease
  <2>1. OutcomeKept
    BY <1>5, Zenon DEF SendInstall, SendRelease, Send, OutcomeKept
  <2> QED
    BY <2>1, OutcomeFrame
<1>6. CASE ReceiveInstalled \/ ReceiveFailure
  <2>1. boundary = "none"
    BY <1>6, Zenon
       DEF ReceiveInstalled, ReceiveFailure, LaunchInv, BeforeAnswer
  <2> QED
    BY <1>6, <2>1 DEF ReceiveInstalled, ReceiveFailure, OutcomeInv
<1>7. CASE ReceiveTimeout
  BY <1>7, Zenon DEF ReceiveTimeout, OutcomeInv
<1>8. CASE TryWaitEnded
  <2>1. CASE boundary = "Incomplete"
    BY <1>8, <2>1, Zenon DEF TryWaitEnded, AfterMonitor, OutcomeInv, LaunchInv
  <2>2. CASE boundary # "Incomplete"
    <3>1. /\ outcome' = Classify(status) /\ sup' = "lateFailure"
          /\ proc' = "dead" /\ UNCHANGED <<status, late>>
      BY <1>8, <2>2, Zenon DEF TryWaitEnded, AfterMonitor
    <3>2. outcome' \notin {"TimedOut", "LauncherFailed"}
      BY <3>1, Zenon DEF Classify
    <3> QED
      BY <3>1, <3>2, Zenon DEF OutcomeInv, Classify
  <2> QED
    BY <2>1, <2>2, Zenon
<1>9. CASE MonitorTimeout
  BY <1>9, Zenon DEF MonitorTimeout, AfterMonitor, OutcomeInv, LaunchInv
<1>10. CASE TryWaitRunning \/ MonitorAgain
  <2>1. OutcomeKept
    BY <1>10, Zenon DEF TryWaitRunning, MonitorAgain, OutcomeKept
  <2> QED
    BY <2>1, OutcomeFrame
<1>11. CASE LateFailure
  <2>1. /\ sup = "lateFailure" /\ boundary = "Installed"
        /\ UNCHANGED <<proc, ran, hidden, status, late, error, boundary>>
    BY <1>11, Zenon DEF LateFailure, ChannelInv
  <2>2. CASE up # <<>>
    <3>1. outcome' = "LauncherFailed"
      BY <1>11, <2>2, Zenon DEF LateFailure
    <3>2. Len(up) = 1 /\ up[1] = "Failure"
      BY <2>1, <2>2, TailFacts DEF ChannelInv, TypeOK
    <3>3. ~ran /\ proc \in {"failing", "dead"}
      BY <2>2, <3>2, Zenon DEF ChannelInv
    <3> QED
      BY <2>1, <3>1, <3>3, Zenon DEF OutcomeInv
  <2>3. CASE up = <<>>
    <3>1. outcome' = outcome
      BY <1>11, <2>3, Zenon DEF LateFailure
    <3>2. ran \/ status # "nonzero" \/ "failure" \in hidden
      BY <2>1, <2>3, Zenon DEF ChannelInv
    <3>3. outcome \in {"Exited0", "ExitedNonzero", "Denied"} =>
             \/ ran
             \/ outcome = "ExitedNonzero" /\ "failure" \in hidden
             \/ outcome = "Denied" /\ "sigsys" \in hidden
      BY <3>2, Zenon DEF OutcomeInv, ChannelInv, Classify, TypeOK
    <3> QED
      BY <2>1, <3>1, <3>3, Zenon DEF OutcomeInv
  <2> QED
    BY <2>2, <2>3, Zenon
<1>12. CASE FinishNext
  <2>1. OutcomeKept
    BY <1>12, Zenon
       DEF FinishNext, Drain, Drained, Observe, Remove, FinishFail, PollAgain,
           DropFail, AfterDrop, GroupOnly, OutcomeKept
  <2> QED
    BY <2>1, OutcomeFrame
<1>13. CASE \/ Reap \/ Join("joinOut", "stdout", "joinErr")
            \/ Join("joinErr", "stderr", "returned")
  <2>1. OutcomeKept
    BY <1>13, Zenon DEF Reap, Join, OutcomeKept
  <2> QED
    BY <2>1, OutcomeFrame
<1> QED
  BY <1>1, <1>2, <1>3, <1>4, <1>5, <1>6, <1>7, <1>8, <1>9, <1>10, <1>11,
     <1>12, <1>13, Zenon
     DEF SupervisorNext, LifecycleNext

-----------------------------------------------------------------------------
(* The evidence beside the outcome. *)

\* A step that touches neither the streams nor the observation and brings the
\* supervisor no nearer to its result.
EvidenceKept ==
    /\ UNCHANGED <<byteVars, capture, observation, error, dirty>>
    /\ memoryEvent' = memoryEvent
    /\ sup' = sup \/ sup' \notin {"remove", "reap", "returned"} \union Joins

\* It keeps what is known of the evidence.
LEMMA EvidenceFrame == ASSUME EvidenceInv, EvidenceKept PROVE EvidenceInv'
  BY Zenon DEF EvidenceInv, EvidenceKept, Accepted, Holds

\* Steps of launcher code, of child code, of the host and of the readers: an
\* empty group has no limit activity, a stream that was read to its end is
\* not written.
LEMMA EvidenceWorld ==
    ASSUME TypeOK, LaunchInv, EndInv, EvidenceInv,
           LauncherNext \/ ChildNext \/ HostNext \/ ReaderNext
    PROVE  EvidenceInv'
<1>1. CASE LauncherNext
  <2>1. EvidenceKept
    BY <1>1, Zenon DEF LauncherNext, Pause, BootstrapFail, LauncherExit,
       ReceiveInstall, CloseDescriptors, LockPrivileges, InstallLandlock,
       InstallDenyNetwork, Acknowledge, ReceiveExecRelease, Exec,
       LauncherFail, LauncherFailUnheard, LauncherStops, Advance, Die, End,
       EvidenceKept
  <2> QED
    BY <2>1, EvidenceFrame, Zenon
<1>2. CASE ChildEnd \/ ProcessKilled \/ HostKill
  <2>1. EvidenceKept
    BY <1>2, Zenon
       DEF ChildEnd, ProcessKilled, HostKill, Die, End, EvidenceKept
  <2> QED
    BY <2>1, EvidenceFrame
<1>3. CASE Fork \/ DescendantEnd \/ Tick
  <2>1. EvidenceKept
    BY <1>3, Zenon DEF Fork, DescendantEnd, Tick, EvidenceKept
  <2> QED
    BY <2>1, EvidenceFrame
<1>4. CASE MemoryLimit
  <2>1. Populated
    BY <1>4, Zenon DEF MemoryLimit
  <2>2. ~(sup \in {"remove", "reap"} \union Joins /\ ~dirty) /\ ~Accepted
    BY <2>1 DEF EndInv, Populated, Alive
  <2>3. UNCHANGED <<sup, error, dirty, byteVars, capture>>
    BY <1>4, Zenon DEF MemoryLimit
  <2> QED
    BY <2>2, <2>3, Zenon DEF EvidenceInv, Accepted, Holds
<1>5. CASE ChildWrite
  <2>1. PICK s \in Streams : \E count \in Nat \ {0} : CaptureStream(s, count)
    BY <1>5, WriteIsCapture, Zenon
  <2>2. PICK count \in Nat \ {0} : CaptureStream(s, count)
    BY <2>1, Zenon
  <2>3. /\ capture[s] = "reading"
        /\ UNCHANGED <<sup, error, dirty, memoryEvent, observation, capture>>
    BY <2>2, Zenon DEF CaptureStream
  <2>4. Holds(s)'
    <3>1. /\ written[s] \in Nat /\ kept[s] \in Nat /\ OutputLimit[s] \in Nat
          /\ kept[s] <= OutputLimit[s]
      BY LimitAssumption, Zenon DEF TypeOK
    <3>2. Holds(s)
      BY Zenon DEF EvidenceInv
    <3>3. /\ written'[s] = written[s] + count
          /\ \/ /\ kept'[s] = kept[s] + count /\ truncated' = truncated
                /\ kept'[s] <= OutputLimit[s]
             \/ /\ kept'[s] = OutputLimit[s] /\ kept[s] + count > OutputLimit[s]
                /\ truncated' = truncated \union {s}
      BY <2>2, CaptureBytes, Zenon
    <3>4. CASE s \notin truncated
      BY <3>1, <3>2, <3>3, <3>4 DEF Holds
    <3>5. CASE s \in truncated
      BY <3>1, <3>2, <3>3, <3>5 DEF Holds
    <3> QED
      BY <3>4, <3>5, Zenon
  <2>5. ASSUME NEW q \in Streams \ {s}
        PROVE  Holds(q)' /\ (q \in truncated' <=> q \in truncated)
    <3>1. /\ written'[q] = written[q] /\ kept'[q] = kept[q]
          /\ q \in truncated' <=> q \in truncated
      BY <2>2, CaptureBytes, Zenon
    <3>2. Holds(q)
      BY Zenon DEF EvidenceInv
    <3> QED
      BY <3>1, <3>2, Zenon DEF Holds
  <2>6. ASSUME NEW q \in Streams
        PROVE  /\ Holds(q)'
               /\ capture'[q] = "Complete" => q \notin truncated'
               /\ capture'[q] = "Truncated" => q \in truncated'
    <3>1. CASE q = s
      BY <2>3, <2>4, <3>1, Zenon
    <3>2. CASE q # s
      BY <2>3, <2>5, <3>2, Zenon DEF EvidenceInv
    <3> QED
      BY <3>1, <3>2, Zenon
  <2> QED
    BY <2>3, <2>6, Zenon DEF EvidenceInv, Accepted
<1>6. ASSUME NEW s \in Streams, ReaderEnd(s) \/ ReaderFail(s) PROVE EvidenceInv'
  <2>1. UNCHANGED <<sup, error, dirty, byteVars, memoryEvent, observation>>
    BY <1>6, Zenon DEF ReaderEnd, ReaderFail
  <2>2. \A q \in Streams \ {s} : capture'[q] = capture[q]
    BY <1>6 DEF ReaderEnd, ReaderFail, TypeOK
  <2>3. /\ capture[s] = "reading"
        /\ capture'[s] = "Complete" => s \notin truncated
        /\ capture'[s] = "Truncated" => s \in truncated
    BY <1>6, Zenon DEF ReaderEnd, ReaderFail, TypeOK
  <2>4. ~Accepted /\ (sup = "joinErr" => s # "stdout")
    BY <2>3, Zenon DEF EvidenceInv
  <2> QED
    BY <2>1, <2>2, <2>3, <2>4, Zenon DEF EvidenceInv, Accepted, Holds
<1> QED
  BY <1>1, <1>2, <1>3, <1>4, <1>5, <1>6, Zenon
     DEF ChildNext, HostNext, ReaderNext

\* Steps of the supervisor: it observes the drained group, and joins the
\* readers one after the other.
LEMMA EvidenceSupervisor ==
    ASSUME TypeOK, EndInv, EvidenceInv, SupervisorNext PROVE EvidenceInv'
<1> USE DEF Goto
<1>1. CASE LifecycleNext
  <2>1. /\ sup' \notin {"remove", "reap", "returned"} \union Joins
        /\ UNCHANGED <<byteVars, capture>>
    BY <1>1, Zenon
       DEF LifecycleNext, Spawn, SpawnFail, CaptureSpawnFail, GuardWait,
       PauseObserved, PauseExited, PauseTimeout, PlaceProcess, PlaceFail,
       Resume, ResumeFail, SendInstall, SendRelease, Send, SendFail,
       ReceiveInstalled, ReceiveFailure, ReceiveTimeout, ReceiveError,
       TryWaitEnded, TryWaitRunning, TryWaitFail, MonitorAgain,
       MonitorTimeout, AfterMonitor, LateFailure, LateError, Fail
  <2> QED
    BY <2>1, Zenon DEF EvidenceInv, Accepted, Holds
<1>2. CASE Drain("drain", "poll") \/ Drain("dropDrain", "dropPoll")
             \/ Drained("poll", "observe") \/ Drained("dropPoll", "dropRemove")
             \/ PollAgain
  <2>1. EvidenceKept
    BY <1>2, Zenon DEF Drain, Drained, PollAgain, GroupOnly, EvidenceKept
  <2> QED
    BY <2>1, EvidenceFrame, Zenon
<1>3. CASE FinishFail
  BY <1>3, Zenon DEF FinishFail, GroupOnly, EvidenceInv, Accepted, Holds
<1>4. CASE Observe
  <2>1. /\ sup' = "remove" /\ UNCHANGED <<byteVars, capture, memoryEvent>>
        /\ memoryEvent => observation' \in {"limited", "incomplete"}
    BY <1>4, Zenon DEF Observe, GroupOnly
  <2> QED
    BY <2>1, Zenon DEF EvidenceInv, Accepted, Holds
<1>5. CASE Remove("remove", "reap")
  BY <1>5, Zenon DEF Remove, GroupOnly, EvidenceInv, Accepted, Holds
<1>6. CASE Remove("dropRemove", AfterDrop) \/ DropFail
  <2>1. /\ sup \in Drops
        /\ sup' = AfterDrop
        /\ UNCHANGED <<byteVars, capture, error, dirty>>
    BY <1>6, Zenon DEF Remove, DropFail, GroupOnly
  <2>2. dirty \/ error # "none"
    BY <2>1, Zenon DEF EndInv
  <2>3. ~Accepted' /\ ~(sup' \in {"remove", "reap"} \union Joins /\ ~dirty')
        /\ sup' # "joinErr"
    BY <2>1, <2>2, Zenon DEF Accepted, AfterDrop
  <2> QED
    BY <2>1, <2>3, Zenon DEF EvidenceInv, Holds
<1>7. CASE Reap
  BY <1>7, Zenon DEF Reap, EvidenceInv, Accepted, Holds
<1>8. CASE Join("joinOut", "stdout", "joinErr")
  BY <1>8 DEF Join, EvidenceInv, Accepted, TypeOK, Holds
<1>9. CASE Join("joinErr", "stderr", "returned")
  BY <1>9 DEF Join, EvidenceInv, Accepted, TypeOK, Holds
<1> QED
  BY <1>1, <1>2, <1>3, <1>4, <1>5, <1>6, <1>7, <1>8, <1>9, Zenon
     DEF SupervisorNext, FinishNext

\* What the outcome and the evidence say holds throughout an attempt.
LEMMA ResultInvariance == Spec => [](OutcomeInv /\ EvidenceInv)
<1>1. Init => OutcomeInv /\ EvidenceInv
  BY Zenon DEF Init, OutcomeInv, EvidenceInv, Accepted, Holds
<1>2. ASSUME TypeOK, LaunchInv, EndInv, ChannelInv, OutcomeInv, EvidenceInv,
             [Next]_vars
      PROVE  OutcomeInv' /\ EvidenceInv'
  <2>1. CASE UNCHANGED vars
    <3>1. OutcomeKept /\ EvidenceKept
      BY <2>1, Zenon DEF vars, OutcomeKept, EvidenceKept
    <3> QED
      BY <1>2, <3>1, OutcomeFrame, EvidenceFrame, Zenon
  <2> QED
    BY <1>2, <2>1, OutcomeWorld, OutcomeSupervisor, EvidenceWorld,
       EvidenceSupervisor, Zenon
       DEF Next, Finished
<1> QED
  BY <1>1, <1>2, TypeCorrect, LaunchInvariance, EndInvariance,
     ChannelInvariance, PTL DEF Spec

\* The result of supervise_launcher says what happened to the process, and
\* its evidence is that of the ended process tree.
THEOREM ResultsAreTruthful == Spec => []ResultIsTruthful
<1>1. ASSUME TypeOK, LaunchInv, OutcomeInv, EvidenceInv PROVE ResultIsTruthful
  <2>1. \A s \in Streams : kept[s] <= OutputLimit[s]
    BY <1>1, Zenon DEF TypeOK
  <2> QED
    BY <1>1, <2>1, Zenon
       DEF ResultIsTruthful, OutcomeInv, EvidenceInv, LaunchInv, Accepted, Holds
<1> QED
  BY <1>1, TypeCorrect, LaunchInvariance, ResultInvariance, PTL

-----------------------------------------------------------------------------
(* What the two derivations of reuse eligibility promise, for all facts. *)

Failures == Seq(NonReusableReasons)

\* A sequence of one element.
LEMMA Singleton ==
    ASSUME NEW S, NEW x \in S
    PROVE  <<x>> \in Seq(S)
OBVIOUS

\* append_reason of the producer does what a conditional push does.
LEMMA AppendIsPush ==
    ASSUME NEW reasons \in Failures, NEW present,
           NEW reason \in NonReusableReasons
    PROVE  /\ AppendReason(reasons, present, reason)
                = reasons \o Pushed(present, reason)
           /\ AppendReason(reasons, present, reason) \in Failures
<1>1. CASE present
  BY <1>1, AppendIsConcat, AppendProperties, Zenon
  DEF AppendReason, Pushed, Failures
<1>2. CASE ~present
  BY <1>2, ConcatEmptySeq, Zenon DEF AppendReason, Pushed, Failures
<1> QED
  BY <1>1, <1>2, Zenon

\* It adds nothing exactly if the reason is not present.
LEMMA AppendIsEmpty ==
    ASSUME NEW reasons \in Failures, NEW present,
           NEW reason \in NonReusableReasons
    PROVE  AppendReason(reasons, present, reason) = <<>>
             <=> reasons = <<>> /\ ~present
<1>1. CASE present
  BY <1>1, AppendProperties, ZenonT(60) DEF AppendReason, Failures
<1>2. CASE ~present
  BY <1>2, Zenon DEF AppendReason
<1> QED
  BY <1>1, <1>2, Zenon

\* The events of append_limit_event_reasons are reasons.
LEMMA LimitEventsAreReasons ==
    /\ "memory-high" \in NonReusableReasons
    /\ "memory-max" \in NonReusableReasons
    /\ "memory-oom" \in NonReusableReasons
    /\ "memory-oom-kill" \in NonReusableReasons
    /\ "memory-oom-group-kill" \in NonReusableReasons
    /\ "swap-max" \in NonReusableReasons
    /\ "swap-fail" \in NonReusableReasons
BY Zenon DEF NonReusableReasons, LimitEvents

\* The seven resource events add the same reasons in both programs, and add
\* none exactly if none is present.
LEMMA LimitEventsAgree ==
    ASSUME NEW reasons \in Failures, NEW events \in SUBSET LimitEvents
    PROVE  /\ AppendLimitEventReasons(reasons, events)
                = LimitFailures(reasons, events)
           /\ AppendLimitEventReasons(reasons, events) = <<>>
                <=> reasons = <<>> /\ events = {}
<1> DEFINE r1 == AppendReason(reasons, "memory-high" \in events, "memory-high")
           r2 == AppendReason(r1, "memory-max" \in events, "memory-max")
           r3 == AppendReason(r2, "memory-oom" \in events, "memory-oom")
           r4 == AppendReason(r3, "memory-oom-kill" \in events,
                              "memory-oom-kill")
           r5 == AppendReason(r4, "memory-oom-group-kill" \in events,
                              "memory-oom-group-kill")
           r6 == AppendReason(r5, "swap-max" \in events, "swap-max")
           r7 == AppendReason(r6, "swap-fail" \in events, "swap-fail")
           p1 == Pushed("memory-high" \in events, "memory-high")
           p2 == Pushed("memory-max" \in events, "memory-max")
           p3 == Pushed("memory-oom" \in events, "memory-oom")
           p4 == Pushed("memory-oom-kill" \in events, "memory-oom-kill")
           p5 == Pushed("memory-oom-group-kill" \in events,
                        "memory-oom-group-kill")
           p6 == Pushed("swap-max" \in events, "swap-max")
           p7 == Pushed("swap-fail" \in events, "swap-fail")
<1> USE LimitEventsAreReasons
<1>1. r1 \in Failures /\ r1 = reasons \o p1
  BY AppendIsPush, Zenon
<1>e1. r1 = <<>> <=> reasons = <<>> /\ "memory-high" \notin events
  BY AppendIsEmpty, Zenon
<1>2. r2 \in Failures /\ r2 = r1 \o p2
  BY <1>1, AppendIsPush, Zenon
<1>e2. r2 = <<>> <=> r1 = <<>> /\ "memory-max" \notin events
  BY <1>1, AppendIsEmpty, ZenonT(60)
<1>3. r3 \in Failures /\ r3 = r2 \o p3
  BY <1>2, AppendIsPush, Zenon
<1>e3. r3 = <<>> <=> r2 = <<>> /\ "memory-oom" \notin events
  BY <1>2, AppendIsEmpty, ZenonT(60)
<1>4. r4 \in Failures /\ r4 = r3 \o p4
  BY <1>3, AppendIsPush, Zenon
<1>e4. r4 = <<>> <=> r3 = <<>> /\ "memory-oom-kill" \notin events
  BY <1>3, AppendIsEmpty, ZenonT(60)
<1>5. r5 \in Failures /\ r5 = r4 \o p5
  BY <1>4, AppendIsPush, Zenon
<1>e5. r5 = <<>> <=> r4 = <<>> /\ "memory-oom-group-kill" \notin events
  BY <1>4, AppendIsEmpty, ZenonT(60)
<1>6. r6 \in Failures /\ r6 = r5 \o p6
  BY <1>5, AppendIsPush, Zenon
<1>e6. r6 = <<>> <=> r5 = <<>> /\ "swap-max" \notin events
  BY <1>5, AppendIsEmpty, ZenonT(60)
<1>7. r7 \in Failures /\ r7 = r6 \o p7
  BY <1>6, AppendIsPush, Zenon
<1>e7. r7 = <<>> <=> r6 = <<>> /\ "swap-fail" \notin events
  BY <1>6, AppendIsEmpty, ZenonT(60)
<1>8. /\ AppendLimitEventReasons(reasons, events) = r7
      /\ LimitFailures(reasons, events)
           = reasons \o p1 \o p2 \o p3 \o p4 \o p5 \o p6 \o p7
  BY Zenon DEF AppendLimitEventReasons, LimitFailures
<1>9. events = {} <=> \A e \in LimitEvents : e \notin events
  BY Zenon
<1> HIDE DEF r1, r2, r3, r4, r5, r6, r7, p1, p2, p3, p4, p5, p6, p7
<1>10. r7 = reasons \o p1 \o p2 \o p3 \o p4 \o p5 \o p6 \o p7
  BY <1>1, <1>2, <1>3, <1>4, <1>5, <1>6, <1>7, Zenon
<1>11. r7 = <<>> <=> reasons = <<>> /\ events = {}
  BY <1>e1, <1>e2, <1>e3, <1>e4, <1>e5, <1>e6, <1>e7, <1>9, Zenon
     DEF LimitEvents
<1> QED
  BY <1>8, <1>10, <1>11, Zenon

\* So are the others that the derivations name.
LEMMA OtherReasons ==
    /\ "boundary-incomplete" \in NonReusableReasons
    /\ "stdout-truncated" \in NonReusableReasons
    /\ "stderr-truncated" \in NonReusableReasons
    /\ "receipt-malformed" \in NonReusableReasons
    /\ \A o \in ExecutionOutcomes : OutcomeReason(o) \in NonReusableReasons
BY DEF NonReusableReasons, ExecutionOutcomes, OutcomeReason

\* The verifier's tables for the boundary and the outcome push what the
\* producer appends.
LEMMA TablesAgree ==
    /\ \A b \in Boundaries :
          BoundaryFailures(b) = Pushed(b = "Incomplete", "boundary-incomplete")
    /\ \A o \in ExecutionOutcomes :
          OutcomeFailures(o) = Pushed(o # "Exited0", OutcomeReason(o))
<1>1. ASSUME NEW b \in Boundaries
      PROVE  BoundaryFailures(b) = Pushed(b = "Incomplete", "boundary-incomplete")
  BY Zenon DEF Boundaries, BoundaryFailures, Pushed
<1>2. ASSUME NEW o \in ExecutionOutcomes
      PROVE  OutcomeFailures(o) = Pushed(o # "Exited0", OutcomeReason(o))
  BY DEF ExecutionOutcomes, OutcomeFailures, Pushed, OutcomeReason
<1> QED
  BY <1>1, <1>2, Zenon

\* derive_receipt_eligibility and derive_eligibility, written independently,
\* give the same reasons in the same order on all facts; and they give none
\* exactly for the facts that specification 0001 calls reusable, so that no
\* combination of facts hides or cancels a reason.
THEOREM DerivationsAgree ==
    ASSUME NEW facts \in ReceiptFacts
    PROVE  /\ DeriveEligibility(facts) = DeriveReceiptEligibility(facts)
           /\ DeriveReceiptEligibility(facts) = <<>> <=> Reusable(facts)
<1> DEFINE r1 == AppendReason(<<>>, facts.boundary = "Incomplete",
                              "boundary-incomplete")
           r2 == AppendOutcomeReason(r1, facts.outcome)
           r3 == AppendReason(r2, facts.stdout = "Truncated",
                              "stdout-truncated")
           r4 == AppendReason(r3, facts.stderr = "Truncated",
                              "stderr-truncated")
           r5 == AppendReason(r4, facts.structure = "Malformed",
                              "receipt-malformed")
           p1 == BoundaryFailures(facts.boundary)
           p2 == OutcomeFailures(facts.outcome)
           p3 == Pushed(facts.stdout = "Truncated", "stdout-truncated")
           p4 == Pushed(facts.stderr = "Truncated", "stderr-truncated")
           p5 == Pushed(facts.structure = "Malformed", "receipt-malformed")
<1>1. /\ facts.boundary \in Boundaries /\ facts.outcome \in ExecutionOutcomes
      /\ facts.stdout \in StreamCaptures /\ facts.stderr \in StreamCaptures
      /\ facts.structure \in ReceiptStructures
      /\ facts.events \in SUBSET LimitEvents
  BY Zenon DEF ReceiptFacts
<1>2. <<>> \in Failures
  BY EmptySeq, Zenon DEF Failures
<1>3. /\ p1 = Pushed(facts.boundary = "Incomplete", "boundary-incomplete")
      /\ p2 = Pushed(facts.outcome # "Exited0", OutcomeReason(facts.outcome))
  BY <1>1, TablesAgree, Zenon
<1>4. /\ "boundary-incomplete" \in NonReusableReasons
      /\ "stdout-truncated" \in NonReusableReasons
      /\ "stderr-truncated" \in NonReusableReasons
      /\ "receipt-malformed" \in NonReusableReasons
      /\ OutcomeReason(facts.outcome) \in NonReusableReasons
  BY <1>1, OtherReasons, Zenon
<1>g. <<>> \o p1 = p1
  <2>1. p1 \in Failures
    BY <1>1, <1>4, <1>2, Singleton, Zenon
       DEF BoundaryFailures, Boundaries, Failures
  <2> QED
    BY <2>1, ConcatEmptySeq, Zenon DEF Failures
<1>h. /\ DeriveReceiptEligibility(facts)
           = AppendLimitEventReasons(r5, facts.events)
      /\ DeriveEligibility(facts)
           = LimitFailures(p1 \o p2 \o p3 \o p4 \o p5, facts.events)
  BY Zenon DEF DeriveReceiptEligibility, DeriveEligibility
<1> HIDE DEF p1, p2
<1>a. r1 \in Failures /\ r1 = <<>> \o p1
  BY <1>2, <1>3, <1>4, AppendIsPush, ZenonT(60)
<1>ae. r1 = <<>> <=> ~(facts.boundary = "Incomplete")
  BY <1>2, <1>4, AppendIsEmpty, Zenon
<1> HIDE DEF r1
<1>b. r2 \in Failures /\ r2 = r1 \o p2
  <2> DEFINE failed == facts.outcome # "Exited0"
             reason == OutcomeReason(facts.outcome)
  <2>1. r2 = AppendReason(r1, failed, reason)
    BY Zenon DEF AppendOutcomeReason
  <2>2. p2 = Pushed(failed, reason) /\ reason \in NonReusableReasons
    BY <1>3, <1>4, Zenon
  <2> HIDE DEF failed, reason, r2
  <2>3. /\ AppendReason(r1, failed, reason) = r1 \o Pushed(failed, reason)
        /\ AppendReason(r1, failed, reason) \in Failures
    BY <1>a, <2>2, AppendIsPush, Zenon
  <2> QED
    BY <2>1, <2>2, <2>3, Zenon
<1>be. r2 = <<>> <=> r1 = <<>> /\ ~(facts.outcome # "Exited0")
  BY <1>a, <1>4, AppendIsEmpty, Zenon DEF AppendOutcomeReason
<1> HIDE DEF r2
<1>c. r3 \in Failures /\ r3 = r2 \o p3
  BY <1>b, <1>4, AppendIsPush, ZenonT(60)
<1>ce. r3 = <<>> <=> r2 = <<>> /\ ~(facts.stdout = "Truncated")
  BY <1>b, <1>4, AppendIsEmpty, ZenonT(60)
<1> HIDE DEF r3, p3
<1>d. r4 \in Failures /\ r4 = r3 \o p4
  BY <1>c, <1>4, AppendIsPush, ZenonT(60)
<1>de. r4 = <<>> <=> r3 = <<>> /\ ~(facts.stderr = "Truncated")
  BY <1>c, <1>4, AppendIsEmpty, ZenonT(60)
<1> HIDE DEF r4, p4
<1>f. r5 \in Failures /\ r5 = r4 \o p5
  BY <1>d, <1>4, AppendIsPush, ZenonT(60)
<1>fe. r5 = <<>> <=> r4 = <<>> /\ ~(facts.structure = "Malformed")
  BY <1>d, <1>4, AppendIsEmpty, ZenonT(60)
<1> HIDE DEF r5, p5
<1>i. r5 = p1 \o p2 \o p3 \o p4 \o p5
  BY <1>a, <1>b, <1>c, <1>d, <1>f, <1>g, Zenon
<1>j. DeriveEligibility(facts) = DeriveReceiptEligibility(facts)
  BY <1>1, <1>f, <1>h, <1>i, LimitEventsAgree, ZenonT(60)
<1>k. DeriveReceiptEligibility(facts) = <<>> <=> r5 = <<>> /\ facts.events = {}
  BY <1>1, <1>f, <1>h, LimitEventsAgree, ZenonT(60)
<1>l. r5 = <<>> /\ facts.events = {} <=> Reusable(facts)
  BY <1>1, <1>ae, <1>be, <1>ce, <1>de, <1>fe, Zenon
     DEF Reusable, Boundaries, StreamCaptures, ReceiptStructures
<1> QED
  BY <1>j, <1>k, <1>l, Zenon

-----------------------------------------------------------------------------
(* From the lifecycle of the attempt to the derivation. *)

\* The points at which the outcome of the lifecycle is decided, or an error.
Decided ==
    {"lateFailure", "drain", "poll", "observe", "remove", "reap", "returned",
     "guardWait"} \union Joins \union Drops

\* A result has an outcome and a boundary state, and the outcomes that are
\* neither an exit code nor a denial are also those of the wait status.
DecidedInv ==
    /\ outcome \in {"Signaled", "Incomplete"} =>
          proc = "dead" /\ outcome = Classify(status)
    /\ error = "none" /\ sup \in Decided =>
          outcome # "none" /\ boundary # "none"

USE DEF Streams, Layers, Statuses, Outcomes, Installing, LauncherPoints,
        ProcPoints, SupPoints, SupervisorErrors, selfVars,
        memberVars, killVars, channelVars, groupVars, byteVars, streamVars,
        resultVars, Drops, Joins, Watching, Decided

\* A step that decides nothing.
DecidedKept ==
    /\ UNCHANGED <<outcome, boundary>>
    /\ proc = "dead" => proc' = "dead" /\ status' = status
    /\ error' = error \/ error' # "none"
    /\ sup' \in Decided => sup \in Decided \/ error' # "none"

\* It keeps what is decided.
LEMMA DecidedFrame == ASSUME DecidedInv, DecidedKept PROVE DecidedInv'
  BY Zenon DEF DecidedInv, DecidedKept

\* Steps of launcher code, of child code, of the host and of the readers.
LEMMA DecidedWorld ==
    ASSUME DecidedInv, LauncherNext \/ ChildNext \/ HostNext \/ ReaderNext
    PROVE  DecidedInv'
<1>1. CASE LauncherNext
  <2>1. DecidedKept
    BY <1>1, Zenon DEF LauncherNext, Pause, BootstrapFail, LauncherExit,
       ReceiveInstall, CloseDescriptors, LockPrivileges, InstallLandlock,
       InstallDenyNetwork, Acknowledge, ReceiveExecRelease, Exec,
       LauncherFail, LauncherFailUnheard, LauncherStops, Advance, Die, End,
       DecidedKept
  <2> QED
    BY <2>1, DecidedFrame, Zenon
<1>2. CASE ChildNext
  <2>1. DecidedKept
    BY <1>2, Zenon
       DEF ChildNext, ChildEnd, ChildWrite, CaptureStream, Fork, DescendantEnd,
           Die, End, DecidedKept
  <2> QED
    BY <2>1, DecidedFrame
<1>3. CASE HostNext
  <2>1. DecidedKept
    BY <1>3, Zenon
       DEF HostNext, ProcessKilled, HostKill, MemoryLimit, Tick, Die, End,
           Alive, DecidedKept
  <2> QED
    BY <2>1, DecidedFrame
<1>4. CASE ReaderNext
  <2>1. DecidedKept
    BY <1>4, Zenon DEF ReaderNext, ReaderEnd, ReaderFail, DecidedKept
  <2> QED
    BY <2>1, DecidedFrame
<1> QED
  BY <1>1, <1>2, <1>3, <1>4, Zenon

\* Steps of the supervisor.
LEMMA DecidedSupervisor ==
    ASSUME TypeOK, ChannelInv, DecidedInv, SupervisorNext
    PROVE  DecidedInv'
<1> USE DEF Goto
<1>1. CASE Spawn \/ SpawnFail \/ CaptureSpawnFail
  <2>1. DecidedKept
    BY <1>1, Zenon
       DEF Spawn, SpawnFail, CaptureSpawnFail, ChannelInv, DecidedKept
  <2> QED
    BY <2>1, DecidedFrame
<1>2. CASE \/ PauseExited \/ PauseTimeout \/ PlaceFail \/ ResumeFail
           \/ SendFail \/ ReceiveError \/ TryWaitFail \/ LateError
  <2>1. DecidedKept
    BY <1>2, Zenon
       DEF PauseExited, PauseTimeout, PlaceFail, ResumeFail, SendFail,
       ReceiveError, TryWaitFail, LateError, Fail, DecidedKept
  <2> QED
    BY <2>1, DecidedFrame
<1>3. CASE \/ GuardWait \/ PauseObserved \/ PlaceProcess \/ Resume
           \/ SendInstall \/ SendRelease \/ TryWaitRunning \/ MonitorAgain
  <2>1. DecidedKept
    BY <1>3, Zenon
       DEF GuardWait, PauseObserved, PlaceProcess, Resume, SendInstall,
           SendRelease, Send, TryWaitRunning, MonitorAgain, DecidedKept
  <2> QED
    BY <2>1, DecidedFrame
<1>4. CASE ReceiveInstalled \/ ReceiveFailure
  BY <1>4, Zenon DEF ReceiveInstalled, ReceiveFailure, DecidedInv
<1>5. CASE ReceiveTimeout
  BY <1>5, Zenon DEF ReceiveTimeout, DecidedInv
<1>6. CASE TryWaitEnded
  <2>1. /\ boundary # "none" /\ proc' = "dead"
        /\ UNCHANGED <<status, boundary>>
        /\ outcome' \in {"LauncherFailed", Classify(status)}
    BY <1>6, Zenon DEF TryWaitEnded, AfterMonitor, ChannelInv
  <2>2. Classify(status) # "none"
    BY Zenon DEF Classify
  <2> QED
    BY <2>1, <2>2, Zenon DEF DecidedInv
<1>7. CASE MonitorTimeout
  <2>1. /\ boundary # "none" /\ UNCHANGED boundary
        /\ outcome' \in {"LauncherFailed", "TimedOut"}
    BY <1>7, Zenon DEF MonitorTimeout, AfterMonitor, ChannelInv
  <2> QED
    BY <2>1, Zenon DEF DecidedInv
<1>8. CASE LateFailure
  BY <1>8, Zenon DEF LateFailure, DecidedInv
<1>9. CASE FinishNext
  <2>1. DecidedKept
    BY <1>9, Zenon
       DEF FinishNext, Drain, Drained, Observe, Remove, FinishFail, PollAgain,
           DropFail, AfterDrop, GroupOnly, DecidedKept
  <2> QED
    BY <2>1, DecidedFrame
<1>10. CASE \/ Reap \/ Join("joinOut", "stdout", "joinErr")
            \/ Join("joinErr", "stderr", "returned")
  <2>1. DecidedKept
    BY <1>10, Zenon DEF Reap, Join, DecidedKept
  <2> QED
    BY <2>1, DecidedFrame
<1> QED
  BY <1>1, <1>2, <1>3, <1>4, <1>5, <1>6, <1>7, <1>8, <1>9, <1>10, Zenon
     DEF SupervisorNext, LifecycleNext

\* Every result is decided.
LEMMA DecidedInvariance == Spec => []DecidedInv
<1>1. Init => DecidedInv
  BY Zenon DEF Init, DecidedInv
<1>2. ASSUME TypeOK, ChannelInv, DecidedInv, [Next]_vars PROVE DecidedInv'
  <2>1. CASE UNCHANGED vars
    <3>1. DecidedKept
      BY <2>1, Zenon DEF vars, DecidedKept
    <3> QED
      BY <1>2, <3>1, DecidedFrame, Zenon
  <2> QED
    BY <1>2, <2>1, DecidedWorld, DecidedSupervisor, Zenon DEF Next, Finished
<1> QED
  BY <1>1, <1>2, TypeCorrect, ChannelInvariance, PTL DEF Spec

-----------------------------------------------------------------------------
\* The facts of an accepted attempt are receipt facts, so that what is known
\* of the derivation applies to them.
LEMMA FactsAreReceiptFacts ==
    ASSUME TypeOK, EvidenceInv, DecidedInv, Accepted
    PROVE  /\ FactsOfAttempt \in ReceiptFacts
           /\ DeriveReceiptEligibility(FactsOfAttempt) = <<>> <=>
                /\ boundary = "Installed" /\ outcome = "Exited0"
                /\ capture["stdout"] = "Complete"
                /\ capture["stderr"] = "Complete"
                /\ observation \notin {"incomplete", "limited"}
<1>1. boundary \in Boundaries /\ outcome \in ExecutionOutcomes
  BY Zenon DEF DecidedInv, Accepted, TypeOK, Boundaries, ExecutionOutcomes
<1>2. capture["stdout"] \in StreamCaptures /\ capture["stderr"] \in StreamCaptures
  BY Zenon DEF EvidenceInv, StreamCaptures
<1>3. /\ ResourceStructure \in ReceiptStructures
      /\ ResourceStructure = "Valid" <=> observation # "incomplete"
  BY Zenon DEF ResourceStructure, ReceiptStructures
<1>4. /\ ResourceEvents \in SUBSET LimitEvents
      /\ ResourceEvents = {} <=> observation # "limited"
  BY Zenon DEF ResourceEvents, LimitEvents
<1>5. FactsOfAttempt \in ReceiptFacts
  BY <1>1, <1>2, <1>3, <1>4, Zenon DEF FactsOfAttempt, ReceiptFacts
<1>6. DeriveReceiptEligibility(FactsOfAttempt) = <<>> <=> Reusable(FactsOfAttempt)
  BY <1>5, DerivationsAgree, Zenon
<1>7. Reusable(FactsOfAttempt) <=>
        /\ boundary = "Installed" /\ outcome = "Exited0"
        /\ capture["stdout"] = "Complete" /\ capture["stderr"] = "Complete"
        /\ ResourceStructure = "Valid" /\ ResourceEvents = {}
  BY Zenon DEF Reusable, FactsOfAttempt
<1> QED
  BY <1>3, <1>4, <1>5, <1>6, <1>7, Zenon

\* A receipt is reusable exactly if the supervised run was a clean one: the
\* result of supervise_launcher, the facts build_receipt takes from it and
\* derive_receipt_eligibility leave neither a hole nor a false alarm.
THEOREM ReusableMeansClean == Spec => []ReusableIsCleanRun
<1>1. ASSUME TypeOK, ChildOnlyInsideBoundary, NothingOutlivesResult,
             ResultIsTruthful, ChannelInv, EvidenceInv, DecidedInv
      PROVE  ReusableIsCleanRun
  <2> SUFFICES ASSUME Accepted
               PROVE  LET reusable == DeriveReceiptEligibility(FactsOfAttempt) = <<>>
                      IN  /\ reusable =>
                               /\ ran /\ layers = Layers /\ placed
                               /\ status = "zero"
                               /\ kept = written /\ ~memoryEvent
                               /\ ~Alive /\ forks = 0
                          /\ (/\ status = "zero" /\ ~late
                              /\ observation = "complete"
                              /\ \A s \in Streams : written[s] <= OutputLimit[s])
                               => reusable
    BY Zenon DEF ReusableIsCleanRun
  <2> DEFINE reusable == DeriveReceiptEligibility(FactsOfAttempt) = <<>>
  <2>1. reusable <=> /\ boundary = "Installed" /\ outcome = "Exited0"
                     /\ capture["stdout"] = "Complete"
                     /\ capture["stderr"] = "Complete"
                     /\ observation \notin {"incomplete", "limited"}
    BY <1>1, FactsAreReceiptFacts, Zenon
  <2> HIDE DEF reusable
  <2>2. ASSUME reusable
        PROVE  /\ ran /\ layers = Layers /\ placed /\ status = "zero"
               /\ kept = written /\ ~memoryEvent /\ ~Alive /\ forks = 0
    <3>1. ran /\ "Exited0" = Classify(status)
      BY <1>1, <2>1, <2>2, Zenon DEF ResultIsTruthful
    <3>2. status = "zero"
      BY <1>1, <3>1, Zenon DEF Classify, TypeOK
    <3>3. kept = written
      <4>1. \A s \in Streams : kept[s] = written[s]
        BY <1>1, <2>1, <2>2, Zenon DEF ResultIsTruthful
      <4>2. kept \in [Streams -> Nat] /\ written \in [Streams -> Nat]
        BY <1>1, Zenon DEF TypeOK
      <4> QED
        BY <4>1, <4>2
    <3>4. ~memoryEvent
      BY <1>1, <2>1, <2>2, Zenon DEF ResultIsTruthful
    <3> QED
      BY <1>1, <3>1, <3>2, <3>3, <3>4, Zenon
         DEF ChildOnlyInsideBoundary, NothingOutlivesResult
  <2>3. ASSUME status = "zero", ~late, observation = "complete",
               \A s \in Streams : written[s] <= OutputLimit[s]
        PROVE  reusable
    <3>1. ran
      BY <1>1, <2>3, Zenon DEF ChannelInv
    <3>2. boundary = "Installed"
      BY <1>1, <3>1, Zenon DEF ChildOnlyInsideBoundary
    <3>3. outcome = "Exited0"
      BY <1>1, <2>3, <3>1, Zenon
         DEF ResultIsTruthful, DecidedInv, Accepted, TypeOK, Classify
    <3>4. capture["stdout"] = "Complete" /\ capture["stderr"] = "Complete"
      <4>1. ASSUME NEW s \in Streams PROVE capture[s] = "Complete"
        <5>1. /\ written[s] \in Nat /\ OutputLimit[s] \in Nat
              /\ written[s] <= OutputLimit[s]
          BY <1>1, <2>3, LimitAssumption, Zenon DEF TypeOK
        <5>2. \/ capture[s] = "Complete"
              \/ kept[s] = OutputLimit[s] /\ kept[s] < written[s]
          BY <1>1, Zenon DEF ResultIsTruthful
        <5> QED
          BY <5>1, <5>2
      <4> QED
        BY <4>1, Zenon
    <3> QED
      BY <2>1, <2>3, <3>2, <3>3, <3>4, Zenon
  <2> QED
    BY <2>2, <2>3, Zenon DEF reusable
<1> QED
  BY <1>1, TypeCorrect, BoundaryBeforeChild, NothingIsLeft,
     ResultsAreTruthful, ResultInvariance, ChannelInvariance,
     DecidedInvariance, PTL
==============================================================================
