----------------------- MODULE ConnectorProcessProofs -----------------------
(***************************************************************************)
(* A service connector is supervised safely and truthfully, for every      *)
(* limit, every set of situations and whatever executable is started, and  *)
(* the supervised process implements the pure lifecycle of a session.  The *)
(* argument follows the packets: the supervisor's control point tells      *)
(* which reports it took, and the connector's which ones it has sent.      *)
(***************************************************************************)
EXTENDS ConnectorProcess, TLAPS

Terminals == {Terminal(n, a) : n \in [Directions -> Nat], a \in BOOLEAN}
Failures  == {Failure(s) : s \in FailureStages}
Packets   == {Ready(TRUE), Ready(FALSE), Malformed} \union Failures
                \union Terminals

\* The types of the variables.
PacketTypes ==
    /\ reports \in Seq(Packets)
    /\ ready \in {NoReport, Ready(TRUE)}
    /\ report \in Failures \union Terminals \union {NoReport}
    /\ moved \in [Directions -> Nat]
PointTypes ==
    /\ scene \in Scenes /\ sup \in SupPoints /\ checked \in Nat
    /\ conn \in ConnPoints
    /\ stage \in {"none", "resolving", "connecting", "authenticating",
                  "authenticated", "foreign"}
    /\ channel \in {"none", "supervisor", "child", "closed"}
    /\ exit \in {"none", "success", "failure"}
    /\ owner \in {"none", "guard", "reaper", "collected"}
    /\ result \in Errors \union {"none", "Ok"}
FlagTypes == late \in BOOLEAN /\ control \in BOOLEAN /\ doomed \in BOOLEAN
TypeOK == PacketTypes /\ PointTypes /\ FlagTypes

\* Who holds the connector, its status and the ends of the two channels.
Custody ==
    /\ sup \in {"prepare", "spawn"} => owner = "none" /\ channel = "none"
    /\ sup \notin {"prepare", "spawn", "returned"} => owner = "guard" /\ control = TRUE
    /\ sup = "awaitReady" => channel = "supervisor"
    /\ sup \in {"awaitTerminal", "reapTerminal", "reapChannel", "returned"} =>
          channel # "supervisor"
    /\ sup = "returned" => control = FALSE /\ owner # "guard"
    /\ (conn = "absent") <=> (owner = "none")
    /\ (conn = "dead") <=> (exit # "none")
    /\ owner = "collected" => conn = "dead"
    /\ owner = "reaper" => doomed = TRUE
    /\ (result = "none") <=> (sup # "returned")

\* The reports the supervisor has taken at each of its control points.
Taken ==
    /\ sup \in {"prepare", "spawn", "awaitReady"} =>
          ready = NoReport /\ report = NoReport
    /\ sup \in {"ready", "awaitTerminal"} =>
          ready = Ready(TRUE) /\ report = NoReport
    /\ sup = "reapSetup" =>
          ready = NoReport /\ report \in Failures \ {Failure("Channel")}
    /\ sup = "reapChannel" =>
          ready = Ready(TRUE) /\ report = Failure("Channel")
    /\ sup = "reapTerminal" => ready = Ready(TRUE) /\ report \in Terminals
    /\ channel = "child" => ready = Ready(TRUE)

\* What a returned result stands for.
Returned ==
    /\ result = "Ok" =>
          /\ ready = Ready(TRUE) /\ exit = "success" /\ owner = "collected"
          /\ report \in Terminals
          /\ \A d \in Directions : report.bytes[d] <= ByteLimit
    /\ result = "ConnectorFailed" =>
          /\ exit = "failure" /\ owner = "collected"
          /\ \/ ready = NoReport /\ report \in Failures \ {Failure("Channel")}
             \/ ready = Ready(TRUE) /\ report = Failure("Channel")

\* The packets sent so far, each still on the channel or taken: none, a
\* failure of setup, Ready, or Ready and one more.
NothingSent == ready = NoReport /\ report = NoReport /\ reports = <<>>
SetupFailureSent ==
    \E f \in Failures \ {Failure("Channel")} :
        /\ ready = NoReport
        /\ \/ report = NoReport /\ reports = <<f>>
           \/ report = f /\ reports = <<>>
ReadySent ==
    /\ report = NoReport
    /\ \/ ready = NoReport /\ reports = <<Ready(TRUE)>>
       \/ ready = Ready(TRUE) /\ reports = <<>>
ReadyAndSent(p) ==
    \/ ready = NoReport /\ report = NoReport /\ reports = <<Ready(TRUE), p>>
    \/ ready = Ready(TRUE) /\ report = NoReport /\ reports = <<p>>
    \/ ready = Ready(TRUE) /\ report = p /\ reports = <<>>

EndedBeforeReady == NothingSent \/ SetupFailureSent
EndedAfterReady ==
    \/ ReadySent \/ ReadyAndSent(Failure("Channel"))
    \/ ReadyAndSent(Terminal(moved, TRUE))

Booting == {"readPlan", "readTrust", "digest"}

\* The repository's connector: how far it came and what it has sent.
Honest ==
    stage # "foreign" =>
    /\ conn # "foreign"
    /\ conn \in {"absent"} \union Booting => stage = "none"
    /\ conn \in {"resolving", "connecting", "authenticating"} => stage = conn
    /\ conn \in {"reportReady", "proxying", "reportTerminal", "leaving"} =>
          stage = "authenticated"
    /\ stage # "none" => readChanged = {}
    /\ conn \in {"absent", "resolving", "connecting", "authenticating",
                 "reportReady"} \union Booting => NothingSent
    /\ conn \in {"proxying", "reportTerminal"} => ReadySent
    /\ conn = "leaving" => ReadyAndSent(Terminal(moved, TRUE))
    /\ conn \in {"failing", "dead"} =>
          EndedBeforeReady \/ (stage = "authenticated" /\ EndedAfterReady)
    /\ exit = "success" =>
          stage = "authenticated" /\ ReadyAndSent(Terminal(moved, TRUE))

\* A foreign executable runs only where the situation allows one.
Foreign == stage = "foreign" => scene.rogue /\ conn \in {"foreign", "dead"}

\* The inductive invariant.
ConnectorInv ==
    TypeOK /\ Custody /\ Taken /\ Returned /\ Honest /\ Foreign

-----------------------------------------------------------------------------
(* Packets and short sequences of them. *)

\* The kinds of packet differ, and a packet has the fields of its kind.
LEMMA PacketKinds ==
    /\ \A b \in BOOLEAN : Ready(b).kind = "Ready" /\ Ready(b).bound = b
    /\ Malformed.kind = "Malformed" /\ NoReport.kind = "none"
    /\ \A f \in Failures : /\ f.kind = "Failure" /\ f.stage \in FailureStages
                           /\ f = Failure(f.stage)
    /\ \A t \in Terminals : t.kind = "Terminal" /\ t.bytes \in [Directions -> Nat]
    /\ \A s \in FailureStages : Failure(s) \in Failures /\ Failure(s).stage = s
    /\ \A n \in [Directions -> Nat], a \in BOOLEAN :
          Terminal(n, a) \in Terminals /\ Terminal(n, a).bytes = n
  BY DEF Ready, Malformed, NoReport, Failures, Failure, Terminals, Terminal

\* Sequences with the same members are the same.
LEMMA SameSequence ==
    ASSUME NEW S, NEW s \in Seq(S), NEW t \in Seq(S), Len(s) = Len(t),
           \A i \in 1 .. Len(s) : s[i] = t[i]
    PROVE  s = t
<1>1. s = [i \in 1 .. Len(s) |-> s[i]] /\ t = [i \in 1 .. Len(t) |-> t[i]]
  OBVIOUS
<1> QED
  BY <1>1

\* What Append, Head and Tail do to at most two packets.
LEMMA ShortSequences ==
    ASSUME NEW p, NEW q
    PROVE  /\ Append(<<>>, p) = <<p>> /\ Append(<<p>>, q) = <<p, q>>
           /\ Head(<<p>>) = p /\ Head(<<p, q>>) = p
           /\ Tail(<<p>>) = <<>> /\ Tail(<<p, q>>) = <<q>>
           /\ <<p>> # <<>> /\ <<p, q>> # <<>>
<1>1. Append(<<>>, p) = <<p>> /\ Append(<<p>>, q) = <<p, q>>
  <2> DEFINE s == Append(<<p>>, q)
  <2>1. s \in Seq({p, q}) /\ Len(s) = 2 /\ s[1] = p /\ s[2] = q
    OBVIOUS
  <2>2. <<p, q>> \in Seq({p, q}) /\ Len(<<p, q>>) = 2
    OBVIOUS
  <2>3. \A i \in 1 .. 2 : s[i] = <<p, q>>[i]
    BY <2>1
  <2>4. s = <<p, q>>
    BY <2>1, <2>2, <2>3, SameSequence, Zenon
  <2> QED
    BY <2>4
<1>2. Head(<<p>>) = p /\ Head(<<p, q>>) = p
  OBVIOUS
<1>3. Tail(<<p>>) = <<>>
  OBVIOUS
<1>4. Tail(<<p, q>>) = <<q>>
  OBVIOUS
<1>5. <<p>> # <<>> /\ <<p, q>> # <<>>
  OBVIOUS
<1> QED
  BY <1>1, <1>2, <1>3, <1>4, <1>5

\* Every packet a foreign connector sends is a packet.
LEMMA AnyReportIsPacket == AnyReport \subseteq Packets
<1>1. Nothing \in [Directions -> Nat]
  BY DEF Nothing
<1>2. [Nothing EXCEPT !["childToService"] = ByteLimit + 1] \in [Directions -> Nat]
  BY <1>1, LimitAssumption DEF Nothing, Directions
<1>3. ASSUME NEW p \in AnyReport PROVE p \in Packets
  <2>1. CASE p \in {Ready(TRUE), Ready(FALSE), Malformed}
    BY <2>1, Zenon DEF Packets
  <2>2. CASE p \in {Failure(s) : s \in FailureStages}
    BY <2>2, Zenon DEF Packets, Failures
  <2>3. CASE \E a \in BOOLEAN : p = Terminal(Nothing, a)
    <3>1. PICK a \in BOOLEAN : p = Terminal(Nothing, a)
      BY <2>3
    <3>2. p \in Terminals
      BY <3>1, <1>1 DEF Terminals
    <3> QED
      BY <3>2, Zenon DEF Packets
  <2>4. CASE p = Terminal([Nothing EXCEPT !["childToService"] = ByteLimit + 1],
                          TRUE)
    BY <2>4, <1>2, PacketKinds, Zenon DEF Packets
  <2> QED
    BY <1>3, <2>1, <2>2, <2>3, <2>4, Zenon DEF AnyReport
<1> QED
  BY <1>3

-----------------------------------------------------------------------------
(* The steps of the environment and of the connector. *)

USE DEF supVars, connVars, wireVars

\* It holds initially.
LEMMA InitInv == Init => ConnectorInv
<1> SUFFICES ASSUME Init PROVE ConnectorInv
  OBVIOUS
<1>1. PacketTypes
  BY DEF Init, PacketTypes, Nothing
<1>2. PointTypes
  BY DEF Init, PointTypes, SupPoints, ConnPoints
<1>3. FlagTypes
  BY Zenon DEF Init, FlagTypes
<1>4. Custody
  BY DEF Init, Custody
<1>5. Taken
  BY PacketKinds DEF Init, Taken
<1>6. Returned /\ Foreign
  BY DEF Init, Returned, Foreign
<1>7. Honest
  BY DEF Init, Honest, NothingSent, Booting
<1> QED
  BY <1>1, <1>2, <1>3, <1>4, <1>5, <1>6, <1>7 DEF ConnectorInv, TypeOK

\* The clock, the artifacts and the child.
LEMMA EnvironmentInv ==
    ASSUME ConnectorInv, UNCHANGED scene,
           Tick \/ ChildClose \/ \E a \in scene.volatile : Change(a)
    PROVE  ConnectorInv'
<1>1. /\ UNCHANGED <<sup, checked, ready, report, result, conn, stage, readChanged,
                     moved, exit, reports, control, doomed, owner>>
      /\ late' \in BOOLEAN
      /\ channel' = channel \/ (channel = "child" /\ channel' = "closed")
  BY Zenon DEF Tick, ChildClose, Change, ConnectorInv, TypeOK, FlagTypes
<1>2. PacketTypes'
  BY <1>1, Zenon DEF ConnectorInv, TypeOK, PacketTypes
<1>3. PointTypes'
  BY <1>1 DEF ConnectorInv, TypeOK, PointTypes
<1>4. FlagTypes'
  BY <1>1 DEF ConnectorInv, TypeOK, FlagTypes
<1>5. Custody'
  BY <1>1 DEF ConnectorInv, Custody
<1>6. Taken'
  BY <1>1, Zenon DEF ConnectorInv, Taken
<1>7. Returned' /\ Foreign'
  BY <1>1, Zenon DEF ConnectorInv, Returned, Foreign
<1>8. Honest'
  BY <1>1, ZenonT(60)
     DEF ConnectorInv, Honest, NothingSent, SetupFailureSent, ReadySent,
              ReadyAndSent, EndedBeforeReady, EndedAfterReady
<1> QED
  BY <1>2, <1>3, <1>4, <1>5, <1>6, <1>7, <1>8 DEF ConnectorInv, TypeOK

\* The connector moves on without a packet.
LEMMA QuietStepInv ==
    ASSUME ConnectorInv, UNCHANGED scene,
           \/ ReadPlan \/ ReadTrust \/ CheckDigests \/ Resolve \/ Connect
           \/ Authenticate \/ ProxyEnd \/ \E d \in Directions : Proxy(d)
    PROVE  ConnectorInv'
<1> USE DEF ConnStep, Booting
<1>1. /\ UNCHANGED <<sup, checked, ready, report, result, late, control,
                     channel, doomed, owner, exit, reports>>
      /\ conn \notin {"absent", "foreign", "failing", "dead", "leaving"}
      /\ conn' \notin {"absent", "foreign", "failing", "dead", "leaving"}
      /\ conn' \in ConnPoints
      /\ stage' = stage
            \/ stage' \in {"resolving", "connecting", "authenticating",
                           "authenticated"}
      /\ moved' \in [Directions -> Nat]
  BY DEF ReadPlan, ReadTrust, CheckDigests, Resolve, Connect, Authenticate,
         ProxyEnd, Proxy, ConnectorInv, TypeOK, PacketTypes, ConnPoints
<1>2. PacketTypes'
  BY <1>1, Zenon DEF ConnectorInv, TypeOK, PacketTypes
<1>3. PointTypes'
  BY <1>1 DEF ConnectorInv, TypeOK, PointTypes
<1>4. FlagTypes'
  BY <1>1, Zenon DEF ConnectorInv, TypeOK, FlagTypes
<1>5. Custody' /\ Taken' /\ Returned'
  BY <1>1, Zenon DEF ConnectorInv, Custody, Taken, Returned
<1>6. stage # "foreign" /\ Foreign'
  BY <1>1, Zenon DEF ConnectorInv, Foreign
<1>7. Honest'
  BY <1>1, <1>6, ZenonT(60)
     DEF ReadPlan, ReadTrust, CheckDigests, Resolve, Connect, Authenticate,
         ProxyEnd, Proxy, ConnectorInv, Honest, NothingSent, ReadySent, Custody
<1> QED
  BY <1>2, <1>3, <1>4, <1>5, <1>6, <1>7 DEF ConnectorInv, TypeOK

\* The connector sends a packet, or finds the channel closed and fails.
LEMMA SendStepInv ==
    ASSUME ConnectorInv, UNCHANGED scene,
           SendReady \/ SendTerminal \/ ConnectorFail
    PROVE  ConnectorInv'
<1> USE DEF ConnStep, SendAndGo, Booting
<1>1. PICK p \in Packets, to \in {"proxying", "leaving", "failing"} :
        /\ SendAndGo(conn, p, to) /\ UNCHANGED <<stage, readChanged, moved, exit>>
        /\ \/ conn = "reportReady" /\ p = Ready(TRUE) /\ to = "proxying"
           \/ conn = "reportTerminal" /\ p = Terminal(moved, TRUE)
                /\ to = "leaving"
           \/ conn = "proxying" /\ p = Failure("Channel") /\ to = "failing"
           \/ /\ conn \in {"resolving", "connecting", "authenticating"}
                            \union Booting
              /\ p \in Failures \ {Failure("Channel")} /\ to = "failing"
  <2>1. CASE SendReady
    BY <2>1, Zenon DEF SendReady, Packets
  <2>2. CASE SendTerminal
    <3>1. Terminal(moved, TRUE) \in Packets
      BY PacketKinds, Zenon DEF ConnectorInv, TypeOK, PacketTypes, Packets
    <3> QED
      BY <2>2, <3>1, Zenon DEF SendTerminal
  <2>3. CASE ConnectorFail
    <3> DEFINE f == Failure(StageOf(conn))
    <3>1. \/ conn = "proxying" /\ StageOf(conn) = "Channel"
          \/ /\ conn \in {"resolving", "connecting", "authenticating"}
                           \union Booting
             /\ StageOf(conn) \in FailureStages \ {"Channel"}
      BY <2>3 DEF ConnectorFail, StageOf, FailureStages
    <3>2. f \in Failures /\ f.stage = StageOf(conn)
      BY <3>1, PacketKinds DEF FailureStages
    <3>3. f \in Packets /\ (conn = "proxying" \/ f # Failure("Channel"))
      BY <3>1, <3>2, PacketKinds, Zenon DEF Packets, FailureStages
    <3> HIDE DEF f
    <3>4. SendAndGo(conn, f, "failing")
            /\ UNCHANGED <<stage, readChanged, moved, exit>>
      BY <2>3, Zenon DEF ConnectorFail, f
    <3>5. conn = "proxying" => f = Failure("Channel")
      BY <3>1, Zenon DEF f
    <3> QED
      BY <3>1, <3>2, <3>3, <3>4, <3>5, Zenon
  <2> QED
    BY <2>1, <2>2, <2>3, Zenon
<1>2. /\ UNCHANGED <<sup, checked, ready, report, result, late, control,
                     channel, doomed, owner, exit, stage, moved, readChanged>>
      /\ conn \notin {"absent", "dead", "foreign"}
      /\ conn' \in {"proxying", "leaving", "failing"}
      /\ reports' = Append(reports, p) \/ reports' = reports
  BY <1>1, Zenon DEF ConnectorInv, FlagTypes
<1>3. PacketTypes'
  <2>1. reports \in Seq(Packets) /\ p \in Packets
    BY <1>1, Zenon DEF ConnectorInv, TypeOK, PacketTypes
  <2>2. Append(reports, p) \in Seq(Packets)
    BY <2>1
  <2> QED
    BY <1>2, <2>1, <2>2, Zenon DEF ConnectorInv, TypeOK, PacketTypes
<1>4. PointTypes'
  BY <1>2 DEF ConnectorInv, TypeOK, PointTypes, ConnPoints
<1>5. FlagTypes'
  BY <1>2, Zenon DEF ConnectorInv, TypeOK, FlagTypes
<1>6. Custody' /\ Taken' /\ Returned'
  BY <1>2, ZenonT(60) DEF ConnectorInv, Custody, Taken, Returned
<1>7. stage # "foreign" /\ Foreign'
  BY <1>2 DEF ConnectorInv, Foreign
<1>8. CASE ~control
  <2>1. conn' = "failing" /\ reports' = reports
    BY <1>1, <1>8
  <2> QED
    BY <1>1, <1>2, <1>3, <1>4, <1>5, <1>6, <1>7, <2>1, Zenon
       DEF ConnectorInv, TypeOK, Honest, Custody, NothingSent, ReadySent,
           EndedBeforeReady, EndedAfterReady
<1>9. CASE control
  <2>1. conn' = to /\ reports' = Append(reports, p)
    BY <1>1, <1>9
  <2>2. NothingSent =>
          ready' = NoReport /\ report' = NoReport /\ reports' = <<p>>
    BY <1>2, <2>1, ShortSequences DEF NothingSent
  <2>3. ReadySent => ReadyAndSent(p)'
    <3> SUFFICES ASSUME ReadySent PROVE ReadyAndSent(p)'
      OBVIOUS
    <3>1. \/ ready = NoReport /\ report = NoReport /\ reports = <<Ready(TRUE)>>
          \/ ready = Ready(TRUE) /\ report = NoReport /\ reports = <<>>
      BY Zenon DEF ReadySent
    <3>2. /\ Append(<<Ready(TRUE)>>, p) = <<Ready(TRUE), p>>
          /\ Append(<<>>, p) = <<p>>
      BY ShortSequences, Zenon
    <3> QED
      BY <1>2, <2>1, <3>1, <3>2, Zenon DEF ReadyAndSent
  <2>4. Honest'
    <3>1. CASE conn = "reportReady"
      BY <1>1, <1>2, <1>7, <2>1, <2>2, <3>1, Zenon
         DEF ConnectorInv, Honest, Custody, ReadySent
    <3>2. CASE conn = "reportTerminal"
      BY <1>1, <1>2, <1>7, <2>1, <2>3, <3>2, Zenon
         DEF ConnectorInv, Honest, Custody
    <3>3. CASE conn = "proxying"
      BY <1>1, <1>2, <1>7, <2>1, <2>3, <3>3, Zenon
         DEF ConnectorInv, Honest, Custody, EndedAfterReady
    <3>4. CASE conn \in {"resolving", "connecting", "authenticating"}
                          \union Booting
      <4>1. SetupFailureSent'
        BY <1>1, <1>2, <1>7, <2>1, <2>2, <3>4, Zenon
           DEF ConnectorInv, Honest, SetupFailureSent
      <4> QED
        BY <1>1, <1>2, <1>7, <2>1, <3>4, <4>1, Zenon
           DEF ConnectorInv, Honest, Custody, EndedBeforeReady
    <3> QED
      BY <1>1, <3>1, <3>2, <3>3, <3>4, Zenon
  <2> QED
    BY <1>3, <1>4, <1>5, <1>6, <1>7, <2>4 DEF ConnectorInv, TypeOK
<1> QED
  BY <1>8, <1>9

\* The connector ends.
LEMMA DieStepInv ==
    ASSUME ConnectorInv, UNCHANGED scene,
           \/ ConnectorExit \/ BootstrapFail \/ Crash \/ Killed
           \/ \E status \in {"success", "failure"} : RogueExit(status)
    PROVE  ConnectorInv'
<1>1. PICK status \in {"success", "failure"} :
        /\ Die(status) /\ conn \notin {"absent", "dead"}
        /\ status = "success" => conn \in {"leaving", "foreign"}
  BY DEF ConnectorExit, BootstrapFail, Crash, Killed, RogueExit, Running
<1>2. /\ UNCHANGED <<sup, checked, ready, report, result, late, stage, readChanged,
                     moved, reports, control, channel, doomed, owner>>
      /\ conn' = "dead" /\ exit' = status
  BY <1>1, Zenon DEF Die
<1>3. PacketTypes'
  BY <1>2, Zenon DEF ConnectorInv, TypeOK, PacketTypes
<1>4. PointTypes'
  BY <1>2 DEF ConnectorInv, TypeOK, PointTypes, ConnPoints
<1>5. FlagTypes'
  BY <1>2, Zenon DEF ConnectorInv, TypeOK, FlagTypes
<1>6. Custody' /\ Taken' /\ Foreign'
  BY <1>1, <1>2, ZenonT(60) DEF ConnectorInv, Custody, Taken, Foreign
<1>7. Returned'
  BY <1>1, <1>2, Zenon DEF ConnectorInv, Returned, Custody
<1>8. Honest'
  <2> SUFFICES ASSUME stage # "foreign" PROVE Honest'
    BY <1>2, Zenon DEF Honest
  <2>1. UNCHANGED <<ready, report, reports, moved>>
    BY <1>2
  <2>2. /\ NothingSent => EndedBeforeReady'
        /\ ReadySent => EndedAfterReady'
        /\ ReadyAndSent(Terminal(moved, TRUE)) =>
              EndedAfterReady' /\ ReadyAndSent(Terminal(moved, TRUE))'
        /\ EndedBeforeReady => EndedBeforeReady'
        /\ EndedAfterReady => EndedAfterReady'
    BY <2>1, Zenon
       DEF EndedBeforeReady, EndedAfterReady, NothingSent, ReadySent,
                SetupFailureSent, ReadyAndSent
  <2>3. EndedBeforeReady' \/ (stage = "authenticated" /\ EndedAfterReady')
    BY <1>1, <2>2, Zenon
       DEF ConnectorInv, Honest, Booting, TypeOK, PointTypes, ConnPoints
  <2>4. status = "success" =>
          stage = "authenticated" /\ ReadyAndSent(Terminal(moved, TRUE))'
    BY <1>1, <2>2, Zenon DEF ConnectorInv, Honest
  <2> QED
    BY <1>2, <2>3, <2>4, Zenon DEF ConnectorInv, Honest, Booting
<1> QED
  BY <1>3, <1>4, <1>5, <1>6, <1>7, <1>8, Zenon DEF ConnectorInv, TypeOK

\* A foreign connector sends a packet.
LEMMA RogueSendInv ==
    ASSUME ConnectorInv, UNCHANGED scene, NEW p \in AnyReport, RogueSend(p)
    PROVE  ConnectorInv'
<1>1. /\ UNCHANGED <<sup, checked, ready, report, result, late, stage, readChanged,
                     moved, control, channel, doomed, owner, conn, exit>>
      /\ reports' = Append(reports, p) /\ conn = "foreign"
  BY Zenon DEF RogueSend
<1>2. PacketTypes'
  <2>1. reports \in Seq(Packets) /\ p \in Packets
    BY AnyReportIsPacket DEF ConnectorInv, TypeOK, PacketTypes
  <2>2. Append(reports, p) \in Seq(Packets)
    BY <2>1
  <2> QED
    BY <1>1, <2>1, <2>2, Zenon DEF ConnectorInv, TypeOK, PacketTypes
<1>3. PointTypes'
  BY <1>1 DEF ConnectorInv, TypeOK, PointTypes
<1>4. FlagTypes'
  BY <1>1 DEF ConnectorInv, TypeOK, FlagTypes
<1>5. Custody' /\ Taken' /\ Returned' /\ Foreign'
  BY <1>1, Zenon DEF ConnectorInv, Custody, Taken, Returned, Foreign
<1>6. Honest'
  BY <1>1, Zenon DEF ConnectorInv, Honest
<1> QED
  BY <1>2, <1>3, <1>4, <1>5, <1>6, Zenon DEF ConnectorInv, TypeOK

-----------------------------------------------------------------------------
(* The steps of the supervisor. *)

\* The packets that were sent do not change with the supervisor's own state.
LEMMA SameSent ==
    ASSUME ConnectorInv,
           UNCHANGED <<conn, stage, readChanged, moved, exit, ready, report,
                       reports>>
    PROVE  Honest' /\ PacketTypes'
<1>1. PacketTypes'
  BY Zenon DEF ConnectorInv, TypeOK, PacketTypes
<1>2. Honest'
  BY Zenon DEF ConnectorInv, Honest, NothingSent, SetupFailureSent, ReadySent,
         ReadyAndSent, EndedBeforeReady, EndedAfterReady
<1> QED
  BY <1>1, <1>2

\* A call returns an error and gives the connector up.
LEMMA FailInv ==
    ASSUME ConnectorInv, UNCHANGED scene, sup # "returned",
           NEW e \in Errors \ {"ConnectorFailed"}, FailWith(e)
    PROVE  ConnectorInv'
<1>1. /\ UNCHANGED <<checked, ready, report, late, stage, readChanged, moved,
                     reports, conn, exit>>
      /\ sup' = "returned" /\ result' = e /\ control' = FALSE
      /\ channel' = IF channel = "supervisor" THEN "closed" ELSE channel
      /\ doomed' = IF owner = "guard" THEN TRUE ELSE doomed
      /\ owner' = IF owner = "guard" THEN "reaper" ELSE owner
  BY Zenon DEF FailWith
<1>2. Honest' /\ PacketTypes'
  BY <1>1, SameSent, Zenon
<1>3. PointTypes'
  BY <1>1 DEF ConnectorInv, TypeOK, PointTypes, SupPoints
<1>4. FlagTypes'
  BY <1>1, Zenon DEF ConnectorInv, TypeOK, FlagTypes
<1>5. e # "none" /\ e # "Ok"
  BY DEF Errors, PrepareErrors
<1>6. Custody'
  BY <1>1, <1>5, Zenon DEF ConnectorInv, Custody, TypeOK, PointTypes
<1>7. Taken'
  BY <1>1, Zenon DEF ConnectorInv, Taken
<1>8. Returned' /\ Foreign'
  BY <1>1, <1>5, Zenon DEF ConnectorInv, Returned, Foreign
<1> QED
  BY <1>2, <1>3, <1>4, <1>6, <1>7, <1>8 DEF ConnectorInv, TypeOK

\* A call collects the dead connector and returns e.
LEMMA ReapInv ==
    ASSUME ConnectorInv, UNCHANGED scene,
           sup \in {"reapSetup", "reapTerminal", "reapChannel"}, conn = "dead",
           NEW e \in Errors \union {"Ok"}, ReapWith(e),
           e = "Ok" => /\ sup = "reapTerminal" /\ exit = "success"
                       /\ \A d \in Directions : report.bytes[d] <= ByteLimit,
           e = "ConnectorFailed" =>
                sup \in {"reapSetup", "reapChannel"} /\ exit = "failure"
    PROVE  ConnectorInv'
<1>1. /\ UNCHANGED <<checked, ready, report, late, stage, readChanged, moved,
                     reports, conn, exit, doomed>>
      /\ sup' = "returned" /\ result' = e /\ control' = FALSE
      /\ channel' = IF channel = "supervisor" THEN "closed" ELSE channel
      /\ owner' = "collected"
  BY Zenon DEF ReapWith
<1>2. Honest' /\ PacketTypes'
  BY <1>1, SameSent, Zenon
<1>3. PointTypes'
  BY <1>1, Zenon DEF ConnectorInv, TypeOK, PointTypes, SupPoints
<1>4. FlagTypes'
  BY <1>1, Zenon DEF ConnectorInv, TypeOK, FlagTypes
<1>5. e # "none"
  BY Zenon DEF Errors, PrepareErrors
<1>6. Custody'
  BY <1>1, <1>5, Zenon DEF ConnectorInv, Custody, TypeOK, PointTypes
<1>7. Taken'
  BY <1>1, Zenon DEF ConnectorInv, Taken
<1>8. Returned' /\ Foreign'
  BY <1>1, Zenon DEF ConnectorInv, Returned, Foreign, Taken
<1> QED
  BY <1>2, <1>3, <1>4, <1>6, <1>7, <1>8, Zenon DEF ConnectorInv, TypeOK

\* The first packet of the channel is a packet, and the rest are packets.
LEMMA ReceivedPacket ==
    ASSUME ConnectorInv, NEW p, NEW point, Receive(point, p)
    PROVE  p \in Packets /\ Tail(reports) \in Seq(Packets)
  BY DEF Receive, ConnectorInv, TypeOK, PacketTypes

\* The supervisor takes p from the channel and moves on.
LEMMA TakeInv ==
    ASSUME ConnectorInv, UNCHANGED <<scene, checked, conn, stage, readChanged,
                                     moved, exit, control, channel, doomed,
                                     owner, result>>,
           late' \in BOOLEAN, reports' = Tail(reports),
           NEW p, reports # <<>>, p = Head(reports),
           \/ /\ sup = "awaitReady" /\ p = Ready(TRUE)
              /\ sup' = "ready" /\ ready' = p /\ UNCHANGED report
           \/ /\ sup = "awaitReady" /\ p \in Failures \ {Failure("Channel")}
              /\ sup' = "reapSetup" /\ report' = p /\ UNCHANGED ready
           \/ /\ sup = "awaitTerminal" /\ p \in Terminals
              /\ sup' = "reapTerminal" /\ report' = p /\ UNCHANGED ready
           \/ /\ sup = "awaitTerminal" /\ p = Failure("Channel")
              /\ sup' = "reapChannel" /\ report' = p /\ UNCHANGED ready
    PROVE  ConnectorInv'
<1>1. PacketTypes'
  <2>1. Tail(reports) \in Seq(Packets)
    BY DEF ConnectorInv, TypeOK, PacketTypes
  <2>2. Failure("Channel") \in Failures
    BY PacketKinds, Zenon DEF FailureStages
  <2>3. /\ ready' \in {NoReport, Ready(TRUE)}
        /\ report' \in Failures \union Terminals \union {NoReport}
    BY <2>2, Zenon DEF ConnectorInv, TypeOK, PacketTypes
  <2> QED
    BY <2>1, <2>3, Zenon DEF ConnectorInv, TypeOK, PacketTypes
<1>2. PointTypes'
  <2>1. sup' \in SupPoints
    BY Zenon DEF SupPoints
  <2> QED
    BY <2>1 DEF ConnectorInv, TypeOK, PointTypes
<1>3. FlagTypes'
  BY Zenon DEF ConnectorInv, TypeOK, FlagTypes
<1>4. Custody'
  BY Zenon DEF ConnectorInv, Custody
<1>5. Taken'
  BY Zenon DEF ConnectorInv, Taken, Custody
<1>6. Returned' /\ Foreign'
  BY Zenon DEF ConnectorInv, Returned, Foreign, Custody
<1>7. Honest'
  <2>1. /\ Ready(TRUE) # NoReport /\ Ready(TRUE) \notin Failures
        /\ Ready(TRUE) \notin Terminals
        /\ Failure("Channel") \in Failures
        /\ Terminal(moved, TRUE) \in Terminals
        /\ \A f \in Failures : f \notin Terminals
    BY PacketKinds, Zenon
       DEF ConnectorInv, TypeOK, PacketTypes, FailureStages
  <2>2. ~NothingSent
    BY Zenon DEF NothingSent
  <2>3. ASSUME SetupFailureSent PROVE SetupFailureSent'
    <3>1. PICK f \in Failures \ {Failure("Channel")} :
            ready = NoReport /\ report = NoReport /\ reports = <<f>>
      BY <2>3, Zenon DEF SetupFailureSent
    <3>2. p = f /\ reports' = <<>>
      BY <3>1, ShortSequences, Zenon
    <3>3. ready' = NoReport /\ report' = f
      BY <2>1, <3>1, <3>2, Zenon DEF ConnectorInv, Taken
    <3> QED
      BY <3>2, <3>3, Zenon DEF SetupFailureSent
  <2>4. ReadySent => ReadySent'
    BY <2>1, ShortSequences, ZenonT(60) DEF ReadySent, ConnectorInv, Taken
  <2>5. ASSUME NEW q \in {Failure("Channel"), Terminal(moved, TRUE)},
               ReadyAndSent(q)
        PROVE  ReadyAndSent(q)'
    <3>1. CASE ready = NoReport /\ report = NoReport
                 /\ reports = <<Ready(TRUE), q>>
      <4>1. p = Ready(TRUE) /\ reports' = <<q>>
        BY <3>1, ShortSequences
      <4> QED
        BY <2>1, <3>1, <4>1, Zenon DEF ReadyAndSent
    <3>2. CASE ready = Ready(TRUE) /\ report = NoReport /\ reports = <<q>>
      <4>1. p = q /\ reports' = <<>>
        BY <3>2, ShortSequences, Zenon
      <4> QED
        BY <2>1, <2>5, <3>2, <4>1, Zenon DEF ReadyAndSent, ConnectorInv, Taken
    <3> QED
      BY <2>5, <3>1, <3>2, Zenon DEF ReadyAndSent
  <2>6. /\ EndedBeforeReady => EndedBeforeReady'
        /\ EndedAfterReady => EndedAfterReady'
        /\ ReadyAndSent(Terminal(moved, TRUE)) =>
              ReadyAndSent(Terminal(moved, TRUE))'
    BY <2>2, <2>3, <2>4, <2>5, Zenon DEF EndedBeforeReady, EndedAfterReady
  <2> QED
    BY <2>2, <2>4, <2>6, Zenon DEF ConnectorInv, Honest
<1> QED
  BY <1>1, <1>2, <1>3, <1>4, <1>5, <1>6, <1>7, Zenon DEF ConnectorInv, TypeOK

\* One report of the channel is handled.
LEMMA ReportInv ==
    ASSUME ConnectorInv, UNCHANGED scene, NEW p,
           \/ AcceptReady(p) \/ SetupFailure(p) \/ WrongSetupReport(p)
           \/ AcceptTerminal(p) \/ ChannelFailure(p) \/ WrongTerminalReport(p)
    PROVE  ConnectorInv'
<1> USE DEF Receive
<1>1. p \in Packets
  BY ReceivedPacket, Zenon
     DEF AcceptReady, SetupFailure, WrongSetupReport, AcceptTerminal,
         ChannelFailure, WrongTerminalReport
<1>2. {"Protocol", "BindingInvalid"} \subseteq Errors \ {"ConnectorFailed"}
  BY Zenon DEF Errors, PrepareErrors
<1>3. CASE AcceptReady(p)
  <2>1. p \in {Ready(TRUE), Ready(FALSE)}
    BY <1>1, <1>3, PacketKinds, Zenon DEF AcceptReady, Packets
  <2>2. CASE p = Ready(TRUE)
    <3>1. BindingHolds(p)
      BY <2>2, PacketKinds, Zenon DEF BindingHolds
    <3> QED
      BY <1>3, <2>2, <3>1, TakeInv, Zenon DEF AcceptReady
  <2>3. CASE p = Ready(FALSE)
    <3>1. ~BindingHolds(p)
      BY <2>3, PacketKinds, Zenon DEF BindingHolds
    <3> QED
      BY <1>2, <1>3, <3>1, FailInv, Zenon DEF AcceptReady
  <2> QED
    BY <2>1, <2>2, <2>3, Zenon
<1>4. CASE SetupFailure(p)
  <2>1. p \in Failures /\ p = Failure(p.stage)
    BY <1>1, <1>4, PacketKinds, Zenon DEF SetupFailure, Packets
  <2>2. CASE p.stage = "Channel"
    BY <1>2, <1>4, <2>2, FailInv, Zenon DEF SetupFailure
  <2>3. CASE p.stage # "Channel"
    <3>1. p # Failure("Channel")
      BY <2>3, PacketKinds, Zenon DEF FailureStages
    <3> QED
      BY <1>4, <2>1, <2>3, <3>1, TakeInv, Zenon
         DEF SetupFailure, ConnectorInv, TypeOK, FlagTypes
  <2> QED
    BY <2>2, <2>3, Zenon
<1>5. CASE WrongSetupReport(p) \/ WrongTerminalReport(p)
  BY <1>2, <1>5, FailInv, Zenon DEF WrongSetupReport, WrongTerminalReport
<1>6. CASE AcceptTerminal(p)
  <2>1. p \in Terminals
    BY <1>1, <1>6, PacketKinds, Zenon DEF AcceptTerminal, Packets
  <2> QED
    BY <1>6, <2>1, TakeInv, Zenon
       DEF AcceptTerminal, ConnectorInv, TypeOK, FlagTypes
<1>7. CASE ChannelFailure(p)
  <2>1. p = Failure(p.stage)
    BY <1>1, <1>7, PacketKinds, Zenon DEF ChannelFailure, Packets
  <2>2. CASE p.stage # "Channel"
    BY <1>2, <1>7, <2>2, FailInv, Zenon DEF ChannelFailure
  <2>3. CASE p.stage = "Channel"
    BY <1>7, <2>1, <2>3, TakeInv, Zenon
       DEF ChannelFailure, ConnectorInv, TypeOK, FlagTypes
  <2> QED
    BY <2>2, <2>3
<1> QED
  BY <1>3, <1>4, <1>5, <1>6, <1>7, Zenon

\* prepare and spawn.
LEMMA SetupInv ==
    ASSUME ConnectorInv, UNCHANGED scene,
           \/ \E e \in PrepareErrors : Refuse(e)
           \/ Revalidate("prepare", PrepareOrder) \/ Prepared
           \/ Revalidate("spawn", SpawnOrder) \/ SpawnConnector
           \/ \E e \in Errors : SpawnFail(e)
    PROVE  ConnectorInv'
<1>1. ASSUME NEW e \in PrepareErrors, Refuse(e) PROVE ConnectorInv'
  <2>1. e \in Errors \ {"ConnectorFailed"}
    BY Zenon DEF Errors, PrepareErrors
  <2> QED
    BY <1>1, <2>1, FailInv, Zenon DEF Refuse
<1>2. ASSUME NEW e \in Errors, SpawnFail(e) PROVE ConnectorInv'
  <2>1. e # "ConnectorFailed" /\ sup # "returned" /\ FailWith(e)
    BY <1>2, Zenon DEF SpawnFail
  <2> QED
    BY <2>1, FailInv, Zenon
<1>3. ASSUME \/ Revalidate("prepare", PrepareOrder) \/ Revalidate("spawn", SpawnOrder)
             \/ Prepared
      PROVE  ConnectorInv'
  <2>1. CASE FailWith("ArtifactIdentityDrift") /\ sup # "returned"
    <3>1. "ArtifactIdentityDrift" \in Errors \ {"ConnectorFailed"}
      BY Zenon DEF Errors
    <3> QED
      BY <2>1, <3>1, FailInv, Zenon
  <2>2. CASE /\ UNCHANGED <<changed, late, connVars, wireVars, channel, ready,
                            report, doomed, owner, result>>
             /\ sup \in {"prepare", "spawn"} /\ sup' \in {"prepare", "spawn"}
             /\ checked' \in Nat
    <3>1. Honest' /\ PacketTypes'
      BY <2>2, SameSent, Zenon
    <3>2. PointTypes'
      BY <2>2 DEF ConnectorInv, TypeOK, PointTypes, SupPoints
    <3>3. FlagTypes'
      BY <2>2, Zenon DEF ConnectorInv, TypeOK, FlagTypes
    <3>4. Custody' /\ Taken'
      BY <2>2, Zenon DEF ConnectorInv, Custody, Taken
    <3>5. Returned' /\ Foreign'
      BY <2>2, Zenon DEF ConnectorInv, Returned, Foreign
    <3> QED
      BY <3>1, <3>2, <3>3, <3>4, <3>5, Zenon DEF ConnectorInv, TypeOK
  <2>3. checked \in Nat
    BY Zenon DEF ConnectorInv, TypeOK, PointTypes
  <2> QED
    BY <1>3, <2>1, <2>2, <2>3 DEF Revalidate, Prepared
<1>4. CASE SpawnConnector
  <2>1. /\ UNCHANGED <<checked, late, readChanged, moved, exit, reports,
                       ready, report, doomed, result>>
        /\ sup = "spawn" /\ sup' = "awaitReady" /\ control' = TRUE
        /\ channel' = "supervisor" /\ owner' = "guard"
        /\ \/ conn' = "readPlan" /\ stage' = stage
           \/ scene.rogue /\ conn' = "foreign" /\ stage' = "foreign"
    BY <1>4, Zenon DEF SpawnConnector
  <2>2. conn = "absent" /\ stage = "none" /\ NothingSent
    BY <2>1, Zenon DEF ConnectorInv, Custody, Honest, Foreign
  <2>3. PacketTypes'
    BY <2>1, Zenon DEF ConnectorInv, TypeOK, PacketTypes
  <2>4. PointTypes'
    BY <2>1, Zenon DEF ConnectorInv, TypeOK, PointTypes, SupPoints, ConnPoints
  <2>5. FlagTypes'
    BY <2>1, Zenon DEF ConnectorInv, TypeOK, FlagTypes
  <2>6. Custody'
    BY <2>1, <2>2, Zenon DEF ConnectorInv, Custody
  <2>7. Taken'
    BY <2>1, <2>2, Zenon DEF ConnectorInv, Taken, Custody
  <2>8. Returned'
    BY <2>1, Zenon DEF ConnectorInv, Returned, Custody
  <2>9. Honest' /\ Foreign'
    BY <2>1, <2>2, Zenon
       DEF ConnectorInv, Honest, Foreign, NothingSent, Booting,
                      Custody
  <2> QED
    BY <2>3, <2>4, <2>5, <2>6, <2>7, <2>8, <2>9, Zenon
       DEF ConnectorInv, TypeOK
<1> QED
  BY <1>1, <1>2, <1>3, <1>4, Zenon

\* Deadlines, errors of the channel and the collection of the connector.
LEMMA EndInv ==
    ASSUME ConnectorInv, UNCHANGED scene,
           \/ Timeout \/ ReceiveError \/ ReapFailed \/ ReapTerminal
           \/ ReapTerminalLate \/ WaitFail
    PROVE  ConnectorInv'
<1>1. {"Timeout", "Protocol", "Wait", "Exit", "BindingInvalid"}
        \subseteq Errors \ {"ConnectorFailed"}
  BY DEF Errors, PrepareErrors
<1>2. CASE Timeout \/ ReceiveError \/ WaitFail
  BY <1>1, <1>2, FailInv, Zenon DEF Timeout, ReceiveError, WaitFail
<1>3. CASE ReapFailed
  <2>1. "ConnectorFailed" \in Errors
    BY Zenon DEF Errors
  <2>2. CASE exit = "failure"
    BY <1>3, <2>1, <2>2, ReapInv, Zenon DEF ReapFailed
  <2>3. CASE exit # "failure"
    BY <1>1, <1>3, <2>3, ReapInv, Zenon DEF ReapFailed
  <2> QED
    BY <2>2, <2>3, Zenon
<1>4. CASE ReapTerminal
  <2>1. CASE exit # "success"
    BY <1>1, <1>4, <2>1, ReapInv, Zenon DEF ReapTerminal
  <2>2. CASE exit = "success" /\ TerminalValid
    BY <1>4, <2>2, ReapInv, Zenon DEF ReapTerminal, TerminalValid
  <2>3. CASE exit = "success" /\ ~TerminalValid
    BY <1>1, <1>4, <2>3, ReapInv, Zenon DEF ReapTerminal
  <2> QED
    BY <2>1, <2>2, <2>3, Zenon
<1>5. CASE ReapTerminalLate
  BY <1>1, <1>5, ReapInv, Zenon DEF ReapTerminalLate
<1> QED
  BY <1>2, <1>3, <1>4, <1>5

\* The caller and the reaper thread.
LEMMA CallerInv ==
    ASSUME ConnectorInv, UNCHANGED scene, CallerStep \/ Reaper
    PROVE  ConnectorInv'
<1>1. {"Timeout", "Dropped"} \subseteq Errors \ {"ConnectorFailed"}
  BY Zenon DEF Errors
<1>2. CASE Abandon
  BY <1>1, <1>2, FailInv, Zenon DEF Abandon
<1>3. CASE Finish /\ late
  BY <1>1, <1>3, FailInv, Zenon DEF Finish
<1>4. ASSUME /\ UNCHANGED <<checked, ready, report, result, late, connVars,
                            wireVars, doomed>>
             /\ \/ /\ sup = "ready" /\ sup' \in {"ready", "awaitTerminal"}
                   /\ owner' = owner
                   /\ channel' \in {channel, "child", "closed"}
                   /\ sup' = "awaitTerminal" => channel' # "supervisor"
                \/ /\ owner = "reaper" /\ conn = "dead" /\ owner' = "collected"
                   /\ sup' = sup /\ channel' = channel
      PROVE  ConnectorInv'
  <2>1. Honest' /\ PacketTypes'
    BY <1>4, SameSent, Zenon
  <2>2. PointTypes'
    BY <1>4 DEF ConnectorInv, TypeOK, PointTypes, SupPoints
  <2>3. FlagTypes'
    BY <1>4, Zenon DEF ConnectorInv, TypeOK, FlagTypes
  <2>4. Custody'
    BY <1>4, Zenon DEF ConnectorInv, Custody
  <2>5. Taken'
    BY <1>4, Zenon DEF ConnectorInv, Taken
  <2>6. Returned' /\ Foreign'
    BY <1>4, Zenon DEF ConnectorInv, Returned, Foreign
  <2> QED
    BY <2>1, <2>2, <2>3, <2>4, <2>5, <2>6, Zenon DEF ConnectorInv, TypeOK
<1>5. CASE TakeChildChannel
  BY <1>4, <1>5, Zenon DEF TakeChildChannel
<1>6. CASE Finish /\ ~late
  BY <1>4, <1>6, Zenon DEF Finish
<1>7. CASE Reaper
  BY <1>4, <1>7, Zenon DEF Reaper
<1> QED
  BY <1>2, <1>3, <1>5, <1>6, <1>7 DEF CallerStep

-----------------------------------------------------------------------------
(* The invariant and what follows from it. *)

\* Every step preserves the invariant.
LEMMA StepInv == ASSUME ConnectorInv, [Next]_vars PROVE ConnectorInv'
<1>1. CASE UNCHANGED vars
  <2>1. Honest' /\ PacketTypes'
    BY <1>1, SameSent, Zenon DEF vars
  <2>2. PointTypes'
    BY <1>1 DEF vars, ConnectorInv, TypeOK, PointTypes
  <2>5. Returned' /\ Foreign'
    BY <1>1, Zenon DEF vars, ConnectorInv, Returned, Foreign
  <2>3. FlagTypes'
    BY <1>1, Zenon DEF vars, ConnectorInv, TypeOK, FlagTypes
  <2>4. Custody' /\ Taken'
    BY <1>1, Zenon DEF vars, ConnectorInv, Custody, Taken
  <2> QED
    BY <2>1, <2>2, <2>3, <2>4, <2>5, Zenon DEF ConnectorInv, TypeOK
<1>2. CASE ConnectorNext /\ UNCHANGED scene
  BY <1>2, QuietStepInv, SendStepInv, DieStepInv, RogueSendInv, Zenon
     DEF ConnectorNext
<1>3. CASE SupervisorStep /\ UNCHANGED scene
  BY <1>3, SetupInv, EndInv, ReportInv, Zenon DEF SupervisorStep
<1>4. CASE (CallerStep \/ Reaper) /\ UNCHANGED scene
  BY <1>4, CallerInv, Zenon
<1>5. CASE Killed /\ UNCHANGED scene
  BY <1>5, DieStepInv, Zenon
<1>6. CASE /\ Tick \/ ChildClose \/ \E a \in scene.volatile : Change(a)
           /\ UNCHANGED scene
  BY <1>6, EnvironmentInv, Zenon
<1> QED
  BY <1>1, <1>2, <1>3, <1>4, <1>5, <1>6, Zenon DEF Next, Done

\* The invariant holds in every reachable state.
LEMMA Invariance == Spec => []ConnectorInv
<1>1. ConnectorInv /\ [Next]_vars => ConnectorInv'
  BY StepInv, Zenon
<1> QED
  BY InitInv, <1>1, PTL DEF Spec

\* What spawn and finish return is what happened: a session returned as closed
\* was opened by an accepted Ready, its connector exited with success and is
\* collected, its counts are within the limits and, for the repository's
\* connector, are the traffic it moved; a reported failure belongs to a
\* connector that failed in a stage it could fail in.
THEOREM ConnectorResultsAreTruthful == Spec => []ResultIsTruthful
<1>1. ConnectorInv => ResultIsTruthful
  <2> SUFFICES ASSUME ConnectorInv PROVE ResultIsTruthful
    BY Zenon
  <2>1. /\ Ready(TRUE) # NoReport /\ Failure("Channel").stage = "Channel"
        /\ \A f \in Failures \ {Failure("Channel")} : f.stage # "Channel"
        /\ \A t \in Terminals : t.kind = "Terminal"
        /\ Terminal(moved, TRUE).bytes = moved
        /\ NoReport \notin Terminals
    <3>1. moved \in [Directions -> Nat]
      BY Zenon DEF ConnectorInv, TypeOK, PacketTypes
    <3>2. Ready(TRUE) # NoReport /\ NoReport \notin Terminals
      BY PacketKinds, Zenon
    <3>3. Failure("Channel").stage = "Channel"
      BY PacketKinds, Zenon DEF FailureStages
    <3>4. \A f \in Failures \ {Failure("Channel")} : f.stage # "Channel"
      BY PacketKinds
    <3> QED
      BY <3>1, <3>2, <3>3, <3>4, PacketKinds, Zenon
  <2>2. ASSUME result = "Ok"
        PROVE  /\ ready = Ready(TRUE) /\ conn = "dead" /\ exit = "success"
               /\ owner = "collected" /\ channel # "supervisor"
               /\ report.kind = "Terminal"
               /\ \A d \in Directions : report.bytes[d] <= ByteLimit
               /\ stage # "foreign" => report.bytes = moved
    <3>1. sup = "returned" /\ conn = "dead"
      BY <2>2, Zenon DEF ConnectorInv, Custody, Returned, TypeOK, PointTypes
    <3>2. stage # "foreign" => report = Terminal(moved, TRUE)
      BY <2>1, <2>2, Zenon DEF ConnectorInv, Returned, Honest, ReadyAndSent
    <3> QED
      BY <2>1, <2>2, <3>1, <3>2, Zenon DEF ConnectorInv, Custody, Returned
  <2>3. ASSUME result = "ConnectorFailed"
        PROVE  /\ exit = "failure" /\ owner = "collected"
               /\ (report.stage = "Channel") = (ready # NoReport)
               /\ ready # NoReport => stage \in {"authenticated", "foreign"}
    <3>1. exit = "failure" /\ owner = "collected" /\ conn = "dead"
      BY <2>3, Zenon DEF ConnectorInv, Returned, Custody
    <3>2. (report.stage = "Channel") <=> (ready # NoReport)
      BY <2>1, <2>3, Zenon DEF ConnectorInv, Returned
    <3>3. ready # NoReport => stage \in {"authenticated", "foreign"}
      BY <3>1, Zenon
         DEF ConnectorInv, Honest, EndedBeforeReady, NothingSent,
             SetupFailureSent
    <3> QED
      BY <3>1, <3>2, <3>3, Zenon
  <2> QED
    BY <2>2, <2>3, Zenon DEF ResultIsTruthful
<1> QED
  BY Invariance, <1>1, PTL

\* The child's end of the channel leaves the supervisor only after the
\* connector authenticated the service with the identified plan and trust
\* roots (CheckDigests, AcceptReady, take_child_channel).
THEOREM ChannelsAreAuthenticated == Spec => []ChannelOnlyWhenAuthenticated
<1>1. ConnectorInv => ChannelOnlyWhenAuthenticated
  <2> SUFFICES ASSUME ConnectorInv, channel = "child", stage # "foreign"
               PROVE  stage = "authenticated" /\ readChanged = {}
    BY Zenon DEF ChannelOnlyWhenAuthenticated
  <2>1. ready = Ready(TRUE) /\ Ready(TRUE) # NoReport
    BY PacketKinds, Zenon DEF ConnectorInv, Taken
  <2>2. ~NothingSent /\ ~EndedBeforeReady
    BY <2>1, Zenon DEF EndedBeforeReady, NothingSent, SetupFailureSent
  <2>3. stage = "authenticated"
    BY <2>2, Zenon
       DEF ConnectorInv, Honest, TypeOK, PointTypes, ConnPoints, Booting
  <2> QED
    BY <2>3, Zenon DEF ConnectorInv, Honest
<1> QED
  BY Invariance, <1>1, PTL

\* A connector the supervisor is done with is collected, or dead or being
\* killed with the reaper thread waiting for it, and its reports reach nobody
\* (terminate_without_blocking).
THEOREM ConnectorsAreWatched == Spec => []NoUnwatchedConnector
<1>1. ConnectorInv => NoUnwatchedConnector
  BY Zenon
     DEF ConnectorInv, NoUnwatchedConnector, Custody, Running, TypeOK,
         PointTypes, ConnPoints
<1> QED
  BY Invariance, <1>1, PTL

-----------------------------------------------------------------------------
(* The refinement of the pure lifecycle. *)

\* The phases in which the supervisor waits for the end of the session.
Closing == {"awaitTerminal", "reapTerminal", "reapChannel"}

\* The phase of a session that has not returned.
OpenPhase ==
    result = "none" =>
        /\ ReasonOf = "none"
        /\ sup \in Closing => Phase = "Closing"
        /\ sup = "ready" =>
              Phase = IF channel = "supervisor" THEN "Ready" ELSE "Active"
        /\ sup \notin Closing \union {"ready"} =>
              /\ stage = "none" => Phase = "Created"
              /\ stage = "resolving" => Phase = "Resolving"
              /\ stage = "connecting" => Phase = "Connecting"
              /\ stage \in {"authenticating", "authenticated"} =>
                    Phase = "Authenticating"

\* The two ways in which it returns.
ReturnedPhase ==
    /\ result = "Ok" => Phase = "Closed" /\ ReasonOf = "none"
    /\ result \notin {"none", "Ok"} =>
          Phase = "Failed" /\ ReasonOf \in Lifecycle!Reasons

\* The phases and reasons are these in every state.
LEMMA PhaseValues == OpenPhase /\ ReturnedPhase
<1>1. OpenPhase
  BY DEF OpenPhase, Phase, SetupPhase, Closing, Failed, ReasonOf
<1>2. ReturnedPhase
  BY DEF ReturnedPhase, Phase, ReasonOf, Failed, Lifecycle!Reasons
<1> QED
  BY <1>1, <1>2, Zenon

\* The same after a step.
LEMMA NextPhaseValues == OpenPhase' /\ ReturnedPhase'
<1>1. OpenPhase'
  BY DEF OpenPhase, Phase, SetupPhase, Closing, Failed, ReasonOf
<1>2. ReturnedPhase'
  BY DEF ReturnedPhase, Phase, ReasonOf, Failed, Lifecycle!Reasons
<1> QED
  BY <1>1, <1>2, Zenon

\* A call that returned changes nothing any more.
LEMMA ReturnedStays ==
    ASSUME ConnectorInv, [Next]_vars, result # "none"
    PROVE  UNCHANGED <<result, report>>
<1>1. sup = "returned"
  BY Zenon DEF ConnectorInv, Custody
<1>2. CASE UNCHANGED vars
  BY <1>2, Zenon DEF vars
<1>3. CASE ConnectorNext
  BY <1>3, ZenonT(40)
     DEF ConnectorNext, ReadPlan, ReadTrust, CheckDigests, Resolve,
     Connect, Authenticate, SendReady, ProxyEnd, SendTerminal, Proxy,
     ConnectorFail, ConnectorExit, BootstrapFail, Crash, RogueSend, RogueExit,
     ConnStep, SendAndGo, Die
<1>4. CASE SupervisorStep
  BY <1>1, <1>4, ZenonT(40) DEF SupervisorStep, Refuse, Revalidate, Prepared,
     SpawnConnector, SpawnFail, Timeout, ReceiveError, Receive, AcceptReady,
     SetupFailure, WrongSetupReport, AcceptTerminal, ChannelFailure,
     WrongTerminalReport, ReapFailed, ReapTerminal, ReapTerminalLate, WaitFail
<1>5. CASE \/ CallerStep \/ Killed \/ Reaper \/ Tick \/ ChildClose \/ Done
           \/ \E a \in scene.volatile : Change(a)
  BY <1>1, <1>5, Zenon
     DEF CallerStep, TakeChildChannel, Finish, Abandon, Killed, Die,
     Reaper, Tick, ChildClose, Done, Change, vars
<1> QED
  BY <1>2, <1>3, <1>4, <1>5, Zenon DEF Next

\* The steps of an orderly session that has not returned: one that keeps the
\* phase, and one for each move of the lifecycle.
Setup == {"prepare", "spawn", "awaitReady", "reapSetup"}

KeepsPhase ==
    /\ stage' = stage
    /\ \/ sup' = sup /\ (channel' = "supervisor" <=> channel = "supervisor")
       \/ sup' = sup /\ sup # "ready"
       \/ sup \in Setup /\ sup' \in Setup
       \/ sup \in Closing /\ sup' \in Closing
NextStage ==
    /\ sup = "awaitReady" /\ sup' = "awaitReady"
    /\ \/ stage = "none" /\ stage' = "resolving"
       \/ stage = "resolving" /\ stage' = "connecting"
       \/ stage = "connecting" /\ stage' = "authenticating"
       \/ stage = "authenticating" /\ stage' = "authenticated"
BecomesReady ==
    /\ sup = "awaitReady" /\ sup' = "ready" /\ channel' = "supervisor"
    /\ stage = "authenticated"
Transfers ==
    sup = "ready" /\ sup' = "ready" /\ channel = "supervisor"
        /\ channel' # "supervisor"
BeginsClose ==
    sup = "ready" /\ sup' = "awaitTerminal" /\ channel # "supervisor"

\* A connector that is not foreign has sent nothing until it reported Ready.
LEMMA QuietConnector ==
    ASSUME ConnectorInv, result = "none", stage # "foreign",
           conn \in {"digest", "resolving", "connecting", "authenticating"}
    PROVE  sup = "awaitReady"
<1>1. NothingSent /\ owner # "none" /\ sup \in SupPoints \ {"returned"}
  BY Zenon DEF ConnectorInv, Honest, Custody, Booting, TypeOK, PointTypes
<1>2. NoReport \notin Failures /\ NoReport # Ready(TRUE)
  BY PacketKinds, Zenon
<1> QED
  BY <1>1, <1>2, Zenon DEF ConnectorInv, Taken, Custody, NothingSent, SupPoints

\* The connector's steps keep the phase or reach the next stage.
LEMMA ConnectorPhase ==
    ASSUME ConnectorInv, ConnectorNext, result = "none", stage # "foreign"
    PROVE  KeepsPhase \/ NextStage
<1> USE DEF ConnStep, SendAndGo, Die
<1>1. CASE CheckDigests \/ Resolve \/ Connect \/ Authenticate
  <2>1. sup = "awaitReady"
    BY <1>1, QuietConnector, Zenon
       DEF CheckDigests, Resolve, Connect, Authenticate
  <2> QED
    BY <1>1, <2>1, Zenon
       DEF CheckDigests, Resolve, Connect, Authenticate, NextStage,
           ConnectorInv, Honest, Booting
<1>2. CASE ~(CheckDigests \/ Resolve \/ Connect \/ Authenticate)
  BY <1>2, Zenon DEF ConnectorNext, ReadPlan, ReadTrust, SendReady, ProxyEnd,
     SendTerminal, Proxy, ConnectorFail, ConnectorExit, BootstrapFail, Crash,
     RogueSend, RogueExit, KeepsPhase
<1> QED
  BY <1>1, <1>2

\* A Ready that can be taken is one of an authenticated connector.
LEMMA ReadyPhase ==
    ASSUME ConnectorInv, NEW p, AcceptReady(p), BindingHolds(p),
           stage # "foreign"
    PROVE  BecomesReady
<1>1. /\ sup = "awaitReady" /\ sup' = "ready" /\ channel' = channel
      /\ reports # <<>> /\ Head(reports).kind = "Ready"
  BY Zenon DEF AcceptReady, Receive
<1>2. channel = "supervisor" /\ owner # "none"
  BY <1>1, Zenon DEF ConnectorInv, Custody
<1>3. ~NothingSent
  BY <1>1 DEF NothingSent
<1>4. ~SetupFailureSent
  <2> SUFFICES ASSUME SetupFailureSent PROVE FALSE
    OBVIOUS
  <2>1. PICK f \in Failures : reports = <<f>>
    BY <1>1, Zenon DEF SetupFailureSent
  <2>2. f.kind = "Ready"
    BY <1>1, <2>1, ShortSequences
  <2> QED
    BY <2>1, <2>2, PacketKinds, Zenon
<1>5. stage = "authenticated"
  BY <1>2, <1>3, <1>4, Zenon
     DEF ConnectorInv, Honest, EndedBeforeReady, Custody, TypeOK, PointTypes,
         ConnPoints, Booting
<1> QED
  BY <1>1, <1>2, <1>5 DEF BecomesReady

\* The supervisor's steps that do not return keep the phase or become ready.
LEMMA SupervisorPhase ==
    ASSUME ConnectorInv, SupervisorStep, result = "none", result' = "none",
           ~scene.rogue, stage # "foreign"
    PROVE  KeepsPhase \/ BecomesReady
<1>1. \A e \in Errors \union {"Ok"} : ~FailWith(e) /\ ~ReapWith(e)
  BY Zenon DEF FailWith, ReapWith, Errors, PrepareErrors
<1>2. ASSUME NEW e \in PrepareErrors PROVE ~Refuse(e)
  <2>1. e \in Errors
    BY DEF Errors
  <2> QED
    BY <1>1, <2>1, Zenon DEF Refuse
<1>3. ASSUME NEW e \in Errors PROVE ~SpawnFail(e)
  BY <1>1, Zenon DEF SpawnFail
<1>4. ~(Timeout \/ ReceiveError \/ ReapFailed \/ ReapTerminal
        \/ ReapTerminalLate \/ WaitFail)
  <2>1. {"Timeout", "Protocol", "Wait", "Exit", "BindingInvalid",
         "ConnectorFailed", "Ok"} \subseteq Errors \union {"Ok"}
    BY DEF Errors, PrepareErrors
  <2> QED
    BY <1>1, <2>1, Zenon
       DEF Timeout, ReceiveError, ReapFailed, ReapTerminal, ReapTerminalLate,
           WaitFail
<1>5. CASE \/ Revalidate("prepare", PrepareOrder) \/ Prepared
           \/ Revalidate("spawn", SpawnOrder) \/ SpawnConnector
  <2>1. ~FailWith("ArtifactIdentityDrift")
    BY <1>1 DEF Errors
  <2> QED
    BY <1>5, <2>1, Zenon
       DEF Revalidate, Prepared, SpawnConnector, KeepsPhase, Setup
<1>6. ASSUME NEW p, AcceptReady(p) PROVE KeepsPhase \/ BecomesReady
  <2>1. BindingHolds(p)
    <3>1. "BindingInvalid" \in Errors
      BY DEF Errors, PrepareErrors
    <3> QED
      BY <1>1, <1>6, <3>1, Zenon DEF AcceptReady
  <2> QED
    BY <1>6, <2>1, ReadyPhase
<1>7. ASSUME NEW p, \/ SetupFailure(p) \/ WrongSetupReport(p)
                    \/ AcceptTerminal(p) \/ ChannelFailure(p)
                    \/ WrongTerminalReport(p)
      PROVE  KeepsPhase
  <2>1. ~FailWith("Protocol")
    BY <1>1, Zenon DEF Errors
  <2> QED
    BY <1>7, <2>1, Zenon
       DEF SetupFailure, WrongSetupReport, AcceptTerminal, ChannelFailure,
           WrongTerminalReport, Receive, KeepsPhase, Setup, Closing
<1> QED
  BY <1>2, <1>3, <1>4, <1>5, <1>6, <1>7, Zenon DEF SupervisorStep

\* So do the caller's, but for the transfer and the begin of the close.
LEMMA OtherPhase ==
    ASSUME ConnectorInv, result = "none", result' = "none",
           scene.transferFirst,
           \/ CallerStep \/ Killed \/ Reaper \/ Tick \/ ChildClose \/ Done
           \/ \E a \in scene.volatile : Change(a)
    PROVE  KeepsPhase \/ Transfers \/ BeginsClose
<1>1. ~FailWith("Dropped") /\ ~FailWith("Timeout")
  BY Zenon DEF FailWith
<1>2. CASE CallerStep
  BY <1>1, <1>2, Zenon
     DEF CallerStep, TakeChildChannel, Finish, Abandon, Transfers, BeginsClose
<1>3. CASE \/ Killed \/ Reaper \/ Tick \/ ChildClose \/ Done
           \/ \E a \in scene.volatile : Change(a)
  BY <1>3, ZenonT(40)
     DEF Killed, Die, Reaper, Tick, ChildClose, Done, Change, KeepsPhase,
              vars
<1> QED
  BY <1>2, <1>3, Zenon

\* Only a valid terminal report of a collected connector closes the session.
LEMMA ClosesFromClosing ==
    ASSUME ConnectorInv, [Next]_vars, result = "none", result' = "Ok"
    PROVE  sup = "reapTerminal"
<1>1. "Ok" \notin Errors
  BY DEF Errors, PrepareErrors
<1>2. ~UNCHANGED result
  OBVIOUS
<1>3. \A e \in Errors : ~FailWith(e) /\ ~ReapWith(e)
  BY <1>1, ZenonT(40) DEF FailWith, ReapWith
<1>4. CASE ConnectorNext
  BY <1>2, <1>4, Zenon
     DEF ConnectorNext, ReadPlan, ReadTrust, CheckDigests, Resolve,
     Connect, Authenticate, SendReady, ProxyEnd, SendTerminal, Proxy,
     ConnectorFail, ConnectorExit, BootstrapFail, Crash, RogueSend, RogueExit,
     ConnStep, SendAndGo, Die
<1>5. CASE SupervisorStep
  <2>1. /\ {"Timeout", "Protocol", "Wait", "Exit", "BindingInvalid",
            "ConnectorFailed", "ArtifactIdentityDrift"} \subseteq Errors
        /\ PrepareErrors \subseteq Errors
    BY DEF Errors, PrepareErrors
  <2>2. ASSUME NEW e PROVE ~Refuse(e) /\ ~(e \in Errors /\ SpawnFail(e))
    BY <1>3, <2>1, Zenon DEF Refuse, SpawnFail
  <2>3. ~(\/ Revalidate("prepare", PrepareOrder) \/ Prepared
          \/ Revalidate("spawn", SpawnOrder) \/ SpawnConnector
          \/ Timeout \/ ReceiveError \/ ReapFailed \/ WaitFail)
    BY <1>2, <1>3, <2>1, Zenon
       DEF Revalidate, Prepared, SpawnConnector, Timeout,
       ReceiveError, ReapFailed, WaitFail
  <2>4. ASSUME NEW p
        PROVE  ~(\/ AcceptReady(p) \/ SetupFailure(p) \/ WrongSetupReport(p)
                 \/ AcceptTerminal(p) \/ ChannelFailure(p)
                 \/ WrongTerminalReport(p))
    BY <1>2, <1>3, <2>1, Zenon
       DEF AcceptReady, SetupFailure, WrongSetupReport, AcceptTerminal,
           ChannelFailure, WrongTerminalReport, Receive
  <2>5. CASE ReapTerminal \/ ReapTerminalLate
    BY <2>5, Zenon DEF ReapTerminal, ReapTerminalLate
  <2> QED
    BY <1>5, <2>2, <2>3, <2>4, <2>5, Zenon DEF SupervisorStep
<1>6. ~CallerStep
  BY <1>2, Zenon DEF CallerStep, TakeChildChannel, Finish, Abandon, FailWith
<1>7. ~(\/ Killed \/ Reaper \/ Tick \/ ChildClose \/ Done
        \/ \E a \in scene.volatile : Change(a))
  BY <1>2, Zenon DEF Killed, Die, Reaper, Tick, ChildClose, Done, Change, vars
<1> QED
  BY <1>2, <1>4, <1>5, <1>6, <1>7, Zenon DEF Next, vars

\* A step of an orderly session that has not returned and does not return is
\* one of the five kinds.
LEMMA OpenStep ==
    ASSUME ConnectorInv, [Next]_vars, Orderly, result = "none",
           result' = "none"
    PROVE  KeepsPhase \/ NextStage \/ BecomesReady \/ Transfers \/ BeginsClose
<1>1. stage # "foreign" /\ ~scene.rogue /\ scene.transferFirst
  BY DEF ConnectorInv, Foreign, Orderly
<1>2. CASE UNCHANGED vars
  BY <1>2, Zenon DEF vars, KeepsPhase
<1>3. CASE ConnectorNext
  BY <1>1, <1>3, ConnectorPhase, Zenon
<1>4. CASE SupervisorStep
  BY <1>1, <1>4, SupervisorPhase
<1>5. CASE \/ CallerStep \/ Killed \/ Reaper \/ Tick \/ ChildClose \/ Done
           \/ \E a \in scene.volatile : Change(a)
  BY <1>1, <1>5, OtherPhase, Zenon
<1> QED
  BY <1>2, <1>3, <1>4, <1>5, Zenon DEF Next

\* Every step of the two processes is a step of the lifecycle or a stutter.
LEMMA LifecycleStep ==
    ASSUME ConnectorInv, ConnectorInv', [Next]_vars
    PROVE  [Lifecycle!Next]_<<SessionPhase, SessionFailure>>
<1> DEFINE Stutter == UNCHANGED <<SessionPhase, SessionFailure>>
<1>1. scene' = scene /\ (Orderly' <=> Orderly)
  BY Zenon DEF Next, vars, Orderly
<1>2. CASE ~Orderly
  BY <1>1, <1>2, Zenon DEF SessionPhase, SessionFailure
<1>3. CASE Orderly /\ result # "none"
  <2>1. UNCHANGED <<result, report>>
    BY <1>3, ReturnedStays, Zenon
  <2>2. Failed' = Failed
    BY <2>1 DEF Failed
  <2>3. UNCHANGED Phase
    BY <1>3, <2>1, PhaseValues, NextPhaseValues, Zenon DEF ReturnedPhase
  <2>4. UNCHANGED ReasonOf
    BY <2>1, <2>2 DEF ReasonOf
  <2> QED
    BY <1>1, <1>3, <2>3, <2>4, Zenon DEF SessionPhase, SessionFailure
<1>4. CASE Orderly /\ result = "none"
  <2> USE <1>4
  <2>1. /\ SessionPhase = Phase /\ SessionPhase' = Phase'
        /\ SessionFailure = ReasonOf /\ SessionFailure' = ReasonOf'
    BY <1>1, Zenon DEF SessionPhase, SessionFailure
  <2>2. /\ sup \in SupPoints /\ sup' \in SupPoints /\ sup # "returned"
        /\ result' = "none" => sup' # "returned"
        /\ stage # "foreign" /\ stage' # "foreign"
    BY <1>1, Zenon
       DEF ConnectorInv, TypeOK, PointTypes, Custody, Foreign, Orderly
  <2>3. ReasonOf = "none" /\ Phase \notin {"Closed", "Failed"}
    <3>1. ReasonOf = "none"
      BY PhaseValues, Zenon DEF OpenPhase
    <3>2. /\ sup \notin Closing \union {"ready"}
          => stage \in {"none", "resolving", "connecting", "authenticating",
                        "authenticated"}
      BY <2>2, Zenon DEF ConnectorInv, TypeOK, PointTypes
    <3> QED
      BY <3>1, <3>2, PhaseValues, Zenon DEF OpenPhase
  <2>4. CASE result' \notin {"none", "Ok"}
    <3>1. Phase' = "Failed" /\ ReasonOf' \in Lifecycle!Reasons
      BY <2>4, NextPhaseValues, Zenon DEF ReturnedPhase
    <3>2. Lifecycle!Fail(ReasonOf')
      BY <2>1, <2>3, <3>1, Zenon DEF Lifecycle!Fail, Lifecycle!IsTerminal
    <3> QED
      BY <3>1, <3>2, Zenon DEF Lifecycle!Next
  <2>5. CASE result' = "Ok"
    <3>1. sup = "reapTerminal"
      BY <2>5, ClosesFromClosing
    <3>2. Phase = "Closing"
      BY <3>1, PhaseValues, Zenon DEF OpenPhase, Closing
    <3>3. Phase' = "Closed" /\ ReasonOf' = "none"
      BY <2>5, NextPhaseValues, Zenon DEF ReturnedPhase
    <3>4. Lifecycle!CloseComplete
      BY <2>1, <3>2, <3>3, Zenon DEF Lifecycle!CloseComplete, Lifecycle!Move
    <3> QED
      BY <3>4 DEF Lifecycle!Next
  <2>6. CASE result' = "none"
    <3>1. ReasonOf' = "none"
      BY <2>6, NextPhaseValues, Zenon DEF OpenPhase
    <3>2. /\ stage \in {"none", "resolving", "connecting", "authenticating",
                        "authenticated"}
      BY <2>2, Zenon DEF ConnectorInv, TypeOK, PointTypes
    <3>3. CASE KeepsPhase
      <4>1. Phase' = Phase
        BY <2>6, <3>2, <3>3, PhaseValues, NextPhaseValues, Zenon
           DEF OpenPhase, KeepsPhase, Setup, Closing
      <4> QED
        BY <2>1, <2>3, <3>1, <4>1, Zenon
    <3>4. CASE NextStage
      <4>1. \/ Phase = "Created" /\ Phase' = "Resolving"
            \/ Phase = "Resolving" /\ Phase' = "Connecting"
            \/ Phase = "Connecting" /\ Phase' = "Authenticating"
            \/ Phase' = Phase
        BY <2>6, <3>4, PhaseValues, NextPhaseValues, Zenon
           DEF OpenPhase, NextStage, Closing
      <4> QED
        BY <2>1, <2>3, <3>1, <4>1, Zenon
           DEF Lifecycle!Next, Lifecycle!BeginResolution,
               Lifecycle!ResolutionComplete, Lifecycle!EndpointConnected,
               Lifecycle!Move
    <3>5. CASE BecomesReady
      <4>1. Phase = "Authenticating" /\ Phase' = "Ready"
        BY <2>6, <3>5, PhaseValues, NextPhaseValues, Zenon
           DEF OpenPhase, BecomesReady, Closing
      <4> QED
        BY <2>1, <3>1, <4>1, Zenon
           DEF Lifecycle!Next, Lifecycle!TlsAuthenticated, Lifecycle!Move
    <3>6. CASE Transfers
      <4>1. Phase = "Ready" /\ Phase' = "Active"
        BY <2>6, <3>6, PhaseValues, NextPhaseValues, Zenon
           DEF OpenPhase, Transfers
      <4> QED
        BY <2>1, <3>1, <4>1, Zenon
           DEF Lifecycle!Next, Lifecycle!ChildReleased, Lifecycle!Move
    <3>7. CASE BeginsClose
      <4>1. Phase = "Active" /\ Phase' = "Closing"
        BY <2>6, <3>7, PhaseValues, NextPhaseValues, Zenon
           DEF OpenPhase, BeginsClose, Closing
      <4> QED
        BY <2>1, <3>1, <4>1
           DEF Lifecycle!Next, Lifecycle!BeginClose, Lifecycle!Move
    <3> QED
      BY <2>6, <3>3, <3>4, <3>5, <3>6, <3>7, OpenStep, Zenon
  <2> QED
    BY <2>4, <2>5, <2>6, Zenon
<1> QED
  BY <1>2, <1>3, <1>4

\* A caller that transfers the channel before it finishes drives the pure
\* lifecycle of core/src/service_lifecycle.rs: whatever the two processes, the
\* deadline, the crashes and the environment do, no phase is skipped, repeated
\* or left after its end, and a failure is recorded once with one reason.
THEOREM SessionsFollowLifecycle == Spec => ImplementsLifecycle
<1>1. Init => Lifecycle!Init
  <2> SUFFICES ASSUME Init PROVE Lifecycle!Init
    OBVIOUS
  <2>1. Phase = "Created" /\ ReasonOf = "none"
    BY PhaseValues, Zenon DEF Init, OpenPhase, Closing
  <2> QED
    BY <2>1 DEF Lifecycle!Init, SessionPhase, SessionFailure
<1>2. ConnectorInv /\ ConnectorInv' /\ [Next]_vars
      => [Lifecycle!Next]_<<SessionPhase, SessionFailure>>
  BY LifecycleStep
<1> QED
  BY <1>1, <1>2, Invariance, PTL DEF Spec, ImplementsLifecycle, Lifecycle!Spec
=============================================================================
