------------------------ MODULE ServiceSessionProofs ------------------------
(***************************************************************************)
(* A service session keeps its limits, loses nothing when it ends well and *)
(* closes after the last byte, for all limits, buffer sizes and amounts of *)
(* traffic and whatever the setup did before.  The argument is one account *)
(* per direction: every byte is in exactly one place between the two ends. *)
(* The setup before it is followed from the queries to the connection: the *)
(* invariant SetupInv says which responses the answers, the order of the   *)
(* attempts and the evidence of the endpoint stand for.                    *)
(***************************************************************************)
EXTENDS ServiceSession, FiniteSetTheorems, TLAPS

\* The types of the variables.
ProxyTypeOK ==
    /\ pc \in Points
    /\ expired \in BOOLEAN /\ childDone \in BOOLEAN /\ closeNotify \in BOOLEAN
    /\ childOpen \in BOOLEAN /\ peerOpen \in BOOLEAN
    /\ fromChild \in Nat /\ toService \in Nat /\ served \in Nat
    /\ wire \in Nat /\ plain \in Nat /\ pending \in Nat /\ delivered \in Nat
    /\ wrote \in Nat /\ sent \in Nat
    /\ childBytes \in Nat /\ serviceBytes \in Nat
    /\ ended \in {"open", "notify", "cut"}
    /\ result \in ChannelErrors \union {"none", "Ok"}

\* The bytes of the child: read and accepted by the connection, or unread.
ChildAccount ==
    /\ childBytes = served + toService /\ childBytes <= ChildLimit
    /\ wrote = fromChild + childBytes

\* The bytes of the service: on the wire, decrypted, pending or delivered.
ServiceAccount ==
    /\ serviceBytes = delivered /\ delivered + pending <= ServiceLimit
    /\ sent = wire + plain + pending + delivered

\* What the two flags and the control points stand for.
CloseInv ==
    /\ ~childOpen => childDone /\ fromChild = 0
    /\ closeNotify => ~childOpen
    /\ ~peerOpen => ended = "notify" /\ wire = 0
    /\ pc = "leave" /\ pending = 0 => plain = 0
    /\ result # "none" => pc = "done"
    /\ result = "Ok" => ~peerOpen /\ pending = 0 /\ plain = 0

\* The inductive invariant.
ProxyInv == ProxyTypeOK /\ ChildAccount /\ ServiceAccount /\ CloseInv

USE DEF Points, ChannelErrors, envVars, proxyVars

\* The invariant holds at the start of a session.
LEMMA ProxyInitInv == ASSUME ProxyInit PROVE ProxyInv
<1>1. ProxyTypeOK
  BY Zenon DEF ProxyInit, ProxyTypeOK
<1>2. ChildAccount /\ ServiceAccount
  BY ProxyAssumption DEF ProxyInit, ChildAccount, ServiceAccount
<1>3. CloseInv
  BY DEF ProxyInit, CloseInv
<1> QED
  BY <1>1, <1>2, <1>3 DEF ProxyInv

\* The child, the service and the clock preserve it.
LEMMA ProxyWorld ==
    ASSUME ProxyInv,
           \/ ChildSend \/ ChildShutdown \/ ServiceSend \/ Expire
           \/ \E how \in {"notify", "cut"} : ServiceEnd(how)
    PROVE  ProxyInv'
<1> USE DEF ProxyInv, ProxyTypeOK, ChildAccount, ServiceAccount, CloseInv
<1>1. CASE ChildSend
  BY <1>1 DEF ChildSend
<1>2. CASE ChildShutdown
  BY <1>2 DEF ChildShutdown
<1>3. CASE ServiceSend
  BY <1>3 DEF ServiceSend
<1>4. CASE Expire
  BY <1>4 DEF Expire
<1>5. ASSUME NEW how \in {"notify", "cut"}, ServiceEnd(how) PROVE ProxyInv'
  BY <1>5 DEF ServiceEnd
<1> QED
  BY <1>1, <1>2, <1>3, <1>4, <1>5, Zenon

\* A return with an error preserves it.
LEMMA ProxyError ==
    ASSUME ProxyInv, NEW e \in ChannelErrors, Return(e) PROVE ProxyInv'
  BY DEF Return, ProxyInv, ProxyTypeOK, ChildAccount, ServiceAccount, CloseInv

\* At most what the limit leaves is read from the connection.
LEMMA PermittedIsBounded ==
    ASSUME ProxyInv, Remaining # 0 PROVE Permitted \in 1 .. Remaining
<1>1. Remaining \in Nat
  BY ProxyAssumption DEF ProxyInv, ProxyTypeOK, ServiceAccount, Remaining
<1> QED
  BY <1>1, ProxyAssumption DEF Permitted

\* Taking decrypted bytes preserves the invariant.
LEMMA ProxyReadPlain == ASSUME ProxyInv, ReadPlain PROVE ProxyInv'
<1> DEFINE n == IF plain < Permitted THEN plain ELSE Permitted
<1>1. CASE pending = 0 /\ plain > 0 /\ Remaining = 0
  BY <1>1, ProxyError DEF ReadPlain
<1>2. CASE pending = 0 /\ plain > 0 /\ Remaining # 0
  <2>1. n \in 1 .. Remaining /\ n <= plain
    <3>1. Permitted \in 1 .. Remaining /\ Remaining \in Nat
      BY <1>2, PermittedIsBounded, ProxyAssumption
         DEF ProxyInv, ProxyTypeOK, ServiceAccount, Remaining
    <3> QED
      BY <1>2, <3>1 DEF ProxyInv, ProxyTypeOK
  <2>2. /\ Go("readPlain", "leave") /\ pending' = n /\ plain' = plain - n
        /\ UNCHANGED <<envVars, toService, served, delivered, childOpen,
                       peerOpen, closeNotify, childBytes, serviceBytes>>
    BY <1>2, Zenon DEF ReadPlain
  <2> HIDE DEF n
  <2> QED
    BY <1>2, <2>1, <2>2, ProxyAssumption
       DEF Go, Remaining, ProxyInv, ProxyTypeOK, ChildAccount, ServiceAccount,
           CloseInv
<1>3. CASE ~(pending = 0 /\ plain > 0)
  BY <1>3 DEF ReadPlain, Go, ProxyInv, ProxyTypeOK, ChildAccount,
              ServiceAccount, CloseInv
<1> QED
  BY <1>1, <1>2, <1>3

\* Every step of the loop preserves it.
LEMMA ProxyLoop == ASSUME ProxyInv, ProxyStep PROVE ProxyInv'
<1> USE DEF Go
<1>1. CASE Top
  <2>1. CASE expired
    BY <1>1, <2>1, ProxyError DEF Top
  <2>2. CASE ~expired
    BY <1>1, <2>2 DEF Top, ProxyInv, ProxyTypeOK, ChildAccount,
                      ServiceAccount, CloseInv
  <2> QED
    BY <2>1, <2>2
<1>2. CASE WriteChildFail \/ ReadChildRefused \/ ReadChildFail \/ WriteTlsFail
           \/ ReadTlsCut \/ LeaveFail
  BY <1>2, ProxyError, Zenon
     DEF WriteChildFail, ReadChildRefused, ReadChildFail, WriteTlsFail,
         ReadTlsCut, LeaveFail
<1>3. ASSUME NEW e \in ChannelErrors, ReadTlsFail(e) PROVE ProxyInv'
  BY <1>3, ProxyError DEF ReadTlsFail
<1>4. CASE ReadChildNothing
  BY <1>4, Zenon DEF ReadChildNothing, ProxyInv, ProxyTypeOK, ChildAccount,
              ServiceAccount, CloseInv
<1>5. CASE Notify
  BY <1>5, Zenon
     DEF Notify, ProxyInv, ProxyTypeOK, ChildAccount, ServiceAccount, CloseInv
<1>6. CASE ReadTlsNothing
  BY <1>6 DEF ReadTlsNothing, ProxyInv, ProxyTypeOK, ChildAccount,
              ServiceAccount, CloseInv
<1>7. CASE ReadPlain
  BY <1>7, ProxyReadPlain
<1>8. CASE Leave
  BY <1>8 DEF Leave, Return, ProxyInv, ProxyTypeOK, ChildAccount,
              ServiceAccount, CloseInv
<1>9. ASSUME NEW n \in Counts, WriteChild(n) PROVE ProxyInv'
  BY <1>9, ProxyAssumption
     DEF Counts, WriteChild, ProxyInv, ProxyTypeOK, ChildAccount,
         ServiceAccount, CloseInv
<1>10. ASSUME NEW n \in Counts, ReadChild(n) PROVE ProxyInv'
  <2>1. CASE childBytes + n > ChildLimit
    BY <1>10, <2>1, ProxyError, Zenon DEF ReadChild
  <2>2. CASE ~(childBytes + n > ChildLimit)
    BY <1>10, <2>2, ProxyAssumption
       DEF Counts, ReadChild, ProxyInv, ProxyTypeOK, ChildAccount,
           ServiceAccount, CloseInv
  <2> QED
    BY <2>1, <2>2, Zenon
<1>11. ASSUME NEW n \in Counts, WriteTls(n) PROVE ProxyInv'
  BY <1>11, ProxyAssumption
     DEF Counts, WriteTls, ProxyInv, ProxyTypeOK, ChildAccount,
         ServiceAccount, CloseInv
<1>12. ASSUME NEW n \in Counts, ReadTls(n) PROVE ProxyInv'
  <2>1. CASE peerOpen' = TRUE
    BY <1>12, <2>1, ProxyAssumption
       DEF Counts, ReadTls, ProxyInv, ProxyTypeOK, ChildAccount,
           ServiceAccount, CloseInv
  <2>2. CASE peerOpen' = ~(ended = "notify" /\ wire = n)
    BY <1>12, <2>2, ProxyAssumption
       DEF Counts, ReadTls, ProxyInv, ProxyTypeOK, ChildAccount,
           ServiceAccount, CloseInv
  <2> QED
    BY <1>12, <2>1, <2>2, Zenon DEF ReadTls
<1> QED
  BY <1>1, <1>2, <1>3, <1>4, <1>5, <1>6, <1>7, <1>8, <1>9, <1>10, <1>11,
     <1>12, Zenon
     DEF ProxyStep

\* Only the proxy touches what the accounts are about.
LEMMA ProxyUntouched ==
    ASSUME ProxyInv, UNCHANGED channelVars PROVE ProxyInv'
  BY DEF channelVars, ProxyInv, ProxyTypeOK, ChildAccount, ServiceAccount,
         CloseInv

\* The accounts are kept by every step of the session.
LEMMA ProxyInvariance == SessionSpec => []ProxyInv
<1>1. ASSUME ProxyInv, [SessionNext]_sessionVars PROVE ProxyInv'
  <2>1. CASE tls = "proxying" /\ ProxyNext
    BY <1>1, <2>1, ProxyLoop, ProxyWorld, ProxyUntouched, Zenon DEF ProxyNext
  <2>2. CASE ~(tls = "proxying" /\ ProxyNext)
    <3>1. UNCHANGED channelVars
      BY <1>1, <2>2, Zenon DEF SessionNext, SendReady, sessionVars
    <3> QED
      BY <1>1, <3>1, ProxyUntouched, Zenon
  <2> QED
    BY <2>1, <2>2
<1> QED
  BY <1>1, ProxyInitInv, PTL DEF SessionSpec, SessionInit

\* The limits of the plan hold in both directions at every moment, also in
\* the session that fails for exceeding one (proxy_authenticated_channel).
THEOREM SessionKeepsLimits == SessionSpec => []LimitsHold
<1>1. ProxyInv => LimitsHold
  BY Zenon DEF ProxyInv, ProxyTypeOK, ChildAccount, ServiceAccount, LimitsHold
<1> QED
  BY <1>1, ProxyInvariance, PTL

\* A session that ends well has delivered every byte of the service and
\* counted every byte of the child.
THEOREM SessionLosesNothing == SessionSpec => []OkIsComplete
<1>1. ProxyInv => OkIsComplete
  BY DEF ProxyInv, ProxyTypeOK, ChildAccount, ServiceAccount, CloseInv,
         OkIsComplete
<1> QED
  BY <1>1, ProxyInvariance, PTL

\* The close notification is sent only after the child's last byte was
\* accepted by the connection.
THEOREM SessionClosesLast == SessionSpec => []NotifyFollowsLastByte
<1>1. ProxyInv => NotifyFollowsLastByte
  BY DEF ProxyInv, ProxyTypeOK, ChildAccount, CloseInv, NotifyFollowsLastByte
<1> QED
  BY <1>1, ProxyInvariance, PTL

-----------------------------------------------------------------------------
(* Minima and the attempt order. *)

\* A set of natural numbers that is not empty has a least element.
LEMMA LeastNatural ==
    ASSUME NEW T \in SUBSET Nat, T # {}
    PROVE  \E x \in T : \A y \in T : x <= y
<1> DEFINE R == {p \in Nat \X Nat : p[1] < p[2]}
<1>1. IsWellFoundedOn(R, Nat)
  BY NatLessThanWellFounded, Zenon DEF OpToRel
<1> HIDE DEF R
<1>2. \E x \in T : \A y \in T : ~(<<y, x>> \in R)
  BY <1>1, WFMin, Zenon
<1>3. ASSUME NEW x \in T, NEW y \in T, <<y, x>> \notin R PROVE x <= y
  <2>1. <<y, x>> \in Nat \X Nat /\ <<y, x>>[1] = y /\ <<y, x>>[2] = x
    OBVIOUS
  <2>2. ~(<<y, x>>[1] < <<y, x>>[2])
    BY <1>3, <2>1, Zenon DEF R
  <2> QED
    BY <2>1, <2>2
<1> QED
  BY <1>2, <1>3, Zenon

Answers == [address : Nat, expires : Nat]

\* AttemptOrder lists a finite set of answers with distinct addresses in the
\* order of the addresses, each answer once.
LEMMA AttemptOrderIsSorted ==
    ASSUME NEW S \in SUBSET Answers, IsFiniteSet(S),
           \A a, b \in S : a.address = b.address => a = b
    PROVE  /\ AttemptOrder(S) \in Seq(S)
           /\ Len(AttemptOrder(S)) = Cardinality(S)
           /\ \A i, j \in 1 .. Cardinality(S) : i < j =>
                AttemptOrder(S)[i].address < AttemptOrder(S)[j].address
<1> DEFINE n == Cardinality(S)
           f == [a \in S |-> Cardinality(Preceding(S, a)) + 1]
<1>0. n \in Nat
  BY FS_CardinalityType
<1>1. ASSUME NEW a \in S
      PROVE  /\ IsFiniteSet(Preceding(S, a)) /\ Cardinality(Preceding(S, a)) \in Nat
             /\ Cardinality(Preceding(S, a)) + 1 <= n
  <2>1. Preceding(S, a) \in SUBSET (S \ {a})
    BY DEF Preceding, Answers
  <2>2. IsFiniteSet(S \ {a}) /\ Cardinality(S \ {a}) = n - 1
    BY FS_RemoveElement, Zenon
  <2>3. /\ IsFiniteSet(Preceding(S, a))
        /\ Cardinality(Preceding(S, a)) <= Cardinality(S \ {a})
    BY <2>1, <2>2, FS_Subset, Zenon
  <2>4. Cardinality(Preceding(S, a)) \in Nat
    BY <2>3, FS_CardinalityType, Zenon
  <2> QED
    BY <1>0, <2>2, <2>3, <2>4
<1>2. ASSUME NEW a \in S, NEW b \in S, a.address < b.address
      PROVE  Cardinality(Preceding(S, a)) < Cardinality(Preceding(S, b))
  <2>1. a \notin Preceding(S, a) /\ a.address \in Nat /\ b.address \in Nat
    BY DEF Preceding, Answers
  <2>2. Preceding(S, a) \union {a} \in SUBSET Preceding(S, b)
    BY <1>2, <2>1 DEF Preceding, Answers
  <2>3. Cardinality(Preceding(S, a) \union {a}) = Cardinality(Preceding(S, a)) + 1
    BY <1>1, <2>1, FS_AddElement, Zenon
  <2>4. Cardinality(Preceding(S, a) \union {a}) <= Cardinality(Preceding(S, b))
    BY <1>1, <2>2, FS_Subset, Zenon
  <2> QED
    BY <1>1, <2>3, <2>4
<1>3. f \in Injection(S, 1 .. n)
  <2>1. f \in [S -> 1 .. n]
    BY <1>0, <1>1
  <2>2. ASSUME NEW a \in S, NEW b \in S, f[a] = f[b] PROVE a = b
    <3>1. a.address \in Nat /\ b.address \in Nat
      BY Zenon DEF Answers
    <3>2. Cardinality(Preceding(S, a)) = Cardinality(Preceding(S, b))
      BY <1>1, <2>2
    <3>3. ~(a.address < b.address) /\ ~(b.address < a.address)
      BY <1>1, <1>2, <3>2
    <3> QED
      BY <3>1, <3>3
  <2> QED
    BY <2>1, <2>2, Zenon DEF Injection, IsInjective
<1>4. f \in Surjection(S, 1 .. n)
  <2>1. IsFiniteSet(1 .. n) /\ Cardinality(1 .. n) = n
    BY <1>0, FS_Interval
  <2> HIDE DEF f
  <2> QED
    BY <1>3, <2>1, FS_Injection, Zenon
<1>5. ASSUME NEW i \in 1 .. n
      PROVE  /\ AttemptOrder(S)[i] \in S
             /\ Cardinality(Preceding(S, AttemptOrder(S)[i])) = i - 1
  <2>1. PICK a \in S : f[a] = i
    BY <1>4, Zenon DEF Surjection
  <2>2. Cardinality(Preceding(S, a)) = i - 1
    BY <1>1, <2>1
  <2> QED
    BY <2>2, Zenon DEF AttemptOrder
<1>6. AttemptOrder(S) \in [1 .. n -> S]
  BY <1>5 DEF AttemptOrder
<1>7. ASSUME NEW i \in 1 .. n, NEW j \in 1 .. n, i < j
      PROVE  AttemptOrder(S)[i].address < AttemptOrder(S)[j].address
  <2> DEFINE a == AttemptOrder(S)[i]
             b == AttemptOrder(S)[j]
  <2>1. /\ a \in S /\ b \in S
        /\ Cardinality(Preceding(S, a)) < Cardinality(Preceding(S, b))
    BY <1>0, <1>5, <1>7
  <2> HIDE DEF a, b
  <2>2. a.address \in Nat /\ b.address \in Nat
    BY <2>1, Zenon DEF Answers
  <2>3. a # b
    BY <1>1, <2>1
  <2>4. ~(b.address < a.address)
    <3>1. ASSUME b.address < a.address PROVE FALSE
      <4>1. Cardinality(Preceding(S, b)) < Cardinality(Preceding(S, a))
        BY <1>2, <2>1, <3>1, Zenon
      <4> QED
        BY <1>1, <2>1, <4>1
    <3> QED
      BY <3>1, Zenon
  <2>5. a.address < b.address
    BY <2>1, <2>2, <2>3, <2>4
  <2> QED
    BY <2>5, Zenon DEF a, b
<1> QED
  BY <1>0, <1>6, <1>7

-----------------------------------------------------------------------------
(* The setup of the session: an inductive invariant of resolve_service and *)
(* authenticate_service.                                                   *)

Links == [owner : Names, target : Names, expires : Nat]

SetupTypes ==
    /\ clock \in Nat /\ kind \in Kinds /\ current \in Names
    /\ path \in Seq(Links) /\ chain \in Seq(Links)
    /\ found \in [Kinds -> [links : Seq(Links), answers : SUBSET Answers]]
    /\ answers \in Seq(Answers) /\ attempts \in Seq(Results)

\* The chains, and the name that is asked for next.
LastName(p) == IF p = <<>> THEN Service ELSE p[Len(p)].target
PathInv ==
    /\ ChainIsAPath(path) /\ ChainIsAPath(chain) /\ current = LastName(path)
    /\ \A k \in Kinds : ChainIsAPath(found[k].links)

\* The answers of one record type: finitely many, one for each address.
OnePerAddress(set) == \A a, b \in set : a.address = b.address => a = b
FoundInv ==
    \A k \in Kinds :
        /\ IsFiniteSet(found[k].answers) /\ OnePerAddress(found[k].answers)
        /\ \A a \in found[k].answers : a.address \in AddressesOf(k)

\* An answer that rests on a record of its address and outlives no record.
Supported(a) ==
    /\ \E k \in Kinds : \E b \in found[k].answers :
          b.address = a.address /\ a.expires <= b.expires
    /\ \A k \in Kinds : \A i \in 1 .. Len(found[k].links) :
          a.expires <= found[k].links[i].expires
AnswerInv ==
    /\ dns # "resolved" => answers = <<>>
    /\ \A i \in 1 .. Len(answers) : Supported(answers[i])
    /\ \A i, j \in 1 .. Len(answers) :
          i < j => answers[i].address < answers[j].address

\* The attempts: only the last one connects.
AttemptInv ==
    /\ tls # "start" => dns = "resolved"
    /\ tls \in {"start", "next", "connect"} =>
          \A i \in 1 .. Len(attempts) : attempts[i] # "Connected"
    /\ Len(attempts) <= Min2(EndpointAttempts, Len(answers))
    /\ tls = "start" => attempts = <<>>
    /\ tls = "connect" => More
    /\ \A i \in 1 .. Len(attempts) :
          attempts[i] = "Connected" => i = Len(attempts)
    /\ tls \in {"hello", "handshake", "authenticated"} =>
          attempts # <<>> /\ attempts[Len(attempts)] = "Connected"
    /\ tls = "authenticated" =>
          /\ authAt < answers[Len(attempts)].expires
          /\ authAt < SetupDeadline /\ authAt \in Nat

SetupInv == SetupTypes /\ PathInv /\ FoundInv /\ AnswerInv /\ AttemptInv

\* The values of a function on a finite set are finitely many.
LEMMA ImageIsFinite ==
    ASSUME NEW S, IsFiniteSet(S), NEW f PROVE IsFiniteSet({f[x] : x \in S})
<1> DEFINE T == {f[x] : x \in S}
           g == [x \in S |-> f[x]]
<1>1. g \in Surjection(S, T)
  BY Zenon DEF Surjection
<1> HIDE DEF g, T
<1>2. IsFiniteSet(T)
  BY <1>1, FS_Surjection, Zenon
<1> QED
  BY <1>2, Zenon DEF T

\* The names of a chain, the service among them.
NamesOf(p) == {Service} \union {p[i].target : i \in 1 .. Len(p)}

\* They are finitely many.
LEMMA NamesAreFinite == ASSUME NEW p \in Seq(Links) PROVE IsFiniteSet(NamesOf(p))
<1> DEFINE f == [i \in 1 .. Len(p) |-> p[i].target]
<1>1. IsFiniteSet(1 .. Len(p))
  BY FS_Interval
<1>2. IsFiniteSet({f[i] : i \in 1 .. Len(p)})
  BY <1>1, ImageIsFinite, Zenon
<1>3. {f[i] : i \in 1 .. Len(p)} = {p[i].target : i \in 1 .. Len(p)}
  BY Zenon
<1>4. NamesOf(p) = {p[i].target : i \in 1 .. Len(p)} \union {Service}
  BY Zenon DEF NamesOf
<1> QED
  BY <1>2, <1>3, <1>4, FS_AddElement, Zenon

\* A chain without links is a path.
LEMMA EmptyChain == ChainIsAPath(<<>>)
<1>1. {Service} \union {<<>>[i].target : i \in 1 .. 0} = {Service}
  OBVIOUS
<1>2. Cardinality({Service}) = 1
  BY FS_Singleton, Zenon
<1>3. Len(<<>>) = 0 /\ MaxDepth \in Nat
  BY ResolutionNumbers, Zenon
<1> QED
  BY <1>1, <1>2, <1>3 DEF ChainIsAPath

\* A chain with one more link ends in that link.
LEMMA PathGrows ==
    ASSUME NEW S, NEW s \in Seq(S), NEW e \in S
    PROVE  /\ Append(s, e) \in Seq(S) /\ Append(s, e) # <<>>
           /\ Append(s, e)[Len(Append(s, e))] = e
OBVIOUS

\* A path grows by a link from its last name to a name it has not visited.
LEMMA ChainGrows ==
    ASSUME NEW p \in Seq(Links), NEW l \in Links, ChainIsAPath(p),
           Len(p) < MaxDepth, l.owner = LastName(p), l.target \notin NamesOf(p)
    PROVE  ChainIsAPath(Append(p, l))
<1> DEFINE q == Append(p, l)
           n == Len(p)
<1>1. /\ q \in Seq(Links) /\ Len(q) = n + 1 /\ n \in Nat
      /\ \A i \in 1 .. n : q[i] = p[i]
      /\ q[n + 1] = l
  OBVIOUS
<1> HIDE DEF q
<1>2. Len(q) <= MaxDepth
  BY <1>1, ResolutionNumbers
<1>3. q[1].owner = Service
  <2>1. CASE n = 0
    BY <1>1, <2>1 DEF LastName
  <2>2. CASE n # 0
    BY <1>1, <2>2 DEF ChainIsAPath
  <2> QED
    BY <2>1, <2>2, Zenon
<1>4. ASSUME NEW i \in 1 .. Len(q) - 1 PROVE q[i].target = q[i + 1].owner
  <2>1. i \in 1 .. n
    BY <1>1
  <2>2. CASE i = n
    <3>1. p # <<>> /\ q[i] = p[n] /\ q[i + 1] = l
      BY <1>1, <2>1, <2>2
    <3> QED
      BY <3>1, Zenon DEF LastName
  <2>3. CASE i # n
    <3>1. i \in 1 .. Len(p) - 1 /\ q[i] = p[i] /\ q[i + 1] = p[i + 1]
      BY <1>1, <2>1, <2>3
    <3> QED
      BY <3>1, Zenon DEF ChainIsAPath
  <2> QED
    BY <2>2, <2>3, Zenon
<1>5. NamesOf(q) = NamesOf(p) \union {l.target}
  <2>1. {q[i].target : i \in 1 .. n + 1}
          = {p[i].target : i \in 1 .. n} \union {l.target}
    BY <1>1
  <2> QED
    BY <1>1, <2>1, Zenon DEF NamesOf
<1>6. Cardinality(NamesOf(q)) = Cardinality(NamesOf(p)) + 1
  BY <1>5, NamesAreFinite, FS_AddElement, Zenon
<1>7. Cardinality(NamesOf(p)) = n + 1
  BY Zenon DEF ChainIsAPath, NamesOf
<1>8. ChainIsAPath(q)
  BY <1>1, <1>2, <1>3, <1>4, <1>6, <1>7, Zenon DEF ChainIsAPath, NamesOf
<1> QED
  BY <1>8, Zenon DEF q

\* Whether a chain is a path depends on its names alone.
LEMMA SameChain ==
    ASSUME NEW p \in Seq(Links), NEW q \in Seq(Links), ChainIsAPath(p),
           SamePath(p, q)
    PROVE  ChainIsAPath(q)
<1>1. /\ Len(p) = Len(q) /\ Len(p) \in Nat
      /\ \A i \in 1 .. Len(p) : p[i].owner = q[i].owner
                                /\ p[i].target = q[i].target
  BY DEF SamePath
<1>2. NamesOf(q) = NamesOf(p)
  BY <1>1 DEF NamesOf
<1>3. p # <<>> <=> q # <<>>
  BY <1>1
<1>4. \A i \in 1 .. Len(p) - 1 : i \in 1 .. Len(p) /\ i + 1 \in 1 .. Len(p)
  BY <1>1
<1>5. q # <<>> => q[1].owner = Service
  BY <1>1, <1>3 DEF ChainIsAPath
<1>6. \A i \in 1 .. Len(q) - 1 : q[i].target = q[i + 1].owner
  BY <1>1, <1>4, Zenon DEF ChainIsAPath
<1> QED
  BY <1>1, <1>2, <1>5, <1>6, Zenon DEF ChainIsAPath, NamesOf

\* Of two agreeing chains the merged one is a path, and none of its links
\* outlives a link of either.
LEMMA MergedChain ==
    ASSUME NEW p \in Seq(Links), NEW q \in Seq(Links),
           ChainIsAPath(p), ChainIsAPath(q),
           p # <<>> /\ q # <<>> => SamePath(p, q)
    PROVE  /\ MergeLinks(p, q) \in Seq(Links) /\ ChainIsAPath(MergeLinks(p, q))
           /\ \A i \in 1 .. Len(p) :
                /\ i \in 1 .. Len(MergeLinks(p, q))
                /\ MergeLinks(p, q)[i].expires <= p[i].expires
           /\ \A i \in 1 .. Len(q) :
                /\ i \in 1 .. Len(MergeLinks(p, q))
                /\ MergeLinks(p, q)[i].expires <= q[i].expires
<1>1. /\ \A i \in 1 .. Len(p) : p[i].expires \in Nat
      /\ \A i \in 1 .. Len(q) : q[i].expires \in Nat
  <2>1. /\ \A i \in 1 .. Len(p) : p[i] \in Links
        /\ \A i \in 1 .. Len(q) : q[i] \in Links
    OBVIOUS
  <2> QED
    BY <2>1, Zenon DEF Links
<1>2. CASE p = <<>>
  <2>1. MergeLinks(p, q) = q /\ Len(p) = 0
    BY <1>2, Zenon DEF MergeLinks
  <2> QED
    BY <1>1, <2>1
<1>3. CASE p # <<>> /\ q = <<>>
  <2>1. MergeLinks(p, q) = p /\ Len(q) = 0
    BY <1>3, Zenon DEF MergeLinks
  <2> QED
    BY <1>1, <2>1
<1>4. CASE p # <<>> /\ q # <<>>
  <2> DEFINE m == MergeLinks(p, q)
  <2>1. m = [i \in 1 .. Len(p) |->
               IF p[i].expires <= q[i].expires THEN p[i] ELSE q[i]]
    BY <1>4, Zenon DEF MergeLinks
  <2>2. Len(p) = Len(q) /\ Len(p) \in Nat
    BY <1>4 DEF SamePath
  <2>3. ASSUME NEW i \in 1 .. Len(p)
        PROVE  /\ m[i] \in Links
               /\ m[i].expires <= p[i].expires /\ m[i].expires <= q[i].expires
               /\ p[i].owner = m[i].owner /\ p[i].target = m[i].target
    <3>1. p[i] \in Links /\ q[i] \in Links
      BY <2>2
    <3>2. p[i].owner = q[i].owner /\ p[i].target = q[i].target
      BY <1>4, Zenon DEF SamePath
    <3>3. m[i] = IF p[i].expires <= q[i].expires THEN p[i] ELSE q[i]
      BY <2>1, Zenon
    <3>4. p[i].expires \in Nat /\ q[i].expires \in Nat
      BY <3>1, Zenon DEF Links
    <3> QED
      BY <3>1, <3>2, <3>3, <3>4
  <2>4. m \in Seq(Links) /\ Len(m) = Len(p)
    <3>1. m \in [1 .. Len(p) -> Links]
      BY <2>1, <2>3, Zenon
    <3> HIDE DEF m
    <3> QED
      BY <2>2, <3>1
  <2> HIDE DEF m
  <2>5. ChainIsAPath(m)
    BY <2>3, <2>4, SameChain, Zenon DEF SamePath
  <2> QED
    BY <2>2, <2>3, <2>4, <2>5, Zenon DEF m
<1> QED
  BY <1>2, <1>3, <1>4, Zenon

\* The effective expiry of an answer is the least of its own and of those of
\* the links.
LEMMA EffectiveAnswer ==
    ASSUME NEW a \in Answers, NEW links \in Seq(Links)
    PROVE  /\ Effective(a, links) \in Answers
           /\ Effective(a, links).address = a.address
           /\ Effective(a, links).expires <= a.expires
           /\ \A i \in 1 .. Len(links) :
                Effective(a, links).expires <= links[i].expires
<1> DEFINE T == {a.expires} \union {links[i].expires : i \in 1 .. Len(links)}
           Least(t) == /\ t <= a.expires
                       /\ \A i \in 1 .. Len(links) : t <= links[i].expires
<1>1. T \in SUBSET Nat /\ T # {}
  <2>1. \A i \in 1 .. Len(links) : links[i] \in Links
    OBVIOUS
  <2> QED
    BY <2>1, Zenon DEF Answers, Links
<1>2. PICK t \in T : \A u \in T : t <= u
  BY <1>1, LeastNatural, Zenon
<1>3. Least(t)
  BY <1>2, Zenon
<1>4. Least(CHOOSE u \in T : Least(u)) /\ (CHOOSE u \in T : Least(u)) \in T
  BY <1>3, Zenon
<1>5. Effective(a, links)
        = [address |-> a.address, expires |-> CHOOSE u \in T : Least(u)]
  BY Zenon DEF Effective
<1> DEFINE e == CHOOSE u \in T : Least(u)
<1>6. e \in Nat /\ Least(e)
  BY <1>1, <1>4, Zenon
<1> HIDE DEF e
<1> QED
  BY <1>5, <1>6, SMTT(60) DEF Answers, e

\* A response has finitely many records, and the addresses are of its type.
LEMMA ResponseRecords ==
    ASSUME NEW k \in Kinds, NEW r \in Responses[k]
    PROVE  /\ r.aliases \in SUBSET AliasRecords
           /\ r.addresses \in SUBSET AddressRecords(k)
           /\ IsFiniteSet(r.addresses)
<1> DEFINE Records == AliasRecords \union AddressRecords(k)
           Of(s) == {s[i] : i \in DOMAIN s}
           Listed(s) == [name \in Names |->
                           Cardinality({i \in DOMAIN s :
                              /\ s[i] \in AddressRecords(k)
                              /\ s[i].owner = name})]
<1>1. PICK n \in 0 .. RecordsPerResponse : \E s \in [1 .. n -> Records] :
        r = [aliases   |-> Of(s) \intersect AliasRecords,
             addresses |-> Of(s) \intersect AddressRecords(k),
             listed    |-> Listed(s)]
  BY DEF Responses
<1>5. PICK s \in [1 .. n -> Records] :
        r = [aliases   |-> Of(s) \intersect AliasRecords,
             addresses |-> Of(s) \intersect AddressRecords(k),
             listed    |-> Listed(s)]
  BY <1>1, Zenon
<1>2. DOMAIN s = 1 .. n /\ IsFiniteSet(1 .. n)
  BY FS_Interval, ResolutionNumbers
<1>3. IsFiniteSet(Of(s))
  BY <1>2, ImageIsFinite, Zenon
<1> HIDE DEF Of
<1>4. IsFiniteSet(Of(s) \intersect AddressRecords(k))
  BY <1>3, FS_Intersection, ZenonT(40)
<1> QED
  BY <1>4, <1>5, Zenon

\* What Complete records for a record type.
LEMMA CompletedAnswers ==
    ASSUME SetupTypes, NEW r \in Responses[kind]
    PROVE  LET A == Canonicalize(OwnAnswers(r))
           IN  /\ A \in SUBSET Answers /\ IsFiniteSet(A) /\ OnePerAddress(A)
               /\ \A a \in A : a.address \in AddressesOf(kind)
<1> DEFINE Own == {x \in r.addresses : x.owner = current}
           f == [x \in Own |-> [address |-> x.address, expires |-> clock + x.ttl]]
           O == OwnAnswers(r)
           A == Canonicalize(O)
<1>1. kind \in Kinds /\ clock \in Nat
  BY Zenon DEF SetupTypes
<1>2. r.addresses \in SUBSET AddressRecords(kind) /\ IsFiniteSet(r.addresses)
  BY <1>1, ResponseRecords, Zenon
<1>3. Own \in SUBSET r.addresses
  BY Zenon
<1>4. IsFiniteSet(Own)
  BY <1>2, <1>3, FS_Subset, Zenon
<1>5. O = {f[x] : x \in Own}
  BY Zenon DEF OwnAnswers
<1>6. IsFiniteSet(O)
  <2> HIDE DEF Own, f, O
  <2>1. IsFiniteSet({f[x] : x \in Own})
    BY <1>4, ImageIsFinite, Zenon
  <2> QED
    BY <1>5, <2>1, Zenon
<1>7. \A a \in O : a \in Answers /\ a.address \in AddressesOf(kind)
  <2>1. \A x \in Own : /\ x.address \in AddressesOf(kind) /\ x.ttl \in Nat
                       /\ x.address \in Nat
    BY <1>2, ResolutionNumbers, AddressAssumption, Zenon
       DEF AddressRecords, AddressesOf
  <2> QED
    BY <1>1, <2>1 DEF OwnAnswers, Answers
<1> HIDE DEF O
<1>8. A \in SUBSET O
  BY Zenon DEF Canonicalize
<1>9. IsFiniteSet(A)
  BY <1>6, <1>8, FS_Subset, Zenon
<1>10. ASSUME NEW a \in A, NEW b \in A, a.address = b.address PROVE a = b
  <2>1. a.expires <= b.expires /\ b.expires <= a.expires
    BY <1>8, <1>10, Zenon DEF Canonicalize
  <2>2. a \in Answers /\ b \in Answers
    BY <1>7, <1>8, Zenon
  <2>3. a.expires = b.expires
    BY <2>1, <2>2 DEF Answers
  <2> QED
    BY <1>10, <2>2, <2>3 DEF Answers
<1> HIDE DEF A
<1>11. /\ A \in SUBSET Answers /\ IsFiniteSet(A) /\ OnePerAddress(A)
       /\ \A a \in A : a.address \in AddressesOf(kind)
  BY <1>7, <1>8, <1>9, <1>10, Zenon DEF OnePerAddress
<1> QED
  BY <1>11, Zenon DEF A, O

\* The link that Follow records.
LEMMA FollowedLink ==
    ASSUME SetupTypes, NEW r \in Responses[kind], OwnAliases(r) # {}
    PROVE  AliasTarget(r) \in Names /\ AliasExpiry(r) \in Nat
<1>1. kind \in Kinds /\ clock \in Nat
  BY Zenon DEF SetupTypes
<1>2. OwnAliases(r) \in SUBSET AliasRecords
  BY <1>1, ResponseRecords, Zenon DEF OwnAliases
<1>3. AliasTarget(r) \in Names
  <2>1. PICK a \in OwnAliases(r) : TRUE
    BY Zenon
  <2>2. a.target \in Names
    BY <1>2, <2>1 DEF AliasRecords
  <2> QED
    BY <2>1, <2>2, Zenon DEF AliasTarget
<1>4. AliasExpiry(r) \in Nat
  <2> DEFINE T == {a.ttl : a \in OwnAliases(r)}
  <2>1. T \in SUBSET Nat /\ T # {}
    BY <1>2, ResolutionNumbers, Zenon DEF AliasRecords
  <2>2. PICK t \in T : \A u \in T : t <= u
    BY <2>1, LeastNatural, Zenon
  <2>3. \A a \in OwnAliases(r) : t <= a.ttl
    BY <2>2, Zenon
  <2>4. (CHOOSE u \in T : \A a \in OwnAliases(r) : u <= a.ttl) \in Nat
    BY <2>1, <2>2, <2>3, Zenon
  <2> QED
    BY <1>1, <2>4 DEF AliasExpiry
<1> QED
  BY <1>3, <1>4, Zenon

\* What Merge makes of two record types.
Merged(links) ==
    {Effective(a, links) : a \in found["A"].answers \union found["AAAA"].answers}

\* When they agree, the merged chain is a path and the merged answers are one
\* for each address, each supported by the records.
LEMMA MergedAnswers ==
    ASSUME SetupTypes, PathInv, FoundInv, ChainsAgree(found)
    PROVE  LET L == MergeLinks(found["A"].links, found["AAAA"].links)
           IN  /\ L \in Seq(Links) /\ ChainIsAPath(L)
               /\ Merged(L) \in SUBSET Answers /\ IsFiniteSet(Merged(L))
               /\ OnePerAddress(Merged(L))
               /\ \A a \in Merged(L) : Supported(a)
<1> DEFINE p == found["A"].links
           q == found["AAAA"].links
           L == MergeLinks(p, q)
           U == found["A"].answers \union found["AAAA"].answers
<1>1. /\ p \in Seq(Links) /\ q \in Seq(Links)
      /\ ChainIsAPath(p) /\ ChainIsAPath(q)
  BY Zenon DEF SetupTypes, PathInv, Kinds
<1>2. p # <<>> /\ q # <<>> => SamePath(p, q)
  <2>1. Governing(found) \in {p, q}
    BY Zenon DEF Governing
  <2>2. p # <<>> /\ q # <<>> => SamePath(p, Governing(found))
                              /\ SamePath(q, Governing(found))
    BY Zenon DEF ChainsAgree, Kinds
  <2>3. SamePath(q, p) => SamePath(p, q)
    BY DEF SamePath
  <2> QED
    BY <2>1, <2>2, <2>3, Zenon
<1>3. U \in SUBSET Answers /\ IsFiniteSet(U)
  BY FS_Union, Zenon DEF SetupTypes, FoundInv, Kinds
<1>4. OnePerAddress(U)
  <2> SUFFICES ASSUME NEW a \in U, NEW b \in U, a.address = b.address
               PROVE  a = b
    BY Zenon DEF OnePerAddress
  <2>1. ASSUME NEW x \in found["A"].answers, NEW y \in found["AAAA"].answers
        PROVE  x.address # y.address
    <3>1. /\ x.address \in Addresses4 /\ y.address \in Addresses6
          /\ x.address \in Nat /\ y.address \in Nat
      BY <1>3, <2>1, Zenon DEF FoundInv, AddressesOf, Kinds, Answers
    <3> QED
      BY <3>1, AddressAssumption
  <2> QED
    BY <2>1, Zenon DEF FoundInv, OnePerAddress, Kinds
<1> HIDE DEF L
<1>5. /\ L \in Seq(Links) /\ ChainIsAPath(L)
      /\ \A i \in 1 .. Len(p) :
            i \in 1 .. Len(L) /\ L[i].expires <= p[i].expires
      /\ \A i \in 1 .. Len(q) :
            i \in 1 .. Len(L) /\ L[i].expires <= q[i].expires
  BY <1>1, <1>2, MergedChain, Zenon DEF L
<1>6. ASSUME NEW a \in U
      PROVE  /\ Effective(a, L) \in Answers /\ Supported(Effective(a, L))
             /\ Effective(a, L).address = a.address
  <2> DEFINE e == Effective(a, L)
  <2>1. /\ e \in Answers /\ e.address = a.address /\ e.expires <= a.expires
        /\ \A i \in 1 .. Len(L) : e.expires <= L[i].expires
    BY <1>3, <1>5, EffectiveAnswer, Zenon
  <2> HIDE DEF e
  <2>2. \E k \in Kinds : \E b \in found[k].answers :
          b.address = e.address /\ e.expires <= b.expires
    BY <2>1, Zenon DEF Kinds
  <2>3. /\ e.expires \in Nat
        /\ \A i \in 1 .. Len(L) : L[i].expires \in Nat
        /\ \A i \in 1 .. Len(p) : p[i].expires \in Nat
        /\ \A i \in 1 .. Len(q) : q[i].expires \in Nat
    <3>1. /\ \A i \in 1 .. Len(L) : L[i] \in Links
          /\ \A i \in 1 .. Len(p) : p[i] \in Links
          /\ \A i \in 1 .. Len(q) : q[i] \in Links
      BY <1>1, <1>5
    <3> QED
      BY <2>1, <3>1, Zenon DEF Links, Answers
  <2>4. /\ \A i \in 1 .. Len(p) : e.expires <= p[i].expires
        /\ \A i \in 1 .. Len(q) : e.expires <= q[i].expires
    BY <1>5, <2>1, <2>3, SMTT(60)
  <2>5. Supported(e)
    BY <2>2, <2>4, Zenon DEF Supported, Kinds
  <2> QED
    BY <2>1, <2>5, Zenon DEF e
<1>7. Merged(L) = {Effective(a, L) : a \in U}
  BY Zenon DEF Merged
<1>8. IsFiniteSet(Merged(L))
  <2> DEFINE f == [a \in U |-> Effective(a, L)]
  <2>1. Merged(L) = {f[a] : a \in U}
    BY <1>7, ZenonT(40)
  <2> HIDE DEF U, f
  <2> QED
    BY <1>3, <2>1, ImageIsFinite
<1> HIDE DEF U
<1>9. OnePerAddress(Merged(L))
  BY <1>4, <1>6, <1>7 DEF OnePerAddress
<1>10. Merged(L) \in SUBSET Answers /\ \A a \in Merged(L) : Supported(a)
  BY <1>6, <1>7, Zenon
<1> QED
  BY <1>5, <1>8, <1>9, <1>10, Zenon DEF L

\* Steps that leave the evidence alone keep what is known of it.
LEMMA EvidenceKept ==
    ASSUME SetupInv, UNCHANGED <<kind, current, path, found, chain, answers>>,
           clock' \in Nat, attempts' \in Seq(Results),
           dns' = dns \/ dns # "resolved"
    PROVE  SetupTypes' /\ PathInv' /\ FoundInv' /\ AnswerInv'
<1>1. SetupTypes'
  BY Zenon DEF SetupInv, SetupTypes
<1>2. PathInv'
  BY ZenonT(60) DEF SetupInv, PathInv, LastName, ChainIsAPath
<1>3. FoundInv'
  BY Zenon DEF SetupInv, FoundInv, OnePerAddress
<1>4. AnswerInv'
  <2>1. AnswerInv
    BY Zenon DEF SetupInv
  <2>2. dns' # "resolved" => answers' = <<>>
    BY <2>1, Zenon DEF AnswerInv
  <2>3. \A i \in 1 .. Len(answers) : Supported(answers[i])'
    BY <2>1, Zenon DEF AnswerInv, Supported
  <2>4. \A i, j \in 1 .. Len(answers) :
           i < j => answers[i].address < answers[j].address
    BY <2>1, Zenon DEF AnswerInv
  <2> QED
    BY <2>2, <2>3, <2>4, Zenon DEF AnswerInv
<1> QED
  BY <1>1, <1>2, <1>3, <1>4, Zenon

\* The steps of resolve_service preserve the invariant.
LEMMA DnsFailInv ==
    ASSUME SetupInv, dns # "resolved", NEW e, DnsFail(e), UNCHANGED tlsVars
    PROVE  SetupInv'
<1>1. UNCHANGED <<tls, attempts, authAt, answers>> /\ tls = "start"
  BY ZenonT(40) DEF DnsFail, tlsVars, SetupInv, AttemptInv
<1>2. SetupTypes' /\ PathInv' /\ FoundInv' /\ AnswerInv'
  BY <1>1, EvidenceKept, ZenonT(40) DEF DnsFail, SetupInv, SetupTypes
<1>3. AttemptInv'
  BY <1>1, Zenon DEF SetupInv, AttemptInv
<1> QED
  BY <1>2, <1>3, Zenon DEF SetupInv

\* Whatever steps change while the resolution runs, no attempt has been made.
LEMMA NoAttemptYet ==
    ASSUME SetupInv, dns # "resolved", UNCHANGED tlsVars,
           answers' \in Seq(Answers)
    PROVE  AttemptInv'
<1>1. UNCHANGED <<tls, attempts, authAt>> /\ tls = "start" /\ attempts = <<>>
  BY Zenon DEF tlsVars, SetupInv, AttemptInv
<1>2. 0 <= Min2(EndpointAttempts, Len(answers'))
  BY AuthenticationNumbers DEF Min2
<1> QED
  BY <1>1, <1>2 DEF AttemptInv

\* Without answers there is nothing to support.
LEMMA NoAnswerYet == ASSUME answers' = <<>> PROVE AnswerInv'
<1>1. \A i \in 1 .. Len(answers') : FALSE
  OBVIOUS
<1> QED
  BY <1>1, Zenon DEF AnswerInv

\* A response completes the record type, is followed, or fails.
LEMMA RespondInv ==
    ASSUME SetupInv, NEW r \in Responses[kind], Respond(r), UNCHANGED tlsVars
    PROVE  SetupInv'
<1>1. SetupTypes /\ dns = "wait" /\ answers = <<>>
  BY Zenon DEF SetupInv, AnswerInv, Respond
<1>2. CASE Complete(OwnAnswers(r))
  <2> DEFINE A == Canonicalize(OwnAnswers(r))
  <2>1. /\ A \in SUBSET Answers /\ IsFiniteSet(A) /\ OnePerAddress(A)
        /\ \A a \in A : a.address \in AddressesOf(kind)
    BY <1>1, CompletedAnswers, Zenon
  <2>2. /\ found' = [found EXCEPT ![kind] = [links |-> path, answers |-> A]]
        /\ dns' \in {"ask", "merge"} /\ kind' = "AAAA" /\ current' = Service
        /\ path' = <<>> /\ UNCHANGED <<clock, chain, answers>>
    BY <1>2, Zenon DEF Complete
  <2> HIDE DEF A
  <2>3. /\ kind \in Kinds
        /\ found'[kind].links = path /\ found'[kind].answers = A
        /\ \A k \in Kinds : k # kind => found'[k] = found[k]
    BY <1>1, <2>2, Zenon DEF SetupTypes
  <2>4. SetupTypes'
    <3>1. found' \in [Kinds -> [links : Seq(Links), answers : SUBSET Answers]]
      BY <1>1, <2>1, <2>2, Zenon DEF SetupTypes
    <3> QED
      BY <1>1, <2>2, <3>1, NamesAssumption, SMTT(30)
         DEF SetupTypes, Kinds, tlsVars
  <2>5. PathInv'
    <3>1. ChainIsAPath(path') /\ ChainIsAPath(chain') /\ current' = LastName(path')
      BY <2>2, EmptyChain, ZenonT(40) DEF SetupInv, PathInv, LastName
    <3>2. \A k \in Kinds : ChainIsAPath(found'[k].links)
      BY <2>3, Zenon DEF SetupInv, PathInv
    <3> QED
      BY <3>1, <3>2, ZenonT(40) DEF PathInv, ChainIsAPath, LastName
  <2>6. FoundInv'
    BY <2>1, <2>3, ZenonT(40) DEF SetupInv, FoundInv, OnePerAddress
  <2>7. AnswerInv'
    BY <1>1, <2>2, NoAnswerYet, Zenon
  <2>8. AttemptInv'
    BY <1>1, <2>4, NoAttemptYet, Zenon DEF SetupTypes
  <2> QED
    BY <2>4, <2>5, <2>6, <2>7, <2>8, Zenon DEF SetupInv
<1>3. CASE OwnAliases(r) # {} /\ Follow(r)
  <2> DEFINE l == [owner |-> current, target |-> AliasTarget(r),
                   expires |-> AliasExpiry(r)]
  <2>1. l \in Links
    BY <1>1, <1>3, FollowedLink, ZenonT(40) DEF Links, SetupTypes
  <2>2. l.owner = current /\ l.target = AliasTarget(r)
    BY Zenon
  <2>3. CASE Len(path) >= MaxDepth \/ AliasTarget(r) \in Seen
    BY <1>1, <1>3, <2>3, DnsFailInv, ZenonT(40) DEF Follow
  <2>4. CASE ~(Len(path) >= MaxDepth \/ AliasTarget(r) \in Seen)
    <3>1. /\ path' = Append(path, l) /\ current' = AliasTarget(r)
          /\ dns' = "ask" /\ UNCHANGED <<clock, kind, found, chain, answers>>
      BY <1>3, <2>4, Zenon DEF Follow
    <3> HIDE DEF l
    <3>2. SetupTypes'
      <4>0. path \in Seq(Links)
        BY <1>1, ZenonT(40) DEF SetupTypes
      <4>1. path' \in Seq(Links)
        BY <2>1, <3>1, <4>0, PathGrows, Zenon
      <4>2. current' \in Names
        BY <2>1, <2>2, <3>1, Zenon DEF Links
      <4> QED
        BY <1>1, <3>1, <4>1, <4>2, ZenonT(40) DEF SetupTypes, tlsVars
    <3>3. ChainIsAPath(path')
      <4>1. l.target \notin NamesOf(path)
        BY <2>2, <2>4, Zenon DEF Seen, NamesOf
      <4>2. Len(path) < MaxDepth
        BY <1>1, <2>4, ResolutionNumbers, SMTT(30) DEF SetupTypes
      <4>3. path \in Seq(Links) /\ ChainIsAPath(path) /\ l.owner = LastName(path)
        BY <1>1, <2>2, Zenon DEF SetupInv, SetupTypes, PathInv
      <4>4. ChainIsAPath(Append(path, l))
        BY <2>1, <4>1, <4>2, <4>3, ChainGrows, ZenonT(40)
      <4> QED
        BY <3>1, <4>4, Zenon
    <3>4. current' = LastName(path')
      <4>0. path \in Seq(Links)
        BY <1>1, Zenon DEF SetupTypes
      <4>1. path' # <<>> /\ path'[Len(path')] = l
        BY <2>1, <3>1, <4>0, PathGrows, ZenonT(60)
      <4> QED
        BY <2>2, <3>1, <4>1, Zenon DEF LastName
    <3>5. PathInv'
      BY <3>1, <3>3, <3>4, ZenonT(60)
         DEF SetupInv, PathInv, ChainIsAPath, LastName
    <3>6. FoundInv'
      BY <3>1, ZenonT(40) DEF SetupInv, FoundInv, OnePerAddress
    <3>7. AnswerInv'
      BY <1>1, <3>1, NoAnswerYet, Zenon
    <3>8. AttemptInv'
      BY <1>1, <3>2, NoAttemptYet, Zenon DEF SetupTypes
    <3> QED
      BY <3>2, <3>5, <3>6, <3>7, <3>8 DEF SetupInv
  <2> QED
    BY <2>3, <2>4, Zenon
<1>4. CASE \E e \in DnsErrors : DnsFail(e)
  BY <1>1, <1>4, DnsFailInv, Zenon
<1> QED
  BY <1>2, <1>3, <1>4, Zenon DEF Respond, DnsErrors

\* The merge of the two record types.
LEMMA MergeInv == ASSUME SetupInv, Merge, UNCHANGED tlsVars PROVE SetupInv'
<1> DEFINE L == MergeLinks(found["A"].links, found["AAAA"].links)
           M == Merged(L)
<1>1. SetupTypes /\ PathInv /\ FoundInv /\ dns = "merge"
  BY Zenon DEF SetupInv, Merge
<1>2. CASE \E e \in DnsErrors : DnsFail(e)
  BY <1>1, <1>2, DnsFailInv, Zenon
<1>3. CASE ~\E e \in DnsErrors : DnsFail(e)
  <2>1. /\ ChainsAgree(found) /\ dns' = "resolved" /\ chain' = L
        /\ answers' = AttemptOrder(M)
        /\ UNCHANGED <<clock, kind, current, path, found>>
    BY <1>3, Zenon DEF Merge, Merged, DnsErrors
  <2>2. /\ L \in Seq(Links) /\ ChainIsAPath(L)
        /\ M \in SUBSET Answers /\ IsFiniteSet(M) /\ OnePerAddress(M)
        /\ \A a \in M : Supported(a)
    BY <1>1, <2>1, MergedAnswers, Zenon
  <2> HIDE DEF L, M
  <2>3. /\ answers' \in Seq(M) /\ Len(answers') = Cardinality(M)
        /\ \A i, j \in 1 .. Cardinality(M) :
              i < j => answers'[i].address < answers'[j].address
    BY <2>1, <2>2, AttemptOrderIsSorted, Zenon DEF OnePerAddress
  <2>4. /\ answers' \in Seq(Answers)
        /\ \A i \in 1 .. Len(answers') : answers'[i] \in M
    BY <2>2, <2>3
  <2>5. SetupTypes'
    BY <1>1, <2>1, <2>2, <2>4, ZenonT(40) DEF SetupTypes, tlsVars
  <2>6. PathInv'
    BY <1>1, <2>1, <2>2, ZenonT(60) DEF PathInv, ChainIsAPath, LastName
  <2>7. FoundInv'
    BY <1>1, <2>1, ZenonT(40) DEF FoundInv, OnePerAddress
  <2>8. AnswerInv'
    <3>1. \A a \in M : Supported(a)'
      BY <2>1, <2>2, Zenon DEF Supported
    <3> QED
      BY <2>1, <2>3, <2>4, <3>1, Zenon DEF AnswerInv, Supported
  <2>9. AttemptInv'
    BY <1>1, <2>4, NoAttemptYet, Zenon
  <2> QED
    BY <2>5, <2>6, <2>7, <2>8, <2>9, Zenon DEF SetupInv
<1> QED
  BY <1>2, <1>3

\* All of them.
LEMMA ResolutionInv ==
    ASSUME SetupInv, ResolutionStep, UNCHANGED tlsVars PROVE SetupInv'
<1>1. CASE Ask
  <2>1. dns = "ask"
    BY <1>1, Zenon DEF Ask
  <2>2. CASE \E e \in DnsErrors : DnsFail(e)
    BY <2>1, <2>2, DnsFailInv
  <2>3. CASE ~\E e \in DnsErrors : DnsFail(e)
    <3>1. UNCHANGED <<clock, kind, current, path, found, chain, answers>>
      BY <1>1, <2>3, Zenon DEF Ask, DnsErrors
    <3>2. SetupTypes' /\ PathInv' /\ FoundInv' /\ AnswerInv'
      BY <2>1, <3>1, EvidenceKept, Zenon DEF SetupInv, SetupTypes, tlsVars
    <3>3. AttemptInv'
      BY <2>1, <3>2, NoAttemptYet, Zenon DEF SetupTypes
    <3> QED
      BY <3>2, <3>3, Zenon DEF SetupInv
  <2> QED
    BY <2>2, <2>3
<1>2. CASE AskFail \/ ExchangeTimeout \/ \E e \in DnsErrors : ExchangeFail(e)
  BY <1>2, DnsFailInv, Zenon DEF AskFail, ExchangeTimeout, ExchangeFail
<1> QED
  BY <1>1, <1>2, MergeInv, RespondInv, Zenon DEF ResolutionStep

\* The steps of authenticate_service preserve it.
LEMMA AuthenticationInv ==
    ASSUME SetupInv, AuthenticationStep PROVE SetupInv'
<1> DEFINE n == Len(attempts)
<1>0. /\ n \in Nat /\ Len(answers) \in Nat /\ clock \in Nat
      /\ attempts \in Seq(Results)
  BY DEF SetupInv, SetupTypes
<1>1. UNCHANGED <<clock, resolutionVars>>
  BY Zenon
     DEF AuthenticationStep, Configure, StartAttempt, Exhausted, Hello,
         HandshakeIo, HandshakeFail, Authenticated, ConnectReturns,
         ConfigureFail, HelloFail, PolicyFail, TlsFail
<1>2. ASSUME AttemptInv', attempts' \in Seq(Results) PROVE SetupInv'
  BY <1>0, <1>1, <1>2, EvidenceKept, Zenon DEF SetupInv, resolutionVars
<1>3. UNCHANGED <<dns, answers>> /\ More' = (Len(attempts') < Min2(EndpointAttempts, Len(answers)))
  BY <1>1, Zenon DEF resolutionVars, More
<1>4. ASSUME NEW e, TlsFail(e), dns = "resolved", attempts' = attempts
      PROVE  SetupInv'
  <2>1. tls' = "failed"
    BY <1>4, Zenon DEF TlsFail
  <2> QED
    BY <1>0, <1>2, <1>3, <1>4, <2>1, Zenon DEF SetupInv, AttemptInv
<1>5. CASE Configure
  BY <1>0, <1>2, <1>3, <1>5, Zenon DEF Configure, SetupInv, AttemptInv
<1>6. CASE StartAttempt
  <2>1. CASE tls' = "connect"
    BY <1>0, <1>2, <1>3, <1>6, <2>1, ZenonT(40)
       DEF StartAttempt, SetupInv, AttemptInv, More, TlsFail
  <2>2. CASE tls' # "connect"
    BY <1>4, <1>6, <2>2, ZenonT(40) DEF StartAttempt, SetupInv, AttemptInv
  <2> QED
    BY <2>1, <2>2, Zenon
<1>7. CASE Exhausted
  BY <1>4, <1>7, Zenon DEF Exhausted, SetupInv, AttemptInv
<1>8. CASE Hello
  <2>1. CASE tls' = "handshake"
    BY <1>0, <1>2, <1>3, <1>8, <2>1, ZenonT(40)
       DEF Hello, SetupInv, AttemptInv, TlsFail
  <2>2. CASE tls' # "handshake"
    BY <1>4, <1>8, <2>2, ZenonT(40) DEF Hello, SetupInv, AttemptInv
  <2> QED
    BY <2>1, <2>2, Zenon
<1>9. CASE HandshakeIo
  BY <1>0, <1>2, <1>3, <1>9, Zenon DEF HandshakeIo, SetupInv, AttemptInv
<1>10. ASSUME NEW e \in TlsErrors, HandshakeFail(e) PROVE SetupInv'
  BY <1>4, <1>10, Zenon DEF HandshakeFail, SetupInv, AttemptInv
<1>11. CASE Authenticated
  <2>1. CASE Passed(Selected) # "none"
    BY <1>4, <1>11, <2>1, Zenon DEF Authenticated, SetupInv, AttemptInv
  <2>2. CASE Passed(Selected) = "none"
    <3>1. /\ tls = "handshake" /\ tls' = "authenticated" /\ authAt' = clock
          /\ attempts' = attempts
      BY <1>11, <2>2, Zenon DEF Authenticated
    <3>2. Selected = answers[n] /\ answers[n] \in Answers
      BY <1>0, <3>1, AuthenticationNumbers
         DEF Selected, SetupInv, SetupTypes, AttemptInv, Min2
    <3>3. clock < answers[n].expires /\ clock < SetupDeadline
      BY <1>0, <2>2, <3>2, AuthenticationNumbers DEF Passed, Answers
    <3> QED
      BY <1>0, <1>2, <1>3, <3>1, <3>3, ZenonT(40) DEF SetupInv, AttemptInv
  <2> QED
    BY <2>1, <2>2, Zenon
<1>12. ASSUME NEW outcome \in Results, ConnectReturns(outcome) PROVE SetupInv'
  <2> DEFINE over == Passed(Selected) # "none"
             res  == IF over \/ clock >= attemptEnd THEN "TimedOut" ELSE outcome
  <2>1. /\ tls = "connect" /\ attempts' = Append(attempts, res)
        /\ IF over THEN tls' = "failed"
           ELSE tls' = IF res = "Connected" THEN "hello" ELSE "next"
        /\ over => res # "Connected"
    BY <1>12, Zenon DEF ConnectReturns, TlsFail
  <2>2. res \in Results
    BY Zenon DEF Results
  <2> HIDE DEF over, res
  <2>3. /\ attempts' \in Seq(Results) /\ Len(attempts') = n + 1
        /\ attempts'[n + 1] = res /\ attempts' # <<>>
        /\ \A i \in 1 .. n : attempts'[i] = attempts[i]
    BY <1>0, <2>1, <2>2
  <2>4. /\ n < Min2(EndpointAttempts, Len(answers)) /\ dns = "resolved"
        /\ \A i \in 1 .. n : attempts[i] # "Connected"
    BY <2>1, Zenon DEF SetupInv, AttemptInv, More
  <2>5. /\ n + 1 <= Min2(EndpointAttempts, Len(answers))
        /\ \A i \in 1 .. n + 1 : attempts'[i] = "Connected" =>
                                   i = n + 1 /\ res = "Connected"
    BY <1>0, <2>3, <2>4, AuthenticationNumbers DEF Min2
  <2>6. AttemptInv'
    BY <1>0, <1>3, <2>1, <2>3, <2>4, <2>5, Zenon DEF AttemptInv
  <2> QED
    BY <1>2, <2>3, <2>6, Zenon
<1>13. ASSUME NEW e, ConfigureFail(e) \/ HelloFail(e) \/ PolicyFail(e)
       PROVE  SetupInv'
  BY <1>4, <1>13, Zenon
     DEF ConfigureFail, HelloFail, PolicyFail, SetupInv, AttemptInv
<1> QED
  BY <1>5, <1>6, <1>7, <1>8, <1>9, <1>10, <1>11, <1>12, <1>13, Zenon
     DEF AuthenticationStep

\* It holds initially, and Ready takes the evidence with it.
LEMMA SetupInitInv ==
    ASSUME answers = <<>>, attempts = <<>>, path = <<>>, chain = <<>>,
           found = [k \in Kinds |-> Nothing], current = Service, kind = "A",
           clock = 0, tls \notin {"connect", "hello", "handshake",
                                  "authenticated"},
           tls = "start" \/ dns = "resolved"
    PROVE  SetupInv
<1>1. Nothing.links = <<>> /\ Nothing.answers = {}
  BY Zenon DEF Nothing
<1>2. \A k \in Kinds : found[k].links = <<>> /\ found[k].answers = {}
  BY <1>1, Zenon
<1>3. SetupTypes
  BY NamesAssumption DEF SetupTypes, Kinds, Nothing
<1>4. PathInv
  BY <1>2, EmptyChain, Zenon DEF PathInv, LastName
<1>5. FoundInv
  BY <1>2, FS_EmptySet, Zenon DEF FoundInv, OnePerAddress
<1>6. AnswerInv
  BY DEF AnswerInv
<1>7. AttemptInv
  BY AuthenticationNumbers DEF AttemptInv, Min2
<1> QED
  BY <1>3, <1>4, <1>5, <1>6, <1>7, Zenon DEF SetupInv

\* After Ready as well.
LEMMA ReadyInv == ASSUME SendReady PROVE SetupInv'
<1>1. /\ answers' = <<>> /\ attempts' = <<>> /\ path' = <<>> /\ chain' = <<>>
      /\ found' = [k \in Kinds |-> Nothing] /\ current' = Service
      /\ kind' = "A" /\ clock' = 0 /\ tls' \in {"proxying", "failed"}
      /\ dns' = "resolved"
  BY Zenon DEF SendReady
<1>2. \A k \in Kinds : found'[k].links = <<>> /\ found'[k].answers = {}
  BY <1>1, Zenon DEF Nothing
<1>3. SetupTypes'
  BY <1>1, NamesAssumption, SMTT(30) DEF SetupTypes, Kinds, Nothing
<1>4. PathInv'
  <2>1. /\ ChainIsAPath(path') /\ ChainIsAPath(chain')
        /\ \A k \in Kinds : ChainIsAPath(found'[k].links)
    BY <1>1, <1>2, EmptyChain, Zenon
  <2> QED
    BY <1>1, <2>1, Zenon DEF PathInv, LastName, ChainIsAPath
<1>5. FoundInv'
  BY <1>2, FS_EmptySet, ZenonT(40) DEF FoundInv, OnePerAddress
<1>6. AnswerInv'
  BY <1>1 DEF AnswerInv
<1>7. AttemptInv'
  BY <1>1, AuthenticationNumbers DEF AttemptInv, Min2
<1> QED
  BY <1>3, <1>4, <1>5, <1>6, <1>7, Zenon DEF SetupInv

\* Steps that leave the setup alone, time apart, preserve it.
LEMMA SetupIdle ==
    ASSUME SetupInv, UNCHANGED <<resolutionVars, tlsVars>>, clock' \in Nat
    PROVE  SetupInv'
<1>1. SetupTypes' /\ PathInv' /\ FoundInv' /\ AnswerInv'
  BY EvidenceKept, ZenonT(40) DEF SetupInv, SetupTypes, resolutionVars, tlsVars
<1>2. AttemptInv'
  BY Zenon DEF SetupInv, AttemptInv, More, resolutionVars, tlsVars
<1> QED
  BY <1>1, <1>2, Zenon DEF SetupInv

\* The evidence is sound in every state of the session.
LEMMA SetupInvariance == SessionSpec => []SetupInv
<1>1. ASSUME SessionInit PROVE SetupInv
  BY <1>1, SetupInitInv, Zenon DEF SessionInit, Init, ResolutionInit
<1>2. ASSUME SetupInv, [SessionNext]_sessionVars PROVE SetupInv'
  <2>1. clock \in Nat
    BY <1>2, Zenon DEF SetupInv, SetupTypes
  <2>2. CASE UNCHANGED vars
    BY <1>2, <2>1, <2>2, SetupIdle, Zenon DEF vars
  <2>3. CASE Next
    <3>1. CASE ~Over /\ Elapse /\ UNCHANGED <<resolutionVars, tlsVars>>
      BY <1>2, <2>1, <3>1, SetupIdle DEF Elapse
    <3> QED
      BY <1>2, <2>2, <2>3, <3>1, ResolutionInv, AuthenticationInv, Zenon
         DEF Next
  <2> QED
    BY <1>2, <2>2, <2>3, ReadyInv, Zenon DEF SessionNext, sessionVars
<1> QED
  BY <1>1, <1>2, PTL DEF SessionSpec

\* The endpoint that is connected rests on sound evidence, for all names,
\* addresses, lifetimes, limits and deadlines and whatever the resolver and
\* the endpoints answer: the alias chains are paths from the service that
\* never return to a name, no record on the way had expired when the session
\* was authenticated, and the endpoints are attempted in canonical order,
\* within the declared number, up to the first connection (resolve_service,
\* authenticate_service).
THEOREM SessionEndpointIsEvidenced == SessionSpec => []EndpointIsEvidenced
<1>1. ASSUME SetupInv PROVE EndpointIsEvidenced
  <2>1. \A p \in {path, chain, found["A"].links, found["AAAA"].links} :
          ChainIsAPath(p)
    BY <1>1, Zenon DEF SetupInv, PathInv, Kinds
  <2>2. OneConnection
    BY <1>1, Zenon DEF SetupInv, AttemptInv, AnswerInv, OneConnection
  <2>3. ASSUME tls = "authenticated" PROVE NoRecordExpired
    <3> DEFINE n == Len(attempts)
    <3>1. /\ n \in 1 .. Len(answers) /\ answers[n] \in Answers
          /\ Supported(answers[n])
      BY <1>1, <2>3, AuthenticationNumbers
         DEF SetupInv, SetupTypes, AttemptInv, AnswerInv, Min2
    <3>2. /\ authAt < answers[n].expires /\ authAt < SetupDeadline
          /\ authAt \in Nat /\ answers[n].expires \in Nat
      BY <1>1, <2>3, <3>1, Zenon DEF SetupInv, AttemptInv, Answers
    <3> HIDE DEF n
    <3>3. ASSUME NEW k \in Kinds, NEW i \in 1 .. Len(found[k].links)
          PROVE  authAt < found[k].links[i].expires
      <4>1. found[k].links[i] \in Links
        BY <1>1 DEF SetupInv, SetupTypes
      <4>2. /\ found[k].links[i].expires \in Nat
            /\ answers[n].expires <= found[k].links[i].expires
        BY <3>1, <4>1, Zenon DEF Links, Supported
      <4> QED
        BY <3>2, <4>2, SMTT(60)
    <3>4. PICK k \in Kinds : \E b \in found[k].answers :
            b.address = answers[n].address /\ answers[n].expires <= b.expires
      BY <3>1, Zenon DEF Supported
    <3>5. PICK b \in found[k].answers :
            b.address = answers[n].address /\ answers[n].expires <= b.expires
      BY <3>4, Zenon
    <3>6. b.expires \in Nat
      BY <1>1 DEF SetupInv, SetupTypes, Answers
    <3>7. authAt < b.expires
      BY <3>2, <3>5, <3>6
    <3> QED
      BY <3>2, <3>3, <3>5, <3>7, ZenonT(40) DEF NoRecordExpired, n
  <2> QED
    BY <2>1, <2>2, <2>3, Zenon DEF EndpointIsEvidenced
<1> QED
  BY <1>1, SetupInvariance, PTL
=============================================================================
