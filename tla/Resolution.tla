----------------------------- MODULE Resolution -----------------------------
(***************************************************************************)
(* Resolution of the declared service through the declared resolver:       *)
(* resolve_service (connector/src/dns.rs).  The resolver is external: it   *)
(* answers any records, late, or not at all.  A response is the answer     *)
(* records that parse: the set of them, and how many addresses each name   *)
(* owns, repeated ones included.  A record carries its owner, its data and *)
(* its lifetime, and the clock counts from the start of the resolution.    *)
(***************************************************************************)
EXTENDS Naturals, Sequences, FiniteSets

CONSTANTS
    Names, Service,      \* DNS names, the declared one among them
    Addresses4, Addresses6,  \* addresses, numbered in network-byte order
    Lifetimes,           \* TTLs the resolver may send
    RecordsPerResponse,  \* bound on the records of one response
    MaxMessages,         \* limits.dns_messages
    MaxDepth,            \* maximum_cname_depth
    MaxAnswers,          \* maximum_answer_count
    ResolutionDeadline,  \* resolution_deadline_ms
    AttemptDeadline,     \* attempt_deadline_ms
    MaxClock             \* bound on the clock, past every deadline

ASSUME NamesAssumption == Service \in Names
ASSUME AddressAssumption ==
    /\ Addresses4 \subseteq Nat /\ Addresses6 \subseteq Nat
    /\ \A a \in Addresses4, b \in Addresses6 : a < b
ASSUME ResolutionNumbers ==
    /\ Lifetimes \subseteq Nat /\ RecordsPerResponse \in Nat
    /\ MaxMessages \in Nat /\ MaxDepth \in Nat /\ MaxAnswers \in Nat
    /\ ResolutionDeadline \in Nat /\ AttemptDeadline \in Nat
    /\ MaxClock \in Nat

VARIABLES
    clock,       \* elapsed_ns since the resolution started
    dns,         \* control point of resolve_service
    messages,    \* responses retained
    kind,        \* record type asked for: "A" or "AAAA"
    current,     \* the name being asked for
    path,        \* CNAME links followed for this record type
    deadline,    \* deadline of the exchange in flight
    found,       \* RecordResolution of each completed record type
    chain,       \* the reconciled alias chain
    answers,     \* the canonical answers, in attempt order
    dnsError     \* DnsError

resolutionVars == <<dns, messages, kind, current, path, deadline, found,
                    chain, answers, dnsError>>

Kinds == {"A", "AAAA"}
AddressesOf(k) == IF k = "A" THEN Addresses4 ELSE Addresses6
DnsErrors == {"RandomUnavailable", "ResolverUnavailable", "RequestFailed",
    "ResponseFailed", "ResponseTooLarge", "MessageLimit", "Deadline",
    "MalformedResponse", "ResolverFailure", "InvalidCnameChain",
    "InvalidAnswerSet", "ExpiredAnswer"}

\* Records of the answer section for a query of type k.
AliasRecords   == [owner : Names, target : Names, ttl : Lifetimes]
AddressRecords(k) == [owner : Names, address : AddressesOf(k),
                      ttl : Lifetimes]
Responses ==
    [k \in Kinds |->
       LET Records == AliasRecords \union AddressRecords(k)
       IN  {[aliases   |-> {r[i] : i \in DOMAIN r} \intersect AliasRecords,
             addresses |-> {r[i] : i \in DOMAIN r}
                             \intersect AddressRecords(k),
             listed    |-> [n \in Names |->
                              Cardinality({i \in DOMAIN r :
                                 /\ r[i] \in AddressRecords(k)
                                 /\ r[i].owner = n})]] :
              r \in UNION {[1 .. n -> Records] :
                             n \in 0 .. RecordsPerResponse}}]

Nothing == [links |-> <<>>, answers |-> {}]

ResolutionInit ==
    /\ clock = 0 /\ dns = "ask" /\ messages = 0 /\ kind = "A"
    /\ current = Service /\ path = <<>> /\ deadline = 0
    /\ found = [k \in Kinds |-> Nothing] /\ chain = <<>> /\ answers = <<>>
    /\ dnsError = "none"

-----------------------------------------------------------------------------
(* What one response means. *)

\* canonicalize_answers keeps, of the records of one address, the one that
\* expires first.
Canonicalize(records) ==
    {r \in records : \A s \in records :
        s.address = r.address => r.expires <= s.expires}

\* parse_response and validated_owner_records: the links and the addresses
\* the current name owns.  Targets that differ only in lifetime are one.
OwnAnswers(r) ==
    {[address |-> a.address, expires |-> clock + a.ttl] :
        a \in {x \in r.addresses : x.owner = current}}
OwnAliases(r) == {a \in r.aliases : a.owner = current}
AliasTarget(r) == CHOOSE n \in Names : \E a \in OwnAliases(r) : a.target = n
AliasExpiry(r) ==
    clock + (CHOOSE t \in {a.ttl : a \in OwnAliases(r)} :
               \A a \in OwnAliases(r) : t <= a.ttl)

AliasesConflict(r) ==
    \/ OwnAnswers(r) # {} /\ OwnAliases(r) # {}
    \/ Cardinality({a.target : a \in OwnAliases(r)}) > 1
HasZeroLifetime(r) == \E x \in r.aliases \union r.addresses : x.ttl = 0

\* The names on the path so far, the service first.
Seen == {Service} \union {path[i].target : i \in 1 .. Len(path)}

-----------------------------------------------------------------------------
(* The merge of the two record types. *)

SamePath(p, q) ==
    /\ Len(p) = Len(q)
    /\ \A i \in 1 .. Len(p) : p[i].owner = q[i].owner
                              /\ p[i].target = q[i].target

MergeLinksFirst(p, q) == IF p = <<>> THEN q ELSE p

\* merge_cname_observations: of two observations of a link, the one that
\* expires first.
MergeLinks(p, q) ==
    IF p = <<>> THEN q ELSE IF q = <<>> THEN p
    ELSE [i \in 1 .. Len(p) |->
            IF p[i].expires <= q[i].expires THEN p[i] ELSE q[i]]

\* reconcile_chains: the path that led to addresses; the other record type
\* has the same path or none.
Governing(f) == IF f["A"].answers = {} THEN f["AAAA"].links
                                       ELSE f["A"].links
ChainsAgree(f) ==
    /\ f["A"].answers # {} /\ f["AAAA"].answers # {} =>
         SamePath(f["A"].links, f["AAAA"].links)
    /\ Len(Governing(f)) <= MaxDepth
    /\ \A k \in Kinds :
         f[k].links # <<>> => SamePath(f[k].links, Governing(f))

\* apply_chain_expiry: no answer outlives a link that leads to it.
Effective(a, links) ==
    [address |-> a.address,
     expires |-> CHOOSE t \in {a.expires} \union
                                {links[i].expires : i \in 1 .. Len(links)} :
                   /\ t <= a.expires
                   /\ \A i \in 1 .. Len(links) : t <= links[i].expires]

\* The address order of address_key: IPv4 first, then network-byte order.
\* The answer at a place is the one that all answers of earlier places precede.
Preceding(set, a) == {b \in set : b.address < a.address}
AttemptOrder(set) ==
    [i \in 1 .. Cardinality(set) |->
       CHOOSE a \in set : Cardinality(Preceding(set, a)) = i - 1]

-----------------------------------------------------------------------------
(* Steps. *)

DnsFail(e) ==
    /\ dns' = "failed" /\ dnsError' = e
    /\ UNCHANGED <<clock, messages, kind, current, path, deadline, found,
                   chain, answers>>

Min2(a, b) == IF a <= b THEN a ELSE b

\* exchange_query up to the request: the message bound, the transaction
\* identifier, and the deadline of this exchange.
Ask ==
    /\ dns = "ask"
    /\ IF messages >= MaxMessages THEN DnsFail("MessageLimit")
       ELSE IF clock >= ResolutionDeadline THEN DnsFail("Deadline")
       ELSE /\ dns' = "wait"
            /\ deadline' = Min2(clock + AttemptDeadline, ResolutionDeadline)
            /\ UNCHANGED <<clock, messages, kind, current, path, found, chain,
                           answers, dnsError>>

AskFail == dns = "ask" /\ DnsFail("RandomUnavailable")

\* The connection, the request or the response fails, or the response is
\* too large, does not parse, or reports a failure.
ExchangeFail(e) ==
    /\ dns = "wait"
    /\ e \in {"ResolverUnavailable", "RequestFailed", "ResponseFailed",
              "ResponseTooLarge", "MalformedResponse", "ResolverFailure"}
    /\ DnsFail(e)

ExchangeTimeoutPerRead ==
    dns = "wait" /\ clock >= deadline + MaxClock /\ DnsFail("Deadline")

ExchangeTimeout == dns = "wait" /\ clock >= deadline /\ DnsFail("Deadline")

\* The record type is complete: the next one starts at the service again,
\* and after the second the two are merged.
Complete(own) ==
    /\ found' = [found EXCEPT ![kind] =
                   [links |-> path, answers |-> Canonicalize(own)]]
    /\ messages' = messages + 1
    /\ dns' = IF kind = "A" THEN "ask" ELSE "merge"
    /\ kind' = "AAAA" /\ current' = Service /\ path' = <<>>
    /\ UNCHANGED <<clock, deadline, chain, answers, dnsError>>

FollowAnyDepth(r) ==
    LET target == AliasTarget(r)
    IN  /\ path' = Append(path, [owner |-> current, target |-> target,
                                 expires |-> AliasExpiry(r)])
        /\ current' = target /\ messages' = messages + 1 /\ dns' = "ask"
        /\ UNCHANGED <<clock, kind, deadline, found, chain, answers, dnsError>>

\* One alias is followed, unless the chain is too deep or returns to a name.
Follow(r) ==
    LET target == AliasTarget(r)
    IN  IF Len(path) >= MaxDepth \/ target \in Seen
        THEN DnsFail("InvalidCnameChain")
        ELSE /\ path' = Append(path, [owner |-> current, target |-> target,
                                      expires |-> AliasExpiry(r)])
             /\ current' = target /\ messages' = messages + 1 /\ dns' = "ask"
             /\ UNCHANGED <<clock, kind, deadline, found, chain, answers,
                            dnsError>>

\* A complete response arrives before the deadline of the exchange.  The
\* answers are counted before those of one address are merged.
Respond(r) ==
    /\ dns = "wait" /\ clock < deadline
    /\ IF HasZeroLifetime(r) THEN DnsFail("ExpiredAnswer")
       ELSE IF AliasesConflict(r) THEN DnsFail("InvalidCnameChain")
       ELSE IF r.listed[current] > MaxAnswers
            THEN DnsFail("InvalidAnswerSet")
       ELSE IF OwnAliases(r) = {} THEN Complete(OwnAnswers(r))
       ELSE Follow(r)

\* The rest of resolve_service.
Merge ==
    /\ dns = "merge"
    /\ LET links  == MergeLinks(found["A"].links, found["AAAA"].links)
           merged == {Effective(a, links) :
                        a \in found["A"].answers \union found["AAAA"].answers}
       IN  IF ~ChainsAgree(found) THEN DnsFail("InvalidCnameChain")
           ELSE IF merged = {} \/ Cardinality(merged) > MaxAnswers
             THEN DnsFail("InvalidAnswerSet")
           ELSE IF \E a \in merged : a.expires <= clock
             THEN DnsFail("ExpiredAnswer")
           ELSE IF clock >= ResolutionDeadline THEN DnsFail("Deadline")
           ELSE /\ dns' = "resolved" /\ chain' = links
                /\ answers' = AttemptOrder(merged)
                /\ UNCHANGED <<clock, messages, kind, current, path, deadline,
                               found, dnsError>>

Elapse ==
    /\ clock < MaxClock
    /\ clock' = clock + 1

ResolutionStep ==
    \/ Ask \/ AskFail \/ ExchangeTimeout \/ Merge
    \/ \E e \in DnsErrors : ExchangeFail(e)
    \/ \E r \in Responses[kind] : Respond(r)
=============================================================================
