---------------------------- MODULE ChannelProxy ----------------------------
(***************************************************************************)
(* The byte proxy of one authenticated session:                            *)
(* proxy_authenticated_channel (connector/src/tls.rs), between the child's *)
(* stream socket and the TLS connection.  Bytes are opaque, so each buffer *)
(* is the number of bytes it holds.  One pass of the loop is one step per  *)
(* system call: the child, the service and the clock act between any two.  *)
(* The sockets and the TLS library are external.                           *)
(***************************************************************************)
EXTENDS Naturals

CONSTANTS
    ChildLimit,    \* child_to_service_limit
    ServiceLimit,  \* service_to_child_limit
    BufferSize,    \* PROXY_BUFFER_BYTES
    ChildWrites,   \* bound on the bytes the child writes
    ServiceWrites  \* bound on the bytes the service writes

ASSUME ProxyAssumption ==
    /\ ChildLimit \in Nat /\ ServiceLimit \in Nat
    /\ BufferSize \in Nat \ {0}
    /\ ChildWrites \in Nat /\ ServiceWrites \in Nat

VARIABLES
    pc,         \* control point of the loop
    expired,    \* the session limit has elapsed
    fromChild,  \* bytes the child wrote that the proxy has not read
    childDone,  \* the child closed its writing side
    toService,  \* plaintext the TLS connection has accepted and not sent
    served,     \* bytes sent to the service
    wire,       \* service bytes that have not reached the connection
    ended,      \* how the service ended the stream: "open", "notify", "cut"
    plain,      \* decrypted bytes not yet read
    pending,    \* pending_child not yet written
    delivered,  \* bytes written to the child's socket
    wrote, sent,           \* bytes written by the child, by the service
    childOpen, peerOpen,   \* child_open, peer_open
    closeNotify,           \* close_notify_sent
    childBytes, serviceBytes,  \* the two counters of the session
    result      \* "none", "Ok" or the error

envVars   == <<fromChild, childDone, wire, ended, wrote, sent, expired>>
proxyVars == <<toService, served, plain, pending, delivered, childOpen,
               peerOpen, closeNotify, childBytes, serviceBytes>>
channelVars == <<pc, envVars, proxyVars, result>>

Points == {"top", "writeChild", "readChild", "notify", "writeTls", "readTls",
           "readPlain", "leave", "done"}
ChannelErrors == {"ChildRead", "ChildWrite", "ChildToServiceLimit",
    "ServiceToChildLimit", "SessionIo", "SessionDeadline", "PrematureClose",
    "Authentication"}

ProxyInit ==
    /\ pc = "top" /\ expired = FALSE /\ fromChild = 0 /\ childDone = FALSE
    /\ toService = 0 /\ served = 0 /\ wire = 0 /\ ended = "open" /\ plain = 0
    /\ pending = 0 /\ delivered = 0 /\ wrote = 0 /\ sent = 0
    /\ childOpen = TRUE /\ peerOpen = TRUE /\ closeNotify = FALSE
    /\ childBytes = 0 /\ serviceBytes = 0 /\ result = "none"

-----------------------------------------------------------------------------
(* The child, the service and the clock. *)

ChildSend ==
    /\ ~childDone /\ wrote < ChildWrites /\ pc # "done"
    /\ fromChild' = fromChild + 1 /\ wrote' = wrote + 1
    /\ UNCHANGED <<pc, proxyVars, result, childDone, wire, ended, sent,
                   expired>>

ChildShutdown ==
    /\ ~childDone /\ pc # "done"
    /\ childDone' = TRUE
    /\ UNCHANGED <<pc, proxyVars, result, fromChild, wire, ended, wrote, sent,
                   expired>>

ServiceSend ==
    /\ ended = "open" /\ sent < ServiceWrites /\ pc # "done"
    /\ wire' = wire + 1 /\ sent' = sent + 1
    /\ UNCHANGED <<pc, proxyVars, result, fromChild, childDone, ended, wrote,
                   expired>>

\* The service closes the session, with or without a close notification.
ServiceEnd(how) ==
    /\ ended = "open" /\ pc # "done"
    /\ ended' = how
    /\ UNCHANGED <<pc, proxyVars, result, fromChild, childDone, wire, wrote,
                   sent, expired>>

Expire ==
    /\ ~expired /\ pc # "done"
    /\ expired' = TRUE
    /\ UNCHANGED <<pc, proxyVars, result, fromChild, childDone, wire, ended,
                   wrote, sent>>

-----------------------------------------------------------------------------
(* The loop of proxy_authenticated_channel. *)

Return(r) ==
    /\ pc' = "done" /\ result' = r
    /\ UNCHANGED <<envVars, proxyVars>>

Go(from, to) == pc = from /\ pc' = to /\ UNCHANGED result

TopUnchecked ==
    /\ pc = "top" /\ Go("top", "writeChild")
    /\ UNCHANGED <<envVars, proxyVars>>

\* require_active
Top ==
    /\ pc = "top"
    /\ IF expired THEN Return("SessionDeadline")
       ELSE Go("top", "writeChild") /\ UNCHANGED <<envVars, proxyVars>>

\* The pending bytes are offered to the child: n of them are taken, 0 when
\* the write would block.
WriteChild(n) ==
    /\ n <= pending
    /\ Go("writeChild", "readChild")
    /\ pending' = pending - n /\ delivered' = delivered + n
    /\ serviceBytes' = serviceBytes + n
    /\ UNCHANGED <<envVars, toService, served, plain, childOpen, peerOpen,
                   closeNotify, childBytes>>

WriteChildFail == pc = "writeChild" /\ pending > 0 /\ Return("ChildWrite")

\* n bytes of the child are read and accepted by the TLS connection, unless
\* they would exceed the limit.
ReadChild(n) ==
    /\ pc = "readChild" /\ childOpen /\ n \in 1 .. fromChild
    /\ n <= BufferSize
    /\ IF childBytes + n > ChildLimit THEN Return("ChildToServiceLimit")
       ELSE /\ Go("readChild", "notify")
            /\ fromChild' = fromChild - n /\ toService' = toService + n
            /\ childBytes' = childBytes + n
            /\ UNCHANGED <<childDone, wire, ended, wrote, sent, expired,
                           served, plain, pending, delivered, childOpen,
                           peerOpen, closeNotify, serviceBytes>>

\* The TLS connection refuses the bytes or takes fewer of them: none of these
\* is sent, for the session ends.
ReadChildRefused ==
    /\ pc = "readChild" /\ childOpen /\ fromChild > 0
    /\ childBytes < ChildLimit /\ Return("SessionIo")

\* No byte of the child: its end of file is seen once, otherwise the read
\* would block.
ReadChildNothing ==
    /\ childOpen => fromChild = 0
    /\ Go("readChild", "notify")
    /\ childOpen' = IF childDone THEN FALSE ELSE childOpen
    /\ UNCHANGED <<envVars, toService, served, plain, pending, delivered,
                   peerOpen, closeNotify, childBytes, serviceBytes>>

ReadChildFail == pc = "readChild" /\ childOpen /\ Return("ChildRead")

NotifyAtEof ==
    /\ Go("notify", "writeTls")
    /\ closeNotify' = childDone
    /\ UNCHANGED <<envVars, toService, served, plain, pending, delivered,
                   childOpen, peerOpen, childBytes, serviceBytes>>

\* send_close_notify, once the child has closed.
Notify ==
    /\ Go("notify", "writeTls")
    /\ closeNotify' = ~childOpen
    /\ UNCHANGED <<envVars, toService, served, plain, pending, delivered,
                   childOpen, peerOpen, childBytes, serviceBytes>>

\* write_tls until it would block: n bytes leave.
WriteTls(n) ==
    /\ n <= toService
    /\ Go("writeTls", "readTls")
    /\ toService' = toService - n /\ served' = served + n
    /\ UNCHANGED <<envVars, plain, pending, delivered, childOpen, peerOpen,
                   closeNotify, childBytes, serviceBytes>>

WriteTlsFail == pc = "writeTls" /\ Return("SessionIo")

\* read_tls and process_new_packets: n bytes are decrypted; the close
\* notification is the last thing the service sends and may come with them.
ReadTls(n) ==
    /\ peerOpen
    /\ \/ n \in 1 .. wire
       \/ n = 0 /\ wire = 0 /\ ended = "notify"
    /\ Go("readTls", "readPlain")
    /\ wire' = wire - n /\ plain' = plain + n
    /\ peerOpen' \in {TRUE, ~(ended = "notify" /\ wire = n)}
    /\ UNCHANGED <<fromChild, childDone, ended, wrote, sent, expired,
                   toService, served, pending, delivered, childOpen,
                   closeNotify, childBytes, serviceBytes>>

\* Nothing to read, or the peer has closed and is no longer read.
ReadTlsNothing ==
    /\ Go("readTls", "readPlain")
    /\ UNCHANGED <<envVars, proxyVars>>

\* End of file without a notification.
ReadTlsCut ==
    /\ pc = "readTls" /\ peerOpen /\ ended = "cut" /\ wire = 0
    /\ Return("PrematureClose")

ReadTlsFail(e) ==
    /\ pc = "readTls" /\ peerOpen /\ e \in {"SessionIo", "Authentication"}
    /\ Return(e)

PermittedWhole == BufferSize

\* When nothing is pending, at most the bytes the limit leaves are read; at
\* the limit one byte is read to find out that there is one too many.
Remaining == ServiceLimit - serviceBytes
Permitted == IF Remaining = 0 THEN 1
             ELSE IF Remaining < BufferSize THEN Remaining ELSE BufferSize

ReadPlain ==
    /\ pc = "readPlain"
    /\ IF pending = 0 /\ plain > 0
       THEN IF Remaining = 0 THEN Return("ServiceToChildLimit")
            ELSE LET n == IF plain < Permitted THEN plain ELSE Permitted
                 IN  /\ Go("readPlain", "leave")
                     /\ pending' = n /\ plain' = plain - n
                     /\ UNCHANGED <<envVars, toService, served, delivered,
                                    childOpen, peerOpen, closeNotify,
                                    childBytes, serviceBytes>>
       ELSE Go("readPlain", "leave") /\ UNCHANGED <<envVars, proxyVars>>

LeaveEarly ==
    /\ pc = "leave"
    /\ IF ~peerOpen THEN Return("Ok")
       ELSE Go("leave", "top") /\ UNCHANGED <<envVars, proxyVars>>

\* The session ends when the peer closed and nothing is pending.
Leave ==
    /\ pc = "leave"
    /\ IF ~peerOpen /\ pending = 0
       THEN Return("Ok")
       ELSE Go("leave", "top") /\ UNCHANGED <<envVars, proxyVars>>

\* The writing side of the channel cannot be shut down.
LeaveFail ==
    pc = "leave" /\ ~peerOpen /\ pending = 0 /\ Return("ChildWrite")

Counts == 0 .. ChildWrites + ServiceWrites

ProxyStep ==
    \/ Top \/ WriteChildFail \/ ReadChildRefused \/ ReadChildNothing
    \/ ReadChildFail \/ Notify \/ WriteTlsFail \/ ReadTlsNothing \/ ReadTlsCut
    \/ ReadPlain \/ Leave \/ LeaveFail
    \/ \E n \in Counts : WriteChild(n) \/ ReadChild(n) \/ WriteTls(n)
                         \/ ReadTls(n)
    \/ \E e \in ChannelErrors : ReadTlsFail(e)

ProxyNext ==
    \/ ProxyStep \/ ChildSend \/ ChildShutdown \/ ServiceSend \/ Expire
    \/ \E how \in {"notify", "cut"} : ServiceEnd(how)
    \/ pc = "done" /\ UNCHANGED channelVars

ProxySpec == ProxyInit /\ [][ProxyNext]_channelVars

-----------------------------------------------------------------------------
(* Properties. *)

\* No byte beyond a limit of the plan crosses the proxy in either direction,
\* not even in the session that fails for it (the bound checks of the loop).
LimitsHold ==
    /\ served + toService <= ChildLimit
    /\ delivered + pending <= ServiceLimit

\* A session that ends well lost nothing of the service: every byte sent
\* before the close notification reached the child and was counted, and the
\* count of the child's bytes is what the connection accepted.
OkIsComplete ==
    result = "Ok" =>
        /\ ended = "notify" /\ wire = 0
        /\ serviceBytes = sent /\ delivered = sent
        /\ childBytes = served + toService

\* The close notification follows the last byte of the child: the half-close
\* truncates nothing (child_open, send_close_notify).
NotifyFollowsLastByte ==
    closeNotify => childDone /\ fromChild = 0 /\ childBytes = wrote
=============================================================================
