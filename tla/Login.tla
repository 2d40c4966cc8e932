---------------------------------- MODULE Login ----------------------------------
(* What the session pool asks the network for: a login over MMTLS              *)
(* (loginAndSession of internal/protocol/pool.go) and a request on the session *)
(* it gave (sendEnvelope), with the HTTPDNS lookups, the dialing of            *)
(* internal/protocol/transport.go through a proxy or not, and the servers that *)
(* are tried in turn.                                                          *)
EXTENDS Shortlink, NewDns

CONSTANTS
    Answers,        \* what an HTTPDNS host may answer
    Proxies,        \* ways out: "none", one of Schemes, or a string that is neither
    FallbackDirect  \* config: TCPProxyFallbackDirect

ASSUME ProxiesAssumption == "none" \in Proxies /\ FallbackDirect \in BOOLEAN

ASSUME AnswersAssumption ==
    \A answer \in Answers :
        /\ IsSequence(answer.domains)
        /\ \A i \in DOMAIN answer.domains :
            LET d == answer.domains[i]
            IN  /\ d.ips \in Seq(0 .. MaxIp) /\ IsSequence(d.protocols)
                /\ \A p \in DOMAIN d.protocols : d.protocols[p].ports \in Seq(Int)

VARIABLES
    renewed,  \* flips when a flight that goes on has the read deadline renewed
    dns,      \* the list in dnsCache, Null when there is none
    at,       \* where the login or the request is
    job,      \* which of the two it is, and through which proxy
    host,     \* the HTTPDNS host that is asked, or was last
    todo,     \* the targets it has left
    conns,    \* connections it has opened so far; the last one is in use
    open,     \* those that are open
    deferred, \* those that are closed when it returns
    sess      \* the session of the last login, or Null

lookup == <<dns, host>>
dialing == <<job, todo, conns, open, deferred>>
loginVars == <<renewed, lookup, dialing, at, sess, mmtlsVars>>

Schemes == {"socks5", "http-connect"}
Looking == {"longDns", "shortDns"}
Dialing == {"dial", "direct", "greet", "connect", "tunnel"}
Places == {"home", "mmtls", "answer"} \cup Looking \cup Dialing

NoJob == [kind |-> "none", proxy |-> "none"]

LoginTypeOK ==
    /\ renewed \in BOOLEAN /\ host \in 1 .. 2
    /\ at \in Places
    /\ job.kind \in {"none", "login", "send"} /\ job.proxy \in Proxies
    /\ (at = "home") = (job = NoJob)
    /\ at \in {"direct", "greet", "connect", "tunnel"} => job.proxy # "none"
    /\ at = "mmtls" <=> mc.at # "closed" /\ at # "shortDns"
    /\ conns \in Nat /\ open \subseteq Nat /\ deferred \subseteq open
    /\ at \in {"greet", "connect", "tunnel", "mmtls", "answer"} => conns \in open
    /\ \A i \in DOMAIN todo : todo[i].ip \in 0 .. MaxIp

LoginInit ==
    /\ MmtlsInit
    /\ renewed = FALSE
    /\ dns = Null /\ host = 1
    /\ at = "home" /\ job = NoJob
    /\ todo = <<>> /\ conns = 0 /\ open = {} /\ deferred = {}
    /\ sess = Null

--------------------------------------------------------------------------------
Goto(from, to) == at = from /\ at' = to

(* The deferred closes run, that of `last` among them.                         *)
ReturnClosing(last) ==
    /\ at' = "home" /\ job' = NoJob
    /\ todo' = <<>> /\ conns' = 0 /\ open' = open \ (deferred \cup last) /\ deferred' = {}
    /\ Close

Return == ReturnClosing({})


NextTarget == todo' = Tail(todo)

(* The target has failed; its connection was closed by whoever made it, or is  *)
(* closed when the login returns.                                              *)
Continue(closed) ==
    /\ at' = "dial"
    /\ NextTarget
    /\ open' = open \ closed
    /\ Close
    /\ UNCHANGED <<job, conns, deferred>>

--------------------------------------------------------------------------------
(* getDNSParsed: the cached list while it lasts, or the answer of the first of *)
(* two hosts that gives one, which is cached.                                  *)
LongTargets(parsed) == OrderLonglinkTargets(ServersFor(parsed, LonglinkDomain, ProtoMmtls))

(* The pool asks for a login when it has no session it may use.                *)
StartLogin ==
    /\ at = "home"
    /\ \E proxy \in Proxies : job' = [kind |-> "login", proxy |-> proxy]
    /\ sess' = Null
    /\ \/ at' = "longDns" /\ host' = 1 /\ UNCHANGED todo
       \/ dns # Null /\ at' = "dial" /\ todo' = LongTargets(dns) /\ UNCHANGED host
    /\ UNCHANGED <<renewed, dns, conns, open, deferred, mmtlsVars>>

(* The session of a login: the access key and the servers it is for.           *)
NewSession(targets) ==
    /\ sess' = [entry |-> ExtractPSKs[AccessPSK], targets |-> targets, proxy |-> job.proxy]
    /\ Return

DnsAnswers ==
    /\ at \in Looking
    /\ \E answer \in {a \in Answers : Readable(a)} :
        /\ dns' = ParseDomainList(answer)
        /\ \/ /\ Goto("longDns", "dial")
              /\ todo' = LongTargets(dns')
              /\ UNCHANGED <<job, conns, open, deferred, sess, mmtlsVars>>
           \/ at = "shortDns" /\ NewSession(ShortlinkTargets(dns'))
    /\ UNCHANGED <<renewed, host>>

(* No connection, or an answer that is no list.                                *)
DnsFails ==
    /\ at \in Looking
    /\ IF host = 1 THEN host' = 2 /\ UNCHANGED <<dialing, at, sess, mmtlsVars>>
       ELSE /\ IF at = "longDns" THEN Return /\ UNCHANGED sess ELSE NewSession(<<DefaultTarget>>)
            /\ UNCHANGED host
    /\ UNCHANGED <<renewed, dns>>

--------------------------------------------------------------------------------
(* dialTCP.  A connection is to the target, or to the proxy that is then asked *)
(* for the target; when that fails it is closed, and the target dialed         *)
(* directly if that is allowed.                                                *)
(* sendEnvelope takes the permission away from a session with a proxy.         *)
MayFallBack == FallbackDirect /\ job.kind = "login"

FaultyOpened == conns' = conns + 1 /\ open' = {conns'}

Opened == conns' = conns + 1 /\ open' = open \cup {conns'}

(* The connection reaches the target: connectMmtls or the POST goes on.        *)
Reached(n, left) ==
    IF job.kind = "login" THEN at' = "mmtls" /\ NewConnection(n, left)
    ELSE /\ at' = "answer"
         /\ sent' = Build0RTTRequest(sess.entry, n, "envelope")
         /\ UNCHANGED <<mc, srv, wire>>

DialTarget ==
    /\ todo # <<>>
    /\ at = "direct" \/ (at = "dial" /\ job.proxy = "none")
    /\ \/ Opened /\ Reached(conns + 1, <<>>) /\ UNCHANGED <<job, todo, deferred>>
       \/ Continue({})
    /\ UNCHANGED <<renewed, lookup, sess>>

ProxyFails(closed) ==
    IF MayFallBack
    THEN at' = "direct" /\ open' = open \ closed /\ UNCHANGED <<job, todo, conns, deferred, mmtlsVars>>
    ELSE Continue(closed)

DialProxy ==
    /\ todo # <<>> /\ at = "dial" /\ job.proxy \in Schemes
    /\ \/ /\ at' = IF job.proxy = "socks5" THEN "greet" ELSE "tunnel"
          /\ Opened
          /\ UNCHANGED <<job, todo, deferred, mmtlsVars>>
       \/ ProxyFails({})
    /\ UNCHANGED <<renewed, lookup, sess>>

(* parseTCPProxy fails, and dialTCP with it: nothing is dialed directly.       *)
ProxyUnreadable ==
    /\ todo # <<>> /\ at = "dial" /\ job.proxy \notin Schemes \cup {"none"}
    /\ Continue({})
    /\ UNCHANGED <<renewed, lookup, sess>>

(* The end of a SOCKS5 answer is the bound address, of one of three types, and *)
(* a port; what socks5Connect discards of it, by the type; a name is one byte. *)
AddressTypes == {1, 3, 4}
BoundAddress(type) == CASE type = 1 -> 4 + 2 [] type = 3 -> 1 + 1 + 2 [] type = 4 -> 16 + 2

FaultyDiscarded(type) == CASE type = 1 -> 6 [] type = 3 -> 1 + 2 [] type = 4 -> 18

Discarded(type) == CASE type = 1 -> 6 [] type = 3 -> 1 + (1 + 2) [] type = 4 -> 18

Junk == [part |-> 0, rec |-> Null]

ProxyAgrees ==
    /\ \/ Goto("greet", "connect") /\ UNCHANGED mmtlsVars
       \/ /\ at = "connect"
          /\ \E type \in AddressTypes :
              Reached(conns, [i \in 1 .. BoundAddress(type) - Discarded(type) |-> Junk])
       \/ at = "tunnel" /\ Reached(conns, <<>>)
    /\ UNCHANGED <<renewed, lookup, dialing, sess>>

(* A refusal, an address type it does not know, an answer that is cut short.   *)
ProxyRefuses ==
    /\ at \in {"greet", "connect", "tunnel"}
    /\ ProxyFails({conns})
    /\ UNCHANGED <<renewed, lookup, sess>>

AllFailed ==
    /\ at = "dial" /\ todo = <<>>
    /\ Return
    /\ UNCHANGED <<renewed, lookup, sess>>

--------------------------------------------------------------------------------
Handshaking ==
    /\ at = "mmtls"
    /\ \/ Read \/ SendClientHello \/ RecvServerHello \/ RecvMessage \/ RecvFinished
       \/ SendClientFinished
    /\ UNCHANGED <<renewed, lookup, dialing, at, sess>>

(* recvServerFlight takes as many messages before Finished as the server cares *)
(* to send, and the deadline is renewed for each read: one more of them, of    *)
(* which only that it came is kept.                                            *)
Trickle ==
    /\ at = "mmtls" /\ mc.at = "flight"
    /\ mc.recq = <<>> /\ mc.rxbuf = <<>>
    /\ renewed' = ~renewed
    /\ UNCHANGED <<lookup, dialing, at, sess, mmtlsVars>>

FaultyFailedHandshake == {}

(* connectMmtls closes the connection of a handshake that failed.              *)
FailedHandshake == {conns}

HandshakeFails ==
    /\ at = "mmtls" /\ mc.at \in Connecting
    /\ Continue(FailedHandshake)
    /\ UNCHANGED <<renewed, lookup, sess>>

(* From here on the connection is closed by a deferred call.                   *)
RequestLogin ==
    /\ at = "mmtls"
    /\ SendLogin
    /\ deferred' = deferred \cup {conns}
    /\ UNCHANGED <<renewed, lookup, job, todo, conns, open, at, sess>>

(* A login buffer that does not parse ends the login.                          *)
BadLoginBuffer ==
    /\ at = "mmtls" /\ mc.at = "idle"
    /\ ReturnClosing({conns})
    /\ UNCHANGED <<renewed, lookup, sess>>

(* parseLoginResponse opens what is sealed for this request's ephemeral key,   *)
(* extractSession wants all fields, and an access key must have been issued.   *)
Accepted(answer) ==
    /\ answer.cmd = "manualauth"
    /\ answer.eph = mc.n
    /\ answer.complete
    /\ mc.hCertV # Null
    /\ AccessPSK # 0

LoginAnswered ==
    /\ Expecting("answer") /\ AnswerOpens
    /\ Accepted(NextRecord.msg)
    /\ \/ /\ at' = "shortDns" /\ host' = 1
          /\ mc' = [Taken EXCEPT !.at = "answered"]
          /\ UNCHANGED <<dialing, sess, srv, wire, sent>>
       \/ dns # Null /\ NewSession(ShortlinkTargets(dns)) /\ UNCHANGED host
    /\ UNCHANGED <<renewed, dns>>

(* sendApp or recvApp fails, or the answer is not what Accepted asks for.      *)
LoginFails ==
    /\ at = "mmtls" /\ mc.at = "answer"
    /\ Continue({})
    /\ UNCHANGED <<renewed, lookup, sess>>

--------------------------------------------------------------------------------
(* sendEnvelope and send0RTT; the pool gives it the session of a login.        *)
StartSend ==
    /\ at = "home" /\ sess # Null
    /\ at' = "dial"
    /\ job' = [kind |-> "send", proxy |-> sess.proxy]
    /\ todo' = sess.targets
    /\ UNCHANGED <<renewed, lookup, conns, open, deferred, sess, mmtlsVars>>

(* io.ReadAll: what has come when the server closes; or an error.              *)
ReadAnswer ==
    /\ at = "answer"
    /\ \E n \in 0 .. Len(wire) :
        IF Parse0RTTResponse(SubSeq(wire, 1, n), sess.entry, conns)
        THEN ReturnClosing({conns})
        ELSE Continue({conns})
    /\ UNCHANGED <<renewed, lookup, sess>>

Server0RTT ==
    /\ at = "answer" /\ sent # <<>>
    /\ EarlyDataOpens(sent)
    /\ \E answer \in Answers0RTT(sent) : wire' = OnWire(answer)
    /\ sent' = <<>>
    /\ UNCHANGED <<renewed, lookup, dialing, at, sess, mc, srv>>

Server ==
    \/ Server0RTT
    \/ /\ at = "mmtls"
       /\ ServerFlight \/ ServerFinished \/ ServerReply
       /\ UNCHANGED <<renewed, lookup, dialing, at, sess>>

LoginStep ==
    \/ DnsFails \/ DnsAnswers
    \/ DialTarget \/ DialProxy \/ ProxyUnreadable \/ ProxyAgrees \/ ProxyRefuses \/ AllFailed
    \/ Handshaking \/ Trickle \/ HandshakeFails \/ RequestLogin \/ BadLoginBuffer
    \/ LoginAnswered \/ LoginFails \/ ReadAnswer

LoginNext == StartLogin \/ StartSend \/ LoginStep \/ Server

LoginSpec == LoginInit /\ [][LoginNext]_loginVars

(* A goroutine runs; a dial, a read and a write end by their deadline.         *)
LoginFairSpec == LoginSpec /\ WF_loginVars(LoginStep)

--------------------------------------------------------------------------------
(* Client and server agree on the keys of a session before it is used: each    *)
(* key the client derives is the one its ticket stands for                     *)
(* (mmtls_client.go:246-252, 278-295).                                         *)
PsksAgree ==
    mc.at \in Connected /\ mc.hCertV # Null =>
        \A i \in DOMAIN mc.tickets : ExtractPSKs[i].psk = mc.tickets[i].psk

(* The servers of a login are tried in the order the code promises, whatever   *)
(* the answer lists and however it is cut (newdns.go:133-205, 235-255).        *)
TargetsWellOrdered ==
    dns # Null =>
        LET all == ServersFor(dns, LonglinkDomain, ProtoMmtls)
        IN  WellOrdered(OrderLonglinkTargets(all), all)

(* The server can open a request on a session key, and its answer, when it has *)
(* come whole, is read, whichever transcript it is sealed with                 *)
(* (shortlink.go:20-67, 122-165).                                              *)
ZeroRttUnderstood ==
    at = "answer" =>
        /\ sent # <<>> => EarlyDataOpens(sent)
        /\ sent = <<>> => Parse0RTTResponse(wire, sess.entry, conns)

(* However many targets have failed and wherever, a login or a request leaves  *)
(* no connection behind (mmtls_client.go:330-333, pool.go:228,                 *)
(* transport.go:78-81, shortlink.go:104).                                      *)
NoConnectionLeft == at = "home" => open = {}

================================================================================
