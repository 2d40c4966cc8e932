--------------------------------- MODULE Mmtls ---------------------------------
(* One MMTLS connection: the client of internal/protocol/mmtls_client.go, with *)
(* the record layer of mmtls_protocol.go and the key schedule of               *)
(* mmtls_crypto.go, over a byte stream that is cut anywhere, and the peer it   *)
(* expects.  A hash is the transcript it is taken of, a key the tuple it is    *)
(* derived from, and a sealed record opens with its key and number only.       *)
EXTENDS Integers, Sequences, SequencesExt

CONSTANTS
    Flights,  \* what a server may send between its hello and its Finished
    Groups,   \* key share groups it may pick; 1 is P-256
    Replies,  \* what it may answer a login with
    Cells,    \* pieces of a record on the wire: where a read may cut it
    Null

ASSUME MmtlsAssumption == Cells \in Nat \ {0} /\ 1 \in Groups

IsSequence(s) == s \in Seq({s[i] : i \in DOMAIN s})

ASSUME FlightsAssumption ==
    \A flight \in Flights :
        /\ IsSequence(flight)
        /\ \A i \in DOMAIN flight :
            /\ flight[i] = [type |-> flight[i].type, body |-> flight[i].body]
            /\ flight[i].type # "Finished"
            /\ flight[i].type = "NewSessionTicket" => i = Len(flight) /\ IsSequence(flight[i].body)

VARIABLES
    mc,    \* the mmtlsClient of the connection
    srv,   \* the server's end of it
    wire,  \* cells on their way to the client
    sent   \* records on their way to the server

mmtlsVars == <<mc, srv, wire, sent>>

--------------------------------------------------------------------------------
(* mmtls_crypto.go.  Both ends derive the same values from the same inputs; a  *)
(* shared secret is known by the two ephemeral keys, client's first.           *)
Secret(client, server) == <<client, server>>
HandshakeKey(secret, hash, side) == <<"handshake key expansion", secret, hash, side>>
AppKey(secret, hash, side) ==
    <<"application data key expansion", <<"expanded secret", secret, hash>>, hash, side>>
VerifyData(secret, side, hash) == <<side, secret, hash>>
PSK(secret, hash, type) ==
    <<IF type = 1 THEN "PSK_ACCESS" ELSE "PSK_REFRESH", secret, hash>>

(* encryptRecordPayload and decryptRecordPayload: nonce and additional data    *)
(* hold the record's number and content type.  A plain record has no key.      *)
Record(ct, key, seq, msg) == [ct |-> ct, key |-> key, seq |-> seq, msg |-> msg]
Opens(rec, key, seq) == rec.key = key /\ rec.seq = seq

Handshake(type, body) == [type |-> type, body |-> body]

(* buildRecord, in the pieces a read may cut it into, and parseRecords: the    *)
(* records of a buffer up to what is not whole or does not begin with a header.*)
OnWire(recs) == FlattenSeq([i \in DOMAIN recs |-> [c \in 1 .. Cells |-> [part |-> c, rec |-> recs[i]]]])
Whole(buf) == Max({k \in 0 .. Len(buf) \div Cells :
                     \A i \in 1 .. k : buf[(i - 1) * Cells + 1].part = 1})
ParseRecords(buf) == [i \in 1 .. Whole(buf) |-> buf[(i - 1) * Cells + 1].rec]
Consumed(buf) == Whole(buf) * Cells

--------------------------------------------------------------------------------
NewClient(n) == [at |-> "hello", n |-> n, transcript |-> <<>>, secret |-> Null, hash |-> Null,
                 hCertV |-> Null, hFinal |-> Null, tickets |-> <<>>, txSeq |-> 0, rxSeq |-> 0,
                 rxbuf |-> <<>>, recq |-> <<>>]
NewServer == [secret |-> Null, hash |-> Null, hFinal |-> Null, txSeq |-> 0, rxSeq |-> 0]

Receiving == {"serverHello", "flight", "answer"}
Connecting == {"hello", "serverHello", "flight", "finished"}
Connected == {"idle", "answer", "answered"}

MmtlsInit ==
    /\ mc = [NewClient(0) EXCEPT !.at = "closed"]
    /\ srv = NewServer
    /\ wire = <<>> /\ sent = <<>>

(* newMmtlsClient on a connection that was dialed; n names its ephemeral key,  *)
(* and `left` is what a proxy's answer has left in the stream.                 *)
NewConnection(n, left) ==
    /\ mc' = NewClient(n)
    /\ srv' = NewServer
    /\ wire' = left
    /\ sent' = <<>>

Close ==
    /\ mc' = [NewClient(0) EXCEPT !.at = "closed"]
    /\ srv' = NewServer
    /\ wire' = <<>> /\ sent' = <<>>

--------------------------------------------------------------------------------
FaultyUnread == IF mc.recq # <<>> THEN [recs |-> mc.recq, rest |-> mc.rxbuf]
                ELSE [recs |-> ParseRecords(mc.rxbuf), rest |-> <<>>]

(* nextRecord: the records it has parsed and the bytes it has left over.       *)
Unread == IF mc.recq # <<>> THEN [recs |-> mc.recq, rest |-> mc.rxbuf]
          ELSE [recs |-> ParseRecords(mc.rxbuf),
                rest |-> SubSeq(mc.rxbuf, Consumed(mc.rxbuf) + 1, Len(mc.rxbuf))]

(* conn.Read returns some of what has arrived, when no whole record is left.   *)
Read ==
    /\ mc.at \in Receiving
    /\ Unread.recs = <<>>
    /\ \E n \in 1 .. Len(wire) :
        /\ mc' = [mc EXCEPT !.rxbuf = @ \o SubSeq(wire, 1, n)]
        /\ wire' = SubSeq(wire, n + 1, Len(wire))
    /\ UNCHANGED <<srv, sent>>

(* The record nextRecord returns, and the client that has taken it.            *)
NextRecord == Head(Unread.recs)
Expecting(at) == mc.at = at /\ Unread.recs # <<>>
Taken == [mc EXCEPT !.recq = Tail(Unread.recs), !.rxbuf = Unread.rest, !.rxSeq = @ + 1]

Send(ct, key, msg, to) ==
    /\ sent' = Append(sent, Record(ct, key, mc.txSeq, msg))
    /\ mc' = [to EXCEPT !.txSeq = @ + 1]

SendClientHello ==
    LET hello == Handshake("ClientHello", [pub |-> mc.n])
    IN  /\ mc.at = "hello"
        /\ Send("handshake", Null, hello,
                [mc EXCEPT !.transcript = Append(@, hello), !.at = "serverHello"])
        /\ UNCHANGED <<srv, wire>>

(* recvServerFlight up to the handshake keys; another group is an error.       *)
RecvServerHello ==
    LET hello == NextRecord.msg
        fed == Append(mc.transcript, hello)
    IN  /\ Expecting("serverHello")
        /\ hello.type = "ServerHello" /\ hello.body.group = 1
        /\ mc' = [Taken EXCEPT !.at = "flight", !.transcript = fed, !.hash = fed,
                               !.secret = Secret(mc.n, hello.body.pub)]
        /\ UNCHANGED <<srv, wire, sent>>

FlightOpens == Opens(NextRecord, HandshakeKey(mc.secret, mc.hash, "server"), mc.rxSeq)

FaultyRecvMessage ==
    LET msg == NextRecord.msg
        fed == Append(mc.transcript, msg)
    IN  /\ Expecting("flight")
        /\ FlightOpens /\ msg.type # "Finished"
        /\ mc' = [Taken EXCEPT
                    !.transcript = fed,
                    !.hCertV = IF msg.type = "CertVerify" THEN mc.transcript ELSE @,
                    !.tickets = IF msg.type = "NewSessionTicket" THEN msg.body ELSE @]
        /\ UNCHANGED <<srv, wire, sent>>

(* Every message of the flight is fed; two of them are kept.                   *)
RecvMessage ==
    LET msg == NextRecord.msg
        fed == Append(mc.transcript, msg)
    IN  /\ Expecting("flight")
        /\ FlightOpens /\ msg.type # "Finished"
        /\ mc' = [Taken EXCEPT
                    !.transcript = fed,
                    !.hCertV = IF msg.type = "CertVerify" THEN fed ELSE @,
                    !.tickets = IF msg.type = "NewSessionTicket" THEN msg.body ELSE @]
        /\ UNCHANGED <<srv, wire, sent>>

FaultyFinalHash == Append(mc.transcript, NextRecord.msg)

(* hFinal is taken before the server's Finished is fed.                        *)
FinalHash == mc.transcript

(* The server's Finished is verified and answered by the client's, which is    *)
(* not fed.                                                                    *)
RecvFinished ==
    LET msg == NextRecord.msg
    IN  /\ Expecting("flight")
        /\ FlightOpens /\ msg.type = "Finished"
        /\ msg.body = VerifyData(mc.secret, "server", FinalHash)
        /\ mc' = [Taken EXCEPT !.at = "finished", !.hFinal = FinalHash,
                               !.transcript = Append(@, msg)]
        /\ UNCHANGED <<srv, wire, sent>>

SendClientFinished ==
    /\ mc.at = "finished"
    /\ Send("handshake", HandshakeKey(mc.secret, mc.hash, "client"),
            Handshake("Finished", VerifyData(mc.secret, "client", mc.hFinal)),
            [mc EXCEPT !.at = "idle"])
    /\ UNCHANGED <<srv, wire>>

(* sendApp of the login request; buildLoginBody makes an ephemeral key for it. *)
SendLogin ==
    /\ mc.at = "idle"
    /\ Send("app", AppKey(mc.secret, mc.hFinal, "client"), [eph |-> mc.n], [mc EXCEPT !.at = "answer"])
    /\ UNCHANGED <<srv, wire>>

AnswerOpens ==
    /\ Opens(NextRecord, AppKey(mc.secret, mc.hFinal, "server"), mc.rxSeq)
    /\ NextRecord.ct = "app"

(* extractPSKs and pickAccessPSK: the first access key that has not run out,   *)
(* if there is one.                                                            *)
ExtractPSKs ==
    [i \in DOMAIN mc.tickets |->
        [type |-> mc.tickets[i].type, lifetime |-> mc.tickets[i].lifetime,
         psk |-> PSK(mc.secret, mc.hCertV, mc.tickets[i].type), ticket |-> mc.tickets[i]]]
AccessPSK == SelectInSeq(ExtractPSKs, LAMBDA e : e.type = 1 /\ e.lifetime > 0)

--------------------------------------------------------------------------------
(* The server sends its whole flight on a ClientHello, one that ends; one that *)
(* never does is Trickle of Login.  A ticket holds the key it stands for,      *)
(* which the server takes of the transcript up to its CertificateVerify.       *)
Issued(secret, first, flight) ==
    LET certs == {i \in DOMAIN flight : flight[i].type = "CertVerify"}
        hash == IF certs = {} THEN Null ELSE first \o SubSeq(flight, 1, Max(certs))
        ticket(t) == [type |-> t.type, lifetime |-> t.lifetime, psk |-> PSK(secret, hash, t.type)]
    IN  [i \in DOMAIN flight |->
            IF flight[i].type # "NewSessionTicket" THEN flight[i]
            ELSE [flight[i] EXCEPT !.body = [j \in DOMAIN @ |-> ticket(@[j])]]]

ServerFlight ==
    /\ sent # <<>> /\ srv.rxSeq = 0
    /\ Head(sent).key = Null
    /\ \E flight \in Flights, group \in Groups :
        LET hello == Head(sent).msg
            reply == Handshake("ServerHello", [group |-> group, pub |-> hello.body.pub])
            first == <<hello, reply>>
            secret == Secret(hello.body.pub, hello.body.pub)
            issued == Issued(secret, first, flight)
            final == first \o issued
            all == Append(issued, Handshake("Finished", VerifyData(secret, "server", final)))
            key == HandshakeKey(secret, first, "server")
        IN  /\ wire' = wire \o OnWire(<<Record("handshake", Null, 0, reply)>>
                            \o [i \in DOMAIN all |-> Record("handshake", key, i, all[i])])
            /\ srv' = [secret |-> secret, hash |-> first, hFinal |-> final,
                       txSeq |-> Len(all) + 1, rxSeq |-> 1]
    /\ sent' = Tail(sent)
    /\ UNCHANGED mc

(* The server takes the client's Finished, then its request, and answers it.   *)
FinishedOpens ==
    /\ Opens(Head(sent), HandshakeKey(srv.secret, srv.hash, "client"), srv.rxSeq)
    /\ Head(sent).msg.body = VerifyData(srv.secret, "client", srv.hFinal)
RequestOpens == Opens(Head(sent), AppKey(srv.secret, srv.hFinal, "client"), srv.rxSeq)

ServerFinished ==
    /\ sent # <<>> /\ srv.rxSeq = 1
    /\ FinishedOpens
    /\ sent' = Tail(sent)
    /\ srv' = [srv EXCEPT !.rxSeq = @ + 1]
    /\ UNCHANGED <<mc, wire>>

ServerReply ==
    /\ sent # <<>> /\ srv.rxSeq = 2
    /\ RequestOpens
    /\ \E reply \in Replies :
        LET key == AppKey(srv.secret, srv.hFinal, "server")
            answer == [cmd |-> reply.cmd, complete |-> reply.complete,
                       eph |-> IF reply.hybrid THEN Head(sent).msg.eph ELSE Null]
        IN  wire' = wire \o OnWire(<<Record("app", key, srv.txSeq, answer)>>)
    /\ sent' = Tail(sent)
    /\ srv' = [srv EXCEPT !.rxSeq = @ + 1, !.txSeq = @ + 1]
    /\ UNCHANGED mc

--------------------------------------------------------------------------------
(* Wherever TCP cuts the stream, what the client has not taken yet is whole    *)
(* records with the numbers it expects (mmtls_client.go:73-97, 135-155).       *)
StreamInOrder ==
    LET rest == mc.rxbuf \o wire
        recs == mc.recq \o ParseRecords(rest)
    IN  mc.at \in Receiving =>
            /\ Consumed(rest) = Len(rest)
            /\ \A i \in DOMAIN recs : recs[i].seq = mc.rxSeq + i - 1

(* Each end can open and verify what the other has sent: both take the same    *)
(* hashes, at the same points of the transcript (mmtls_client.go:190-266).     *)
RecordsUnderstood ==
    /\ Expecting("flight") =>
        /\ FlightOpens
        /\ NextRecord.msg.type = "Finished" =>
            NextRecord.msg.body = VerifyData(mc.secret, "server", FinalHash)
    /\ Expecting("answer") => AnswerOpens
    /\ sent # <<>> /\ srv.rxSeq = 1 => FinishedOpens
    /\ sent # <<>> /\ srv.rxSeq = 2 /\ Len(sent) = 1 => RequestOpens
================================================================================
