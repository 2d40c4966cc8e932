------------------------------- MODULE LoginProofs -------------------------------
(* What Login promises for every list of servers, every proxy and every number *)
(* of failures: no connection is left behind, what is sent can be read, and    *)
(* the servers are tried in their order.                                       *)
EXTENDS Login, MmtlsProofs

(* The client of a connection exists from the dialing until the login has its  *)
(* answer; while it asks HTTPDNS again, it has been answered.                  *)
ClientPlaces == {"closed"} \cup Connecting \cup Connected

ClientOK ==
    /\ "at" \in DOMAIN mc /\ mc.at \in ClientPlaces
    /\ at = "mmtls" <=> mc.at \notin {"closed", "answered"}
    /\ at = "shortDns" <=> mc.at = "answered"

(* The connection in use that no deferred call closes: whoever made it closes  *)
(* it when it fails.                                                           *)
Held ==
    \/ at \in {"greet", "connect", "tunnel", "answer"}
    \/ at = "mmtls" /\ mc.at \in Connecting \cup {"idle"}

InHand == IF Held THEN {conns} ELSE {}

ConnectionsOwned ==
    /\ open \subseteq deferred \cup InHand
    /\ at = "home" => deferred = {}

LoginInv == ClientOK /\ ConnectionsOwned

--------------------------------------------------------------------------------
(* A closed client.                                                            *)
LEMMA CloseCloses == Close => "at" \in DOMAIN mc' /\ mc'.at = "closed"
BY DEF Close, NewClient

(* A login or a request that comes back has closed all but what is in hand.    *)
LEMMA ReturnKeeps ==
    ASSUME NEW last, ReturnClosing(last), ConnectionsOwned, InHand \subseteq last
    PROVE  LoginInv'
BY CloseCloses DEF ReturnClosing, ConnectionsOwned, LoginInv, ClientOK, ClientPlaces, Connecting,
   Connected, InHand, Held

(* So has one that goes on to the next target.                                 *)
LEMMA ContinueKeeps ==
    ASSUME NEW closed, Continue(closed), ConnectionsOwned, at # "home", InHand \subseteq closed
    PROVE  LoginInv'
BY CloseCloses DEF Continue, ConnectionsOwned, LoginInv, ClientOK, ClientPlaces, Connecting,
   Connected, InHand, Held

(* The target is reached, by the connection conns'.                            *)
LEMMA ReachedKeeps ==
    ASSUME NEW n, NEW left, Reached(n, left), LoginInv, at # "home", mc.at = "closed",
           open' \subseteq open \cup {conns'}, InHand \subseteq {conns'}, deferred' = deferred
    PROVE  LoginInv'
<1>1. open' \subseteq deferred' \cup {conns'}
  BY DEF LoginInv, ConnectionsOwned
<1>2. CASE at' = "mmtls" /\ NewConnection(n, left)
  <2>1. mc' = NewClient(n) /\ "at" \in DOMAIN mc' /\ mc'.at = "hello"
    BY <1>2 DEF NewConnection, NewClient
  <2>2. InHand' = {conns'}
    BY <1>2, <2>1 DEF InHand, Held, Connecting
  <2> QED
    BY <1>1, <1>2, <2>1, <2>2 DEF ConnectionsOwned, LoginInv, ClientOK, ClientPlaces, Connecting,
       Connected
<1>3. CASE at' = "answer" /\ mc' = mc
  <2>1. InHand' = {conns'}
    BY <1>3 DEF InHand, Held
  <2> QED
    BY <1>1, <1>3, <2>1 DEF ConnectionsOwned, LoginInv, ClientOK, ClientPlaces
<1> QED
  BY <1>2, <1>3 DEF Reached

(* A step of the client on its connection.                                     *)
LEMMA ClientMoves ==
    ASSUME Read \/ SendClientHello \/ RecvServerHello \/ RecvMessage \/ RecvFinished \/ SendClientFinished,
           "at" \in DOMAIN mc
    PROVE  /\ "at" \in DOMAIN mc'
           /\ \/ mc.at \in Connecting /\ mc'.at \in Connecting \cup {"idle"}
              \/ mc.at = "answer" /\ mc'.at = "answer"
<1> USE DEF Connecting
<1>1. CASE Read
  BY <1>1 DEF Read, Receiving
<1>2. CASE SendClientHello
  BY <1>2 DEF SendClientHello, Send
<1>3. CASE RecvServerHello
  BY <1>3 DEF RecvServerHello, Expecting, Taken
<1>4. CASE RecvMessage
  BY <1>4 DEF RecvMessage, Expecting, Taken
<1>5. CASE RecvFinished
  BY <1>5 DEF RecvFinished, Expecting, Taken
<1>6. CASE SendClientFinished
  BY <1>6 DEF SendClientFinished, Send
<1> QED
  BY <1>1, <1>2, <1>3, <1>4, <1>5, <1>6
--------------------------------------------------------------------------------
(* Nothing is open when the program starts.                                    *)
LEMMA InitLoginInv == LoginInit => LoginInv
BY DEF LoginInit, MmtlsInit, NewClient, LoginInv, ClientOK, ClientPlaces, Connecting, Connected,
   ConnectionsOwned, InHand, Held

(* Starting, and the lookups.                                                  *)
LEMMA LookupsKeep ==
    ASSUME LoginInv, StartLogin \/ StartSend \/ DnsAnswers \/ DnsFails PROVE LoginInv'
<1> USE DEF LoginInv, ClientOK, ClientPlaces, Connecting, Connected, ConnectionsOwned, InHand, Held
<1>1. CASE StartLogin
  BY <1>1 DEF StartLogin, mmtlsVars
<1>2. CASE StartSend
  BY <1>2 DEF StartSend, mmtlsVars
<1>3. ASSUME NEW targets, NewSession(targets), at \in Looking PROVE LoginInv'
  <2>1. ReturnClosing({}) /\ InHand \subseteq {}
    BY <1>3 DEF NewSession, Return, Looking
  <2> QED
    BY <2>1, ReturnKeeps
<1>4. CASE DnsAnswers
  <2>1. CASE Goto("longDns", "dial") /\ UNCHANGED <<job, conns, open, deferred, mmtlsVars>>
    BY <2>1 DEF Goto, mmtlsVars
  <2>2. CASE at = "shortDns" /\ \E targets : NewSession(targets)
    BY <1>3, <2>2 DEF Looking
  <2> QED
    BY <1>4, <2>1, <2>2 DEF DnsAnswers
<1>5. CASE DnsFails
  <2>1. CASE UNCHANGED <<dialing, at, sess, mmtlsVars, renewed>>
    BY <2>1 DEF dialing, mmtlsVars
  <2>2. CASE Return /\ at = "longDns"
    BY <2>2, ReturnKeeps DEF Return
  <2>3. CASE NewSession(<<DefaultTarget>>) /\ at \in Looking
    BY <1>3, <2>3
  <2> QED
    BY <1>5, <2>1, <2>2, <2>3 DEF DnsFails, Looking
<1> QED
  BY <1>1, <1>2, <1>4, <1>5

(* Dialing.                                                                    *)
LEMMA DialingKeeps ==
    ASSUME LoginInv,
           DialTarget \/ DialProxy \/ ProxyUnreadable \/ ProxyAgrees \/ ProxyRefuses \/ AllFailed
    PROVE  LoginInv'
<1>0. ClientOK /\ ConnectionsOwned
  BY DEF LoginInv
<1>1. ASSUME at \in Dialing PROVE mc.at = "closed"
  BY <1>0, <1>1 DEF Dialing, ClientOK
<1>2. ASSUME NEW closed, ProxyFails(closed), renewed' = renewed, at \in Dialing, InHand \subseteq closed
      PROVE  LoginInv'
  <2>1. CASE MayFallBack
    BY <1>0, <1>1, <1>2, <2>1 DEF ProxyFails, MayFallBack, LoginInv, ClientOK, ClientPlaces,
       ConnectionsOwned, InHand, Held, mmtlsVars, Dialing
  <2>2. CASE ~MayFallBack
    BY <1>0, <1>2, <2>2, ContinueKeeps DEF ProxyFails, Dialing
  <2> QED
    BY <2>1, <2>2
<1>3. CASE DialTarget
  <2>1. InHand = {} /\ at \in Dialing
    BY <1>3 DEF DialTarget, InHand, Held, Dialing
  <2>2. CASE Opened /\ Reached(conns + 1, <<>>) /\ UNCHANGED <<job, todo, deferred>>
    BY <1>1, <2>1, <2>2, ReachedKeeps DEF Opened, Dialing
  <2>3. CASE Continue({})
    BY <1>0, <2>1, <2>3, ContinueKeeps DEF Dialing
  <2> QED
    BY <1>3, <2>2, <2>3 DEF DialTarget
<1>4. CASE DialProxy
  <2>1. InHand = {} /\ at \in Dialing
    BY <1>4 DEF DialProxy, InHand, Held, Dialing
  <2>2. CASE ProxyFails({})
    BY <1>2, <1>4, <2>1, <2>2 DEF DialProxy
  <2>3. CASE at' \in {"greet", "tunnel"} /\ Opened /\ UNCHANGED <<job, todo, deferred, mmtlsVars>>
    <3>1. InHand' = {conns'}
      BY <2>3 DEF InHand, Held
    <3> QED
      BY <1>0, <1>1, <2>1, <2>3, <3>1 DEF Opened, LoginInv, ClientOK, ConnectionsOwned, mmtlsVars
  <2> QED
    BY <1>4, <2>2, <2>3 DEF DialProxy
<1>5. CASE ProxyAgrees
  <2>1. UNCHANGED <<renewed, dialing>> /\ at \in {"greet", "connect", "tunnel"}
    BY <1>5 DEF ProxyAgrees, Goto
  <2>2. InHand = {conns} /\ at \in Dialing
    BY <2>1 DEF InHand, Held, Dialing
  <2>3. ASSUME NEW left, Reached(conns, left) PROVE LoginInv'
    BY <1>1, <2>1, <2>2, <2>3, ReachedKeeps DEF dialing, Dialing
  <2>4. CASE at' = "connect" /\ UNCHANGED mmtlsVars
    <3>1. InHand' = {conns'}
      BY <2>4 DEF InHand, Held
    <3> QED
      BY <1>0, <1>1, <2>1, <2>2, <2>4, <3>1 DEF LoginInv, ClientOK, ConnectionsOwned, mmtlsVars, dialing
  <2> QED
    BY <1>5, <2>3, <2>4 DEF ProxyAgrees, Goto
<1>6. CASE ProxyRefuses
  <2>1. InHand = {conns} /\ at \in Dialing
    BY <1>6 DEF ProxyRefuses, InHand, Held, Dialing
  <2> QED
    BY <1>2, <1>6, <2>1 DEF ProxyRefuses
<1>7. CASE AllFailed
  <2>1. InHand = {}
    BY <1>7 DEF AllFailed, InHand, Held
  <2> QED
    BY <1>0, <1>7, <2>1, ReturnKeeps DEF AllFailed, Return
<1>8. CASE ProxyUnreadable
  <2>1. InHand = {} /\ at # "home"
    BY <1>8 DEF ProxyUnreadable, InHand, Held
  <2> QED
    BY <1>0, <1>8, <2>1, ContinueKeeps DEF ProxyUnreadable
<1> QED
  BY <1>3, <1>4, <1>5, <1>6, <1>7, <1>8

(* On a connection.                                                            *)
LEMMA ConnectionKeeps ==
    ASSUME LoginInv,
           Handshaking \/ Trickle \/ HandshakeFails \/ RequestLogin \/ BadLoginBuffer
             \/ LoginAnswered \/ LoginFails \/ ReadAnswer \/ Server
    PROVE  LoginInv'
<1>0. ClientOK /\ ConnectionsOwned
  BY DEF LoginInv
<1>1. CASE Handshaking
  <2>1. at = "mmtls" /\ UNCHANGED <<renewed, dialing, at>>
    BY <1>1 DEF Handshaking
  <2>2. /\ "at" \in DOMAIN mc'
        /\ \/ mc.at \in Connecting /\ mc'.at \in Connecting \cup {"idle"}
           \/ mc.at = "answer" /\ mc'.at = "answer"
    BY <1>0, <1>1, ClientMoves DEF Handshaking, ClientOK
  <2>3. InHand' = InHand
    BY <2>1, <2>2 DEF InHand, Held, dialing, Connecting
  <2> QED
    BY <1>0, <2>1, <2>2, <2>3 DEF LoginInv, ClientOK, ClientPlaces, Connecting, Connected,
       ConnectionsOwned, dialing
<1>2. CASE HandshakeFails
  <2>1. InHand = {conns} /\ at # "home" /\ Continue({conns})
    BY <1>2 DEF HandshakeFails, FailedHandshake, InHand, Held
  <2> QED
    BY <1>0, <2>1, ContinueKeeps
<1>3. CASE RequestLogin
  <2>1. /\ at = "mmtls" /\ mc.at = "idle" /\ UNCHANGED <<at, open, conns>>
        /\ deferred' = deferred \cup {conns}
        /\ "at" \in DOMAIN mc' /\ mc'.at = "answer"
    BY <1>0, <1>3 DEF RequestLogin, SendLogin, Send, ClientOK
  <2>2. InHand = {conns}
    BY <2>1 DEF InHand, Held
  <2> QED
    BY <1>0, <2>1, <2>2 DEF LoginInv, ClientOK, ClientPlaces, Connected, ConnectionsOwned
<1>4. CASE BadLoginBuffer
  <2>1. InHand = {conns} /\ ReturnClosing({conns})
    BY <1>4 DEF BadLoginBuffer, InHand, Held
  <2> QED
    BY <1>0, <2>1, ReturnKeeps
<1>5. CASE LoginAnswered
  <2>1. mc.at = "answer" /\ at = "mmtls" /\ InHand = {}
    BY <1>0, <1>5 DEF LoginAnswered, Expecting, ClientOK, InHand, Held, Connecting
  <2>2. CASE /\ at' = "shortDns" /\ mc' = [Taken EXCEPT !.at = "answered"]
             /\ UNCHANGED dialing
    <3>1. "at" \in DOMAIN mc' /\ mc'.at = "answered"
      BY <1>0, <2>2 DEF Taken, ClientOK
    <3> QED
      BY <1>0, <2>1, <2>2, <3>1 DEF LoginInv, ClientOK, ClientPlaces, Connected, ConnectionsOwned, InHand, Held, dialing
  <2>3. CASE ReturnClosing({})
    BY <1>0, <2>1, <2>3, ReturnKeeps
  <2> QED
    BY <1>5, <2>2, <2>3 DEF LoginAnswered, NewSession, Return
<1>6. CASE LoginFails
  <2>1. InHand = {} /\ at # "home" /\ Continue({})
    BY <1>6 DEF LoginFails, InHand, Held, Connecting
  <2> QED
    BY <1>0, <2>1, ContinueKeeps
<1>7. CASE ReadAnswer
  <2>1. InHand = {conns} /\ at # "home" /\ (ReturnClosing({conns}) \/ Continue({conns}))
    BY <1>7 DEF ReadAnswer, InHand, Held
  <2> QED
    BY <1>0, <2>1, ContinueKeeps, ReturnKeeps
<1>8. CASE Trickle \/ Server
  <2>1. UNCHANGED <<dialing, at, mc>>
    BY <1>8 DEF Trickle, mmtlsVars, Server, Server0RTT, ServerFlight, ServerFinished, ServerReply
  <2> QED
    BY <1>0, <2>1 DEF LoginInv, ClientOK, ConnectionsOwned, InHand, Held, dialing
<1> QED
  BY <1>1, <1>2, <1>3, <1>4, <1>5, <1>6, <1>7, <1>8

(* All steps together.                                                         *)
LEMMA NextLoginInv == LoginInv /\ [LoginNext]_loginVars => LoginInv'
<1> SUFFICES ASSUME LoginInv, [LoginNext]_loginVars PROVE LoginInv'
  OBVIOUS
<1>1. CASE UNCHANGED loginVars
  BY <1>1 DEF loginVars, dialing, mmtlsVars, LoginInv, ClientOK, ConnectionsOwned, InHand, Held
<1> QED
  BY <1>1, LookupsKeep, DialingKeeps, ConnectionKeeps DEF LoginNext, LoginStep

(* The connections are accounted for at every step of a login or a request.    *)
THEOREM LoginInvariant == LoginSpec => []LoginInv
<1> QED
  BY InitLoginInv, NextLoginInv, PTL DEF LoginSpec

(* However many targets have failed and wherever, none of their connections is *)
(* left when a login or a request returns (mmtls_client.go:330-333,            *)
(* pool.go:228, transport.go:78-81, shortlink.go:104).                         *)
THEOREM NothingStaysOpen == LoginSpec => []NoConnectionLeft
<1>1. LoginInv => NoConnectionLeft
  BY DEF LoginInv, ConnectionsOwned, InHand, Held, NoConnectionLeft
<1> QED
  BY LoginInvariant, <1>1, PTL

--------------------------------------------------------------------------------
(* A proxy's answer leaves nothing in the stream.                              *)
LEMMA NothingIsLeft ==
    ASSUME NEW type \in AddressTypes
    PROVE  [i \in 1 .. BoundAddress(type) - Discarded(type) |-> Junk] = <<>>
<1>1. BoundAddress(type) - Discarded(type) = 0
  BY DEF AddressTypes, BoundAddress, Discarded
<1> QED
  BY <1>1

(* The connection, through every step of a login or a request.                 *)
LEMMA StreamKept == ASSUME LoginInv, MmtlsInv, [LoginNext]_loginVars PROVE MmtlsInv'
<1>1. /\ at = "mmtls" <=> mc.at \notin {"closed", "answered"}
      /\ at = "shortDns" <=> mc.at = "answered"
  BY DEF LoginInv, ClientOK
<1>2. at = "mmtls" => Talking
  BY <1>1 DEF MmtlsInv
<1>3. at # "mmtls" => ~Talking
  BY <1>1 DEF Talking, Connecting
<1>4. CASE UNCHANGED mmtlsVars \/ Trickle
  BY <1>4, NothingKeeps DEF Trickle
<1>5. CASE Close
  BY <1>5, CloseKeeps
<1>6. ASSUME NEW n, Reached(n, <<>>), at # "mmtls" PROVE MmtlsInv'
  <2>1. CASE NewConnection(n, <<>>)
    BY <2>1, NewConnectionKeeps
  <2>2. CASE mc' = mc /\ srv' = srv
    BY <1>3, <1>6, <2>2, IdleKeeps
  <2> QED
    BY <1>6, <2>1, <2>2 DEF Reached
<1>7. \A closed : Continue(closed) => Close
  BY DEF Continue
<1>8. \A last : ReturnClosing(last) => Close
  BY DEF ReturnClosing
<1>9. \A targets : NewSession(targets) => Close
  BY <1>8 DEF NewSession, Return
<1>10. \A closed : ProxyFails(closed) => Close \/ UNCHANGED mmtlsVars
  BY <1>7 DEF ProxyFails
<1>11. CASE StartLogin \/ StartSend
  BY <1>4, <1>11 DEF StartLogin, StartSend
<1>12. CASE DnsAnswers \/ DnsFails
  BY <1>4, <1>5, <1>8, <1>9, <1>12 DEF DnsAnswers, DnsFails, Return
<1>13. CASE DialTarget
  BY <1>5, <1>6, <1>7, <1>13 DEF DialTarget
<1>14. CASE DialProxy \/ ProxyUnreadable \/ ProxyRefuses
  BY <1>4, <1>5, <1>7, <1>10, <1>14 DEF DialProxy, ProxyUnreadable, ProxyRefuses
<1>15. CASE ProxyAgrees
  <2>1. CASE Goto("greet", "connect") /\ UNCHANGED mmtlsVars
    BY <1>4, <2>1
  <2>2. CASE at = "connect" /\ \E type \in AddressTypes :
               Reached(conns, [i \in 1 .. BoundAddress(type) - Discarded(type) |-> Junk])
    <3>1. Reached(conns, <<>>)
      BY <2>2, NothingIsLeft
    <3> QED
      BY <1>6, <2>2, <3>1
  <2>3. CASE at = "tunnel" /\ Reached(conns, <<>>)
    BY <1>6, <2>3
  <2> QED
    BY <1>15, <2>1, <2>2, <2>3, Zenon DEF ProxyAgrees
<1>16. CASE AllFailed \/ HandshakeFails \/ BadLoginBuffer \/ LoginFails \/ ReadAnswer
  BY <1>5, <1>7, <1>8, <1>16 DEF AllFailed, HandshakeFails, BadLoginBuffer, LoginFails, ReadAnswer, Return
<1>17. CASE Handshaking
  BY <1>17, ReadStep, ClientHelloStep, ServerHelloStep, MessageStep, FinishedStep, SendSteps
     DEF Handshaking
<1>18. CASE RequestLogin
  BY <1>18, SendSteps DEF RequestLogin
<1>19. CASE LoginAnswered
  BY <1>5, <1>9, <1>19, AnsweredStep DEF LoginAnswered
<1>20. CASE Server
  <2>1. CASE Server0RTT
    <3>1. mc' = mc /\ srv' = srv /\ at # "mmtls"
      BY <2>1 DEF Server0RTT
    <3> QED
      BY <1>3, <3>1, IdleKeeps
  <2>2. CASE at = "mmtls" /\ (ServerFlight \/ ServerFinished \/ ServerReply)
    BY <1>2, <2>2, ServerFlightStep, ServerExchangeSteps
  <2> QED
    BY <1>20, <2>1, <2>2 DEF Server
<1>21. CASE UNCHANGED loginVars
  BY <1>4, <1>21 DEF loginVars
<1> QED
  BY <1>4, <1>11, <1>12, <1>13, <1>14, <1>15, <1>16, <1>17, <1>18, <1>19, <1>20, <1>21
     DEF LoginNext, LoginStep

(* The MMTLS invariant holds when the program starts.                          *)
LEMMA InitMmtlsInv == LoginInit => MmtlsInv
<1> SUFFICES ASSUME LoginInit PROVE MmtlsInv
  OBVIOUS
<1>1. srv = NewServer /\ mc.at = "closed" /\ DOMAIN mc = DOMAIN NewClient(0)
  BY DEF LoginInit, MmtlsInit, NewClient
<1> QED
  BY <1>1 DEF MmtlsInv, Talking, Connecting, ClientFields, ServerFields

(* The two ends of every connection are in step.                               *)
THEOREM ConnectionInvariant == LoginSpec => []MmtlsInv
<1>1. LoginInv /\ MmtlsInv /\ [LoginNext]_loginVars => MmtlsInv'
  BY StreamKept
<1> QED
  BY InitMmtlsInv, LoginInvariant, <1>1, PTL DEF LoginSpec

(* Wherever TCP cuts the stream, the records the client takes are whole and    *)
(* have the numbers it expects (mmtls_client.go:73-97, 135-155).               *)
THEOREM StreamStaysInOrder == LoginSpec => []StreamInOrder
<1>1. MmtlsInv => StreamInOrder
  BY InvAgrees
<1> QED
  BY ConnectionInvariant, <1>1, PTL

(* Each end can open and verify what the other has sent, for every flight a    *)
(* server may send (mmtls_client.go:190-266).                                  *)
THEOREM RecordsAreUnderstood == LoginSpec => []RecordsUnderstood
<1>1. MmtlsInv => RecordsUnderstood
  BY InvAgrees
<1> QED
  BY ConnectionInvariant, <1>1, PTL

(* The keys the client derives are those its tickets stand for                 *)
(* (mmtls_client.go:246-252, 278-295).                                         *)
THEOREM KeysAgree == LoginSpec => []PsksAgree
<1>1. MmtlsInv => PsksAgree
  BY TicketsAgree, ExtractedKeys DEF PsksAgree
<1> QED
  BY ConnectionInvariant, <1>1, PTL

--------------------------------------------------------------------------------
(* A request on a session is sealed with the key its ticket stands for.        *)
LEMMA EarlyDataIsOpened ==
    ASSUME NEW entry, NEW n, entry.psk = entry.ticket.psk
    PROVE  EarlyDataOpens(Build0RTTRequest(entry, n, "envelope"))
<1>1. PICK hello : hello = PSKHello(entry, n)
  OBVIOUS
<1>2. PICK key : key = OneWayKey(entry.psk, "early data key expansion", <<hello>>)
  OBVIOUS
<1>3. PICK request : request = Build0RTTRequest(entry, n, "envelope")
  OBVIOUS
<1>4. request = <<Record("psk", Null, 0, hello), Record("psk", key, 1, Type8),
                  Record("app", key, 2, "envelope"), Record("alert", key, 3, "early")>>
  BY <1>1, <1>2, <1>3 DEF Build0RTTRequest
<1>5. /\ request[1] = Record("psk", Null, 0, hello)
      /\ request[2] = Record("psk", key, 1, Type8)
      /\ request[3] = Record("app", key, 2, "envelope")
      /\ request[4] = Record("alert", key, 3, "early")
      /\ Len(request) = 4
  BY <1>4
<1>6. request[1].msg = hello /\ hello.body.ticket.psk = entry.psk
  <2>1. hello.body.ticket = entry.ticket
    BY <1>1 DEF PSKHello, Handshake
  <2> QED
    BY <1>5, <2>1 DEF Record
<1>7. \A i \in 2 .. 4 : i = 2 \/ i = 3 \/ i = 4
  OBVIOUS
<1>8. \A i \in 2 .. 4 : request[i].key = key /\ request[i].seq = i - 1
  BY <1>5, <1>7 DEF Record
<1>9. EarlyDataOpens(request)
  BY <1>2, <1>5, <1>6, <1>8 DEF EarlyDataOpens, Opens
<1> QED
  BY <1>3, <1>9

(* A server's answer, by its hello, the transcript and the number it is sealed *)
(* with.                                                                       *)
AnswerKey(psk, trans) == OneWayKey(psk, "handshake key expansion", trans)
Sealed0RTT(sh, key, seq) ==
    <<Record("handshake", Null, 0, sh), Record("handshake", key, 1, "finished"),
      Record("app", key, seq, "response")>>

(* The answers to a request, one by one.                                       *)
LEMMA AnswersAre ==
    ASSUME NEW request
    PROVE  Answers0RTT(request) =
             {Sealed0RTT(Handshake("ServerHello", "psk"),
                         AnswerKey(request[1].msg.body.ticket.psk, trans), seq) :
                trans \in ToSet(Transcripts(request[1].msg, Handshake("ServerHello", "psk"))),
                seq \in Numbers}
BY DEF Answers0RTT, Sealed0RTT, AnswerKey

(* Its answer is read, whichever transcript and number the server picks.       *)
LEMMA AnswerIsRead ==
    ASSUME NEW entry, NEW n, entry.psk = entry.ticket.psk,
           NEW answer \in Answers0RTT(Build0RTTRequest(entry, n, "envelope"))
    PROVE  Parse0RTTResponse(OnWire(answer), entry, n)
<1>1. PICK pskCH : pskCH = PSKHello(entry, n)
  OBVIOUS
<1>2. PICK sh : sh = Handshake("ServerHello", "psk")
  OBVIOUS
<1>3. PICK request : request = Build0RTTRequest(entry, n, "envelope")
  OBVIOUS
<1>4. request[1].msg = pskCH /\ pskCH.body.ticket.psk = entry.psk
  <2>1. pskCH.body.ticket = entry.ticket
    BY <1>1 DEF PSKHello, Handshake
  <2>2. request[1] = Record("psk", Null, 0, pskCH)
    BY <1>1, <1>3 DEF Build0RTTRequest
  <2> QED
    BY <2>1, <2>2 DEF Record
<1>5. PICK trans \in ToSet(Transcripts(pskCH, sh)), seq \in Numbers :
        answer = Sealed0RTT(sh, AnswerKey(entry.psk, trans), seq)
  BY <1>2, <1>3, <1>4, AnswersAre
<1>6. PICK key : key = AnswerKey(entry.psk, trans)
  OBVIOUS
<1>7. answer = <<Record("handshake", Null, 0, sh), Record("handshake", key, 1, "finished"),
                 Record("app", key, seq, "response")>>
  BY <1>5, <1>6 DEF Sealed0RTT
<1> DEFINE S == {answer[i] : i \in DOMAIN answer}
           hellos == {i \in 1 .. Len(answer) : answer[i].ct = "handshake"}
           datas == {i \in 1 .. Len(answer) : answer[i].ct = "app"}
<1>8. /\ answer \in Seq(S) /\ Len(answer) = 3
      /\ answer[1] = Record("handshake", Null, 0, sh)
      /\ answer[2] = Record("handshake", key, 1, "finished")
      /\ answer[3] = Record("app", key, seq, "response")
  BY <1>7
<1>9. ParseRecords(OnWire(answer)) = answer
  BY <1>8, ParsedBack, MmtlsAssumption
<1>10. /\ answer[1].ct = "handshake" /\ answer[1].msg = sh
       /\ answer[2].ct = "handshake"
       /\ answer[3].ct = "app" /\ answer[3].key = key /\ answer[3].seq = seq
  BY <1>8 DEF Record
<1>11. \A i \in 1 .. 3 : i = 1 \/ i = 2 \/ i = 3
  OBVIOUS
<1>12. hellos = {1, 2} /\ datas = {3}
  BY <1>8, <1>10, <1>11
<1>13. Min(hellos) = 1 /\ Min(datas) = 3
  <2> HIDE DEF hellos, datas
  <2> QED
    BY <1>12 DEF Min
<1>14. /\ SelectInSeq(answer, LAMBDA r : r.ct = "handshake") = 1
       /\ SelectInSeq(answer, LAMBDA r : r.ct = "app") = 3
  BY <1>12, <1>13 DEF SelectInSeq
<1>15. Opens(answer[3], key, seq)
  BY <1>10 DEF Opens
<1>16. /\ seq \in Numbers
       /\ trans \in ToSet(Candidates(PSKHello(entry, n), answer[1].msg))
       /\ Opens(answer[3], AnswerKey(entry.psk, trans), seq)
  BY <1>1, <1>5, <1>6, <1>10, <1>15 DEF Candidates
<1> HIDE DEF S, hellos, datas
<1>17. ASSUME NEW buf, ParseRecords(buf) = answer
       PROVE  Parse0RTTResponse(buf, entry, n)
  <2> DEFINE hello == SelectInSeq(ParseRecords(buf), LAMBDA r : r.ct = "handshake")
             data == SelectInSeq(ParseRecords(buf), LAMBDA r : r.ct = "app")
  <2>1. hello = 1 /\ data = 3
    BY <1>14, <1>17
  <2> HIDE DEF hello, data
  <2>2. /\ hello # 0 /\ data # 0
        /\ \E t \in ToSet(Candidates(PSKHello(entry, n), ParseRecords(buf)[hello].msg)), s \in Numbers :
             Opens(ParseRecords(buf)[data], AnswerKey(entry.psk, t), s)
    <3>1. ParseRecords(buf)[hello] = answer[1] /\ ParseRecords(buf)[data] = answer[3]
      BY <1>17, <2>1
    <3> QED
      BY <1>16, <2>1, <3>1
  <2> QED
    BY <2>2 DEF Parse0RTTResponse, AnswerKey, hello, data
<1> QED
  BY <1>9, <1>17

(* The key of a session is the one its ticket stands for; whoever sends has a  *)
(* session, and what is under way is its request or an answer to it.           *)
SessionKeys == sess # Null => sess.entry.psk = sess.entry.ticket.psk
JobKnown ==
    at # "home" =>
        /\ job.kind \in {"login", "send"}
        /\ job.kind = "send" => sess # Null
KeyIssued == mc.at = "answered" => AccessPSK # 0

Requested == Build0RTTRequest(sess.entry, conns, "envelope")
EarlyExchange ==
    at = "answer" =>
        /\ job.kind = "send"
        /\ \/ sent = Requested
           \/ sent = <<>> /\ \E answer \in Answers0RTT(Requested) : wire = OnWire(answer)

EarlyInv == SessionKeys /\ JobKnown /\ KeyIssued /\ EarlyExchange

(* A client that still has its tickets and keys still has the access key.      *)
LEMMA SameAccessPSK ==
    ASSUME mc'.tickets = mc.tickets, mc'.secret = mc.secret, mc'.hCertV = mc.hCertV
    PROVE  AccessPSK' = AccessPSK
BY DEF AccessPSK, ExtractPSKs, SelectInSeq

(* A step that neither gives a session nor sends on one.                       *)
LEMMA CalmKeeps ==
    ASSUME EarlyInv, sess' = sess, at' # "answer",
           at' = "home" \/ (at # "home" /\ job' = job),
           mc' = mc \/ mc'.at # "answered"
    PROVE  EarlyInv'
<1>1. KeyIssued'
  BY SameAccessPSK DEF EarlyInv, KeyIssued
<1> QED
  BY <1>1 DEF EarlyInv, SessionKeys, JobKnown, EarlyExchange

(* A session is made of a key the login was given.                             *)
LEMMA NewSessionKeeps ==
    ASSUME MmtlsInv, mc.at \in Connected, AccessPSK # 0, NEW targets, NewSession(targets)
    PROVE  EarlyInv'
<1>1. ExtractPSKs[AccessPSK].psk = ExtractPSKs[AccessPSK].ticket.psk
  BY TicketsAgree, ExtractedKeys
<1>2. sess' = [entry |-> ExtractPSKs[AccessPSK], targets |-> targets, proxy |-> job.proxy]
  BY DEF NewSession
<1>3. sess'.entry = ExtractPSKs[AccessPSK]
  BY <1>2
<1>4. at' = "home" /\ mc'.at = "closed"
  BY CloseCloses DEF NewSession, Return, ReturnClosing
<1> QED
  BY <1>1, <1>3, <1>4 DEF EarlyInv, SessionKeys, JobKnown, KeyIssued, EarlyExchange

(* The request is on its way when its connection is.                           *)
LEMMA ReachedRequests ==
    ASSUME EarlyInv, NEW n, NEW left, Reached(n, left), conns' = n, sess' = sess, job' = job, at # "home"
    PROVE  EarlyInv'
<1>1. CASE at' = "mmtls" /\ NewConnection(n, left)
  <2>1. mc'.at = "hello"
    BY <1>1 DEF NewConnection, NewClient
  <2> QED
    BY <1>1, <2>1, CalmKeeps
<1>2. CASE job.kind # "login" /\ at' = "answer" /\ mc' = mc
           /\ sent' = Build0RTTRequest(sess.entry, n, "envelope")
  <2>1. job'.kind = "send" /\ sess' # Null
    BY <1>2 DEF EarlyInv, JobKnown
  <2>2. KeyIssued'
    BY <1>2, SameAccessPSK DEF EarlyInv, KeyIssued
  <2>3. sent' = Requested'
    BY <1>2 DEF Requested
  <2> QED
    BY <1>2, <2>1, <2>2, <2>3 DEF EarlyInv, SessionKeys, JobKnown, EarlyExchange
<1> QED
  BY <1>1, <1>2 DEF Reached

(* Every step of a login or a request.                                         *)
LEMMA EarlyKept == ASSUME LoginInv, MmtlsInv, EarlyInv, [LoginNext]_loginVars PROVE EarlyInv'
<1>1. /\ at = "mmtls" <=> mc.at \notin {"closed", "answered"}
      /\ at = "shortDns" <=> mc.at = "answered"
  BY DEF LoginInv, ClientOK
<1>2. Close => mc'.at = "closed"
  BY CloseCloses
<1>3. \A last : ReturnClosing(last) => at' = "home" /\ Close
  BY DEF ReturnClosing
<1>4. \A closed : Continue(closed) => at' = "dial" /\ job' = job /\ Close
  BY DEF Continue
<1>5. \A closed : ProxyFails(closed) =>
        at' \in {"dial", "direct"} /\ job' = job /\ (mc' = mc \/ Close)
  BY <1>4 DEF ProxyFails, mmtlsVars
<1>6. CASE StartLogin
  <2>1. at' # "home" /\ at' # "answer" /\ job'.kind = "login" /\ sess' = Null /\ mc' = mc
    BY <1>6 DEF StartLogin, mmtlsVars
  <2>2. KeyIssued'
    BY <2>1, SameAccessPSK DEF EarlyInv, KeyIssued
  <2> QED
    BY <2>1, <2>2 DEF EarlyInv, SessionKeys, JobKnown, EarlyExchange
<1>7. CASE StartSend
  <2>1. at' = "dial" /\ job'.kind = "send" /\ sess # Null /\ sess' = sess /\ mc' = mc
    BY <1>7 DEF StartSend, mmtlsVars
  <2>2. KeyIssued'
    BY <2>1, SameAccessPSK DEF EarlyInv, KeyIssued
  <2> QED
    BY <2>1, <2>2 DEF EarlyInv, SessionKeys, JobKnown, EarlyExchange
<1>8. ASSUME NEW targets, NewSession(targets), at = "shortDns" PROVE EarlyInv'
  BY <1>1, <1>8, NewSessionKeeps DEF EarlyInv, KeyIssued, Connected
<1>9. CASE DnsAnswers
  <2>1. CASE Goto("longDns", "dial") /\ UNCHANGED <<job, conns, open, deferred, sess, mmtlsVars>>
    BY <2>1, CalmKeeps DEF Goto, mmtlsVars
  <2> QED
    BY <1>8, <1>9, <2>1 DEF DnsAnswers
<1>10. CASE DnsFails
  <2>1. CASE UNCHANGED <<dialing, at, sess, mmtlsVars>>
    BY <1>10, <2>1, CalmKeeps DEF DnsFails, Looking, dialing, mmtlsVars
  <2>2. CASE Return /\ sess' = sess
    BY <1>2, <1>3, <2>2, CalmKeeps DEF Return
  <2>3. CASE at = "shortDns" /\ NewSession(<<DefaultTarget>>)
    BY <1>8, <2>3
  <2> QED
    BY <1>10, <2>1, <2>2, <2>3 DEF DnsFails, Looking
<1>11. CASE DialTarget
  <2>1. CASE Opened /\ Reached(conns + 1, <<>>) /\ UNCHANGED <<job, todo, deferred>>
    BY <1>11, <2>1, ReachedRequests DEF DialTarget, Opened
  <2>2. CASE Continue({})
    BY <1>2, <1>4, <1>11, <2>2, CalmKeeps DEF DialTarget
  <2> QED
    BY <1>11, <2>1, <2>2 DEF DialTarget
<1>12. CASE DialProxy
  <2>1. CASE at' \in {"greet", "tunnel"} /\ UNCHANGED <<job, mmtlsVars>>
    BY <1>12, <2>1, CalmKeeps DEF DialProxy, mmtlsVars
  <2>2. CASE ProxyFails({})
    BY <1>2, <1>5, <1>12, <2>2, CalmKeeps DEF DialProxy
  <2> QED
    BY <1>12, <2>1, <2>2 DEF DialProxy
<1>13. CASE ProxyAgrees
  <2>1. UNCHANGED <<dialing, sess>> /\ at # "home"
    BY <1>13 DEF ProxyAgrees, Goto
  <2>2. ASSUME NEW left, Reached(conns, left) PROVE EarlyInv'
    BY <2>1, <2>2, ReachedRequests DEF dialing
  <2>3. CASE at' = "connect" /\ UNCHANGED mmtlsVars
    BY <2>1, <2>3, CalmKeeps DEF dialing, mmtlsVars
  <2> QED
    BY <1>13, <2>2, <2>3 DEF ProxyAgrees, Goto
<1>14. CASE ProxyRefuses \/ ProxyUnreadable
  BY <1>2, <1>4, <1>5, <1>14, CalmKeeps DEF ProxyRefuses, ProxyUnreadable
<1>15. CASE AllFailed \/ BadLoginBuffer
  BY <1>2, <1>3, <1>15, CalmKeeps DEF AllFailed, BadLoginBuffer, Return
<1>16. CASE HandshakeFails \/ LoginFails
  BY <1>2, <1>4, <1>16, CalmKeeps DEF HandshakeFails, LoginFails
<1>17. CASE ReadAnswer
  BY <1>2, <1>3, <1>4, <1>17, CalmKeeps DEF ReadAnswer
<1>18. CASE Handshaking
  <2>1. at = "mmtls" /\ UNCHANGED <<dialing, at, sess>>
    BY <1>18 DEF Handshaking
  <2>2. mc'.at # "answered"
    BY <1>18, ClientMoves DEF Handshaking, LoginInv, ClientOK, Connecting
  <2> QED
    BY <2>1, <2>2, CalmKeeps DEF dialing
<1>19. CASE RequestLogin
  <2>1. mc'.at = "answer"
    BY <1>19 DEF RequestLogin, SendLogin, Send, LoginInv, ClientOK
  <2> QED
    BY <1>19, <2>1, CalmKeeps DEF RequestLogin
<1>20. CASE LoginAnswered
  <2>1. mc.at = "answer" /\ at = "mmtls" /\ AccessPSK # 0
    BY <1>1, <1>20 DEF LoginAnswered, Expecting, Accepted
  <2>2. CASE at' = "shortDns" /\ mc' = [Taken EXCEPT !.at = "answered"] /\ UNCHANGED <<dialing, sess>>
    <3>1. UNCHANGED <<job, sess>>
      BY <2>2 DEF dialing
    <3>2. mc'.tickets = mc.tickets /\ mc'.secret = mc.secret /\ mc'.hCertV = mc.hCertV
      BY <2>2 DEF Taken
    <3>3. KeyIssued'
      BY <2>1, <3>2, SameAccessPSK DEF KeyIssued
    <3> QED
      BY <2>1, <2>2, <3>1, <3>3 DEF EarlyInv, SessionKeys, JobKnown, EarlyExchange
  <2>3. CASE \E targets : NewSession(targets)
    BY <2>1, <2>3, NewSessionKeeps DEF Connected
  <2> QED
    BY <1>20, <2>2, <2>3 DEF LoginAnswered
<1>21. CASE Server
  <2>1. UNCHANGED <<dialing, at, sess, mc>>
    BY <1>21 DEF Server, Server0RTT, ServerFlight, ServerFinished, ServerReply
  <2>2. CASE Server0RTT
    <3>1. UNCHANGED <<job, conns>> /\ Requested' = Requested
      BY <2>1 DEF dialing, Requested
    <3>2. at = "answer" /\ sent = Requested /\ sent' = <<>>
          /\ \E answer \in Answers0RTT(sent) : wire' = OnWire(answer)
      BY <2>2 DEF Server0RTT, EarlyInv, EarlyExchange
    <3>3. KeyIssued'
      BY <2>1, SameAccessPSK DEF EarlyInv, KeyIssued
    <3> QED
      BY <2>1, <3>1, <3>2, <3>3 DEF EarlyInv, SessionKeys, JobKnown, EarlyExchange
  <2>3. CASE at = "mmtls"
    BY <2>1, <2>3, CalmKeeps DEF dialing
  <2> QED
    BY <1>21, <2>2, <2>3 DEF Server
<1>22. CASE UNCHANGED loginVars \/ Trickle
  <2>1. UNCHANGED <<job, conns, at, sess, mc, wire, sent>> /\ Requested' = Requested
    BY <1>22 DEF loginVars, Trickle, dialing, mmtlsVars, Requested
  <2>2. KeyIssued'
    BY <2>1, SameAccessPSK DEF EarlyInv, KeyIssued
  <2> QED
    BY <2>1, <2>2 DEF EarlyInv, SessionKeys, JobKnown, EarlyExchange
<1> QED
  BY <1>6, <1>7, <1>9, <1>10, <1>11, <1>12, <1>13, <1>14, <1>15, <1>16, <1>17, <1>18, <1>19, <1>20,
     <1>21, <1>22 DEF LoginNext, LoginStep

(* No request is under way when the program starts.                            *)
LEMMA InitEarlyInv == LoginInit => EarlyInv
BY DEF LoginInit, MmtlsInit, NewClient, EarlyInv, SessionKeys, JobKnown, KeyIssued, EarlyExchange

(* The server can open a request on a session key, and its answer is read when *)
(* it has come whole (shortlink.go:20-67, 122-165).                            *)
THEOREM EarlyDataIsUnderstood == LoginSpec => []ZeroRttUnderstood
<1>1. LoginInv /\ MmtlsInv /\ EarlyInv /\ [LoginNext]_loginVars => EarlyInv'
  BY EarlyKept
<1>2. EarlyInv => ZeroRttUnderstood
  <2> SUFFICES ASSUME EarlyInv, at = "answer"
               PROVE  /\ sent # <<>> => EarlyDataOpens(sent)
                      /\ sent = <<>> => Parse0RTTResponse(wire, sess.entry, conns)
    BY DEF ZeroRttUnderstood
  <2>1. sess.entry.psk = sess.entry.ticket.psk
    BY DEF EarlyInv, SessionKeys, JobKnown, EarlyExchange
  <2>2. EarlyDataOpens(Requested) /\ Requested # <<>>
    <3>1. EarlyDataOpens(Requested)
      BY <2>1, EarlyDataIsOpened DEF Requested
    <3>2. Len(Requested) = 4
      BY DEF Requested, Build0RTTRequest
    <3> QED
      BY <3>1, <3>2
  <2>3. CASE sent = Requested
    BY <2>2, <2>3
  <2>4. CASE sent = <<>> /\ \E answer \in Answers0RTT(Requested) : wire = OnWire(answer)
    BY <2>1, <2>4, AnswerIsRead DEF Requested
  <2> QED
    BY <2>3, <2>4 DEF EarlyInv, EarlyExchange
<1> QED
  BY InitEarlyInv, LoginInvariant, ConnectionInvariant, <1>1, <1>2, PTL DEF LoginSpec

--------------------------------------------------------------------------------
(* Where the elements of a concatenation come from: which of n sequences, and  *)
(* which place in it.  Their order is that of the places.                      *)
Found(e, ss, a, p) == p \in 1 .. Len(ss[a]) /\ e = ss[a][p]
Placed(flat, ss, n) ==
    /\ \A x \in 1 .. Len(flat) : \E a \in 1 .. n, p \in Nat : Found(flat[x], ss, a, p)
    /\ \A a \in 1 .. n : \A p \in 1 .. Len(ss[a]) : \E x \in 1 .. Len(flat) : flat[x] = ss[a][p]
    /\ \A x, y \in 1 .. Len(flat) : x < y =>
         \E a, b \in 1 .. n, p, q \in Nat :
           Found(flat[x], ss, a, p) /\ Found(flat[y], ss, b, q) /\ (a < b \/ (a = b /\ p < q))

(* One more sequence at the end of a concatenation.                            *)
LEMMA PlacedConcat ==
    ASSUME NEW S, NEW ss, NEW m \in Nat, NEW u \in Seq(S), Placed(u, ss, m), ss[m + 1] \in Seq(S)
    PROVE  u \o ss[m + 1] \in Seq(S) /\ Placed(u \o ss[m + 1], ss, m + 1)
<1>1. PICK t \in Seq(S) : t = ss[m + 1]
  OBVIOUS
<1>2. PICK l \in Nat, k \in Nat : l = Len(u) /\ k = Len(t)
  OBVIOUS
<1>3. PICK w : w = u \o t
  OBVIOUS
<1>4. /\ w \in Seq(S) /\ Len(w) = l + k
      /\ \A n \in 1 .. l : w[n] = u[n]
      /\ \A n \in 1 .. k : w[l + n] = t[n]
  BY <1>1, <1>2, <1>3, Concat
<1>5. \A x \in 1 .. l + k : x \in 1 .. l \/ (x - l \in 1 .. k /\ w[x] = t[x - l] /\ x > l)
  <2>1. ASSUME NEW x \in 1 .. l + k, x \notin 1 .. l
        PROVE  x - l \in 1 .. k /\ x > l /\ x = l + (x - l)
    BY <1>2, <2>1
  <2> QED
    BY <1>4, <2>1
<1>6. /\ \A x \in 1 .. l : \E a \in 1 .. m, p \in Nat : Found(u[x], ss, a, p)
      /\ \A a \in 1 .. m : \A p \in 1 .. Len(ss[a]) : \E x \in 1 .. l : u[x] = ss[a][p]
      /\ \A x, y \in 1 .. l : x < y =>
           \E a, b \in 1 .. m, p, q \in Nat :
             Found(u[x], ss, a, p) /\ Found(u[y], ss, b, q) /\ (a < b \/ (a = b /\ p < q))
  BY <1>2 DEF Placed
<1>7. \A x \in 1 .. l + k : x \notin 1 .. l => x - l \in Nat /\ Found(w[x], ss, m + 1, x - l)
  BY <1>1, <1>2, <1>5 DEF Found
<1>8. m + 1 \in 1 .. m + 1 /\ \A a \in 1 .. m : a \in 1 .. m + 1 /\ a < m + 1
  OBVIOUS
<1>9. \A x \in 1 .. l + k : \E a \in 1 .. m + 1, p \in Nat : Found(w[x], ss, a, p)
  <2> SUFFICES ASSUME NEW x \in 1 .. l + k
               PROVE  \E a \in 1 .. m + 1, p \in Nat : Found(w[x], ss, a, p)
    OBVIOUS
  <2>1. CASE x \in 1 .. l
    BY <1>4, <1>6, <1>8, <2>1
  <2>2. CASE x \notin 1 .. l
    BY <1>7, <1>8, <2>2
  <2> QED
    BY <2>1, <2>2
<1>10. ASSUME NEW a \in 1 .. m + 1, NEW p \in 1 .. Len(ss[a])
       PROVE  \E x \in 1 .. l + k : w[x] = ss[a][p]
  <2>1. CASE a \in 1 .. m
    <3>1. PICK x \in 1 .. l : u[x] = ss[a][p]
      BY <1>6, <2>1
    <3>2. x \in 1 .. l + k
      BY <1>2
    <3> QED
      BY <1>4, <3>1, <3>2
  <2>2. CASE a = m + 1
    <3>1. p \in 1 .. k /\ ss[a][p] = t[p]
      BY <1>1, <1>2, <2>2
    <3>2. PICK x : x = l + p /\ x \in 1 .. l + k
      BY <3>1
    <3>3. w[x] = t[p]
      BY <1>4, <3>1, <3>2
    <3> QED
      BY <3>1, <3>2, <3>3
  <2>3. a \in 1 .. m \/ a = m + 1
    OBVIOUS
  <2> QED
    BY <2>1, <2>2, <2>3
<1>11. ASSUME NEW x \in 1 .. l + k, NEW y \in 1 .. l + k, x < y
       PROVE  \E a, b \in 1 .. m + 1, p, q \in Nat :
                Found(w[x], ss, a, p) /\ Found(w[y], ss, b, q) /\ (a < b \/ (a = b /\ p < q))
  <2>1. CASE x \in 1 .. l /\ y \in 1 .. l
    BY <1>4, <1>6, <1>8, <1>11, <2>1
  <2>2. CASE x \in 1 .. l /\ y \notin 1 .. l
    <3>1. PICK a \in 1 .. m, p \in Nat : Found(w[x], ss, a, p)
      BY <1>4, <1>6, <2>2
    <3> QED
      BY <1>7, <1>8, <2>2, <3>1
  <2>3. CASE x \notin 1 .. l /\ y \notin 1 .. l
    <3>1. x - l < y - l
      BY <1>2, <1>11
    <3> QED
      BY <1>7, <1>8, <2>3, <3>1
  <2>4. ~(x \notin 1 .. l /\ y \in 1 .. l)
    BY <1>2, <1>11
  <2> QED
    BY <2>1, <2>2, <2>3, <2>4
<1>12. Placed(w, ss, m + 1)
  <2>1. PICK M : M = m + 1
    OBVIOUS
  <2>2. \A x \in 1 .. Len(w) : \E a \in 1 .. M, p \in Nat : Found(w[x], ss, a, p)
    BY <1>4, <1>9, <2>1
  <2>3. \A a \in 1 .. M : \A p \in 1 .. Len(ss[a]) : \E x \in 1 .. Len(w) : w[x] = ss[a][p]
    BY <1>4, <1>10, <2>1
  <2>4. \A x, y \in 1 .. Len(w) : x < y =>
          \E a, b \in 1 .. M, p, q \in Nat :
            Found(w[x], ss, a, p) /\ Found(w[y], ss, b, q) /\ (a < b \/ (a = b /\ p < q))
    BY <1>4, <1>11, <2>1
  <2>5. Placed(w, ss, M)
    BY <2>2, <2>3, <2>4, Zenon DEF Placed
  <2> QED
    BY <2>1, <2>5
<1> QED
  BY <1>1, <1>3, <1>4, <1>12

(* A sequence without elements.                                                *)
LEMMA NoElements ==
    ASSUME NEW S, NEW s \in Seq(S), Len(s) = 0
    PROVE  s = <<>>
OBVIOUS

(* FlattenSeq is the concatenation.                                            *)
LEMMA Flattened ==
    ASSUME NEW S, NEW ss \in Seq(Seq(S)), NEW n \in Nat, n = Len(ss)
    PROVE  FlattenSeq(ss) \in Seq(S) /\ Placed(FlattenSeq(ss), ss, n)
<1>1. Len(ss) = n /\ \A a \in 1 .. n : ss[a] \in Seq(S)
  OBVIOUS
<1>2. Placed(<<>>, ss, 0)
  BY DEF Placed
<1>3. CASE n = 0
  <2>1. ss = <<>>
    BY <1>1, <1>3, NoElements
  <2>2. FlattenSeq(ss) = <<>>
    BY <1>1, <1>3, <2>1 DEF FlattenSeq
  <2>3. <<>> \in Seq(S)
    OBVIOUS
  <2> QED
    BY <1>2, <1>3, <2>2, <2>3
<1>4. CASE n > 0
  <2>1. PICK f : /\ FlattenSeq(ss) = f[n]
                 /\ f[1] = ss[1]
                 /\ \A i \in 2 .. n : f[i] = f[i - 1] \o ss[i]
    BY <1>1, <1>4, FlattenSteps
  <2> DEFINE Done(m) == f[m] \in Seq(S) /\ Placed(f[m], ss, m)
             T == {m \in Nat : m < n => Done(m + 1)}
  <2>2. 0 \in T
    <3>1. PICK first \in Seq(S) : first = ss[1]
      BY <1>1, <1>4
    <3>2. <<>> \o first = first /\ <<>> \in Seq(S) /\ 0 + 1 = 1
      OBVIOUS
    <3>3. ss[0 + 1] = first
      BY <3>1, <3>2
    <3>4. f[1] = <<>> \o ss[0 + 1]
      BY <2>1, <3>1, <3>2, <3>3
    <3>5. Placed(<<>> \o ss[0 + 1], ss, 0 + 1) /\ <<>> \o ss[0 + 1] \in Seq(S)
      <4>1. ss[0 + 1] \in Seq(S) /\ 0 \in Nat
        BY <3>3
      <4> QED
        BY <1>2, <3>2, <4>1, PlacedConcat
    <3>6. Done(1)
      BY <3>2, <3>4, <3>5
    <3> HIDE DEF Done
    <3> QED
      BY <3>6
  <2>3. ASSUME NEW m \in Nat, m \in T PROVE m + 1 \in T
    <3> SUFFICES ASSUME m + 1 < n PROVE Done(m + 1 + 1)
      OBVIOUS
    <3>1. Done(m + 1)
      <4>1. m < n
        OBVIOUS
      <4> HIDE DEF Done
      <4> QED
        BY <2>3, <4>1
    <3>2. PICK k \in Nat, l \in 2 .. n : k = m + 1 /\ l = k + 1 /\ l - 1 = k /\ l \in 1 .. n
      OBVIOUS
    <3>3. f[l] = f[k] \o ss[k + 1] /\ ss[k + 1] \in Seq(S)
      BY <1>1, <2>1, <3>2
    <3>4. Done(k)
      BY <3>1, <3>2
    <3>5. PICK u \in Seq(S) : u = f[k] /\ Placed(u, ss, k)
      BY <3>4
    <3>6. u \o ss[k + 1] \in Seq(S) /\ Placed(u \o ss[k + 1], ss, k + 1)
      BY <3>2, <3>3, <3>5, PlacedConcat
    <3>7. f[l] = u \o ss[k + 1] /\ l = k + 1
      BY <3>2, <3>3, <3>5
    <3>8. Done(l)
      BY <3>6, <3>7
    <3> HIDE DEF Done
    <3> QED
      BY <3>2, <3>8
  <2>4. n - 1 \in T
    <3>1. n - 1 \in Nat
      BY <1>4
    <3> HIDE DEF T
    <3>2. Nat \subseteq T
      BY <2>2, <2>3, Induction
    <3> QED
      BY <3>1, <3>2
  <2>5. Done(n)
    <3>1. n - 1 + 1 = n /\ n - 1 < n
      OBVIOUS
    <3> HIDE DEF Done
    <3> QED
      BY <2>4, <3>1
  <2> QED
    BY <2>1, <2>5
<1> QED
  BY <1>3, <1>4

(* What At leaves of a sequence.                                               *)
Chosen(w, s, kept) ==
    /\ \A x \in 1 .. Len(w) : \E i \in 1 .. Len(s) : i \in kept /\ w[x] = s[i]
    /\ \A i \in 1 .. Len(s) : i \in kept => \E x \in 1 .. Len(w) : w[x] = s[i]
    /\ \A x, y \in 1 .. Len(w) : x < y =>
         \E i, j \in 1 .. Len(s) : i \in kept /\ j \in kept /\ i < j /\ w[x] = s[i] /\ w[y] = s[j]

(* At takes the elements at the indices it is given, in their order.           *)
LEMMA AtChooses ==
    ASSUME NEW S, NEW s \in Seq(S), NEW kept
    PROVE  At(s, kept) \in Seq(S) /\ Chosen(At(s, kept), s, kept)
<1>1. PICK n \in Nat : n = Len(s) /\ DOMAIN s = 1 .. n
  OBVIOUS
<1>2. PICK ss : ss = [i \in 1 .. n |-> IF i \in kept THEN <<s[i]>> ELSE <<>>]
  OBVIOUS
<1>3. PICK w : w = At(s, kept)
  OBVIOUS
<1>4. \A i \in 1 .. n :
        /\ i \in kept => ss[i] = <<s[i]>>
        /\ i \notin kept => ss[i] = <<>>
  BY <1>2
<1>5. \A i \in 1 .. n : <<s[i]>> \in Seq(S) /\ <<>> \in Seq(S)
  <2> SUFFICES ASSUME NEW i \in 1 .. n PROVE <<s[i]>> \in Seq(S) /\ <<>> \in Seq(S)
    OBVIOUS
  <2>1. PICK e \in S : e = s[i]
    BY <1>1
  <2> QED
    BY <2>1
<1>6. ss \in Seq(Seq(S)) /\ Len(ss) = n
  BY <1>2, <1>5
<1>7. w \in Seq(S) /\ Placed(w, ss, n)
  <2>1. w = FlattenSeq(ss)
    BY <1>1, <1>2, <1>3 DEF At
  <2> QED
    BY <1>5, <1>6, <2>1, Flattened
<1>8. \A i \in 1 .. n, p \in Nat : \A e : Found(e, ss, i, p) => i \in kept /\ p = 1 /\ e = s[i]
  <2> SUFFICES ASSUME NEW i \in 1 .. n, NEW p \in Nat, NEW e, Found(e, ss, i, p)
               PROVE  i \in kept /\ p = 1 /\ e = s[i]
    OBVIOUS
  <2>1. p \in 1 .. Len(ss[i]) /\ e = ss[i][p]
    BY DEF Found
  <2>2. i \in kept
    BY <1>4, <2>1
  <2>3. ss[i] = <<s[i]>>
    BY <1>4, <2>2
  <2> QED
    BY <2>1, <2>2, <2>3
<1>9. ASSUME NEW i \in 1 .. n, i \in kept PROVE \E x \in 1 .. Len(w) : w[x] = s[i]
  <2>1. 1 \in 1 .. Len(ss[i]) /\ ss[i][1] = s[i]
    BY <1>4, <1>9
  <2> QED
    BY <1>7, <2>1 DEF Placed
<1>10. ASSUME NEW x \in 1 .. Len(w), NEW y \in 1 .. Len(w), x < y
       PROVE  \E i, j \in 1 .. n : i \in kept /\ j \in kept /\ i < j /\ w[x] = s[i] /\ w[y] = s[j]
  <2>1. PICK a \in 1 .. n, b \in 1 .. n, p \in Nat, q \in Nat :
          Found(w[x], ss, a, p) /\ Found(w[y], ss, b, q) /\ (a < b \/ (a = b /\ p < q))
    BY <1>7, <1>10 DEF Placed
  <2>2. p = 1 /\ q = 1 /\ a \in kept /\ b \in kept /\ w[x] = s[a] /\ w[y] = s[b]
    BY <1>8, <2>1
  <2> QED
    BY <2>1, <2>2
<1>11. \A x \in 1 .. Len(w) : \E i \in 1 .. n : i \in kept /\ w[x] = s[i]
  BY <1>7, <1>8 DEF Placed
<1>12. Chosen(w, s, kept)
  BY <1>1, <1>9, <1>10, <1>11 DEF Chosen
<1> QED
  BY <1>3, <1>7, <1>12

--------------------------------------------------------------------------------
(* A server that HTTPDNS names.                                                *)
Targets == [ip : 1 .. MaxIp, port : Int]

(* The ranks of the preferred ports.                                           *)
LEMMA Ranks ==
    /\ PreferredPorts \in Seq(Int) /\ Len(PreferredPorts) = 4
    /\ \A p \in 1 .. 4 : Rank(PreferredPorts[p]) = p
    /\ \A port \in ToSet(PreferredPorts) : Rank(port) \in 1 .. 4 /\ PreferredPorts[Rank(port)] = port
<1>1. /\ PreferredPorts \in Seq(Int) /\ Len(PreferredPorts) = 4 /\ DOMAIN PreferredPorts = 1 .. 4
      /\ PreferredPorts[1] = 8080 /\ PreferredPorts[2] = 80
      /\ PreferredPorts[3] = 443 /\ PreferredPorts[4] = 5000
  BY DEF PreferredPorts
<1>2. \A p \in 1 .. 4 : p = 1 \/ p = 2 \/ p = 3 \/ p = 4
  OBVIOUS
<1>3. \A p, q \in 1 .. 4 : PreferredPorts[p] = PreferredPorts[q] => p = q
  BY <1>1, <1>2
<1>4. ASSUME NEW p \in 1 .. 4 PROVE Rank(PreferredPorts[p]) = p
  BY <1>1, <1>3 DEF Rank
<1>5. \A port \in ToSet(PreferredPorts) : \E p \in 1 .. 4 : port = PreferredPorts[p]
  BY <1>1 DEF ToSet
<1> QED
  BY <1>1, <1>4, <1>5

(* The targets on preferred ports, port after port.                            *)
OnPreferred(targets) == FlattenSeq([p \in DOMAIN PreferredPorts |-> OnPort(targets, PreferredPorts[p])])

(* They are all the preferred targets, the better ports first.                 *)
LEMMA OnPreferredIs ==
    ASSUME NEW T \in Seq(Targets)
    PROVE  /\ OnPreferred(T) \in Seq(Targets)
           /\ \A x \in 1 .. Len(OnPreferred(T)) : OnPreferred(T)[x] \in Preferred(T)
           /\ \A t \in Preferred(T) : \E x \in 1 .. Len(OnPreferred(T)) : OnPreferred(T)[x] = t
           /\ \A x, y \in 1 .. Len(OnPreferred(T)) :
                x < y => Rank(OnPreferred(T)[x].port) <= Rank(OnPreferred(T)[y].port)
<1>1. PICK ss : ss = [p \in 1 .. 4 |-> OnPort(T, PreferredPorts[p])]
  OBVIOUS
<1>2. PICK w : w = OnPreferred(T)
  OBVIOUS
<1>3. ASSUME NEW p \in 1 .. 4
      PROVE  /\ ss[p] \in Seq(Targets)
             /\ Chosen(ss[p], T, {i \in DOMAIN T : T[i].port = PreferredPorts[p]})
  BY <1>1, AtChooses DEF OnPort
<1>4. w \in Seq(Targets) /\ Placed(w, ss, 4)
  <2>1. w = FlattenSeq(ss)
    BY <1>1, <1>2, Ranks DEF OnPreferred
  <2>2. PICK n \in Nat : n = 4
    OBVIOUS
  <2>3. ss \in Seq(Seq(Targets)) /\ Len(ss) = n
    BY <1>1, <1>3, <2>2
  <2>4. FlattenSeq(ss) \in Seq(Targets) /\ Placed(FlattenSeq(ss), ss, n)
    BY <2>3, Flattened
  <2> QED
    BY <2>1, <2>2, <2>4
<1>5. ASSUME NEW p \in 1 .. 4, NEW q \in Nat, NEW e, Found(e, ss, p, q)
      PROVE  e \in ToSet(T) /\ e.port = PreferredPorts[p]
  <2>1. q \in 1 .. Len(ss[p]) /\ e = ss[p][q]
    BY <1>5 DEF Found
  <2>2. PICK i \in 1 .. Len(T) : T[i].port = PreferredPorts[p] /\ e = T[i]
    BY <1>3, <2>1 DEF Chosen
  <2> QED
    BY <2>2 DEF ToSet
<1>6. ASSUME NEW x \in 1 .. Len(w) PROVE w[x] \in Preferred(T)
  <2>1. PICK p \in 1 .. 4, q \in Nat : Found(w[x], ss, p, q)
    BY <1>4 DEF Placed
  <2>2. w[x] \in ToSet(T) /\ w[x].port = PreferredPorts[p]
    BY <1>5, <2>1
  <2>3. PreferredPorts[p] \in ToSet(PreferredPorts)
    BY Ranks DEF ToSet
  <2> QED
    BY <2>2, <2>3 DEF Preferred
<1>7. ASSUME NEW t \in Preferred(T) PROVE \E x \in 1 .. Len(w) : w[x] = t
  <2>1. PICK i \in 1 .. Len(T) : T[i] = t
    BY DEF Preferred, ToSet
  <2>2. PICK p \in 1 .. 4 : t.port = PreferredPorts[p]
    BY Ranks DEF Preferred, ToSet
  <2>3. PICK q \in 1 .. Len(ss[p]) : ss[p][q] = t
    <3>1. i \in {j \in DOMAIN T : T[j].port = PreferredPorts[p]}
      BY <2>1, <2>2
    <3> QED
      BY <1>3, <2>1, <3>1 DEF Chosen
  <2> QED
    BY <1>4, <2>3 DEF Placed
<1>8. ASSUME NEW x \in 1 .. Len(w), NEW y \in 1 .. Len(w), x < y
      PROVE  Rank(w[x].port) <= Rank(w[y].port)
  <2>1. PICK a \in 1 .. 4, b \in 1 .. 4, p \in Nat, q \in Nat :
          Found(w[x], ss, a, p) /\ Found(w[y], ss, b, q) /\ (a < b \/ (a = b /\ p < q))
    BY <1>4, <1>8 DEF Placed
  <2>2. w[x].port = PreferredPorts[a] /\ w[y].port = PreferredPorts[b] /\ a <= b
    BY <1>5, <2>1
  <2> QED
    BY <2>2, Ranks
<1> QED
  BY <1>2, <1>4, <1>6, <1>7, <1>8

(* What pool of targets the order draws on.                                    *)
Best(targets) ==
    {t \in Preferred(targets) :
       \A u \in Preferred(targets) : u.ip = t.ip => Rank(t.port) <= Rank(u.port)}
OncePerIp(targets) == \A x, y \in 1 .. Len(targets) : targets[x].ip = targets[y].ip => x = y

(* orderLonglinkTargets keeps, of every address that offers a preferred port,  *)
(* the target on the best one it offers, and that once (newdns.go:235-246).    *)
LEMMA ByPreferenceIs ==
    ASSUME NEW T \in Seq(Targets)
    PROVE  /\ ByPreference(T) \in Seq(Targets)
           /\ ToSet(ByPreference(T)) = Best(T)
           /\ OncePerIp(ByPreference(T))
<1>1. PICK w \in Seq(Targets) : w = OnPreferred(T)
  BY OnPreferredIs
<1>2. /\ \A x \in 1 .. Len(w) : w[x] \in Preferred(T)
      /\ \A t \in Preferred(T) : \E x \in 1 .. Len(w) : w[x] = t
      /\ \A x, y \in 1 .. Len(w) : x < y => Rank(w[x].port) <= Rank(w[y].port)
  BY <1>1, OnPreferredIs
<1>3. PICK kept : kept = {i \in DOMAIN w : \A j \in 1 .. i - 1 : w[j].ip # w[i].ip}
  OBVIOUS
<1>4. PICK best \in Seq(Targets) : best = ByPreference(T) /\ Chosen(best, w, kept)
  <2>1. ByPreference(T) = At(w, kept)
    BY <1>1, <1>3 DEF ByPreference, FirstOfIp, OnPreferred
  <2> QED
    BY <2>1, AtChooses
<1>5. \A t \in Preferred(T) : t \in Targets /\ Rank(t.port) \in 1 .. 4 /\ PreferredPorts[Rank(t.port)] = t.port
  <2>1. \A t \in ToSet(T) : t \in Targets
    BY DEF ToSet
  <2> QED
    BY <2>1, Ranks DEF Preferred
<1>6. \A i, j \in 1 .. Len(w) : i \in kept /\ j \in kept /\ i < j => w[i].ip # w[j].ip
  <2>1. \A i, j \in 1 .. Len(w) : i < j => i \in 1 .. j - 1
    OBVIOUS
  <2> QED
    BY <1>3, <2>1
<1>7. OncePerIp(best)
  <2> SUFFICES ASSUME NEW x \in 1 .. Len(best), NEW y \in 1 .. Len(best), best[x].ip = best[y].ip, x # y
               PROVE  FALSE
    BY DEF OncePerIp
  <2>1. ASSUME NEW a \in 1 .. Len(best), NEW b \in 1 .. Len(best), a < b PROVE best[a].ip # best[b].ip
    <3>1. PICK i \in 1 .. Len(w), j \in 1 .. Len(w) :
            i \in kept /\ j \in kept /\ i < j /\ best[a] = w[i] /\ best[b] = w[j]
      BY <1>4, <2>1 DEF Chosen
    <3> QED
      BY <1>6, <3>1
  <2>2. x < y \/ y < x
    OBVIOUS
  <2> QED
    BY <2>1, <2>2
<1>8. ASSUME NEW x \in 1 .. Len(best) PROVE best[x] \in Best(T)
  <2>1. PICK i \in 1 .. Len(w) : i \in kept /\ best[x] = w[i]
    BY <1>4 DEF Chosen
  <2>2. ASSUME NEW u \in Preferred(T), u.ip = w[i].ip PROVE Rank(w[i].port) <= Rank(u.port)
    <3>1. PICK j \in 1 .. Len(w) : w[j] = u
      BY <1>2
    <3>2. ~(j < i)
      <4>1. j < i => j \in 1 .. i - 1
        OBVIOUS
      <4> QED
        BY <1>3, <2>1, <2>2, <3>1, <4>1
    <3>3. CASE i = j
      BY <1>2, <1>5, <3>1, <3>3
    <3>4. CASE i < j
      BY <1>2, <3>1, <3>4
    <3> QED
      BY <3>2, <3>3, <3>4
  <2> QED
    BY <1>2, <2>1, <2>2 DEF Best
<1>9. ASSUME NEW t \in Best(T) PROVE \E x \in 1 .. Len(best) : best[x] = t
  <2>0. t \in Preferred(T) /\ \A u \in Preferred(T) : u.ip = t.ip => Rank(t.port) <= Rank(u.port)
    BY DEF Best
  <2> DEFINE I == {i \in 1 .. Len(w) : w[i].ip = t.ip}
  <2>1. PICK j \in I : w[j] = t
    BY <1>2, <2>0
  <2>2. PICK i \in I : \A k \in I : i <= k
    <3>1. I \in SUBSET Nat /\ I # {}
      BY <2>1
    <3> HIDE DEF I
    <3> QED
      BY <3>1, MinExists
  <2>3. i \in kept
    <3> SUFFICES ASSUME NEW k \in 1 .. i - 1, w[k].ip = w[i].ip PROVE FALSE
      BY <1>3, <2>2
    <3>1. k \in I /\ k < i
      BY <2>2
    <3> QED
      BY <2>2, <3>1
  <2>4. Rank(w[i].port) <= Rank(t.port)
    <3>1. CASE i = j
      BY <1>5, <2>0, <2>1, <3>1
    <3>2. CASE i < j
      BY <1>2, <2>1, <2>2, <3>2
    <3>3. i <= j /\ i \in Nat /\ j \in Nat
      BY <2>1, <2>2
    <3> QED
      BY <3>1, <3>2, <3>3
  <2>5. w[i] \in Preferred(T) /\ w[i].ip = t.ip
    BY <1>2, <2>2
  <2>6. Rank(w[i].port) = Rank(t.port)
    BY <1>5, <2>0, <2>4, <2>5
  <2>7. w[i].port = t.port
    BY <1>5, <2>0, <2>5, <2>6
  <2>8. w[i] = t
    <3>1. PICK r, s : r = w[i] /\ s = t
      OBVIOUS
    <3>2. r \in Targets /\ s \in Targets /\ r.ip = s.ip /\ r.port = s.port
      BY <1>5, <2>0, <2>5, <2>7, <3>1
    <3>3. \A e \in Targets : e = [ip |-> e.ip, port |-> e.port]
      BY DEF Targets
    <3>4. r = s
      BY <3>2, <3>3
    <3> QED
      BY <3>1, <3>4
  <2> QED
    BY <1>4, <2>2, <2>3, <2>8 DEF Chosen
<1>10. ToSet(best) = Best(T)
  BY <1>8, <1>9 DEF ToSet
<1> QED
  BY <1>4, <1>7, <1>10

(* Sorting.                                                                    *)
InIpOrder(targets) == \A x, y \in 1 .. Len(targets) : x < y => targets[x].ip <= targets[y].ip

(* sort.SliceStable changes the order of the targets and nothing else.         *)
LEMMA SortedIs ==
    ASSUME NEW T \in Seq(Targets)
    PROVE  /\ SortedByIp(T) \in Seq(Targets)
           /\ ToSet(SortedByIp(T)) = ToSet(T)
           /\ InIpOrder(SortedByIp(T))
           /\ OncePerIp(T) => OncePerIp(SortedByIp(T))
<1>1. PICK ss : ss = [ip \in 1 .. MaxIp |-> OfIp(T, ip)]
  OBVIOUS
<1>2. PICK w : w = SortedByIp(T)
  OBVIOUS
<1>3. ASSUME NEW ip \in 1 .. MaxIp
      PROVE  ss[ip] \in Seq(Targets) /\ Chosen(ss[ip], T, {i \in DOMAIN T : T[i].ip = ip})
  BY <1>1, AtChooses DEF OfIp
<1>4. w \in Seq(Targets) /\ Placed(w, ss, MaxIp)
  <2>1. w = FlattenSeq(ss)
    BY <1>1, <1>2 DEF SortedByIp
  <2>2. PICK n \in Nat : n = MaxIp
    BY NewDnsAssumption
  <2>3. ss = [ip \in 1 .. n |-> OfIp(T, ip)] /\ \A ip \in 1 .. n : OfIp(T, ip) \in Seq(Targets)
    BY <1>1, <1>3, <2>2
  <2>4. ss \in Seq(Seq(Targets)) /\ Len(ss) = n
    BY <2>3
  <2>5. FlattenSeq(ss) \in Seq(Targets) /\ Placed(FlattenSeq(ss), ss, Len(ss))
    BY <2>4, Flattened
  <2> QED
    BY <2>1, <2>2, <2>4, <2>5
<1>5. ASSUME NEW ip \in 1 .. MaxIp, NEW q \in Nat, NEW e, Found(e, ss, ip, q)
      PROVE  \E i \in 1 .. Len(T) : T[i].ip = ip /\ e = T[i]
  BY <1>3, <1>5 DEF Found, Chosen
<1>6. ASSUME NEW x \in 1 .. Len(w) PROVE w[x] \in ToSet(T)
  <2>1. PICK ip \in 1 .. MaxIp, p \in Nat : Found(w[x], ss, ip, p)
    BY <1>4 DEF Placed
  <2>2. PICK i \in 1 .. Len(T) : w[x] = T[i]
    BY <1>5, <2>1
  <2> QED
    BY <2>2 DEF ToSet
<1>7. ASSUME NEW t \in ToSet(T) PROVE \E x \in 1 .. Len(w) : w[x] = t
  <2>1. PICK i \in 1 .. Len(T) : T[i] = t
    BY DEF ToSet
  <2>2. PICK ip \in 1 .. MaxIp : ip = t.ip
    <3>1. T[i] \in Targets
      OBVIOUS
    <3> QED
      BY <2>1, <3>1 DEF Targets
  <2>3. PICK q \in 1 .. Len(ss[ip]) : ss[ip][q] = t
    <3>1. i \in {j \in DOMAIN T : T[j].ip = ip}
      BY <2>1, <2>2
    <3> QED
      BY <1>3, <2>1, <3>1 DEF Chosen
  <2> QED
    BY <1>4, <2>3 DEF Placed
<1>8. ToSet(w) = ToSet(T)
  <2>1. ToSet(w) = {w[x] : x \in 1 .. Len(w)}
    BY <1>4 DEF ToSet
  <2> QED
    BY <1>6, <1>7, <2>1
<1>9. ASSUME NEW x \in 1 .. Len(w), NEW y \in 1 .. Len(w), x < y
      PROVE  w[x].ip <= w[y].ip /\ (OncePerIp(T) => w[x].ip # w[y].ip)
  <2>1. PICK a \in 1 .. MaxIp, b \in 1 .. MaxIp, p \in Nat, q \in Nat :
          Found(w[x], ss, a, p) /\ Found(w[y], ss, b, q) /\ (a < b \/ (a = b /\ p < q))
    BY <1>4, <1>9 DEF Placed
  <2>2. w[x].ip = a /\ w[y].ip = b
    BY <1>5, <2>1
  <2>3. CASE a < b
    BY <2>2, <2>3, NewDnsAssumption
  <2>4. CASE a = b /\ p < q
    <3>1. PICK i \in 1 .. Len(T), j \in 1 .. Len(T) : i < j /\ T[i].ip = a /\ T[j].ip = a
      <4>1. p \in 1 .. Len(ss[a]) /\ q \in 1 .. Len(ss[a])
        BY <2>1, <2>4 DEF Found
      <4>2. Chosen(ss[a], T, {i \in DOMAIN T : T[i].ip = a})
        BY <1>3
      <4> QED
        BY <2>4, <4>1, <4>2 DEF Chosen
    <3>2. ~OncePerIp(T)
      BY <3>1 DEF OncePerIp
    <3> QED
      BY <2>2, <2>4, <3>2, NewDnsAssumption
  <2> QED
    BY <2>1, <2>3, <2>4
<1>10. InIpOrder(w)
  BY <1>9 DEF InIpOrder
<1>11. ASSUME OncePerIp(T) PROVE OncePerIp(w)
  <2> SUFFICES ASSUME NEW x \in 1 .. Len(w), NEW y \in 1 .. Len(w), w[x].ip = w[y].ip, x # y
               PROVE  FALSE
    BY DEF OncePerIp
  <2>1. x < y \/ y < x
    BY <1>4
  <2> QED
    BY <1>9, <1>11, <2>1
<1> QED
  BY <1>2, <1>4, <1>8, <1>10, <1>11

(* Some target is on the best port of its address.                             *)
LEMMA BestExists ==
    ASSUME NEW T \in Seq(Targets), NEW t \in Preferred(T)
    PROVE  Best(T) # {}
<1>1. PICK P : P = Preferred(T)
  OBVIOUS
<1>2. \A u \in P : Rank(u.port) \in 1 .. 4
  BY <1>1, Ranks DEF Preferred
<1>3. PICK I : I = {n \in Nat : \E u \in P : u.ip = t.ip /\ Rank(u.port) = n}
  OBVIOUS
<1>4. I \in SUBSET Nat /\ I # {}
  <2>1. t \in P /\ Rank(t.port) \in Nat
    BY <1>1, <1>2
  <2> QED
    BY <1>3, <2>1
<1>5. PICK n \in I : \A k \in I : n <= k
  BY <1>4, MinExists
<1>6. PICK u \in P : u.ip = t.ip /\ Rank(u.port) = n
  BY <1>3, <1>5
<1>7. \A v \in P : v.ip = u.ip => Rank(v.port) \in I
  BY <1>2, <1>3, <1>6
<1>8. u \in Best(T)
  BY <1>1, <1>5, <1>6, <1>7 DEF Best
<1> QED
  BY <1>8

(* The order is what it promises to be.                                        *)
LEMMA OrderIsGood ==
    ASSUME NEW T \in Seq(Targets)
    PROVE  OrderLonglinkTargets(T) \in Seq(Targets) /\ WellOrdered(OrderLonglinkTargets(T), T)
<1>1. PICK best \in Seq(Targets) : best = ByPreference(T)
  BY ByPreferenceIs
<1>2. ToSet(best) = Best(T) /\ OncePerIp(best)
  BY <1>1, ByPreferenceIs
<1>3. PICK src \in Seq(Targets) : src = IF best = <<>> THEN T ELSE best
  OBVIOUS
<1>4. PICK pool : pool = IF Preferred(T) = {} THEN ToSet(T) ELSE Best(T)
  OBVIOUS
<1>5. best = <<>> <=> Preferred(T) = {}
  <2>1. CASE best = <<>>
    <3> SUFFICES ASSUME NEW t \in Preferred(T) PROVE FALSE
      BY <2>1
    <3>1. Best(T) = {}
      BY <1>2, <2>1 DEF ToSet
    <3> QED
      BY <3>1, BestExists
  <2>2. CASE best # <<>>
    <3>1. best[1] \in ToSet(best)
      BY <2>2 DEF ToSet
    <3> QED
      BY <1>2, <2>2, <3>1 DEF Best
  <2> QED
    BY <2>1, <2>2
<1>6. ToSet(src) = pool /\ (Preferred(T) # {} => OncePerIp(src))
  BY <1>2, <1>3, <1>4, <1>5
<1>7. PICK all \in Seq(Targets) : all = SortedByIp(src)
  BY SortedIs
<1>8. ToSet(all) = pool /\ InIpOrder(all) /\ (Preferred(T) # {} => OncePerIp(all))
  BY <1>6, <1>7, SortedIs
<1>9. PICK n \in Nat : n = Len(all)
  OBVIOUS
<1>10. PICK m \in Nat : m = IF MaxTargets > 0 /\ n > MaxTargets THEN MaxTargets ELSE n
  BY <1>9, NewDnsAssumption
<1>11. m <= n /\ (m < n => m = MaxTargets)
  BY <1>10, NewDnsAssumption
<1>12. PICK out \in Seq(Targets) : /\ out = OrderLonglinkTargets(T)
                                   /\ Len(out) = m /\ \A i \in 1 .. m : out[i] = all[i]
  <2>1. OrderLonglinkTargets(T) = IF MaxTargets > 0 /\ n > MaxTargets THEN SubSeq(all, 1, MaxTargets) ELSE all
    BY <1>1, <1>3, <1>7, <1>9 DEF OrderLonglinkTargets
  <2>2. CASE MaxTargets > 0 /\ n > MaxTargets
    <3>1. MaxTargets \in 0 .. Len(all)
      BY <1>9, <2>2, NewDnsAssumption
    <3>2. PICK cut : /\ cut = SubSeq(all, 1, MaxTargets) /\ cut \in Seq(Targets)
                     /\ Len(cut) = MaxTargets /\ \A i \in 1 .. MaxTargets : cut[i] = all[i]
      BY <3>1, Prefix
    <3> QED
      BY <1>10, <2>1, <2>2, <3>2
  <2>3. CASE ~(MaxTargets > 0 /\ n > MaxTargets)
    BY <1>9, <1>10, <2>1, <2>3
  <2> QED
    BY <2>2, <2>3
<1>13. DOMAIN out = 1 .. m /\ DOMAIN all = 1 .. n /\ \A i \in 1 .. m : i \in 1 .. n
  BY <1>9, <1>11, <1>12
<1>14. ToSet(out) \subseteq pool
  BY <1>8, <1>12, <1>13 DEF ToSet
<1>15. \A i, j \in DOMAIN out : i < j => out[i].ip <= out[j].ip
  BY <1>8, <1>9, <1>12, <1>13 DEF InIpOrder
<1>16. Preferred(T) # {} => \A i, j \in DOMAIN out : out[i].ip = out[j].ip => i = j
  BY <1>8, <1>9, <1>12, <1>13 DEF OncePerIp
<1>17. ASSUME NEW t \in pool \ ToSet(out)
       PROVE  Len(out) = MaxTargets /\ \A i \in DOMAIN out : out[i].ip <= t.ip
  <2>1. PICK z \in 1 .. n : all[z] = t
    BY <1>8, <1>13 DEF ToSet
  <2>2. z \notin 1 .. m
    BY <1>12, <1>13, <2>1 DEF ToSet
  <2>3. m < z /\ m < n
    BY <2>2
  <2>4. \A i \in 1 .. m : i < z
    BY <2>3
  <2> QED
    BY <1>8, <1>9, <1>11, <1>12, <1>13, <2>1, <2>3, <2>4 DEF InIpOrder
<1>18. WellOrdered(out, T)
  BY <1>4, <1>14, <1>15, <1>16, <1>17 DEF WellOrdered, Best
<1> QED
  BY <1>12, <1>18

--------------------------------------------------------------------------------
(* What is known of a domain: its addresses, its protocols and their ports.    *)
Lists(d, ips) ==
    /\ d.ips \in Seq(ips) /\ IsSequence(d.protocols)
    /\ \A p \in DOMAIN d.protocols : d.protocols[p].ports \in Seq(Int)

ListKnown(parsed) == \A name \in DOMAIN parsed : Lists(parsed[name], 1 .. MaxIp)

(* A sequence of elements of another set.                                      *)
LEMMA Elements ==
    ASSUME NEW S, NEW s \in Seq(S)
    PROVE  /\ \A i \in 1 .. Len(s) : s[i] \in S
           /\ \A R : (\A i \in 1 .. Len(s) : s[i] \in R) => s \in Seq(R)
OBVIOUS

(* Of a list of addresses those are left that can be read.                     *)
LEMMA ParsedAddresses ==
    ASSUME NEW ips \in Seq(0 .. MaxIp)
    PROVE  Parsed(ips) \in Seq(1 .. MaxIp)
<1>1. PICK w \in Seq(0 .. MaxIp) : w = Parsed(ips) /\ Chosen(w, ips, {i \in DOMAIN ips : ips[i] # 0})
  BY AtChooses DEF Parsed
<1>2. ASSUME NEW x \in 1 .. Len(w) PROVE w[x] \in 1 .. MaxIp
  <2>1. PICK i \in 1 .. Len(ips) : ips[i] # 0 /\ w[x] = ips[i]
    BY <1>1 DEF Chosen
  <2>2. w[x] \in 0 .. MaxIp
    BY Elements
  <2> QED
    BY <2>1, <2>2, NewDnsAssumption
<1>3. w \in Seq(1 .. MaxIp)
  BY <1>2, Elements
<1> QED
  BY <1>1, <1>3

(* parseDomainList keeps what an answer lists.                                 *)
LEMMA ListIsKnown ==
    ASSUME NEW answer \in Answers
    PROVE  ListKnown(ParseDomainList(answer))
<1>1. PICK domains : domains = answer.domains
  OBVIOUS
<1>2. IsSequence(domains) /\ \A i \in DOMAIN domains : Lists(domains[i], 0 .. MaxIp)
  BY <1>1, AnswersAssumption DEF Lists
<1>3. PICK n \in Nat : DOMAIN domains = 1 .. n
  BY <1>2 DEF IsSequence
<1>4. PICK parsed : parsed = ParseDomainList(answer)
  OBVIOUS
<1>5. ASSUME NEW name \in DOMAIN parsed PROVE Lists(parsed[name], 1 .. MaxIp)
  <2>1. PICK I : I = {i \in DOMAIN domains : domains[i].name = name}
    OBVIOUS
  <2>2. PICK d : d = domains[Max(I)]
    OBVIOUS
  <2>3. /\ parsed[name].ips = Parsed(d.ips) /\ parsed[name].protocols = d.protocols
        /\ \E e \in ToSet(domains) : e.name = name
    BY <1>1, <1>4, <2>1, <2>2 DEF ParseDomainList
  <2>4. I \in SUBSET Nat /\ I # {} /\ \A i \in I : i <= n
    BY <1>3, <2>1, <2>3 DEF ToSet
  <2>5. Max(I) \in DOMAIN domains
    BY <2>1, <2>4, MaxExists
  <2>6. Lists(d, 0 .. MaxIp)
    BY <1>2, <2>2, <2>5
  <2>7. Parsed(d.ips) \in Seq(1 .. MaxIp)
    BY <2>6, ParsedAddresses DEF Lists
  <2> QED
    BY <2>3, <2>6, <2>7 DEF Lists
<1> QED
  BY <1>4, <1>5 DEF ListKnown

(* The ports of a protocol.                                                    *)
LEMMA PortsAre ==
    ASSUME NEW protocols, NEW proto, IsSequence(protocols),
           \A p \in DOMAIN protocols : protocols[p].ports \in Seq(Int)
    PROVE  Ports(protocols, proto) \in Seq(Int)
<1>1. PICK n \in Nat : DOMAIN protocols = 1 .. n
  BY DEF IsSequence
<1>2. PICK ss : ss = [i \in 1 .. n |-> IF protocols[i].name = proto THEN protocols[i].ports ELSE <<>>]
  OBVIOUS
<1>3. PICK I : I = Seq(Int) /\ <<>> \in I
  <2>1. <<>> \in Seq(Int)
    OBVIOUS
  <2> QED
    BY <2>1
<1>4. \A i \in 1 .. n : (IF protocols[i].name = proto THEN protocols[i].ports ELSE <<>>) \in I
  BY <1>1, <1>3
<1>5. ss \in Seq(I) /\ Len(ss) = n
  BY <1>2, <1>4
<1>6. FlattenSeq(ss) \in Seq(Int)
  BY <1>3, <1>5, Flattened
<1> QED
  BY <1>1, <1>2, <1>6 DEF Ports

(* The servers of a domain and a protocol.                                     *)
LEMMA ServersAre ==
    ASSUME NEW parsed, ListKnown(parsed), NEW domain, NEW proto
    PROVE  ServersFor(parsed, domain, proto) \in Seq(Targets)
<1>1. CASE domain \notin DOMAIN parsed
  <2>1. <<>> \in Seq(Targets)
    OBVIOUS
  <2> QED
    BY <1>1, <2>1 DEF ServersFor
<1>2. CASE domain \in DOMAIN parsed
  <2>1. PICK ips \in Seq(1 .. MaxIp) : ips = parsed[domain].ips
    BY <1>2 DEF ListKnown, Lists
  <2>2. PICK ports \in Seq(Int) : ports = Ports(parsed[domain].protocols, proto)
    BY <1>2, PortsAre DEF ListKnown, Lists
  <2>3. PICK n \in Nat, m \in Nat : n = Len(ips) /\ DOMAIN ips = 1 .. n /\ m = Len(ports) /\ DOMAIN ports = 1 .. m
    OBVIOUS
  <2>4. PICK I : I = Seq(Targets)
    OBVIOUS
  <2>5. PICK ss : ss = [i \in 1 .. n |-> [p \in 1 .. m |-> [ip |-> ips[i], port |-> ports[p]]]]
    OBVIOUS
  <2>6. ASSUME NEW i \in 1 .. n PROVE ss[i] \in I
    <3>1. ASSUME NEW p \in 1 .. m PROVE [ip |-> ips[i], port |-> ports[p]] \in Targets
      <4>1. ips[i] \in 1 .. MaxIp /\ ports[p] \in Int
        BY <2>3, Elements
      <4> QED
        BY <4>1 DEF Targets
    <3>2. PICK row : row = [p \in 1 .. m |-> [ip |-> ips[i], port |-> ports[p]]]
      OBVIOUS
    <3>3. row \in Seq(Targets)
      BY <3>1, <3>2
    <3> QED
      BY <2>4, <2>5, <3>2, <3>3
  <2>7. ss \in Seq(I) /\ Len(ss) = n
    <3>1. PICK g : g = ss
      OBVIOUS
    <3>2. ss = [i \in 1 .. n |-> g[i]]
      BY <2>5, <3>1
    <3>3. \A i \in 1 .. n : g[i] \in I
      BY <2>6, <3>1
    <3> QED
      BY <3>2, <3>3
  <2>8. FlattenSeq(ss) \in Seq(Targets)
    BY <2>4, <2>7, Flattened
  <2> QED
    BY <1>2, <2>1, <2>2, <2>3, <2>5, <2>8 DEF ServersFor
<1> QED
  BY <1>1, <1>2

(* The list that is cached is one that was answered.                           *)
DnsKnown == dns = Null \/ ListKnown(dns)

(* Only a list that was answered goes into the cache.                          *)
LEMMA DnsKept == DnsKnown /\ [LoginNext]_loginVars => DnsKnown'
<1> SUFFICES ASSUME DnsKnown, [LoginNext]_loginVars PROVE DnsKnown'
  OBVIOUS
<1>1. dns' = dns \/ DnsAnswers
  BY DEF LoginNext, LoginStep, Server, StartLogin, StartSend, DnsFails, DialTarget, DialProxy,
     ProxyUnreadable, ProxyAgrees, ProxyRefuses, AllFailed, Handshaking, Trickle, HandshakeFails,
     RequestLogin, BadLoginBuffer, LoginAnswered, LoginFails, ReadAnswer, Server0RTT, loginVars, lookup
<1>2. CASE DnsAnswers
  <2>1. PICK answer \in Answers : dns' = ParseDomainList(answer)
    BY <1>2 DEF DnsAnswers
  <2> QED
    BY <2>1, ListIsKnown DEF DnsKnown
<1> QED
  BY <1>1, <1>2 DEF DnsKnown

(* Whatever the answers list, a login tries the lowest addresses, each on the  *)
(* most preferred port it offers, and leaves out others only at the limit      *)
(* (newdns.go:133-205, 235-255).                                               *)
THEOREM TargetsAreOrdered == LoginSpec => []TargetsWellOrdered
<1>1. LoginInit => DnsKnown
  BY DEF LoginInit, DnsKnown
<1>2. DnsKnown => TargetsWellOrdered
  BY ServersAre, OrderIsGood DEF DnsKnown, TargetsWellOrdered
<1> QED
  BY <1>1, <1>2, DnsKept, PTL DEF LoginSpec

--------------------------------------------------------------------------------
(* A target of a login or a request: a server that HTTPDNS names, or the one   *)
(* for when it names none.                                                     *)
Known == [ip : 0 .. MaxIp, port : Int]

(* A server that is named is one that may be tried.                            *)
LEMMA TargetsKnown == ASSUME NEW s \in Seq(Targets) PROVE s \in Seq(Known)
<1>1. \A t \in Targets : t \in Known
  BY NewDnsAssumption DEF Targets, Known
<1>2. \A i \in 1 .. Len(s) : s[i] \in Known
  BY <1>1, Elements
<1> QED
  BY <1>2, Elements

(* The servers of a request are such (newdns.go:215-233).                      *)
LEMMA ShortlinkServers ==
    ASSUME NEW parsed, ListKnown(parsed)
    PROVE  ShortlinkTargets(parsed) \in Seq(Known)
<1>1. PICK all \in Seq(Targets) : all = ServersFor(parsed, ShortlinkDomain, "http")
  BY ServersAre
<1>2. PICK some \in Seq(Targets) : some = OnPort(all, 80)
  BY AtChooses DEF OnPort
<1>3. PICK out \in Seq(Targets) : out = FirstOfIp(some)
  BY AtChooses DEF FirstOfIp
<1>4. PICK only : only = <<DefaultTarget>> /\ only \in Seq(Known)
  <2>1. PICK t \in Known : t = DefaultTarget
    BY NewDnsAssumption DEF Known
  <2>2. <<t>> \in Seq(Known)
    OBVIOUS
  <2> QED
    BY <2>1, <2>2
<1>5. ShortlinkTargets(parsed) = IF out = <<>> THEN only ELSE out
  BY <1>1, <1>2, <1>3, <1>4 DEF ShortlinkTargets
<1> QED
  BY <1>4, <1>5, TargetsKnown

(* So are those of a login.                                                    *)
LEMMA LongServers ==
    ASSUME NEW parsed, ListKnown(parsed)
    PROVE  LongTargets(parsed) \in Seq(Known)
<1>1. PICK all \in Seq(Targets) : all = ServersFor(parsed, LonglinkDomain, ProtoMmtls)
  BY ServersAre
<1>2. LongTargets(parsed) \in Seq(Targets)
  BY <1>1, OrderIsGood DEF LongTargets
<1> QED
  BY <1>2, TargetsKnown

(* Where a login or a request is: its job, the servers it has left and its     *)
(* connections, of which the one in use is not among those closed later.       *)
Using == {"greet", "connect", "tunnel", "mmtls", "answer"}

JobOK ==
    /\ IF at = "home" THEN job = NoJob ELSE job \in [kind : {"login", "send"}, proxy : Proxies]
    /\ at \in {"direct", "greet", "connect", "tunnel"} => job.proxy # "none"

TodoOK == todo \in Seq(Known) /\ (at \in Using \cup {"direct"} => todo # <<>>)

ConnsOK ==
    /\ conns \in Nat /\ open \subseteq Nat /\ deferred \subseteq open
    /\ \A c \in deferred : c <= conns
    /\ at \in Using => conns \in open
    /\ Held => conns \notin deferred

Underway == at \in Places /\ JobOK /\ TodoOK /\ ConnsOK

SessOK == sess # Null => sess.targets \in Seq(Known) /\ sess.proxy \in Proxies

FlagsOK == renewed \in BOOLEAN /\ host \in 1 .. 2

(* A login or a request that comes back leaves nothing under way.              *)
LEMMA ReturnUnderway ==
    ASSUME Underway, NEW last, ReturnClosing(last)
    PROVE  Underway'
<1>1. at' = "home" /\ job' = NoJob /\ todo' = <<>> /\ conns' = 0 /\ open' \subseteq open /\ deferred' = {}
  BY DEF ReturnClosing
<1>2. at' \in Places /\ JobOK'
  BY <1>1 DEF Places, JobOK
<1>3. TodoOK'
  <2>1. <<>> \in Seq(Known)
    OBVIOUS
  <2> QED
    BY <1>1, <2>1 DEF TodoOK, Using
<1>4. ConnsOK'
  BY <1>1 DEF Underway, ConnsOK, Using, Held
<1> QED
  BY <1>2, <1>3, <1>4 DEF Underway

(* The next target is tried; what was closed was not to be closed later.       *)
LEMMA ContinueUnderway ==
    ASSUME Underway, NEW closed, Continue(closed), todo # <<>>, closed \cap deferred = {}, at # "home"
    PROVE  Underway'
<1>1. /\ at' = "dial" /\ job' = job /\ conns' = conns /\ deferred' = deferred
      /\ open' = open \ closed /\ todo' = Tail(todo)
  BY DEF Continue, NextTarget
<1>2. at' \in Places /\ JobOK'
  BY <1>1 DEF Places, Dialing, Underway, JobOK
<1>3. TodoOK'
  <2>1. Tail(todo) \in Seq(Known)
    BY DEF Underway, TodoOK
  <2> QED
    BY <1>1, <2>1 DEF TodoOK, Using
<1>4. ConnsOK'
  BY <1>1 DEF Underway, ConnsOK, Using, Held
<1> QED
  BY <1>2, <1>3, <1>4 DEF Underway

(* A connection that reaches its target is a new one or the one in use.        *)
LEMMA ReachedUnderway ==
    ASSUME Underway, NEW n, NEW left, Reached(n, left), n = conns', at # "home", todo # <<>>,
           UNCHANGED <<job, todo, deferred>>, n \in Nat, open' \subseteq Nat, open \subseteq open',
           n \in open', n \notin deferred, \A c \in deferred : c <= n
    PROVE  Underway'
<1>1. at' \in {"mmtls", "answer"}
  BY DEF Reached
<1>2. at' \in Places /\ JobOK'
  BY <1>1 DEF Places, Underway, JobOK
<1>3. TodoOK'
  BY DEF Underway, TodoOK
<1>4. ConnsOK'
  BY DEF Underway, ConnsOK
<1> QED
  BY <1>2, <1>3, <1>4 DEF Underway

(* A proxy that fails.                                                         *)
LEMMA FellBack ==
    ASSUME Underway, NEW closed, ProxyFails(closed), job.proxy # "none", todo # <<>>,
           closed \cap deferred = {}, at # "home"
    PROVE  Underway'
<1>1. CASE Continue(closed)
  BY <1>1, ContinueUnderway
<1>2. CASE at' = "direct" /\ open' = open \ closed /\ UNCHANGED <<job, todo, conns, deferred>>
  <2>1. at' \in Places /\ JobOK'
    BY <1>2 DEF Places, Dialing, Underway, JobOK
  <2>2. TodoOK'
    BY <1>2 DEF Underway, TodoOK
  <2>3. ConnsOK'
    BY <1>2 DEF Underway, ConnsOK, Using, Held
  <2> QED
    BY <2>1, <2>2, <2>3 DEF Underway
<1> QED
  BY <1>1, <1>2 DEF ProxyFails

(* A session has the servers it is given and the proxy of its login.           *)
LEMMA NewSessionTyped ==
    ASSUME Underway, at # "home", NEW targets \in Seq(Known), NewSession(targets)
    PROVE  Underway' /\ SessOK'
<1>1. Underway'
  BY ReturnUnderway DEF NewSession, Return
<1>2. PICK s : s = sess' /\ s = [entry |-> ExtractPSKs[AccessPSK], targets |-> targets, proxy |-> job.proxy]
  BY DEF NewSession
<1>3. s.targets = targets /\ s.proxy = job.proxy
  BY <1>2
<1>4. job.proxy \in Proxies
  BY DEF Underway, JobOK
<1> QED
  BY <1>1, <1>2, <1>3, <1>4 DEF SessOK

(* Starting, and the lookups.                                                  *)
LEMMA LookupsUnderway ==
    ASSUME Underway, SessOK, FlagsOK, DnsKnown, StartLogin \/ StartSend \/ DnsAnswers \/ DnsFails
    PROVE  Underway' /\ SessOK' /\ FlagsOK'
<1>1. CASE StartLogin
  <2>1. PICK proxy \in Proxies : job' = [kind |-> "login", proxy |-> proxy]
    BY <1>1 DEF StartLogin
  <2>2. at = "home" /\ at' \in {"longDns", "dial"} /\ UNCHANGED <<conns, open, deferred>>
    BY <1>1 DEF StartLogin
  <2>3. JobOK' /\ at' \in Places
    BY <2>1, <2>2 DEF JobOK, Places, Looking, Dialing
  <2>4. TodoOK'
    <3>1. todo' = todo \/ (dns # Null /\ todo' = LongTargets(dns))
      BY <1>1 DEF StartLogin
    <3>2. todo' \in Seq(Known)
      BY <3>1, LongServers DEF DnsKnown, Underway, TodoOK
    <3> QED
      BY <2>2, <3>2 DEF TodoOK, Using
  <2>5. ConnsOK'
    BY <2>2 DEF Underway, ConnsOK, Using, Held
  <2> QED
    BY <1>1, <2>3, <2>4, <2>5 DEF Underway, SessOK, FlagsOK, StartLogin
<1>2. CASE StartSend
  <2>1. /\ sess # Null /\ at' = "dial" /\ job' = [kind |-> "send", proxy |-> sess.proxy]
        /\ todo' = sess.targets /\ UNCHANGED <<renewed, lookup, conns, open, deferred, sess>>
    BY <1>2 DEF StartSend
  <2>2. JobOK' /\ at' \in Places
    BY <2>1 DEF JobOK, Places, Looking, Dialing, SessOK
  <2>3. TodoOK'
    BY <2>1 DEF TodoOK, Using, SessOK
  <2>4. ConnsOK'
    BY <2>1 DEF Underway, ConnsOK, Using, Held
  <2> QED
    BY <2>1, <2>2, <2>3, <2>4 DEF Underway, SessOK, FlagsOK, lookup
<1>3. CASE DnsAnswers
  <2>1. PICK answer \in Answers : dns' = ParseDomainList(answer)
    BY <1>3 DEF DnsAnswers
  <2>2. ListKnown(dns')
    BY <2>1, ListIsKnown
  <2>3. FlagsOK'
    BY <1>3 DEF DnsAnswers, FlagsOK
  <2>4. CASE /\ Goto("longDns", "dial") /\ todo' = LongTargets(dns')
             /\ UNCHANGED <<job, conns, open, deferred, sess>>
    <3>1. JobOK' /\ at' \in Places
      BY <2>4 DEF Goto, Underway, JobOK, Places, Dialing
    <3>2. TodoOK'
      BY <2>2, <2>4, LongServers DEF Goto, TodoOK, Using
    <3>3. ConnsOK'
      BY <2>4 DEF Goto, Underway, ConnsOK, Using, Held
    <3> QED
      BY <2>3, <2>4, <3>1, <3>2, <3>3 DEF Underway, SessOK
  <2>5. CASE at = "shortDns" /\ NewSession(ShortlinkTargets(dns'))
    BY <2>2, <2>3, <2>5, ShortlinkServers, NewSessionTyped
  <2> QED
    BY <1>3, <2>4, <2>5 DEF DnsAnswers
<1>4. CASE DnsFails
  <2>1. FlagsOK'
    BY <1>4 DEF DnsFails, FlagsOK
  <2>2. CASE UNCHANGED <<dialing, at, sess, mmtlsVars>>
    BY <2>1, <2>2 DEF dialing, mmtlsVars, Underway, JobOK, TodoOK, ConnsOK, Held, SessOK
  <2>3. CASE Return /\ UNCHANGED sess
    BY <2>1, <2>3, ReturnUnderway DEF Return, SessOK
  <2>4. CASE at \in Looking /\ NewSession(<<DefaultTarget>>)
    <3>1. PICK t \in Known : t = DefaultTarget
      BY NewDnsAssumption DEF Known
    <3>2. <<t>> \in Seq(Known)
      OBVIOUS
    <3>3. <<DefaultTarget>> \in Seq(Known)
      BY <3>1, <3>2
    <3> QED
      BY <2>1, <2>4, <3>3, NewSessionTyped DEF Looking
  <2> QED
    BY <1>4, <2>2, <2>3, <2>4 DEF DnsFails
<1> QED
  BY <1>1, <1>2, <1>3, <1>4

(* Dialing.                                                                    *)
LEMMA DialingUnderway ==
    ASSUME Underway, SessOK, FlagsOK, LoginInv,
           DialTarget \/ DialProxy \/ ProxyUnreadable \/ ProxyAgrees \/ ProxyRefuses \/ AllFailed
    PROVE  Underway' /\ SessOK' /\ FlagsOK'
<1>1. UNCHANGED <<renewed, lookup, sess>>
  BY DEF DialTarget, DialProxy, ProxyUnreadable, ProxyAgrees, ProxyRefuses, AllFailed
<1>2. SessOK' /\ FlagsOK'
  BY <1>1 DEF SessOK, FlagsOK, lookup
<1>3. ConnsOK /\ TodoOK /\ JobOK
  BY DEF Underway
<1>4. ASSUME Opened
      PROVE  /\ conns' = conns + 1 /\ conns' \in Nat /\ open' \subseteq Nat /\ open \subseteq open'
             /\ conns' \in open' /\ conns' \notin deferred /\ \A c \in deferred : c <= conns'
  BY <1>3, <1>4 DEF Opened, ConnsOK
<1>5. CASE DialTarget
  <2>1. todo # <<>> /\ at # "home"
    BY <1>5 DEF DialTarget
  <2>2. CASE Opened /\ Reached(conns + 1, <<>>) /\ UNCHANGED <<job, todo, deferred>>
    BY <1>2, <1>4, <2>1, <2>2, ReachedUnderway
  <2>3. CASE Continue({})
    BY <1>2, <2>1, <2>3, ContinueUnderway
  <2> QED
    BY <1>2, <1>5, <2>2, <2>3 DEF DialTarget
<1>6. CASE DialProxy
  <2>1. todo # <<>> /\ at = "dial" /\ job.proxy # "none"
    BY <1>6 DEF DialProxy, Schemes
  <2>2. CASE ProxyFails({})
    BY <1>2, <2>1, <2>2, FellBack
  <2>3. CASE at' \in {"greet", "tunnel"} /\ Opened /\ UNCHANGED <<job, todo, deferred>>
    <3>1. JobOK' /\ TodoOK' /\ at' \in Places
      BY <1>3, <2>1, <2>3 DEF JobOK, TodoOK, Places, Dialing
    <3>2. ConnsOK'
      BY <1>3, <1>4, <2>3 DEF ConnsOK
    <3> QED
      BY <1>2, <3>1, <3>2 DEF Underway
  <2> QED
    BY <1>2, <1>6, <2>2, <2>3 DEF DialProxy
<1>7. ASSUME at \in {"greet", "connect", "tunnel"}
      PROVE  /\ todo # <<>> /\ job.proxy # "none" /\ conns \in open /\ conns \notin deferred
             /\ conns \in Nat /\ open \subseteq Nat /\ \A c \in deferred : c <= conns
  BY <1>3, <1>7 DEF TodoOK, JobOK, ConnsOK, Using, Held
<1>8. CASE ProxyAgrees
  <2>1. at \in {"greet", "connect", "tunnel"} /\ UNCHANGED dialing
    BY <1>8 DEF ProxyAgrees, Goto
  <2>2. ASSUME NEW left, Reached(conns, left) PROVE Underway'
    BY <1>7, <2>1, <2>2, ReachedUnderway DEF dialing
  <2>3. CASE at' = "connect"
    <3>1. JobOK' /\ TodoOK' /\ at' \in Places
      BY <1>3, <2>1, <2>3 DEF JobOK, TodoOK, Places, Dialing, Using, dialing
    <3>2. ConnsOK'
      BY <1>3, <1>7, <2>1, <2>3 DEF ConnsOK, dialing
    <3> QED
      BY <1>2, <3>1, <3>2 DEF Underway
  <2> QED
    BY <1>2, <1>8, <2>2, <2>3 DEF ProxyAgrees, Goto
<1>9. CASE ProxyRefuses
  BY <1>2, <1>7, <1>9, FellBack DEF ProxyRefuses
<1>10. CASE AllFailed
  BY <1>2, <1>10, ReturnUnderway DEF AllFailed, Return
<1>11. CASE ProxyUnreadable
  BY <1>2, <1>11, ContinueUnderway DEF ProxyUnreadable
<1> QED
  BY <1>5, <1>6, <1>8, <1>9, <1>10, <1>11

(* On a connection.                                                            *)
LEMMA ConnectionUnderway ==
    ASSUME Underway, SessOK, FlagsOK, LoginInv, DnsKnown,
           Handshaking \/ Trickle \/ HandshakeFails \/ RequestLogin \/ BadLoginBuffer
             \/ LoginAnswered \/ LoginFails \/ ReadAnswer \/ Server
    PROVE  Underway' /\ SessOK' /\ FlagsOK'
<1>0. ConnsOK /\ TodoOK /\ JobOK /\ ClientOK /\ at \in Places
  BY DEF Underway, LoginInv
<1>1. ASSUME at = "mmtls" \/ at = "answer"
      PROVE  todo # <<>> /\ conns \in open /\ conns \in Nat /\ at # "home" /\ (Held => conns \notin deferred)
  BY <1>0, <1>1 DEF TodoOK, ConnsOK, Using
<1>2. ASSUME UNCHANGED <<dialing, at>>, Held' => Held PROVE Underway'
  BY <1>2 DEF dialing, Underway, JobOK, TodoOK, ConnsOK
<1>3. ASSUME UNCHANGED <<renewed, lookup, sess>> PROVE SessOK' /\ FlagsOK'
  BY <1>3 DEF SessOK, FlagsOK, lookup
<1>4. CASE Handshaking
  <2>1. at = "mmtls" /\ UNCHANGED <<renewed, lookup, dialing, at, sess>>
    BY <1>4 DEF Handshaking
  <2>2. Held' => Held
    <3>1. \/ mc.at \in Connecting /\ mc'.at \in Connecting \cup {"idle"}
          \/ mc.at = "answer" /\ mc'.at = "answer"
      BY <1>0, <1>4, ClientMoves DEF Handshaking, ClientOK
    <3> QED
      BY <2>1, <3>1 DEF Held, Connecting
  <2> QED
    BY <1>2, <1>3, <2>1, <2>2
<1>5. CASE HandshakeFails
  <2>1. at = "mmtls" /\ Held /\ Continue({conns}) /\ UNCHANGED <<renewed, lookup, sess>>
    BY <1>5 DEF HandshakeFails, FailedHandshake, Held
  <2> QED
    BY <1>1, <1>3, <2>1, ContinueUnderway
<1>6. CASE RequestLogin
  <2>1. /\ at = "mmtls" /\ UNCHANGED <<renewed, lookup, job, todo, conns, open, at, sess>>
        /\ deferred' = deferred \cup {conns}
        /\ "at" \in DOMAIN mc' /\ mc'.at = "answer"
    BY <1>0, <1>6 DEF RequestLogin, SendLogin, Send, ClientOK
  <2>2. ~Held'
    BY <2>1 DEF Held, Connecting
  <2>3. ConnsOK'
    BY <1>0, <1>1, <2>1, <2>2 DEF ConnsOK
  <2>4. JobOK' /\ TodoOK' /\ at' \in Places
    BY <1>0, <2>1 DEF JobOK, TodoOK
  <2> QED
    BY <1>3, <2>1, <2>3, <2>4 DEF Underway
<1>7. CASE BadLoginBuffer
  BY <1>3, <1>7, ReturnUnderway DEF BadLoginBuffer
<1>8. CASE LoginAnswered
  <2>1. at = "mmtls" /\ FlagsOK'
    BY <1>0, <1>8 DEF LoginAnswered, Expecting, ClientOK, FlagsOK
  <2>2. CASE at' = "shortDns" /\ UNCHANGED <<dialing, sess>>
    <3>1. JobOK' /\ TodoOK' /\ at' \in Places
      BY <1>0, <2>1, <2>2 DEF JobOK, TodoOK, Places, Looking, Using, dialing
    <3>2. ConnsOK'
      BY <1>0, <2>2 DEF ConnsOK, Using, Held, dialing
    <3> QED
      BY <2>1, <2>2, <3>1, <3>2 DEF Underway, SessOK
  <2>3. CASE dns # Null /\ NewSession(ShortlinkTargets(dns))
    BY <2>1, <2>3, ShortlinkServers, NewSessionTyped DEF DnsKnown
  <2> QED
    BY <1>8, <2>2, <2>3 DEF LoginAnswered
<1>9. CASE LoginFails
  BY <1>1, <1>3, <1>9, ContinueUnderway DEF LoginFails
<1>10. CASE ReadAnswer
  <2>1. at = "answer" /\ Held /\ UNCHANGED <<renewed, lookup, sess>>
    BY <1>10 DEF ReadAnswer, Held
  <2>2. ReturnClosing({conns}) \/ Continue({conns})
    BY <1>10 DEF ReadAnswer
  <2> QED
    BY <1>1, <1>3, <2>1, <2>2, ReturnUnderway, ContinueUnderway
<1>11. CASE Server
  <2>1. UNCHANGED <<renewed, lookup, dialing, at, sess, mc>>
    BY <1>11 DEF Server, Server0RTT, ServerFlight, ServerFinished, ServerReply
  <2>2. Held' => Held
    BY <2>1 DEF Held
  <2> QED
    BY <1>2, <1>3, <2>1, <2>2
<1>12. CASE Trickle
  <2>1. UNCHANGED <<lookup, dialing, at, sess, mc>>
    BY <1>12 DEF Trickle, mmtlsVars
  <2>2. Held' => Held
    BY <2>1 DEF Held
  <2>3. SessOK' /\ FlagsOK'
    BY <1>12, <2>1 DEF Trickle, SessOK, FlagsOK, lookup
  <2> QED
    BY <1>2, <2>1, <2>2, <2>3
<1> QED
  BY <1>4, <1>5, <1>6, <1>7, <1>8, <1>9, <1>10, <1>11, <1>12

(* The login and its data.                                                     *)
TypeInv == Underway /\ SessOK /\ FlagsOK /\ DnsKnown

(* Every variable of a login or a request is what it should be; the connection *)
(* in use is open, and what is closed later was opened.                        *)
THEOREM LoginTypeCorrect == LoginSpec => []LoginTypeOK
<1>1. LoginInit => TypeInv
  <2>1. ASSUME LoginInit PROVE TodoOK
    <3>1. <<>> \in Seq(Known)
      OBVIOUS
    <3> QED
      BY <2>1, <3>1 DEF LoginInit, TodoOK, Using
  <2>2. ASSUME LoginInit PROVE ConnsOK
    BY <2>2 DEF LoginInit, ConnsOK, Using, Held
  <2>3. ASSUME LoginInit PROVE FlagsOK
    <3>1. renewed \in BOOLEAN
      BY <2>3, Zenon DEF LoginInit
    <3>2. host \in 1 .. 2
      BY <2>3 DEF LoginInit
    <3> QED
      BY <3>1, <3>2 DEF FlagsOK
  <2> QED
    BY <2>1, <2>2, <2>3 DEF LoginInit, TypeInv, Underway, Places, JobOK, SessOK, DnsKnown
<1>2. TypeInv /\ LoginInv /\ [LoginNext]_loginVars => TypeInv'
  <2> SUFFICES ASSUME TypeInv, LoginInv, [LoginNext]_loginVars PROVE TypeInv'
    OBVIOUS
  <2>1. DnsKnown'
    BY DnsKept DEF TypeInv
  <2>2. CASE UNCHANGED loginVars
    BY <2>1, <2>2 DEF TypeInv, loginVars, lookup, dialing, mmtlsVars, Underway, JobOK, TodoOK, ConnsOK, Held,
       SessOK, FlagsOK
  <2>3. CASE LoginNext
    BY <2>1, <2>3, LookupsUnderway, DialingUnderway, ConnectionUnderway DEF TypeInv, LoginNext, LoginStep
  <2> QED
    BY <2>2, <2>3
<1>3. TypeInv /\ LoginInv => LoginTypeOK
  <2> SUFFICES ASSUME TypeInv, LoginInv PROVE LoginTypeOK
    OBVIOUS
  <2>1. Underway /\ FlagsOK /\ ClientOK /\ JobOK /\ TodoOK /\ ConnsOK
    BY DEF TypeInv, Underway, LoginInv
  <2>2. job.kind \in {"none", "login", "send"} /\ job.proxy \in Proxies /\ ((at = "home") = (job = NoJob))
    <3>1. CASE at = "home"
      BY <2>1, <3>1, ProxiesAssumption DEF JobOK, NoJob
    <3>2. CASE at # "home"
      <4>1. job.kind \in {"login", "send"} /\ job.proxy \in Proxies
        BY <2>1, <3>2 DEF JobOK
      <4>2. job # NoJob
        BY <4>1 DEF NoJob
      <4> QED
        BY <3>2, <4>1, <4>2
    <3> QED
      BY <3>1, <3>2
  <2>3. at = "mmtls" <=> mc.at # "closed" /\ at # "shortDns"
    BY <2>1 DEF ClientOK
  <2>4. \A i \in DOMAIN todo : todo[i].ip \in 0 .. MaxIp
    <3>1. \A i \in DOMAIN todo : todo[i] \in Known
      BY <2>1 DEF TodoOK
    <3> QED
      BY <3>1 DEF Known
  <2>5. conns \in Nat /\ open \subseteq Nat /\ deferred \subseteq open /\ (at \in Using => conns \in open)
    BY <2>1 DEF ConnsOK
  <2> QED
    BY <2>1, <2>2, <2>3, <2>4, <2>5 DEF LoginTypeOK, Underway, FlagsOK, JobOK, Using
<1> QED
  BY <1>1, <1>2, <1>3, LoginInvariant, PTL DEF LoginSpec
================================================================================
