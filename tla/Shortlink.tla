-------------------------------- MODULE Shortlink --------------------------------
(* A request on a session key without a handshake (0-RTT), over one short HTTP *)
(* connection: build0RTTRequest and parse0RTTResponse of                       *)
(* internal/protocol/shortlink.go, and the server they talk to.                *)
EXTENDS Mmtls

OneWayKey(psk, label, hash) == <<label, psk, hash>>

(* The PSK ClientHello of a ticket; n names its random bytes.                  *)
PSKHello(entry, n) == Handshake("PSKClientHello", [ticket |-> entry.ticket, random |-> n])
Type8 == Handshake("type8", "prefix")

Build0RTTRequest(entry, n, envelope) ==
    LET pskCH == PSKHello(entry, n)
        key == OneWayKey(entry.psk, "early data key expansion", <<pskCH>>)
    IN  <<Record("psk", Null, 0, pskCH), Record("psk", key, 1, Type8),
          Record("app", key, 2, envelope), Record("alert", key, 3, "early")>>

(* The transcripts an answer may be sealed with, and the numbers.              *)
Transcripts(pskCH, sh) == <<<<pskCH, sh>>, <<pskCH, Type8, sh>>, <<pskCH, sh, Type8>>>>
Numbers == 1 .. 3

--------------------------------------------------------------------------------
(* The server opens the early data with the key its ticket stands for.         *)
EarlyDataOpens(request) ==
    LET pskCH == request[1].msg
        key == OneWayKey(pskCH.body.ticket.psk, "early data key expansion", <<pskCH>>)
    IN  \A i \in 2 .. Len(request) : Opens(request[i], key, i - 1)

(* Its answer: a hello, its Finished and the data, sealed as it likes.         *)
Answers0RTT(request) ==
    LET pskCH == request[1].msg
        sh == Handshake("ServerHello", "psk")
        key(trans) == OneWayKey(pskCH.body.ticket.psk, "handshake key expansion", trans)
    IN  {<<Record("handshake", Null, 0, sh), Record("handshake", key(trans), 1, "finished"),
           Record("app", key(trans), seq, "response")>> :
            trans \in ToSet(Transcripts(pskCH, sh)), seq \in Numbers}

--------------------------------------------------------------------------------
FaultyCandidates(pskCH, sh) == <<<<pskCH, sh>>, <<pskCH, Type8, sh>>>>

Candidates(pskCH, sh) == Transcripts(pskCH, sh)

(* The first handshake record is the hello, the first data record the answer;  *)
(* it is read when one of the candidate keys and numbers opens it.             *)
Parse0RTTResponse(buf, entry, n) ==
    LET recs == ParseRecords(buf)
        hello == SelectInSeq(recs, LAMBDA r : r.ct = "handshake")
        data == SelectInSeq(recs, LAMBDA r : r.ct = "app")
        pskCH == PSKHello(entry, n)
    IN  /\ hello # 0 /\ data # 0
        /\ \E trans \in ToSet(Candidates(pskCH, recs[hello].msg)), seq \in Numbers :
            Opens(recs[data], OneWayKey(entry.psk, "handshake key expansion", trans), seq)
================================================================================
