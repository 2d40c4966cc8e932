------------------------------- MODULE QrSessions -------------------------------
(* Scanning an account in: the QR sessions of internal/httpapi/app.go with     *)
(* their image files, and the session object of internal/qr/qr.go with its     *)
(* mutex.  A browser creates a session, polls it and confirms it; polls and    *)
(* confirms of one session overlap, and WeChat answers what it likes.          *)
EXTENDS Naturals, FiniteSets

CONSTANTS
    Requests,   \* HTTP requests under way at the same time
    Sids,       \* session ids, each drawn once by randomHex
    Null

ASSUME NullAssumption ==
    Null \notin Requests \cup Sids \cup {"created", "stored", "notFound", "error"}

VARIABLES
    qrSessions, \* the ids in App.qrSessions
    old,        \* sessions whose Age() has passed QRSessionTTL
    files,      \* images in the qr directory
    leftover,   \* images there since an earlier run of the program
    sess,       \* *qr.Session: AuthorizeCode known, cookies in the jar, LoginBuffer known
    holder,     \* who holds the mutex of a session
    wechat,     \* what WeChat knows of a session's QR code
    spent,      \* authorization codes the callback has consumed
    fetched,    \* how many login buffers the session has been issued
    stored,     \* sessions whose account is in wechat_accounts
    at,         \* where each request is
    sidOf,      \* the session it is about
    list,       \* its keep map (create) or the images it is about to remove (prune)
    ans         \* the status it has for the client

session == <<sess, holder, spent, fetched>>
request == <<at, sidOf, list, ans>>
qrVars == <<qrSessions, old, files, leftover, session, wechat, stored, request>>

Creating == {"prune", "create", "register", "image", "cleanup"}
Locked == {"poll", "confirm", "fetch"}
Places == {"home", "lockPoll", "lockConfirm", "store", "drop", "dropFile", "done"}
              \cup Creating \cup Locked

Terminal == {"expired", "cancelled", "unknown"}
Statuses == Terminal \cup {"pending", "scanned", "authorized", "confirmed"}
Answers == Statuses \cup {"created", "stored", "notFound", "error", Null}

QrTypeOK ==
    /\ qrSessions \subseteq Sids /\ old \subseteq Sids /\ stored \subseteq Sids
    /\ files \subseteq Sids /\ leftover \subseteq files
    /\ sess \in [Sids -> [code : BOOLEAN, jar : BOOLEAN, buffer : BOOLEAN]]
    /\ holder \in [Sids -> Requests \cup {Null}]
    /\ wechat \in [Sids -> {"unused", "pending", "scanned", "authorized", "cancelled", "expired"}]
    /\ spent \in [Sids -> BOOLEAN]
    /\ fetched \in [Sids -> Nat]
    /\ at \in [Requests -> Places]
    /\ sidOf \in [Requests -> Sids \cup {Null}]
    /\ list \in [Requests -> SUBSET Sids]
    /\ ans \in [Requests -> Answers]
    /\ \A s \in Sids, r \in Requests : holder[s] = r <=> (at[r] \in Locked /\ sidOf[r] = s)

QrInit ==
    /\ qrSessions = {} /\ old = {} /\ files = {} /\ leftover = {} /\ stored = {}
    /\ sess = [s \in Sids |-> [code |-> FALSE, jar |-> FALSE, buffer |-> FALSE]]
    /\ holder = [s \in Sids |-> Null]
    /\ wechat = [s \in Sids |-> "unused"]
    /\ spent = [s \in Sids |-> FALSE]
    /\ fetched = [s \in Sids |-> 0]
    /\ at = [r \in Requests |-> "home"]
    /\ sidOf = [r \in Requests |-> Null]
    /\ list = [r \in Requests |-> {}]
    /\ ans = [r \in Requests |-> Null]

--------------------------------------------------------------------------------
Move(r, from, to) ==
    /\ at[r] = from
    /\ at' = [at EXCEPT ![r] = to]

Reply(r, status) ==
    /\ at' = [at EXCEPT ![r] = "done"]
    /\ ans' = [ans EXCEPT ![r] = status]
    /\ list' = [list EXCEPT ![r] = {}]
    /\ UNCHANGED sidOf

Unlock(r) == holder' = [holder EXCEPT ![sidOf[r]] = Null]

(* The client has the answer.                                                  *)
Receive(r) ==
    /\ Move(r, "done", "home")
    /\ sidOf' = [sidOf EXCEPT ![r] = Null]
    /\ ans' = [ans EXCEPT ![r] = Null]
    /\ UNCHANGED <<qrSessions, old, files, leftover, session, wechat, stored, list>>

--------------------------------------------------------------------------------
(* POST /qr.  pruneQR forgets what is past its TTL, then removes the images.   *)
PruneQR(r) ==
    /\ Move(r, "home", "prune")
    /\ list' = [list EXCEPT ![r] = qrSessions \cap old]
    /\ qrSessions' = qrSessions \ old
    /\ UNCHANGED <<old, files, leftover, session, wechat, stored, sidOf, ans>>

PruneImages(r) ==
    /\ Move(r, "prune", "create")
    /\ files' = files \ list[r]
    /\ leftover' = leftover \ list[r]
    /\ list' = [list EXCEPT ![r] = {}]
    /\ UNCHANGED <<qrSessions, old, session, wechat, stored, sidOf, ans>>

(* GetQRCodeImage: WeChat issues a code and the image is fetched.              *)
GetQRCodeImage(r) ==
    /\ Move(r, "create", "register")
    /\ \E s \in Sids :
        /\ wechat[s] = "unused"
        /\ wechat' = [wechat EXCEPT ![s] = "pending"]
        /\ sidOf' = [sidOf EXCEPT ![r] = s]
    /\ UNCHANGED <<qrSessions, old, files, leftover, session, stored, list, ans>>

GetQRCodeImageFails(r) ==
    /\ at[r] = "create"
    /\ Reply(r, "error")
    /\ UNCHANGED <<qrSessions, old, files, leftover, session, wechat, stored>>

RegisterSession(r) ==
    /\ Move(r, "register", "image")
    /\ qrSessions' = qrSessions \cup {sidOf[r]}
    /\ list' = [list EXCEPT ![r] = qrSessions']
    /\ UNCHANGED <<old, files, leftover, session, wechat, stored, sidOf, ans>>

(* os.WriteFile, its error discarded.                                          *)
WriteImage(r) ==
    /\ Move(r, "image", "cleanup")
    /\ files' = files \cup {sidOf[r]}
    /\ UNCHANGED <<qrSessions, old, leftover, session, wechat, stored, sidOf, list, ans>>

(* cleanupQR removes every image that is not in the keep map.                  *)
CleanupQR(r) ==
    /\ at[r] = "cleanup"
    /\ files' = files \cap list[r]
    /\ leftover' = leftover \cap list[r]
    /\ Reply(r, "created")
    /\ UNCHANGED <<qrSessions, old, session, wechat, stored>>

--------------------------------------------------------------------------------
(* GET poll and POST confirm start with getQRSession and keep the pointer.     *)
GetQRSession(r, s, lock) ==
    /\ at[r] = "home"
    /\ sidOf' = [sidOf EXCEPT ![r] = s]
    /\ IF s \in qrSessions
       THEN Move(r, "home", lock) /\ UNCHANGED ans
       ELSE /\ at' = [at EXCEPT ![r] = "done"]
            /\ ans' = [ans EXCEPT ![r] = "notFound"]
    /\ UNCHANGED <<qrSessions, old, files, leftover, session, wechat, stored, list>>

FaultyLock(r) ==
    LET s == sidOf[r]
    IN  /\ \/ Move(r, "lockPoll", "poll")
           \/ Move(r, "lockConfirm", "confirm")
        /\ holder' = [holder EXCEPT ![s] = r]
        /\ UNCHANGED <<qrSessions, old, files, leftover, sess, spent, fetched, wechat, stored,
                       sidOf, list, ans>>

Lock(r) ==
    LET s == sidOf[r]
    IN  /\ \/ Move(r, "lockPoll", "poll")
           \/ Move(r, "lockConfirm", "confirm")
        /\ holder[s] = Null
        /\ holder' = [holder EXCEPT ![s] = r]
        /\ UNCHANGED <<qrSessions, old, files, leftover, sess, spent, fetched, wechat, stored,
                       sidOf, list, ans>>

(* PollQRCode of a session that is past asking WeChat.                         *)
PollKnown(r) ==
    LET s == sidOf[r]
    IN  /\ at[r] = "poll"
        /\ \/ sess[s].buffer /\ Reply(r, "confirmed")
           \/ ~sess[s].buffer /\ sess[s].code /\ Reply(r, "authorized")
        /\ Unlock(r)
        /\ UNCHANGED <<qrSessions, old, files, leftover, sess, spent, fetched, wechat, stored>>

(* WeChat's answer, or a body that says nothing: unknown.  A terminal status   *)
(* makes the handler drop the session once the mutex is free.                  *)
PollQRCode(r) ==
    LET s == sidOf[r]
    IN  /\ at[r] = "poll"
        /\ ~sess[s].code /\ ~sess[s].buffer
        /\ \E status \in {wechat[s], "unknown"} :
            /\ sess' = [sess EXCEPT ![s].code = status = "authorized"]
            /\ IF status \in Terminal
               THEN /\ Move(r, "poll", "drop")
                    /\ ans' = [ans EXCEPT ![r] = status]
                    /\ UNCHANGED <<sidOf, list>>
               ELSE Reply(r, status)
        /\ Unlock(r)
        /\ UNCHANGED <<qrSessions, old, files, leftover, spent, fetched, wechat, stored>>

FaultyPollFails(r) ==
    /\ at[r] = "poll"
    /\ ~sess[sidOf[r]].code /\ ~sess[sidOf[r]].buffer
    /\ Reply(r, "error")
    /\ UNCHANGED <<qrSessions, old, files, leftover, session, wechat, stored>>

PollFails(r) ==
    /\ at[r] = "poll"
    /\ ~sess[sidOf[r]].code /\ ~sess[sidOf[r]].buffer
    /\ Reply(r, "error")
    /\ Unlock(r)
    /\ UNCHANGED <<qrSessions, old, files, leftover, sess, spent, fetched, wechat, stored>>

--------------------------------------------------------------------------------
FaultyConfirmKnown(r) ==
    /\ Move(r, "confirm", "drop")
    /\ sess[sidOf[r]].buffer
    /\ ans' = [ans EXCEPT ![r] = "stored"]
    /\ Unlock(r)
    /\ UNCHANGED <<qrSessions, old, files, leftover, sess, spent, fetched, wechat, stored,
                   sidOf, list>>

(* GetLoginBuffer, when an earlier confirm has got the login buffer.           *)
ConfirmKnown(r) ==
    /\ Move(r, "confirm", "store")
    /\ sess[sidOf[r]].buffer
    /\ Unlock(r)
    /\ UNCHANGED <<qrSessions, old, files, leftover, sess, spent, fetched, wechat, stored,
                   sidOf, list, ans>>

FaultyCallback(r) ==
    LET s == sidOf[r]
    IN  /\ Move(r, "confirm", "fetch")
        /\ sess[s].code
        /\ sess' = [sess EXCEPT ![s].jar = @ \/ ~spent[s]]
        /\ spent' = [spent EXCEPT ![s] = TRUE]
        /\ UNCHANGED <<qrSessions, old, files, leftover, holder, fetched, wechat, stored,
                       sidOf, list, ans>>

(* The OAuth callback takes a code once and sets the cookies then; the jar     *)
(* keeps them for a later try.                                                 *)
Callback(r) ==
    LET s == sidOf[r]
    IN  /\ Move(r, "confirm", "fetch")
        /\ ~sess[s].buffer
        /\ sess[s].code
        /\ sess' = [sess EXCEPT ![s].jar = @ \/ ~spent[s]]
        /\ spent' = [spent EXCEPT ![s] = TRUE]
        /\ UNCHANGED <<qrSessions, old, files, leftover, holder, fetched, wechat, stored,
                       sidOf, list, ans>>

FetchLoginBuffer(r) ==
    LET s == sidOf[r]
    IN  /\ Move(r, "fetch", "store")
        /\ sess[s].jar
        /\ sess' = [sess EXCEPT ![s].buffer = TRUE]
        /\ fetched' = [fetched EXCEPT ![s] = @ + 1]
        /\ Unlock(r)
        /\ UNCHANGED <<qrSessions, old, files, leftover, spent, wechat, stored, sidOf, list, ans>>

(* No code yet; or the callback fails, perhaps after it took the code; or it   *)
(* set no cookies; or the login buffer is refused.                             *)
ConfirmFails(r) ==
    LET s == sidOf[r]
    IN  /\ \/ at[r] = "confirm" /\ ~sess[s].buffer /\ ~sess[s].code /\ UNCHANGED spent
           \/ /\ at[r] = "confirm" /\ ~sess[s].buffer /\ sess[s].code
              /\ \E taken \in BOOLEAN : spent' = [spent EXCEPT ![s] = @ \/ taken]
           \/ at[r] = "fetch" /\ UNCHANGED spent
        /\ Reply(r, "error")
        /\ Unlock(r)
        /\ UNCHANGED <<qrSessions, old, files, leftover, sess, fetched, wechat, stored>>

(* currentIdentity and storeFromScan.                                          *)
StoreFromScan(r) ==
    /\ Move(r, "store", "drop")
    /\ stored' = stored \cup {sidOf[r]}
    /\ ans' = [ans EXCEPT ![r] = "stored"]
    /\ UNCHANGED <<qrSessions, old, files, leftover, session, wechat, sidOf, list>>

StoreFails(r) ==
    /\ at[r] = "store"
    /\ Reply(r, "error")
    /\ UNCHANGED <<qrSessions, old, files, leftover, session, wechat, stored>>

(* dropQRSession: the entry under App.mu, then the image.                      *)
DropQRSession(r) ==
    /\ Move(r, "drop", "dropFile")
    /\ qrSessions' = qrSessions \ {sidOf[r]}
    /\ UNCHANGED <<old, files, leftover, session, wechat, stored, sidOf, list, ans>>

FaultyDropImage(r) ==
    /\ Move(r, "dropFile", "done")
    /\ files' = files \ (IF ans[r] = "stored" THEN {sidOf[r]} ELSE {})
    /\ leftover' = leftover \cap files'
    /\ UNCHANGED <<qrSessions, old, session, wechat, stored, sidOf, list, ans>>

DropImage(r) ==
    /\ Move(r, "dropFile", "done")
    /\ files' = files \ {sidOf[r]}
    /\ leftover' = leftover \ {sidOf[r]}
    /\ UNCHANGED <<qrSessions, old, session, wechat, stored, sidOf, list, ans>>

--------------------------------------------------------------------------------
(* The phone: scan, allow, cancel; a code lapses at any time.                  *)
Phone(s, from, to) ==
    /\ wechat[s] = from
    /\ wechat' = [wechat EXCEPT ![s] = to]
    /\ UNCHANGED <<qrSessions, old, files, leftover, session, stored, request>>

PhoneStep(s) ==
    \/ Phone(s, "pending", "scanned")
    \/ Phone(s, "scanned", "authorized")
    \/ Phone(s, "scanned", "cancelled")
    \/ \E from \in {"pending", "scanned", "authorized"} : Phone(s, from, "expired")

(* A client has the id of a session from the answer that created it.           *)
Known(s) ==
    /\ wechat[s] # "unused"
    /\ \A r \in Requests : at[r] \in Creating => sidOf[r] # s

(* Five minutes pass; creating a session takes less than one.                  *)
Age(s) ==
    /\ s \in qrSessions \ old /\ Known(s)
    /\ old' = old \cup {s}
    /\ UNCHANGED <<qrSessions, files, leftover, session, wechat, stored, request>>

QrRestart ==
    /\ qrSessions' = {}
    /\ leftover' = files
    /\ holder' = [s \in Sids |-> Null]
    /\ at' = [r \in Requests |-> "home"]
    /\ sidOf' = [r \in Requests |-> Null]
    /\ list' = [r \in Requests |-> {}]
    /\ ans' = [r \in Requests |-> Null]
    /\ UNCHANGED <<old, files, sess, spent, fetched, wechat, stored>>

ServerStep(r) ==
    \/ PruneImages(r) \/ GetQRCodeImage(r) \/ GetQRCodeImageFails(r)
    \/ RegisterSession(r) \/ WriteImage(r) \/ CleanupQR(r)
    \/ Lock(r) \/ PollKnown(r) \/ PollQRCode(r) \/ PollFails(r)
    \/ ConfirmKnown(r) \/ Callback(r) \/ FetchLoginBuffer(r) \/ ConfirmFails(r)
    \/ StoreFromScan(r) \/ StoreFails(r) \/ DropQRSession(r) \/ DropImage(r)

QrArrive(r) ==
    \/ PruneQR(r)
    \/ \E s \in Sids, lock \in {"lockPoll", "lockConfirm"} : Known(s) /\ GetQRSession(r, s, lock)

Environment == QrRestart \/ \E s \in Sids : PhoneStep(s) \/ Age(s)

QrNext ==
    \/ \E r \in Requests : QrArrive(r) \/ ServerStep(r) \/ Receive(r)
    \/ Environment

QrSpec == QrInit /\ [][QrNext]_qrVars

(* Requests run, every call to WeChat ends by its timeout, and sync.Mutex      *)
(* hands itself to a waiter that has waited long enough.                       *)
QrFairSpec ==
    /\ QrSpec
    /\ \A r \in Requests : WF_qrVars(ServerStep(r)) /\ SF_qrVars(Lock(r))

--------------------------------------------------------------------------------
(* A session is issued at most one login buffer, however many confirms of it   *)
(* overlap or are retried after a failure (qr.go:203-207, 231-236).            *)
FetchedOnce == \A s \in Sids : fetched[s] <= 1

(* An image in the directory belongs to a session, is from an earlier run, or  *)
(* is about to be removed (app.go:868-905).                                    *)
ImagesHaveSessions ==
    \A s \in files :
        \/ s \in qrSessions \cup leftover
        \/ \E r \in Requests :
            \/ at[r] = "dropFile" /\ sidOf[r] = s
            \/ at[r] = "prune" /\ s \in list[r]

(* Every request about a QR session is answered, although polls hold the       *)
(* session's mutex while they wait for WeChat (qr.go:147-167).                 *)
EveryQrRequestReturns == \A r \in Requests : at[r] # "home" ~> at[r] \in {"home", "done"}

(* openapi.go:59-66: the image of a session that POST /qr has answered can be  *)
(* fetched as long as the session is there.                                    *)
ImageServed ==
    \A s \in qrSessions : Known(s) => s \in files
================================================================================
