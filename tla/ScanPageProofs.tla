----------------------------- MODULE ScanPageProofs -----------------------------
(* The safety properties of QrSessions and of ScanPage over it, for every      *)
(* value of their constants, and that the page is a client as QrSessions       *)
(* expects one.                                                                *)
EXTENDS ScanPage, TLAPS

(* A request past its first lookup has a session.                              *)
RequestsHaveSessions ==
    \A r \in Requests : at[r] \notin {"home", "prune", "create", "done"} => sidOf[r] \in Sids

(* A login buffer that was fetched is kept in the session, and the request     *)
(* that is about to fetch one has seen, under the mutex, that there is none.   *)
BuffersCounted ==
    /\ \A s \in Sids : ~sess[s].buffer => fetched[s] = 0
    /\ \A r \in Requests : at[r] = "fetch" => ~sess[sidOf[r]].buffer

(* Nobody knows a code before it is issued, and only its creator before it is  *)
(* answered: until then the session can neither age nor be dropped.            *)
UnissuedUnknown ==
    \A s \in Sids : wechat[s] = "unused" => s \notin old /\ \A q \in Requests : sidOf[q] # s

CreatorsAlone ==
    \A r \in Requests : at[r] \in {"register", "image", "cleanup"} =>
        /\ sidOf[r] \notin old
        /\ wechat[sidOf[r]] # "unused"
        /\ \A q \in Requests \ {r} : sidOf[q] # sidOf[r]
        /\ at[r] # "register" => sidOf[r] \in qrSessions

QrInv ==
    /\ QrTypeOK
    /\ RequestsHaveSessions
    /\ FetchedOnce
    /\ BuffersCounted
    /\ UnissuedUnknown
    /\ CreatorsAlone
    /\ ImagesHaveSessions

--------------------------------------------------------------------------------
(* The program starts with the invariant.                                      *)
LEMMA InitQrInv == QrInit => QrInv
<1> SUFFICES ASSUME QrInit PROVE QrInv
  OBVIOUS
<1> USE NullAssumption DEF QrInit
<1>1. QrTypeOK
  BY DEF QrTypeOK, Places, Creating, Locked, Answers, Statuses, Terminal
<1>2. RequestsHaveSessions /\ FetchedOnce /\ BuffersCounted
  BY DEF RequestsHaveSessions, FetchedOnce, BuffersCounted
<1>3. UnissuedUnknown /\ CreatorsAlone /\ ImagesHaveSessions
  BY DEF UnissuedUnknown, CreatorsAlone, ImagesHaveSessions
<1> QED
  BY <1>1, <1>2, <1>3 DEF QrInv

(* The mutex of a session is held by the request that works on it, and a       *)
(* session's record stays one.                                                 *)
MutexesHeld ==
    \A s \in Sids, r \in Requests : holder[s] = r <=> (at[r] \in Locked /\ sidOf[r] = s)

(* A request that leaves the locked part and unlocks holds no mutex.           *)
LEMMA Unlocking ==
    ASSUME QrTypeOK, RequestsHaveSessions, NEW r \in Requests, at[r] \in Locked, Unlock(r),
           NEW place \in Places \ Locked, at' = [at EXCEPT ![r] = place], sidOf' = sidOf
    PROVE  MutexesHeld' /\ holder' \in [Sids -> Requests \cup {Null}] /\ at' \in [Requests -> Places]
<1>1. sidOf[r] \in Sids
  BY DEF RequestsHaveSessions, Locked
<1> QED
  BY <1>1, NullAssumption DEF QrTypeOK, MutexesHeld, Unlock

(* A field of a session record is written.                                     *)
LEMMA SessionRecords ==
    ASSUME sess \in [Sids -> [code : BOOLEAN, jar : BOOLEAN, buffer : BOOLEAN]],
           NEW s \in Sids, NEW b \in BOOLEAN
    PROVE  \A new \in {[sess EXCEPT ![s].code = b], [sess EXCEPT ![s].jar = b],
                       [sess EXCEPT ![s].buffer = b]} :
             new \in [Sids -> [code : BOOLEAN, jar : BOOLEAN, buffer : BOOLEAN]]
OBVIOUS

(* Typing, with the mutex of a session held by the request that works on it.   *)
LEMMA QrTypeStep ==
    ASSUME QrTypeOK, RequestsHaveSessions, UnissuedUnknown, [QrNext]_qrVars
    PROVE  QrTypeOK' /\ RequestsHaveSessions'
<1> USE NullAssumption
<1> USE DEF QrTypeOK, RequestsHaveSessions, Places, Creating, Locked, Answers, Statuses, Terminal
<1>0. CASE UNCHANGED qrVars
  BY <1>0 DEF qrVars, session, request
<1>1. ASSUME NEW r \in Requests, PruneQR(r) PROVE QrTypeOK' /\ RequestsHaveSessions'
  BY <1>1 DEF PruneQR, Move, session
<1>2. ASSUME NEW r \in Requests, PruneImages(r) PROVE QrTypeOK' /\ RequestsHaveSessions'
  BY <1>2 DEF PruneImages, Move, session
<1>3. ASSUME NEW r \in Requests, GetQRCodeImage(r) PROVE QrTypeOK' /\ RequestsHaveSessions'
  BY <1>3 DEF GetQRCodeImage, Move, session
<1>4. ASSUME NEW r \in Requests, GetQRCodeImageFails(r) PROVE QrTypeOK' /\ RequestsHaveSessions'
  BY <1>4 DEF GetQRCodeImageFails, Reply, session
<1>5. ASSUME NEW r \in Requests, RegisterSession(r) PROVE QrTypeOK' /\ RequestsHaveSessions'
  BY <1>5 DEF RegisterSession, Move, session
<1>6. ASSUME NEW r \in Requests, WriteImage(r) PROVE QrTypeOK' /\ RequestsHaveSessions'
  BY <1>6 DEF WriteImage, Move, session
<1>7. ASSUME NEW r \in Requests, CleanupQR(r) PROVE QrTypeOK' /\ RequestsHaveSessions'
  BY <1>7 DEF CleanupQR, Reply, session
<1>8. ASSUME NEW r \in Requests, NEW s \in Sids, NEW lock \in {"lockPoll", "lockConfirm"},
             GetQRSession(r, s, lock)
      PROVE  QrTypeOK' /\ RequestsHaveSessions'
  <2>1. PICK place \in {lock, "done"} : at' = [at EXCEPT ![r] = place]
    BY <1>8 DEF GetQRSession, Move
  <2>2. sidOf' = [sidOf EXCEPT ![r] = s] /\ at[r] = "home"
    BY <1>8 DEF GetQRSession
  <2>3. ans' \in [Requests -> Answers]
    BY <1>8 DEF GetQRSession
  <2>4. UNCHANGED <<qrSessions, old, files, leftover, session, wechat, stored, list>>
    BY <1>8 DEF GetQRSession
  <2>5. holder' = holder /\ at[r] \notin Locked /\ place \in Places /\ place \notin Locked
    BY <2>1, <2>2, <2>4 DEF session
  <2>6. \A t \in Sids, q \in Requests : holder'[t] = q <=> (at'[q] \in Locked /\ sidOf'[q] = t)
    BY <2>1, <2>2, <2>5
  <2>7. at' \in [Requests -> Places] /\ sidOf' \in [Requests -> Sids \cup {Null}]
    BY <2>1, <2>2, <2>5
  <2>8. QrTypeOK'
    BY <2>3, <2>4, <2>6, <2>7 DEF session
  <2>9. RequestsHaveSessions'
    BY <2>1, <2>2
  <2> QED
    BY <2>8, <2>9
<1>9. ASSUME NEW r \in Requests, Lock(r) PROVE QrTypeOK' /\ RequestsHaveSessions'
  <2>1. sidOf[r] \in Sids /\ holder[sidOf[r]] = Null
    BY <1>9 DEF Lock, Move
  <2>2. PICK place \in Locked : at' = [at EXCEPT ![r] = place]
    BY <1>9 DEF Lock, Move
  <2>3. at[r] \notin Locked
    BY <1>9 DEF Lock, Move
  <2>4. holder' = [holder EXCEPT ![sidOf[r]] = r] /\ sidOf' = sidOf
    BY <1>9 DEF Lock
  <2>5. \A s \in Sids, q \in Requests : holder'[s] = q <=> (at'[q] \in Locked /\ sidOf'[q] = s)
    BY <2>1, <2>2, <2>3, <2>4
  <2> QED
    BY <1>9, <2>1, <2>2, <2>4, <2>5 DEF Lock
<1>10. ASSUME NEW r \in Requests, PollKnown(r) PROVE QrTypeOK' /\ RequestsHaveSessions'
  <2>1. MutexesHeld' /\ holder' \in [Sids -> Requests \cup {Null}]
    BY <1>10, Unlocking DEF PollKnown, Reply
  <2>2. PICK status \in {"confirmed", "authorized"} : Reply(r, status)
    BY <1>10 DEF PollKnown
  <2> QED
    BY <1>10, <2>1, <2>2 DEF PollKnown, Reply, MutexesHeld
<1>11. ASSUME NEW r \in Requests, PollQRCode(r) PROVE QrTypeOK' /\ RequestsHaveSessions'
  <2>1. PICK status \in {wechat[sidOf[r]], "unknown"} :
          /\ sess' = [sess EXCEPT ![sidOf[r]].code = status = "authorized"]
          /\ IF status \in Terminal
             THEN /\ Move(r, "poll", "drop")
                  /\ ans' = [ans EXCEPT ![r] = status]
                  /\ UNCHANGED <<sidOf, list>>
             ELSE Reply(r, status)
    BY <1>11 DEF PollQRCode
  <2>2. at[r] = "poll" /\ sidOf[r] \in Sids /\ sidOf' = sidOf
    BY <1>11, <2>1 DEF PollQRCode, Reply
  <2>3. PICK place \in {"drop", "done"} : at' = [at EXCEPT ![r] = place]
    BY <2>1 DEF Move, Reply
  <2>4. MutexesHeld' /\ holder' \in [Sids -> Requests \cup {Null}]
    BY <1>11, <2>2, <2>3, Unlocking DEF PollQRCode
  <2>5. sess' \in [Sids -> [code : BOOLEAN, jar : BOOLEAN, buffer : BOOLEAN]]
    <3> DEFINE now == status = "authorized"
    <3>1. now \in BOOLEAN /\ sess' = [sess EXCEPT ![sidOf[r]].code = now]
      BY <2>1
    <3> HIDE DEF now
    <3> QED
      BY <2>2, <3>1, SessionRecords
  <2>6. status \in Answers
    <3>1. wechat[sidOf[r]] \in Statuses \/ wechat[sidOf[r]] = "unused"
      BY <2>2
    <3>2. wechat[sidOf[r]] # "unused"
      BY <2>2 DEF UnissuedUnknown
    <3> QED
      BY <2>1, <3>1, <3>2
  <2>7. ans' = [ans EXCEPT ![r] = status] /\ list' \in {list, [list EXCEPT ![r] = {}]}
    BY <2>1 DEF Reply
  <2>8. ans' \in [Requests -> Answers] /\ list' \in [Requests -> SUBSET Sids]
    BY <2>6, <2>7
  <2>9. UNCHANGED <<qrSessions, old, files, leftover, spent, fetched, wechat, stored>>
    BY <1>11 DEF PollQRCode
  <2>10. at' \in [Requests -> Places]
    BY <2>3
  <2>11. RequestsHaveSessions'
    BY <2>2, <2>3
  <2>12. QrTypeOK'
    BY <2>2, <2>4, <2>5, <2>8, <2>9, <2>10 DEF MutexesHeld
  <2> QED
    BY <2>11, <2>12
<1>12. ASSUME NEW r \in Requests, PollFails(r) PROVE QrTypeOK' /\ RequestsHaveSessions'
  BY <1>12 DEF PollFails, Reply, Unlock
<1>13. ASSUME NEW r \in Requests, ConfirmKnown(r) PROVE QrTypeOK' /\ RequestsHaveSessions'
  BY <1>13 DEF ConfirmKnown, Move, Unlock
<1>14. ASSUME NEW r \in Requests, Callback(r) PROVE QrTypeOK' /\ RequestsHaveSessions'
  <2>1. sidOf[r] \in Sids
    BY <1>14 DEF Callback, Move
  <2>2. sess' \in [Sids -> [code : BOOLEAN, jar : BOOLEAN, buffer : BOOLEAN]]
    <3>1. PICK b \in BOOLEAN : sess' = [sess EXCEPT ![sidOf[r]].jar = b]
      BY <1>14 DEF Callback
    <3> QED
      BY <2>1, <3>1, SessionRecords
  <2> QED
    BY <1>14, <2>1, <2>2 DEF Callback, Move
<1>15. ASSUME NEW r \in Requests, FetchLoginBuffer(r) PROVE QrTypeOK' /\ RequestsHaveSessions'
  <2>1. sidOf[r] \in Sids
    BY <1>15 DEF FetchLoginBuffer, Move
  <2>2. MutexesHeld' /\ holder' \in [Sids -> Requests \cup {Null}]
    BY <1>15, Unlocking DEF FetchLoginBuffer, Move
  <2>3. sess' \in [Sids -> [code : BOOLEAN, jar : BOOLEAN, buffer : BOOLEAN]]
    BY <1>15, <2>1, SessionRecords DEF FetchLoginBuffer
  <2> QED
    BY <1>15, <2>1, <2>2, <2>3 DEF FetchLoginBuffer, Move, MutexesHeld
<1>16. ASSUME NEW r \in Requests, ConfirmFails(r) PROVE QrTypeOK' /\ RequestsHaveSessions'
  <2>1. MutexesHeld' /\ holder' \in [Sids -> Requests \cup {Null}]
    BY <1>16, Unlocking DEF ConfirmFails, Reply
  <2>2. spent' \in [Sids -> BOOLEAN]
    BY <1>16 DEF ConfirmFails
  <2> QED
    BY <1>16, <2>1, <2>2 DEF ConfirmFails, Reply, MutexesHeld
<1>17. ASSUME NEW r \in Requests, StoreFromScan(r) PROVE QrTypeOK' /\ RequestsHaveSessions'
  BY <1>17 DEF StoreFromScan, Move, session
<1>18. ASSUME NEW r \in Requests, StoreFails(r) PROVE QrTypeOK' /\ RequestsHaveSessions'
  BY <1>18 DEF StoreFails, Reply, session
<1>19. ASSUME NEW r \in Requests, DropQRSession(r) PROVE QrTypeOK' /\ RequestsHaveSessions'
  BY <1>19 DEF DropQRSession, Move, session
<1>20. ASSUME NEW r \in Requests, DropImage(r) PROVE QrTypeOK' /\ RequestsHaveSessions'
  BY <1>20 DEF DropImage, Move, session
<1>21. ASSUME NEW r \in Requests, Receive(r) PROVE QrTypeOK' /\ RequestsHaveSessions'
  BY <1>21 DEF Receive, Move, session
<1>22. ASSUME NEW s \in Sids, PhoneStep(s) PROVE QrTypeOK' /\ RequestsHaveSessions'
  <2>1. PICK to \in {"scanned", "authorized", "cancelled", "expired"} :
          wechat' = [wechat EXCEPT ![s] = to]
    BY <1>22 DEF PhoneStep, Phone
  <2>2. UNCHANGED <<qrSessions, old, files, leftover, session, stored, request>>
    BY <1>22 DEF PhoneStep, Phone
  <2> QED
    BY <2>1, <2>2 DEF session, request
<1>23. ASSUME NEW s \in Sids, Age(s) PROVE QrTypeOK' /\ RequestsHaveSessions'
  BY <1>23 DEF Age, session, request
<1>24. CASE QrRestart
  BY <1>24 DEF QrRestart
<1> QED
  BY <1>0, <1>1, <1>2, <1>3, <1>4, <1>5, <1>6, <1>7, <1>8, <1>9, <1>10, <1>11, <1>12, <1>13,
     <1>14, <1>15, <1>16, <1>17, <1>18, <1>19, <1>20, <1>21, <1>22, <1>23, <1>24, SMTT(30)
     DEF QrNext, QrArrive, ServerStep, Environment

(* A second login buffer would need a second request in the locked part of the *)
(* same session, or a session that forgets its login buffer.                   *)
Buffers == FetchedOnce /\ BuffersCounted

(* Buffers keep their count: case by case, who may touch a buffer.             *)
LEMMA BufferStep ==
    ASSUME QrTypeOK, RequestsHaveSessions, Buffers, [QrNext]_qrVars
    PROVE  Buffers'
<1> USE NullAssumption
<1> USE DEF Buffers, FetchedOnce, BuffersCounted, QrTypeOK
<1>1. ASSUME fetched' = fetched,
             \A s \in Sids : sess'[s].buffer = sess[s].buffer,
             \A q \in Requests : at'[q] = "fetch" => at[q] = "fetch" /\ sidOf'[q] = sidOf[q]
      PROVE  Buffers'
  BY <1>1 DEF RequestsHaveSessions
<1>2. CASE UNCHANGED qrVars
  BY <1>2 DEF qrVars, session, request
<1>3. ASSUME NEW r \in Requests, Callback(r) PROVE Buffers'
  <2>1. at[r] = "confirm" /\ sidOf[r] \in Sids /\ ~sess[sidOf[r]].buffer
    BY <1>3 DEF Callback, Move, RequestsHaveSessions
  <2>2. \A s \in Sids : sess'[s].buffer = sess[s].buffer
    BY <1>3, <2>1 DEF Callback
  <2> QED
    BY <1>3, <2>1, <2>2 DEF Callback, Move, RequestsHaveSessions
<1>4. ASSUME NEW r \in Requests, FetchLoginBuffer(r) PROVE Buffers'
  <2>1. at[r] = "fetch" /\ sidOf[r] \in Sids /\ ~sess[sidOf[r]].buffer
    BY <1>4 DEF FetchLoginBuffer, Move, RequestsHaveSessions
  <2>2. \A q \in Requests \ {r} : at[q] = "fetch" => sidOf[q] # sidOf[r]
    BY <2>1 DEF Locked
  <2>3. /\ sess' = [sess EXCEPT ![sidOf[r]].buffer = TRUE]
        /\ fetched' = [fetched EXCEPT ![sidOf[r]] = @ + 1]
        /\ at' = [at EXCEPT ![r] = "store"]
        /\ sidOf' = sidOf
    BY <1>4 DEF FetchLoginBuffer, Move
  <2>4. \A s \in Sids : s # sidOf[r] => sess'[s] = sess[s] /\ fetched'[s] = fetched[s]
    BY <2>1, <2>3
  <2>5. sess'[sidOf[r]].buffer /\ fetched'[sidOf[r]] = 1
    BY <2>1, <2>3
  <2> QED
    BY <2>1, <2>2, <2>3, <2>4, <2>5 DEF RequestsHaveSessions
<1>5. ASSUME NEW r \in Requests, PollQRCode(r) PROVE Buffers'
  <2>1. at[r] = "poll" /\ sidOf[r] \in Sids
    BY <1>5 DEF PollQRCode, RequestsHaveSessions
  <2>2. \A s \in Sids : sess'[s].buffer = sess[s].buffer
    <3>1. PICK b : sess' = [sess EXCEPT ![sidOf[r]].code = b]
      BY <1>5 DEF PollQRCode
    <3> QED
      BY <2>1, <3>1
  <2> QED
    BY <1>1, <1>5, <2>1, <2>2 DEF PollQRCode, Move, Reply
<1>6. ASSUME NEW r \in Requests, PruneQR(r) \/ GetQRCodeImageFails(r) \/ RegisterSession(r)
      PROVE  Buffers'
  BY <1>1, <1>6 DEF PruneQR, GetQRCodeImageFails, RegisterSession, Move, Reply, session
<1>7. ASSUME NEW r \in Requests, PruneImages(r) \/ WriteImage(r) \/ CleanupQR(r)
      PROVE  Buffers'
  BY <1>1, <1>7 DEF PruneImages, WriteImage, CleanupQR, Move, Reply, session
<1>8. ASSUME NEW r \in Requests, GetQRCodeImage(r) PROVE Buffers'
  BY <1>1, <1>8 DEF GetQRCodeImage, Move, session
<1>9. ASSUME NEW r \in Requests, NEW s \in Sids, NEW lock \in {"lockPoll", "lockConfirm"},
             GetQRSession(r, s, lock)
      PROVE  Buffers'
  BY <1>1, <1>9 DEF GetQRSession, Move, session
<1>10. ASSUME NEW r \in Requests, Lock(r) \/ PollKnown(r) \/ PollFails(r) \/ ConfirmKnown(r)
       PROVE  Buffers'
  BY <1>1, <1>10 DEF Lock, PollKnown, PollFails, ConfirmKnown, Move, Reply
<1>11. ASSUME NEW r \in Requests, ConfirmFails(r) PROVE Buffers'
  BY <1>1, <1>11 DEF ConfirmFails, Reply
<1>12. ASSUME NEW r \in Requests, StoreFromScan(r) \/ StoreFails(r) PROVE Buffers'
  BY <1>1, <1>12 DEF StoreFromScan, StoreFails, Move, Reply, session
<1>13. ASSUME NEW r \in Requests, DropQRSession(r) \/ DropImage(r) \/ Receive(r) PROVE Buffers'
  BY <1>1, <1>13 DEF DropQRSession, DropImage, Receive, Move, session
<1>14. ASSUME NEW s \in Sids, PhoneStep(s) \/ Age(s) PROVE Buffers'
  BY <1>1, <1>14 DEF PhoneStep, Phone, Age, session, request
<1>15. CASE QrRestart
  BY <1>1, <1>15 DEF QrRestart
<1> QED
  BY <1>2, <1>3, <1>4, <1>5, <1>6, <1>7, <1>8, <1>9, <1>10, <1>11, <1>12, <1>13, <1>14, <1>15
     DEF QrNext, QrArrive, ServerStep, Environment

(* Until POST /qr is answered, nobody but its handler touches the session: the *)
(* rest only takes up sessions that are answered, and forgets sessions it has. *)
Creators == UnissuedUnknown /\ CreatorsAlone

LeavesCreators ==
    /\ \A s \in Sids : wechat'[s] = "unused" <=> wechat[s] = "unused"
    /\ \A q \in Requests : \/ sidOf'[q] = sidOf[q]
                           \/ sidOf'[q] = Null
                           \/ sidOf'[q] \in Sids /\ Known(sidOf'[q])
    /\ \A q \in Requests : at'[q] \in {"register", "image", "cleanup"} =>
                             at'[q] = at[q] /\ sidOf'[q] = sidOf[q]
    /\ \A s \in old' \ old : s \in Sids /\ Known(s)
    /\ \A s \in qrSessions \ qrSessions' : s \in old \/ \E q \in Requests : at[q] = "drop" /\ sidOf[q] = s

(* A step in which nobody begins or ends a creation.                           *)
LEMMA CreatorsLeft ==
    ASSUME QrTypeOK, RequestsHaveSessions, Creators, LeavesCreators
    PROVE  Creators'
<1> USE NullAssumption DEF Creators, LeavesCreators
<1>1. UnissuedUnknown'
  BY DEF UnissuedUnknown, Known
<1>2. ASSUME NEW r \in Requests, at'[r] \in {"register", "image", "cleanup"}
      PROVE  /\ sidOf'[r] \notin old'
             /\ wechat'[sidOf'[r]] # "unused"
             /\ \A q \in Requests \ {r} : sidOf'[q] # sidOf'[r]
             /\ at'[r] # "register" => sidOf'[r] \in qrSessions'
  <2>1. at[r] = at'[r] /\ sidOf'[r] = sidOf[r] /\ sidOf[r] \in Sids
    BY <1>2 DEF RequestsHaveSessions
  <2>2. ~Known(sidOf[r])
    BY <1>2, <2>1 DEF Known, Creating
  <2>3. \A q \in Requests \ {r} : sidOf'[q] # sidOf[r]
    BY <1>2, <2>1, <2>2 DEF CreatorsAlone
  <2>4. sidOf[r] \notin old'
    BY <1>2, <2>1, <2>2 DEF CreatorsAlone
  <2>5. at[r] # "register" => sidOf[r] \in qrSessions'
    BY <1>2, <2>1 DEF CreatorsAlone
  <2> QED
    BY <1>2, <2>1, <2>3, <2>4, <2>5 DEF CreatorsAlone
<1> QED
  BY <1>1, <1>2 DEF CreatorsAlone

(* All steps: the creator of a session is alone until its code is issued.      *)
LEMMA CreatorStep ==
    ASSUME QrTypeOK, RequestsHaveSessions, Creators, [QrNext]_qrVars
    PROVE  Creators'
<1> USE NullAssumption
<1> USE DEF QrTypeOK
<1>1. CASE UNCHANGED qrVars
  BY <1>1, CreatorsLeft DEF LeavesCreators, qrVars, request
<1>2. ASSUME NEW r \in Requests, GetQRCodeImage(r) PROVE Creators'
  <2>1. PICK s \in Sids : /\ wechat[s] = "unused"
                          /\ wechat' = [wechat EXCEPT ![s] = "pending"]
                          /\ sidOf' = [sidOf EXCEPT ![r] = s]
    BY <1>2 DEF GetQRCodeImage
  <2>2. at' = [at EXCEPT ![r] = "register"] /\ qrSessions' = qrSessions /\ old' = old
    BY <1>2 DEF GetQRCodeImage, Move
  <2>3. s \notin old /\ \A q \in Requests : sidOf[q] # s
    BY <2>1 DEF Creators, UnissuedUnknown
  <2>4. UnissuedUnknown'
    BY <2>1, <2>2 DEF Creators, UnissuedUnknown
  <2>5. CreatorsAlone'
    BY <2>1, <2>2, <2>3 DEF Creators, CreatorsAlone, RequestsHaveSessions
  <2> QED
    BY <2>4, <2>5 DEF Creators
<1>3. ASSUME NEW r \in Requests, RegisterSession(r) PROVE Creators'
  BY <1>3 DEF RegisterSession, Move, Creators, UnissuedUnknown, CreatorsAlone
<1>4. ASSUME NEW r \in Requests, WriteImage(r) PROVE Creators'
  BY <1>4 DEF WriteImage, Move, Creators, UnissuedUnknown, CreatorsAlone
<1> USE DEF LeavesCreators
<1>5. ASSUME NEW r \in Requests, NEW s \in Sids, NEW lock \in {"lockPoll", "lockConfirm"},
             Known(s), GetQRSession(r, s, lock)
      PROVE  Creators'
  BY <1>5, CreatorsLeft DEF GetQRSession, Move
<1>6. ASSUME NEW r \in Requests, PruneQR(r) \/ PruneImages(r) \/ GetQRCodeImageFails(r) \/ CleanupQR(r)
      PROVE  Creators'
  BY <1>6, CreatorsLeft DEF PruneQR, PruneImages, GetQRCodeImageFails, CleanupQR, Move, Reply
<1>7. ASSUME NEW r \in Requests, Lock(r) \/ PollKnown(r) \/ PollFails(r)
      PROVE  Creators'
  BY <1>7, CreatorsLeft DEF Lock, PollKnown, PollFails, Move, Reply
<1>8. ASSUME NEW r \in Requests, PollQRCode(r) PROVE Creators'
  <2>1. /\ UNCHANGED <<qrSessions, old, wechat, sidOf>>
        /\ \E place \in {"drop", "done"} : at' = [at EXCEPT ![r] = place]
    BY <1>8 DEF PollQRCode, Move, Reply
  <2> QED
    BY <2>1, CreatorsLeft
<1>9. ASSUME NEW r \in Requests, ConfirmKnown(r) \/ Callback(r) \/ FetchLoginBuffer(r) \/ ConfirmFails(r)
      PROVE  Creators'
  BY <1>9, CreatorsLeft DEF ConfirmKnown, Callback, FetchLoginBuffer, ConfirmFails, Move, Reply
<1>10. ASSUME NEW r \in Requests, StoreFromScan(r) \/ StoreFails(r) \/ DropImage(r)
       PROVE  Creators'
  BY <1>10, CreatorsLeft DEF StoreFromScan, StoreFails, DropImage, Move, Reply
<1>11. ASSUME NEW r \in Requests, DropQRSession(r) \/ Receive(r) PROVE Creators'
  BY <1>11, CreatorsLeft DEF DropQRSession, Receive, Move
<1>12. ASSUME NEW s \in Sids, PhoneStep(s) PROVE Creators'
  <2>1. PICK to \in {"scanned", "authorized", "cancelled", "expired"} :
          wechat[s] # "unused" /\ wechat' = [wechat EXCEPT ![s] = to]
    BY <1>12 DEF PhoneStep, Phone
  <2>2. UNCHANGED <<qrSessions, old, at, sidOf>>
    BY <1>12 DEF PhoneStep, Phone, request
  <2> QED
    BY <2>1, <2>2, CreatorsLeft
<1>13. ASSUME NEW s \in Sids, Age(s) PROVE Creators'
  BY <1>13, CreatorsLeft DEF Age, request
<1>14. CASE QrRestart
  BY <1>14 DEF QrRestart, Creators, UnissuedUnknown, CreatorsAlone
<1> QED
  BY <1>1, <1>2, <1>3, <1>4, <1>5, <1>6, <1>7, <1>8, <1>9, <1>10, <1>11, <1>12, <1>13, <1>14
     DEF QrNext, QrArrive, ServerStep, Environment

(* An image that stays keeps what accounts for it.                             *)
KeepsReasons ==
    /\ files' \subseteq files /\ qrSessions \subseteq qrSessions' /\ leftover' = leftover
    /\ \A q \in Requests : at[q] \in {"dropFile", "prune"} =>
         at'[q] = at[q] /\ sidOf'[q] = sidOf[q] /\ list'[q] = list[q]

(* A step that adds no image and takes no session away.                        *)
LEMMA ReasonsKept ==
    ASSUME ImagesHaveSessions, KeepsReasons
    PROVE  ImagesHaveSessions'
BY DEF ImagesHaveSessions, KeepsReasons

(* All steps: an image goes before the session that owns it, or with it.       *)
LEMMA ImageStep ==
    ASSUME QrTypeOK, RequestsHaveSessions, CreatorsAlone, ImagesHaveSessions, [QrNext]_qrVars
    PROVE  ImagesHaveSessions'
<1> USE NullAssumption
<1> USE DEF QrTypeOK, KeepsReasons
<1>1. CASE UNCHANGED qrVars
  BY <1>1, ReasonsKept DEF qrVars, request
<1>2. ASSUME NEW r \in Requests, PruneQR(r) PROVE ImagesHaveSessions'
  BY <1>2 DEF PruneQR, Move, ImagesHaveSessions
<1>3. ASSUME NEW r \in Requests, PruneImages(r) PROVE ImagesHaveSessions'
  BY <1>3 DEF PruneImages, Move, ImagesHaveSessions
<1>4. ASSUME NEW r \in Requests, WriteImage(r) PROVE ImagesHaveSessions'
  BY <1>4 DEF WriteImage, Move, ImagesHaveSessions, CreatorsAlone
<1>5. ASSUME NEW r \in Requests, CleanupQR(r) PROVE ImagesHaveSessions'
  BY <1>5 DEF CleanupQR, Reply, ImagesHaveSessions
<1>6. ASSUME NEW r \in Requests, DropQRSession(r) PROVE ImagesHaveSessions'
  BY <1>6 DEF DropQRSession, Move, ImagesHaveSessions
<1>7. ASSUME NEW r \in Requests, DropImage(r) PROVE ImagesHaveSessions'
  BY <1>7 DEF DropImage, Move, ImagesHaveSessions
<1>8. CASE QrRestart
  BY <1>8 DEF QrRestart, ImagesHaveSessions
<1>9. ASSUME NEW r \in Requests, GetQRCodeImage(r) \/ GetQRCodeImageFails(r) \/ RegisterSession(r)
      PROVE  ImagesHaveSessions'
  BY <1>9, ReasonsKept DEF GetQRCodeImage, GetQRCodeImageFails, RegisterSession, Move, Reply
<1>10. ASSUME NEW r \in Requests, NEW s \in Sids, NEW lock \in {"lockPoll", "lockConfirm"},
              GetQRSession(r, s, lock)
       PROVE  ImagesHaveSessions'
  BY <1>10, ReasonsKept DEF GetQRSession, Move
<1>11. ASSUME NEW r \in Requests, Lock(r) \/ PollKnown(r) \/ PollFails(r)
       PROVE  ImagesHaveSessions'
  BY <1>11, ReasonsKept DEF Lock, PollKnown, PollFails, Move, Reply
<1>12. ASSUME NEW r \in Requests, PollQRCode(r) PROVE ImagesHaveSessions'
  <2>1. /\ UNCHANGED <<qrSessions, files, leftover, sidOf>> /\ at[r] = "poll"
        /\ \E place \in {"drop", "done"} : at' = [at EXCEPT ![r] = place]
        /\ list' \in {list, [list EXCEPT ![r] = {}]}
    BY <1>12 DEF PollQRCode, Move, Reply
  <2> QED
    BY <2>1, ReasonsKept
<1>13. ASSUME NEW r \in Requests, ConfirmKnown(r) \/ Callback(r) \/ FetchLoginBuffer(r) \/ ConfirmFails(r)
       PROVE  ImagesHaveSessions'
  BY <1>13, ReasonsKept DEF ConfirmKnown, Callback, FetchLoginBuffer, ConfirmFails, Move, Reply
<1>14. ASSUME NEW r \in Requests, StoreFromScan(r) \/ StoreFails(r) \/ Receive(r)
       PROVE  ImagesHaveSessions'
  BY <1>14, ReasonsKept DEF StoreFromScan, StoreFails, Receive, Move, Reply
<1>15. ASSUME NEW s \in Sids, PhoneStep(s) \/ Age(s) PROVE ImagesHaveSessions'
  BY <1>15, ReasonsKept DEF PhoneStep, Phone, Age, request
<1> QED
  BY <1>1, <1>2, <1>3, <1>4, <1>5, <1>6, <1>7, <1>8, <1>9, <1>10, <1>11, <1>12, <1>13, <1>14, <1>15
     DEF QrNext, QrArrive, ServerStep, Environment

--------------------------------------------------------------------------------
(* All parts together.                                                         *)
LEMMA NextQrInv == QrInv /\ [QrNext]_qrVars => QrInv'
BY QrTypeStep, BufferStep, CreatorStep, ImageStep DEF QrInv, Buffers, Creators

(* QrInv holds in every reachable state, for any number of requests, sessions  *)
(* and restarts.                                                               *)
THEOREM QrInvariant == QrSpec => []QrInv
<1> QED
  BY InitQrInv, NextQrInv, PTL DEF QrSpec

(* Variables keep their types, and the mutex of a session is held by the       *)
(* request that polls or confirms it (qr.go:147-167).                          *)
THEOREM QrTypeCorrect == QrSpec => []QrTypeOK
<1>1. QrInv => QrTypeOK
  BY DEF QrInv
<1> QED
  BY QrInvariant, <1>1, PTL

(* A session is issued at most one login buffer, however many confirms of it   *)
(* overlap, fail and are tried again (qr.go:203-207, 231-236).                 *)
THEOREM BufferFetchedOnce == QrSpec => []FetchedOnce
<1>1. QrInv => FetchedOnce
  BY DEF QrInv
<1> QED
  BY QrInvariant, <1>1, PTL

(* An image belongs to a session, is from an earlier run or is about to be     *)
(* removed: creating, pruning and dropping sessions leak none                  *)
(* (app.go:868-905).                                                           *)
THEOREM ImagesBelong == QrSpec => []ImagesHaveSessions
<1>1. QrInv => ImagesHaveSessions
  BY DEF QrInv
<1> QED
  BY QrInvariant, <1>1, PTL

--------------------------------------------------------------------------------

Timers == [set : BOOLEAN, lost : BOOLEAN]

(* A client that is not waiting has no answer, and an answer tells the truth.  *)
ClientsIdle == \A r \in Requests : at[r] = "home" => sidOf[r] = Null /\ ans[r] = Null

AnswersTrue ==
    \A r \in Requests :
        /\ ans[r] # Null => at[r] \in {"drop", "dropFile", "done"}
        /\ ans[r] = "created" => at[r] = "done" /\ sidOf[r] \in Sids /\ Known(sidOf[r])
        /\ ans[r] = "stored" => sidOf[r] \in stored

(* The page asks only about sessions it was told of, and its request is about  *)
(* the session its URL names.                                                  *)
PageKnows == page.sid # Null => Known(page.sid)

CallsAbout ==
    \A r \in Requests : about[r] # Null =>
        /\ page.sid # Null /\ Known(about[r])
        /\ at[r] \notin Creating
        /\ at[r] # "home" => sidOf[r] = about[r]

PageOK ==
    page \in [sid : Sids \cup {Null}, result : Sids \cup {Null}, shown : Shown,
              pollTimer : Timers, cdTimer : Timers]

CallsOK ==
    /\ role \in [Requests -> {"newQr", "poll", "confirm", Null}]
    /\ about \in [Requests -> Sids \cup {Null}]
    /\ \A r \in Requests : at[r] # "home" => role[r] # Null
    /\ \A r \in Requests : role[r] \in {"poll", "confirm"} <=> about[r] # Null

ScanInv ==
    /\ QrInv
    /\ ClientsIdle /\ AnswersTrue
    /\ PageOK /\ CallsOK
    /\ PageKnows /\ CallsAbout
    /\ OkIsStored

--------------------------------------------------------------------------------
(* Request r reaches the program, as a new code, a poll or a confirm.          *)
Asks(r) ==
    \/ PruneQR(r)
    \/ \E s \in Sids, lock \in {"lockPoll", "lockConfirm"} : GetQRSession(r, s, lock)

(* What a step of request r leaves to the others.                              *)
OthersWait(r) ==
    \A q \in Requests \ {r} : at'[q] = at[q] /\ sidOf'[q] = sidOf[q] /\ ans'[q] = ans[q]

(* A request that moves leaves the others where they are.                      *)
LEMMA OneRequestMoves ==
    ASSUME NEW r \in Requests, QrTypeOK,
           Asks(r) \/ ServerStep(r) \/ Receive(r)
    PROVE  OthersWait(r)
<1> USE DEF OthersWait, QrTypeOK, Move, Reply
<1>1. CASE Asks(r)
  BY <1>1 DEF Asks, PruneQR, GetQRSession
<1>2. CASE Receive(r)
  BY <1>2 DEF Receive
<1>3. CASE PruneImages(r) \/ GetQRCodeImage(r) \/ GetQRCodeImageFails(r) \/ RegisterSession(r)
           \/ WriteImage(r) \/ CleanupQR(r)
  BY <1>3 DEF PruneImages, GetQRCodeImage, GetQRCodeImageFails, RegisterSession, WriteImage, CleanupQR
<1>4. CASE Lock(r) \/ PollKnown(r) \/ PollQRCode(r) \/ PollFails(r)
  BY <1>4 DEF Lock, PollKnown, PollQRCode, PollFails
<1>5. CASE ConfirmKnown(r) \/ Callback(r) \/ FetchLoginBuffer(r) \/ ConfirmFails(r)
  BY <1>5 DEF ConfirmKnown, Callback, FetchLoginBuffer, ConfirmFails
<1>6. CASE StoreFromScan(r) \/ StoreFails(r) \/ DropQRSession(r) \/ DropImage(r)
  BY <1>6 DEF StoreFromScan, StoreFails, DropQRSession, DropImage
<1> QED
  BY <1>1, <1>2, <1>3, <1>4, <1>5, <1>6 DEF ServerStep

(* A step of the program keeps what a client was told: codes stay issued, and  *)
(* no request creates a session that has been created.                         *)
LEMMA KnownStays ==
    ASSUME QrTypeOK, ClientsIdle, NEW s \in Sids, Known(s), NEW r \in Requests,
           Asks(r) \/ ServerStep(r) \/ Receive(r)
    PROVE  Known(s)'
<1> USE NullAssumption DEF QrTypeOK, Known, Move, Reply, Creating
<1>0. ASSUME wechat' = wechat, \A q \in Requests : at'[q] \in Creating => at[q] \in Creating /\ sidOf'[q] = sidOf[q]
      PROVE  Known(s)'
  BY <1>0
<1>1. CASE PruneQR(r)
  <2>1. sidOf[r] = Null /\ sidOf' = sidOf /\ wechat' = wechat
    BY <1>1 DEF PruneQR, ClientsIdle
  <2>2. \A q \in Requests \ {r} : at'[q] = at[q]
    BY <1>1 DEF PruneQR
  <2> QED
    BY <2>1, <2>2
<1>2. CASE \E t \in Sids, lock \in {"lockPoll", "lockConfirm"} : GetQRSession(r, t, lock)
  <2>1. PICK t \in Sids, lock \in {"lockPoll", "lockConfirm"} : GetQRSession(r, t, lock)
    BY <1>2
  <2>2. wechat' = wechat /\ at'[r] \notin Creating
    BY <2>1 DEF GetQRSession
  <2>3. \A q \in Requests \ {r} : at'[q] = at[q] /\ sidOf'[q] = sidOf[q]
    BY <2>1 DEF GetQRSession
  <2> QED
    BY <1>0, <2>2, <2>3
<1>3. CASE GetQRCodeImage(r)
  <2>1. PICK t \in Sids : /\ wechat[t] = "unused" /\ wechat' = [wechat EXCEPT ![t] = "pending"]
                          /\ sidOf' = [sidOf EXCEPT ![r] = t]
                          /\ at' = [at EXCEPT ![r] = "register"]
    BY <1>3 DEF GetQRCodeImage
  <2> QED
    BY <2>1
<1>4. CASE PruneImages(r) \/ RegisterSession(r) \/ WriteImage(r)
  BY <1>0, <1>4 DEF PruneImages, RegisterSession, WriteImage
<1>5. CASE Receive(r) \/ GetQRCodeImageFails(r) \/ CleanupQR(r)
  BY <1>0, <1>5 DEF Receive, GetQRCodeImageFails, CleanupQR
<1>6. CASE Lock(r) \/ PollKnown(r) \/ PollQRCode(r) \/ PollFails(r)
  BY <1>0, <1>6 DEF Lock, PollKnown, PollQRCode, PollFails
<1>7. CASE ConfirmKnown(r) \/ Callback(r) \/ FetchLoginBuffer(r) \/ ConfirmFails(r)
  BY <1>0, <1>7 DEF ConfirmKnown, Callback, FetchLoginBuffer, ConfirmFails
<1>8. CASE StoreFromScan(r) \/ StoreFails(r) \/ DropQRSession(r) \/ DropImage(r)
  BY <1>0, <1>8 DEF StoreFromScan, StoreFails, DropQRSession, DropImage
<1> QED
  BY <1>1, <1>2, <1>3, <1>4, <1>5, <1>6, <1>7, <1>8 DEF ServerStep, Asks

(* The phone and the clock leave requests alone and unissue no code.           *)
LEMMA KnownThroughTime ==
    ASSUME QrTypeOK, NEW t \in Sids, PhoneStep(t) \/ Age(t), NEW s \in Sids, Known(s)
    PROVE  Known(s)'
BY DEF QrTypeOK, PhoneStep, Phone, Age, Known, request

(* The answers.  r is the request that moves.                                  *)
LEMMA AnswersStay ==
    ASSUME QrInv, ClientsIdle, AnswersTrue, NEW r \in Requests,
           Asks(r) \/ ServerStep(r) \/ Receive(r),
           OthersWait(r)
    PROVE  ClientsIdle' /\ AnswersTrue'
<1> DEFINE Idle(q) == at[q] = "home" => sidOf[q] = Null /\ ans[q] = Null
           True(q) == /\ ans[q] # Null => at[q] \in {"drop", "dropFile", "done"}
                      /\ ans[q] = "created" => at[q] = "done" /\ sidOf[q] \in Sids /\ Known(sidOf[q])
                      /\ ans[q] = "stored" => sidOf[q] \in stored
<1>0. QrTypeOK /\ RequestsHaveSessions /\ CreatorsAlone
  BY DEF QrInv
<1> USE NullAssumption
<1>1. \A s \in Sids : Known(s) => Known(s)'
  BY <1>0, KnownStays
<1>2. stored \subseteq stored'
  BY DEF Asks, PruneQR, GetQRSession, Receive, ServerStep, PruneImages, GetQRCodeImage, GetQRCodeImageFails,
     RegisterSession, WriteImage, CleanupQR, Lock, PollKnown, PollQRCode, PollFails, ConfirmKnown,
     Callback, FetchLoginBuffer, ConfirmFails, StoreFromScan, StoreFails, DropQRSession, DropImage
<1>3. \A q \in Requests \ {r} : Idle(q)' /\ True(q)'
  <2>1. ASSUME NEW q \in Requests, q # r PROVE Idle(q)' /\ True(q)'
    <3>1. Idle(q) /\ True(q) /\ at'[q] = at[q] /\ sidOf'[q] = sidOf[q] /\ ans'[q] = ans[q]
      BY <2>1 DEF ClientsIdle, AnswersTrue, OthersWait
    <3>2. ans[q] = "created" => Known(sidOf[q])'
      BY <1>1, <3>1 DEF Known
    <3> QED
      BY <1>2, <3>1, <3>2
  <2> QED
    BY <2>1
<1>4. ASSUME ans'[r] = Null, at'[r] # "home" PROVE Idle(r)' /\ True(r)'
  BY <1>4
<1>5. ASSUME ans'[r] \notin {"created", "stored"}, at'[r] \in {"drop", "dropFile", "done"}
      PROVE  Idle(r)' /\ True(r)'
  BY <1>5
<1> SUFFICES Idle(r)' /\ True(r)'
  BY <1>3 DEF ClientsIdle, AnswersTrue
<1> HIDE DEF Idle, True
<1> USE <1>0 DEF QrTypeOK, Move, Reply
<1>6. at[r] \notin {"drop", "dropFile", "done"} => ans[r] = Null
  BY DEF AnswersTrue
<1>7. CASE PruneQR(r) \/ PruneImages(r) \/ GetQRCodeImage(r) \/ RegisterSession(r) \/ WriteImage(r)
  BY <1>4, <1>6, <1>7 DEF PruneQR, PruneImages, GetQRCodeImage, RegisterSession, WriteImage
<1>8. CASE \E t \in Sids, lock \in {"lockPoll", "lockConfirm"} : GetQRSession(r, t, lock)
  BY <1>4, <1>5, <1>6, <1>8 DEF GetQRSession
<1>9. CASE Lock(r) \/ ConfirmKnown(r) \/ Callback(r) \/ FetchLoginBuffer(r)
  BY <1>4, <1>6, <1>9 DEF Lock, ConfirmKnown, Callback, FetchLoginBuffer
<1>10. CASE GetQRCodeImageFails(r) \/ PollFails(r) \/ ConfirmFails(r) \/ StoreFails(r)
  BY <1>5, <1>10 DEF GetQRCodeImageFails, PollFails, ConfirmFails, StoreFails
<1>11. CASE PollKnown(r)
  BY <1>5, <1>11 DEF PollKnown
<1>12. CASE PollQRCode(r)
  <2>1. sidOf[r] \in Sids
    BY <1>12 DEF PollQRCode, RequestsHaveSessions
  <2>2. PICK status \in {wechat[sidOf[r]], "unknown"} :
          IF status \in Terminal
          THEN at' = [at EXCEPT ![r] = "drop"] /\ ans' = [ans EXCEPT ![r] = status]
          ELSE at' = [at EXCEPT ![r] = "done"] /\ ans' = [ans EXCEPT ![r] = status]
    BY <1>12 DEF PollQRCode
  <2>3. status \notin {"created", "stored"}
    BY <2>1, <2>2, SMTT(30)
  <2> QED
    BY <1>5, <2>2, <2>3
<1>13. CASE CleanupQR(r)
  <2>1. /\ at[r] = "cleanup" /\ at' = [at EXCEPT ![r] = "done"] /\ ans'[r] = "created"
        /\ sidOf' = sidOf /\ wechat' = wechat
    BY <1>13 DEF CleanupQR
  <2>2. sidOf[r] \in Sids /\ wechat[sidOf[r]] # "unused"
    BY <2>1 DEF RequestsHaveSessions, CreatorsAlone
  <2>3. \A q \in Requests \ {r} : sidOf[q] # sidOf[r]
    BY <2>1 DEF CreatorsAlone
  <2>4. Known(sidOf[r])'
    BY <2>1, <2>2, <2>3 DEF Known, Creating
  <2> QED
    BY <2>1, <2>2, <2>4 DEF Idle, True
<1>14. CASE StoreFromScan(r)
  BY <1>14 DEF StoreFromScan, Idle, True
<1>15. CASE DropQRSession(r) \/ DropImage(r)
  <2>1. /\ at[r] \in {"drop", "dropFile"} /\ at'[r] \in {"dropFile", "done"}
        /\ ans' = ans /\ sidOf' = sidOf /\ stored' = stored
    BY <1>15 DEF DropQRSession, DropImage
  <2>2. ans[r] # "created"
    BY <2>1 DEF AnswersTrue
  <2> QED
    BY <2>1, <2>2 DEF AnswersTrue, Idle, True
<1>16. CASE Receive(r)
  BY <1>16 DEF Receive, Idle, True
<1> QED
  BY <1>7, <1>8, <1>9, <1>10, <1>11, <1>12, <1>13, <1>14, <1>15, <1>16 DEF ServerStep, Asks

--------------------------------------------------------------------------------
(* What a step of the page does to the program: nothing, or one step of it.    *)
ProgramMoves ==
    \/ UNCHANGED qrVars
    \/ \E t \in Sids : PhoneStep(t) \/ Age(t)
    \/ \E r \in Requests : Asks(r) \/ ServerStep(r) \/ Receive(r)

(* The page moves the program only as a client may.                            *)
LEMMA PageMovesProgram ==
    ASSUME ScanInv, [ScanNext]_scanVars PROVE ProgramMoves /\ [QrNext]_qrVars
<1>1. CASE UNCHANGED scanVars
  BY <1>1 DEF scanVars, ProgramMoves
<1>2. ASSUME NEW r \in Requests, Fetch(r) PROVE ProgramMoves /\ [QrNext]_qrVars
  <2>1. CASE role[r] = "newQr" /\ PruneQR(r)
    BY <2>1 DEF ProgramMoves, Asks, QrNext, QrArrive
  <2>2. ASSUME NEW lock \in {"lockPoll", "lockConfirm"}, role[r] \in {"poll", "confirm"},
               GetQRSession(r, about[r], lock)
        PROVE  ProgramMoves /\ [QrNext]_qrVars
    <3>1. PICK s \in Sids : s = about[r] /\ Known(s)
      BY <2>2 DEF ScanInv, CallsOK, CallsAbout
    <3>2. GetQRSession(r, s, lock)
      BY <2>2, <3>1
    <3> QED
      BY <3>1, <3>2 DEF ProgramMoves, Asks, QrNext, QrArrive
  <2> QED
    BY <1>2, <2>1, <2>2 DEF Fetch
<1>3. ASSUME NEW r \in Requests, NewQrAnswered(r) \/ PollAnswered(r) \/ ConfirmAnswered(r)
      PROVE  Receive(r) /\ ProgramMoves /\ [QrNext]_qrVars
  BY <1>3 DEF NewQrAnswered, PollAnswered, ConfirmAnswered, ProgramMoves, QrNext
<1>4. ASSUME NEW r \in Requests, RefreshClicked(r) \/ CountdownEnds(r) \/ PollTimer(r)
      PROVE  UNCHANGED qrVars
  BY <1>4 DEF RefreshClicked, CountdownEnds, PollTimer
<1>5. ASSUME NEW r \in Requests, ServerStep(r) PROVE ProgramMoves /\ [QrNext]_qrVars
  BY <1>5 DEF ProgramMoves, QrNext
<1>6. ASSUME NEW s \in Sids, PhoneStep(s) \/ Age(s) PROVE ProgramMoves /\ [QrNext]_qrVars
  BY <1>6 DEF ProgramMoves, QrNext, Environment
<1>7. UNCHANGED qrVars => ProgramMoves
  BY DEF ProgramMoves
<1> QED
  BY <1>1, <1>2, <1>3, <1>4, <1>5, <1>6, <1>7 DEF ScanNext, Handler

(* What the program's step leaves the page with.                               *)
ProgramKeeps ==
    /\ QrInv' /\ ClientsIdle' /\ AnswersTrue'
    /\ \A s \in Sids : Known(s) => Known(s)'
    /\ stored \subseteq stored'

(* No step takes back what has been stored.                                    *)
LEMMA StoredStays == ProgramMoves => stored \subseteq stored'
<1>1. ASSUME NEW r \in Requests, ServerStep(r) PROVE stored \subseteq stored'
  BY <1>1 DEF ServerStep, PruneImages, GetQRCodeImage, GetQRCodeImageFails,
     RegisterSession, WriteImage, CleanupQR, Lock, PollKnown, PollQRCode, PollFails, ConfirmKnown,
     Callback, FetchLoginBuffer, ConfirmFails, StoreFromScan, StoreFails, DropQRSession, DropImage
<1> QED
  BY <1>1 DEF ProgramMoves, Asks, qrVars, PhoneStep, Phone, Age, PruneQR, GetQRSession, Receive

(* Every step of page and program keeps the part of the program.               *)
LEMMA ProgramStep ==
    ASSUME ScanInv, [ScanNext]_scanVars PROVE ProgramKeeps
<1>1. ProgramMoves /\ QrInv'
  BY PageMovesProgram, NextQrInv DEF ScanInv
<1>2. QrInv /\ QrTypeOK /\ ClientsIdle /\ AnswersTrue
  BY DEF ScanInv, QrInv
<1>3. stored \subseteq stored'
  BY <1>1, StoredStays
<1>4. ASSUME \A s \in Sids : Known(s) => Known(s)', UNCHANGED <<at, sidOf, ans>>
      PROVE  ClientsIdle' /\ AnswersTrue'
  <2>1. ClientsIdle'
    BY <1>2, <1>4 DEF ClientsIdle
  <2>2. ASSUME NEW r \in Requests, ans[r] = "created"
        PROVE  Known(sidOf[r])'
    BY <1>2, <1>4, <2>2 DEF AnswersTrue, Known
  <2> QED
    BY <1>2, <1>3, <1>4, <2>1, <2>2 DEF AnswersTrue
<1>5. CASE UNCHANGED qrVars
  <2>1. \A s \in Sids : Known(s) => Known(s)'
    BY <1>5 DEF Known, qrVars, request
  <2> QED
    BY <1>1, <1>3, <1>4, <1>5, <2>1 DEF ProgramKeeps, qrVars, request
<1>6. ASSUME NEW t \in Sids, PhoneStep(t) \/ Age(t) PROVE ProgramKeeps
  <2>1. \A s \in Sids : Known(s) => Known(s)'
    BY <1>2, <1>6, KnownThroughTime
  <2>2. UNCHANGED <<at, sidOf, ans>>
    BY <1>6 DEF PhoneStep, Phone, Age, request
  <2> QED
    BY <1>1, <1>3, <1>4, <2>1, <2>2 DEF ProgramKeeps
<1>7. ASSUME NEW r \in Requests,
             Asks(r) \/ ServerStep(r) \/ Receive(r)
      PROVE  ProgramKeeps
  <2>1. \A s \in Sids : Known(s) => Known(s)'
    BY <1>2, <1>7, KnownStays
  <2>2. OthersWait(r)
    BY <1>2, <1>7, OneRequestMoves
  <2>3. ClientsIdle' /\ AnswersTrue'
    BY <1>2, <1>7, <2>2, AnswersStay
  <2> QED
    BY <1>1, <1>3, <2>1, <2>3 DEF ProgramKeeps
<1> QED
  BY <1>1, <1>5, <1>6, <1>7 DEF ProgramMoves

--------------------------------------------------------------------------------
(* The page's own part of the invariant, handler by handler.                   *)
PagePart == PageOK /\ CallsOK /\ PageKnows /\ CallsAbout /\ OkIsStored

(* Setting and clearing keeps a timer a timer.                                 *)
LEMMA TimersAre ==
    ASSUME PageOK
    PROVE  /\ Cleared(page.pollTimer) \in Timers /\ Cleared(page.cdTimer) \in Timers
           /\ Started(page.pollTimer) \in Timers /\ Started(page.cdTimer) \in Timers
<1>1. ASSUME NEW t \in Timers PROVE Cleared(t) \in Timers
  BY DEF Cleared, Timers
<1>2. ASSUME NEW t \in Timers PROVE Started(t) \in Timers
  <2>1. (t.lost \/ t.set) \in BOOLEAN
    OBVIOUS
  <2> QED
    BY <2>1 DEF Started, Timers
<1>3. page.pollTimer \in Timers /\ page.cdTimer \in Timers
  BY DEF PageOK
<1> QED
  BY <1>1, <1>2, <1>3

(* A step of the program alone: a request stays about its session.             *)
LEMMA ServerStepStays ==
    ASSUME NEW r \in Requests, QrTypeOK, ServerStep(r)
    PROVE  /\ at[r] # "home"
           /\ at[r] \notin Creating => at'[r] \notin Creating /\ sidOf'[r] = sidOf[r]
<1> USE DEF QrTypeOK, Move, Reply, Creating
<1>1. CASE PruneImages(r) \/ GetQRCodeImage(r) \/ GetQRCodeImageFails(r) \/ RegisterSession(r)
           \/ WriteImage(r) \/ CleanupQR(r)
  BY <1>1 DEF PruneImages, GetQRCodeImage, GetQRCodeImageFails, RegisterSession, WriteImage, CleanupQR
<1>2. CASE Lock(r) \/ PollKnown(r) \/ PollQRCode(r) \/ PollFails(r)
  BY <1>2 DEF Lock, PollKnown, PollQRCode, PollFails
<1>3. CASE ConfirmKnown(r) \/ Callback(r) \/ FetchLoginBuffer(r) \/ ConfirmFails(r)
  BY <1>3 DEF ConfirmKnown, Callback, FetchLoginBuffer, ConfirmFails
<1>4. CASE StoreFromScan(r) \/ StoreFails(r) \/ DropQRSession(r) \/ DropImage(r)
  BY <1>4 DEF StoreFromScan, StoreFails, DropQRSession, DropImage
<1> QED
  BY <1>1, <1>2, <1>3, <1>4 DEF ServerStep

(* A step that the page does not take part in.                                 *)
LEMMA PageWaits ==
    ASSUME ScanInv, ProgramKeeps, UNCHANGED pageVars,
           \A q \in Requests : about[q] # Null =>
               /\ at'[q] \notin Creating
               /\ at'[q] # "home" => sidOf'[q] = about[q],
           \A q \in Requests : at'[q] # "home" => role[q] # Null
    PROVE  PagePart'
<1> USE DEF ScanInv, pageVars
<1>1. PageOK' /\ CallsOK'
  BY DEF PageOK, CallsOK
<1>2. ASSUME NEW s, s \in Sids, Known(s) PROVE Known(s)'
  BY <1>2 DEF ProgramKeeps
<1>3. PageKnows'
  <2> SUFFICES ASSUME page.sid # Null PROVE Known(page.sid)'
    BY DEF PageKnows
  <2>1. PICK s \in Sids : s = page.sid /\ Known(s)
    BY DEF PageOK, PageKnows
  <2>2. Known(s)' /\ page' = page
    BY <1>2, <2>1
  <2> QED
    BY <2>1, <2>2 DEF Known
<1>4. CallsAbout'
  <2> SUFFICES ASSUME NEW q \in Requests, about[q] # Null
               PROVE  page.sid # Null /\ Known(about[q])'
    BY DEF CallsAbout
  <2>1. PICK s \in Sids : s = about[q] /\ Known(s)
    BY DEF CallsOK, CallsAbout
  <2>2. Known(s)' /\ about' = about
    BY <1>2, <2>1
  <2> QED
    BY <2>1, <2>2 DEF CallsAbout, Known
<1>5. OkIsStored'
  BY DEF OkIsStored, ProgramKeeps
<1> QED
  BY <1>1, <1>3, <1>4, <1>5 DEF PagePart

(* A handler that ends: request r is free for what it calls next.              *)
LEMMA HandlerEnds ==
    ASSUME ScanInv, ProgramKeeps, NEW r \in Requests, NEW function, NEW s, Call(r, function, s),
           \/ function \in {Null, "newQr"} /\ s = Null
           \/ function \in {"poll", "confirm"} /\ s \in Sids /\ Known(s)' /\ page'.sid # Null,
           at'[r] = "home",
           \A q \in Requests \ {r} : at'[q] = at[q] /\ sidOf'[q] = sidOf[q],
           page.sid # Null => page'.sid # Null
    PROVE  CallsOK' /\ CallsAbout'
<1> USE NullAssumption, RoleAssumption DEF ScanInv
<1>1. /\ role' = [role EXCEPT ![r] = function] /\ about' = [about EXCEPT ![r] = s]
      /\ role \in [Requests -> {"newQr", "poll", "confirm", Null}]
      /\ about \in [Requests -> Sids \cup {Null}]
  BY DEF Call, CallsOK
<1>2. CallsOK'
  BY <1>1 DEF CallsOK
<1>3. ASSUME NEW q \in Requests, about'[q] # Null
      PROVE  /\ page'.sid # Null /\ Known(about[q])'
             /\ at'[q] \notin Creating
             /\ at'[q] # "home" => sidOf'[q] = about'[q]
  <2> USE DEF Creating
  <2>1. CASE q = r
    <3>1. about'[q] = s /\ s \in Sids /\ Known(s)' /\ page'.sid # Null /\ at'[q] = "home"
      BY <1>1, <1>3, <2>1
    <3> QED
      BY <2>1, <3>1 DEF Known
  <2>2. CASE q # r
    <3>1. about'[q] = about[q] /\ at'[q] = at[q] /\ sidOf'[q] = sidOf[q]
      BY <1>1, <2>2
    <3>2. PICK t \in Sids : t = about[q] /\ Known(t)
      BY <1>1, <1>3, <3>1 DEF CallsAbout
    <3>3. Known(t)'
      BY <3>2 DEF ProgramKeeps
    <3>4. Known(about[q])'
      BY <3>1, <3>2, <3>3 DEF Known
    <3> QED
      BY <1>3, <3>1, <3>4 DEF CallsAbout
  <2> QED
    BY <2>1, <2>2
<1> QED
  BY <1>2, <1>3 DEF CallsAbout

(* A handler that leaves page.sid alone leaves it known.                       *)
LEMMA PageStillKnows ==
    ASSUME ScanInv, ProgramKeeps, page'.sid = page.sid
    PROVE  PageKnows' /\ (page.sid # Null => \E s \in Sids : s = page.sid /\ Known(s) /\ Known(s)')
<1>1. page.sid # Null => \E s \in Sids : s = page.sid /\ Known(s) /\ Known(s)'
  BY DEF ScanInv, PageOK, PageKnows, ProgramKeeps
<1>2. PageKnows'
  BY <1>1 DEF PageKnows, Known
<1> QED
  BY <1>1, <1>2

(* Handler by handler.                                                         *)
LEMMA PageStep ==
    ASSUME ScanInv, ProgramKeeps, [ScanNext]_scanVars PROVE PagePart'
<1> USE NullAssumption, RoleAssumption
<1>0. /\ QrTypeOK /\ ClientsIdle /\ AnswersTrue
      /\ PageOK /\ CallsOK /\ PageKnows /\ CallsAbout /\ OkIsStored
  BY DEF ScanInv, QrInv
<1>1. CASE UNCHANGED scanVars
  BY <1>0, <1>1, PageWaits DEF scanVars, qrVars, request, CallsOK, CallsAbout
<1>2. ASSUME NEW r \in Requests, ServerStep(r), UNCHANGED pageVars PROVE PagePart'
  <2>1. OthersWait(r)
    BY <1>0, <1>2, OneRequestMoves
  <2>2. ASSUME NEW q \in Requests
        PROVE  /\ at'[q] # "home" => at[q] # "home"
               /\ at[q] \notin Creating => at'[q] \notin Creating /\ sidOf'[q] = sidOf[q]
    BY <1>0, <1>2, <2>1, ServerStepStays DEF OthersWait
  <2> QED
    BY <1>0, <1>2, <2>2, PageWaits DEF CallsOK, CallsAbout
<1>3. ASSUME NEW s \in Sids, PhoneStep(s) \/ Age(s), UNCHANGED pageVars PROVE PagePart'
  <2>1. UNCHANGED <<at, sidOf>>
    BY <1>3 DEF PhoneStep, Phone, Age, request
  <2> QED
    BY <1>0, <1>3, <2>1, PageWaits DEF CallsOK, CallsAbout
<1>4. ASSUME NEW r \in Requests, Fetch(r) PROVE PagePart'
  <2>1. UNCHANGED pageVars /\ role[r] # Null /\ at[r] = "home"
    BY <1>4 DEF Fetch
  <2>2. \A q \in Requests \ {r} : at'[q] = at[q] /\ sidOf'[q] = sidOf[q]
    BY <1>0, <1>4 DEF Fetch, PruneQR, GetQRSession, Move, QrTypeOK
  <2>3. about[r] # Null => sidOf'[r] = about[r] /\ at'[r] \notin Creating
    BY <1>0, <1>4 DEF Fetch, CallsOK, GetQRSession, Move, QrTypeOK, Creating
  <2> QED
    BY <1>0, <2>1, <2>2, <2>3, PageWaits DEF CallsOK, CallsAbout
<1>5. ASSUME NEW r \in Requests, RefreshClicked(r) \/ CountdownEnds(r) PROVE PagePart'
  <2>1. /\ role[r] = Null /\ UNCHANGED qrVars /\ Call(r, "newQr", Null)
        /\ page' = [StopTimers EXCEPT !.shown = "getting"]
    BY <1>5 DEF RefreshClicked, CountdownEnds, NewQr
  <2>2. /\ PageOK' /\ page'.sid = page.sid /\ page'.shown = "getting"
    BY <1>0, <2>1, TimersAre DEF PageOK, StopTimers, Shown
  <2>3. CallsOK' /\ CallsAbout'
    <3>1. at[r] = "home" /\ at' = at /\ sidOf' = sidOf
      BY <1>0, <2>1 DEF CallsOK, qrVars, request
    <3> QED
      BY <2>1, <2>2, <3>1, HandlerEnds
  <2>4. PageKnows' /\ OkIsStored'
    BY <2>2, PageStillKnows DEF OkIsStored
  <2> QED
    BY <2>2, <2>3, <2>4 DEF PagePart
<1>6. ASSUME NEW r \in Requests, PollTimer(r) PROVE PagePart'
  <2>1. /\ role[r] = Null /\ page.sid # Null /\ Call(r, "poll", page.sid)
        /\ page' = page /\ UNCHANGED qrVars
    BY <1>6 DEF PollTimer
  <2>2. CallsOK' /\ CallsAbout'
    <3>1. at[r] = "home" /\ at' = at /\ sidOf' = sidOf
      BY <1>0, <2>1 DEF CallsOK, qrVars, request
    <3>2. PICK s \in Sids : s = page.sid /\ Known(s)'
      BY <2>1, PageStillKnows
    <3>3. Call(r, "poll", s)
      BY <2>1, <3>2
    <3> QED
      BY <2>1, <3>1, <3>2, <3>3, HandlerEnds
  <2>3. PageOK' /\ PageKnows' /\ OkIsStored'
    BY <1>0, <2>1, PageStillKnows DEF PageOK, OkIsStored, qrVars
  <2> QED
    BY <2>2, <2>3 DEF PagePart
<1>c. ASSUME NEW r \in Requests, Receive(r)
      PROVE  /\ at[r] = "done" /\ at'[r] = "home" /\ stored' = stored
             /\ \A q \in Requests \ {r} : at'[q] = at[q] /\ sidOf'[q] = sidOf[q]
  BY <1>0, <1>c DEF Receive, Move, QrTypeOK
<1>7. ASSUME NEW r \in Requests, NewQrAnswered(r) PROVE PagePart'
  <2>1. /\ Receive(r) /\ Call(r, Null, Null)
        /\ page' = IF ans[r] = "created"
                   THEN [page EXCEPT !.sid = sidOf[r], !.shown = "waiting",
                                     !.pollTimer = Started(@), !.cdTimer = Started(@)]
                   ELSE [page EXCEPT !.shown = "createFailed"]
    BY <1>7 DEF NewQrAnswered
  <2>2. /\ PageOK' /\ page'.sid \in {page.sid, sidOf[r]} /\ page'.shown \in {"waiting", "createFailed"}
        /\ page'.sid # page.sid => page'.sid \in Sids /\ Known(page'.sid)
        /\ page.sid # Null => page'.sid # Null
    <3>1. CASE ans[r] = "created"
      <4>1. sidOf[r] \in Sids /\ Known(sidOf[r])
        BY <1>0, <3>1 DEF AnswersTrue
      <4> QED
        BY <1>0, <2>1, <3>1, <4>1, TimersAre DEF PageOK, Shown
    <3>2. CASE ans[r] # "created"
      BY <1>0, <2>1, <3>2 DEF PageOK, Shown
    <3> QED
      BY <3>1, <3>2
  <2>3. CallsOK' /\ CallsAbout'
    BY <1>c, <2>1, <2>2, HandlerEnds
  <2>4. PageKnows'
    <3> SUFFICES ASSUME page'.sid # Null PROVE Known(page.sid)'
      BY DEF PageKnows
    <3>1. CASE page'.sid = page.sid
      BY <3>1, PageStillKnows DEF PageKnows
    <3>2. CASE page'.sid # page.sid
      <4>1. PICK s \in Sids : s = page'.sid /\ Known(s)'
        BY <2>2, <3>2 DEF ProgramKeeps
      <4> QED
        BY <4>1 DEF Known
    <3> QED
      BY <3>1, <3>2
  <2>5. OkIsStored'
    BY <2>2 DEF OkIsStored
  <2> QED
    BY <2>2, <2>3, <2>4, <2>5 DEF PagePart
<1>8. ASSUME NEW r \in Requests, PollAnswered(r) PROVE PagePart'
  <2>0. Receive(r) /\ role[r] = "poll"
    BY <1>8 DEF PollAnswered, Answered
  <2>1. page.sid # Null
    BY <1>0, <2>0 DEF CallsOK, CallsAbout
  <2>2. /\ PageOK' /\ page'.sid = page.sid /\ page'.result = page.result
        /\ page'.shown = "ok" => page.shown = "ok"
    <3>1. page' \in {page, [page EXCEPT !.shown = IF ans[r] = "pending" THEN "waiting" ELSE "scanned"],
                     [StopTimers EXCEPT !.shown = "storing"], [StopTimers EXCEPT !.shown = "getting"],
                     [StopTimers EXCEPT !.shown = "cancelled"]}
      BY <1>8 DEF PollAnswered, NewQr
    <3>2. page.pollTimer \in Timers /\ page.cdTimer \in Timers
      BY <1>0 DEF PageOK
    <3>3. ASSUME NEW text \in {"storing", "getting", "cancelled"},
                 page' = [StopTimers EXCEPT !.shown = text]
          PROVE  PageOK' /\ page'.sid = page.sid /\ page'.result = page.result /\ page'.shown = text
      BY <1>0, <3>3, TimersAre DEF PageOK, StopTimers, Shown
    <3>4. ASSUME NEW text \in {"waiting", "scanned"}, page' = [page EXCEPT !.shown = text]
          PROVE  PageOK' /\ page'.sid = page.sid /\ page'.result = page.result /\ page'.shown = text
      BY <1>0, <3>4 DEF PageOK, Shown
    <3>5. CASE page' = page
      BY <1>0, <3>5 DEF PageOK
    <3> QED
      BY <3>1, <3>3, <3>4, <3>5
  <2>3. CallsOK' /\ CallsAbout'
    <3>1. PICK s \in Sids : s = page.sid /\ Known(s)'
      BY <2>1, <2>2, PageStillKnows
    <3>2. Call(r, Null, Null) \/ Call(r, "newQr", Null) \/ Call(r, "confirm", s)
      BY <1>8, <3>1 DEF PollAnswered, NewQr
    <3> QED
      BY <1>c, <2>0, <2>1, <2>2, <3>1, <3>2, HandlerEnds
  <2>4. PageKnows' /\ OkIsStored'
    BY <1>0, <1>c, <2>0, <2>2, PageStillKnows DEF OkIsStored
  <2> QED
    BY <2>2, <2>3, <2>4 DEF PagePart
<1>9. ASSUME NEW r \in Requests, ConfirmAnswered(r) PROVE PagePart'
  <2>0. /\ Receive(r) /\ role[r] = "confirm" /\ at[r] = "done" /\ Call(r, Null, Null)
        /\ page' = [page EXCEPT !.result = about[r],
                                !.shown = IF ans[r] = "stored" THEN "ok" ELSE "storeFailed"]
    BY <1>9 DEF ConfirmAnswered, Answered
  <2>1. about[r] \in Sids /\ sidOf[r] = about[r]
    BY <1>0, <2>0 DEF CallsOK, CallsAbout
  <2>2. /\ PageOK' /\ page'.sid = page.sid /\ page'.result = about[r]
        /\ page'.shown = "ok" => ans[r] = "stored"
    <3>1. (IF ans[r] = "stored" THEN "ok" ELSE "storeFailed") \in Shown
      BY DEF Shown
    <3> QED
      BY <1>0, <2>0, <2>1, <3>1 DEF PageOK
  <2>3. CallsOK' /\ CallsAbout'
    BY <1>c, <2>0, <2>2, HandlerEnds
  <2>4. OkIsStored'
    BY <1>0, <1>c, <2>0, <2>1, <2>2 DEF OkIsStored, AnswersTrue
  <2>5. PageKnows'
    BY <2>2, PageStillKnows
  <2> QED
    BY <2>2, <2>3, <2>4, <2>5 DEF PagePart
<1> QED
  BY <1>1, <1>2, <1>3, <1>4, <1>5, <1>6, <1>7, <1>8, <1>9 DEF ScanNext, Handler

--------------------------------------------------------------------------------
(* The page has just loaded.                                                   *)
LEMMA InitScanInv == ScanInit => ScanInv
<1> SUFFICES ASSUME ScanInit PROVE ScanInv
  OBVIOUS
<1> USE NullAssumption, RoleAssumption DEF ScanInit
<1>1. QrInv
  BY InitQrInv
<1>2. ClientsIdle /\ AnswersTrue
  BY DEF QrInit, ClientsIdle, AnswersTrue
<1>3. PageOK
  BY DEF PageOK, Timers, Stopped, Shown
<1>4. CallsOK /\ CallsAbout
  BY DEF CallsOK, CallsAbout, QrInit
<1>5. PageKnows /\ OkIsStored
  BY DEF PageKnows, OkIsStored
<1> QED
  BY <1>1, <1>2, <1>3, <1>4, <1>5 DEF ScanInv

(* Program and page together.                                                  *)
LEMMA NextScanInv == ScanInv /\ [ScanNext]_scanVars => ScanInv'
<1> SUFFICES ASSUME ScanInv, [ScanNext]_scanVars PROVE ScanInv'
  OBVIOUS
<1>1. ProgramKeeps
  BY ProgramStep
<1>2. PagePart'
  BY <1>1, PageStep
<1> QED
  BY <1>1, <1>2 DEF ProgramKeeps, PagePart, ScanInv

(* The page and the program keep together, in whatever order answers come and  *)
(* lost timers tick.                                                           *)
THEOREM ScanInvariant == ScanSpec => []ScanInv
<1> QED
  BY InitScanInv, NextScanInv, PTL DEF ScanSpec

(* Variables keep their types; a request of the page has a function that waits *)
(* for it, and a session when it is a poll or a confirm.                       *)
THEOREM ScanTypeCorrect == ScanSpec => []ScanTypeOK
<1>1. ScanInv => ScanTypeOK
  BY DEF ScanInv, PageOK, CallsOK, Timers, ScanTypeOK
<1> QED
  BY ScanInvariant, <1>1, PTL

(* What the page reports as added is in the database (scan.html:97-107).       *)
THEOREM AddedIsStored == ScanSpec => []OkIsStored
<1>1. ScanInv => OkIsStored
  BY DEF ScanInv
<1> QED
  BY ScanInvariant, <1>1, PTL

(* The page asks the program nothing that QrSessions does not expect of a      *)
(* client, so all that holds of QrSessions holds under the page.               *)
THEOREM PageIsAClient == ScanSpec => QrSpec
<1>1. ScanInit => QrInit
  BY DEF ScanInit
<1>2. ScanInv /\ [ScanNext]_scanVars => [QrNext]_qrVars
  BY PageMovesProgram
<1> QED
  BY <1>1, <1>2, ScanInvariant, PTL DEF ScanSpec, QrSpec
================================================================================
