------------------------------ MODULE WxCallProofs ------------------------------
(* The safety properties of WxCall for every value of its constants, and the   *)
(* pool's own, which hold of the calls that are made to it here.               *)
EXTENDS WxCall, SessionPoolProofs

(* A pair of a login buffer and the token it was issued with.                  *)
Issued(p) ==
    /\ p.buf <= last.buf
    /\ p.token = tokenOf[p.buf]

(* Wherever such a pair is kept, it stays one: buffers are numbered as they    *)
(* are issued, and a request fetches its buffer with the token it will save.   *)
PairsIssued ==
    /\ \A a \in Accounts : Issued(row[a])
    /\ \A a \in Accounts : scan[a] # Null => Issued(scan[a])
    /\ \A r \in Requests : at[r] = "save" => Issued(fresh[r])

(* A token is not in the hands of anybody before it is issued.                 *)
TokensIssued ==
    /\ \A a \in Accounts : row[a].token <= last.token
    /\ \A a \in Accounts : scan[a] # Null => scan[a].token <= last.token
    /\ \A r \in Requests : acc[r].token <= last.token /\ fresh[r].token <= last.token

(* A request on its way to the row with a token that has replaced another.     *)
Refreshing(r) == at[r] \in {"fetch", "save"} /\ Rotated(r)

(* Such a token is accepted, and known to that request only: nobody else can   *)
(* spend it before it is in the row.                                           *)
FreshTokensOwn ==
    \A r \in Requests : Refreshing(r) =>
        /\ Carries(r, acc[r].acct)
        /\ \A a \in Accounts : row[a].token # fresh[r].token
        /\ \A a \in Accounts : scan[a] # Null => scan[a].token # fresh[r].token
        /\ \A q \in Requests : acc[q].token # fresh[r].token
        /\ \A q \in Requests \ {r} : fresh[q].token # fresh[r].token

WxInv ==
    /\ WxTypeOK
    /\ PairsIssued
    /\ TokensIssued

(* What holds of the tokens that replace another on a refresh.                 *)
RotationInv == FreshTokensOwn /\ TokenKept

--------------------------------------------------------------------------------
(* Calling the pool is a step of the pool, and so is everything that happens   *)
(* around it.                                                                  *)
LEMMA PoolCalled ==
    ASSUME WxTypeOK, NEW r \in Requests, NEW b \in Buffers, CallPool(r, b)
    PROVE  PoolNext
<1>1. acc[r].acct \in Accounts
  BY DEF WxTypeOK, Snapshots
<1> QED
  BY <1>1, ConfigAssumption DEF CallPool, PoolNext

(* A step of a call is a step of the pool or leaves the pool alone.            *)
LEMMA UsesPool ==
    ASSUME WxTypeOK, [WxNext]_vars
    PROVE  [PoolNext]_poolVars
<1>1. CASE UNCHANGED vars
  BY <1>1 DEF vars
<1>2. ASSUME NEW r \in Requests, NEW a \in Accounts, Arrive(r, a) PROVE [PoolNext]_poolVars
  BY <1>2 DEF Arrive
<1>3. ASSUME NEW r \in Requests, CallStep(r) PROVE [PoolNext]_poolVars
  <2>1. CASE LookSession(r)
    <3>1. acc[r].buf \in Buffers
      BY DEF WxTypeOK, Snapshots
    <3>2. CallPool(r, acc[r].buf) \/ UNCHANGED poolVars
      BY <2>1 DEF LookSession
    <3> QED
      BY <3>1, <3>2, PoolCalled
  <2>2. CASE FirstReturns(r) \/ SecondReturns(r)
    BY <2>2 DEF FirstReturns, SecondReturns, PoolNext
  <2>3. CASE Forget(r)
    <3>1. SessionKey(r) \in Keys
      BY ConfigAssumption DEF WxTypeOK, Snapshots, SessionKey, Keys
    <3> QED
      BY <2>3, <3>1 DEF Forget, PoolNext, TableStep
  <2>4. CASE Reread(r)
    <3>1. row[acc[r].acct].buf \in Buffers /\ acc[r].buf \in Buffers
      BY DEF WxTypeOK, Snapshots
    <3>2. CallPool(r, row[acc[r].acct].buf) \/ CallPool(r, acc[r].buf)
      BY <2>4 DEF Reread
    <3> QED
      BY <3>1, <3>2, PoolCalled
  <2> QED
    BY <1>3, <2>1, <2>2, <2>3, <2>4 DEF CallStep
<1>4. ASSUME NEW r \in Requests, RefreshStep(r) PROVE UNCHANGED poolVars
  BY <1>4 DEF RefreshStep, NoCredentials, RefreshCredentials, RefreshRefused, RefreshAnswerLost,
              FetchLoginBuffer, FetchFails, SetAccountCredential, MarkAlive, MarkExpired
<1>5. ASSUME NEW r \in Requests, PoolStep(r) \/ HangUp(r) PROVE [PoolNext]_poolVars
  BY <1>5 DEF HangUp, PoolNext
<1>6. ASSUME NEW a \in Accounts, Confirm(a) \/ StoreFromScan(a) \/ DropQRSession(a)
      PROVE  [PoolNext]_poolVars
  BY <1>6 DEF Confirm, StoreFromScan, DropQRSession, PoolNext, TableStep
<1>7. ASSUME NEW k \in Keys, Expire(k) PROVE PoolNext
  BY <1>7 DEF PoolNext, TableStep
<1>8. ASSUME NEW a \in Accounts, DeleteAccount(a) PROVE PoolNext
  BY <1>8 DEF PoolNext, TableStep
<1>9. CASE WxRestart
  BY <1>9 DEF WxRestart, PoolNext
<1> QED
  BY <1>1, <1>2, <1>3, <1>4, <1>5, <1>6, <1>7, <1>8, <1>9 DEF WxNext, RequestStep

(* Only scans and deletions change which accounts there are.                   *)
LEMMA AccountsKept ==
    ASSUME NEW r \in Requests,
           \/ PoolStep(r) \/ Return(r) \/ Cancel(r)
           \/ \E a, p, b : Start(r, a, p, b)
           \/ \E k : InvalidateSession(k) \/ Expire(k)
           \/ Restart
    PROVE  accounts' = accounts
<1>1. StateStep(r) => accounts' = accounts
  BY DEF StateStep, Peek, PeekFails, Lock, Check, CheckFails, GetAccount, GetAccountFails,
         AcquireLogin, AcquireLoginCancelled, Login, LoginFails, PutSession, PutSessionFails,
         ReleaseLogin, Unlock, tables
<1>2. OpStep(r) => accounts' = accounts
  BY DEF OpStep, AcquireShortlink, AcquireShortlinkFails, Send, SendFails, Invalidate, tables
<1> QED
  BY <1>1, <1>2 DEF PoolStep, Return, Cancel, Start, InvalidateSession, Expire, Restart, tables

--------------------------------------------------------------------------------
(* The program starts with the invariants.                                     *)
LEMMA InitWxInv == WxInit => WxInv /\ RotationInv
<1> SUFFICES ASSUME WxInit PROVE WxInv /\ RotationInv
  OBVIOUS
<1> USE ConfigAssumption, TokensAssumption
<1>1. PICK t \in {0, 1} :
        /\ row = [a \in Accounts |->
                    [buf |-> 1, token |-> t, status |-> IF t = 0 THEN "unknown" ELSE "alive"]]
        /\ valid = [a \in Accounts |-> {t} \ {0}]
        /\ tokenOf = [b \in Buffers |-> IF b = 1 THEN t ELSE 0]
  BY DEF WxInit
<1>2. /\ last = [buf |-> 1, token |-> 1]
      /\ scan = [a \in Accounts |-> Null]
      /\ at = [r \in Requests |-> "home"]
      /\ acc = [r \in Requests |-> NoSnapshot]
      /\ fresh = [r \in Requests |-> NoPair]
      /\ hungUp = {} /\ lost = [a \in Accounts |-> FALSE]
  BY DEF WxInit
<1>3. /\ NoSnapshot \in Snapshots /\ NoSnapshot.token = 0
      /\ NoPair \in Pairs /\ NoPair.token = 0
  BY DEF NoSnapshot, Snapshots, NoPair, Pairs
<1>4. WxTypeOK
  BY <1>1, <1>2, <1>3 DEF WxTypeOK, Statuses, Pairs, Places
<1>5. PairsIssued /\ TokensIssued
  BY <1>1, <1>2, <1>3 DEF PairsIssued, TokensIssued, Issued
<1>6. RotationInv
  BY <1>1, <1>2 DEF RotationInv, FreshTokensOwn, Refreshing, TokenKept
<1> QED
  BY <1>4, <1>5, <1>6 DEF WxInv

(* A call, an answer or a change of status: no credentials and no token move,  *)
(* but for what a request that is answered forgets.                            *)
Passes(r) ==
    /\ UNCHANGED <<accounts, server, scan, lost>>
    /\ row' \in [Accounts -> [buf : Buffers, token : Tokens, status : Statuses]]
    /\ \A a \in Accounts : row'[a].buf = row[a].buf /\ row'[a].token = row[a].token
    /\ at[r] \notin {"fetch", "save"}
    /\ \E place \in Places \ {"fetch", "save"} : at' = [at EXCEPT ![r] = place]
    /\ acc' \in {acc, [acc EXCEPT ![r] = NoSnapshot]}
    /\ fresh' \in {fresh, [fresh EXCEPT ![r] = NoPair]}
    /\ hungUp' \in {hungUp, hungUp \ {r}}

(* Writing a status touches neither buffer nor token.                          *)
LEMMA StatusWritten ==
    ASSUME WxTypeOK, NEW r \in Requests, NEW status \in Statuses, WriteStatus(r, status)
    PROVE  /\ row' \in [Accounts -> [buf : Buffers, token : Tokens, status : Statuses]]
           /\ \A a \in Accounts : row'[a].buf = row[a].buf /\ row'[a].token = row[a].token
<1>1. row' \in {row, [row EXCEPT ![acc[r].acct].status = status]}
  BY DEF WriteStatus
<1>2. CASE row' = row
  BY <1>2 DEF WxTypeOK
<1>3. CASE row' = [row EXCEPT ![acc[r].acct].status = status]
  BY <1>3 DEF WxTypeOK, Snapshots
<1> QED
  BY <1>1, <1>2, <1>3

(* The steps of a call that write no credentials.                              *)
LEMMA Passing ==
    ASSUME WxTypeOK, NEW r \in Requests,
           \/ CallStep(r) \/ NoCredentials(r) \/ MarkAlive(r) \/ MarkExpired(r)
           \/ RefreshRefused(r)
    PROVE  Passes(r)
<1> USE DEF Passes, Places, InRefresh
<1>1. CASE LookSession(r)
  <2>1. accounts' = accounts
    BY <1>1, AccountsKept DEF LookSession, CallPool, poolVars
  <2> QED
    BY <1>1, <2>1 DEF LookSession, Move, WxTypeOK
<1>2. CASE FirstReturns(r)
  <2>1. accounts' = accounts
    BY <1>2, AccountsKept DEF FirstReturns
  <2> QED
    BY <1>2, <2>1 DEF FirstReturns, Move, Answer, WxTypeOK
<1>3. CASE Forget(r)
  <2>1. accounts' = accounts
    BY <1>3, AccountsKept DEF Forget, poolVars
  <2> QED
    BY <1>3, <2>1 DEF Forget, Move, WxTypeOK
<1>4. CASE Reread(r)
  <2>1. accounts' = accounts
    BY <1>4, AccountsKept DEF Reread, CallPool
  <2> QED
    BY <1>4, <2>1 DEF Reread, Move, WxTypeOK
<1>5. CASE SecondReturns(r)
  <2>1. accounts' = accounts
    BY <1>5, AccountsKept DEF SecondReturns
  <2> QED
    BY <1>5, <2>1 DEF SecondReturns, Answer, WxTypeOK
<1>6. CASE NoCredentials(r)
  <2>1. PICK status \in Statuses : WriteStatus(r, status)
    BY <1>6 DEF NoCredentials, Statuses
  <2> QED
    BY <1>6, <2>1, StatusWritten DEF NoCredentials, Answer, poolVars
<1>7. CASE MarkAlive(r) \/ MarkExpired(r)
  <2>1. PICK status \in Statuses : WriteStatus(r, status)
    BY <1>7 DEF MarkAlive, MarkExpired, Statuses
  <2> QED
    BY <1>7, <2>1, StatusWritten DEF MarkAlive, MarkExpired, Move, Answer, poolVars
<1>8. CASE RefreshRefused(r)
  BY <1>8 DEF RefreshRefused, Move, poolVars, WxTypeOK
<1> QED
  BY <1>1, <1>2, <1>3, <1>4, <1>5, <1>6, <1>7, <1>8 DEF CallStep

--------------------------------------------------------------------------------
(* Types, at every step.                                                       *)
LEMMA WxTypeStep ==
    ASSUME WxTypeOK, [WxNext]_vars
    PROVE  WxTypeOK'
<1> USE TokensAssumption, ConfigAssumption
<1> USE DEF WxTypeOK, server, Places, InRefresh
<1>0. NoSnapshot \in Snapshots /\ NoPair \in Pairs
  BY DEF NoSnapshot, Snapshots, NoPair, Pairs
<1>1. ASSUME UNCHANGED wxVars PROVE WxTypeOK'
  BY <1>1 DEF wxVars
<1>2. ASSUME NEW r \in Requests, Passes(r) PROVE WxTypeOK'
  <2>1. at' \in [Requests -> Places] /\ hungUp' \subseteq Requests
    BY <1>2 DEF Passes
  <2>2. acc' \in [Requests -> Snapshots]
    <3>1. acc' = acc \/ acc' = [acc EXCEPT ![r] = NoSnapshot]
      BY <1>2 DEF Passes
    <3> QED
      BY <1>0, <3>1
  <2>3. fresh' \in [Requests -> Pairs]
    <3>1. fresh' = fresh \/ fresh' = [fresh EXCEPT ![r] = NoPair]
      BY <1>2 DEF Passes
    <3> QED
      BY <1>0, <3>1
  <2> QED
    BY <1>2, <2>1, <2>2, <2>3 DEF Passes
<1>3. ASSUME NEW r \in Requests, NEW a \in Accounts, Arrive(r, a) PROVE WxTypeOK'
  <2>1. PICK entry \in {"session", "forget", "refresh"} :
          /\ at' = [at EXCEPT ![r] = entry]
          /\ acc' = [acc EXCEPT ![r] = [acct |-> a, buf |-> row[a].buf, token |-> row[a].token,
                                        only |-> entry = "refresh"]]
    BY <1>3 DEF Arrive
  <2>2. [acct |-> a, buf |-> row[a].buf, token |-> row[a].token, only |-> entry = "refresh"]
          \in Snapshots
    BY DEF Snapshots
  <2>3. acc' \in [Requests -> Snapshots]
    BY <2>1, <2>2
  <2> QED
    BY <1>3, <2>1, <2>3 DEF Arrive
<1>4. ASSUME NEW r \in Requests, RefreshCredentials(r) PROVE WxTypeOK'
  <2>1. acc[r].token \in Tokens /\ acc[r].acct \in Accounts
    BY DEF Snapshots
  <2>2. PICK rotate \in Rotations :
            IF rotate
            THEN /\ last.token + 1 \in Tokens
                 /\ last' = [last EXCEPT !.token = @ + 1]
                 /\ valid' = [valid EXCEPT ![acc[r].acct] =
                                (@ \ {acc[r].token}) \cup {last.token + 1}]
                 /\ fresh' = [fresh EXCEPT ![r].token = last.token + 1]
            ELSE /\ fresh' = [fresh EXCEPT ![r].token = acc[r].token]
                 /\ UNCHANGED <<last, valid>>
    BY <1>4 DEF RefreshCredentials
  <2>3. fresh' \in [Requests -> Pairs] /\ last' \in Pairs
    <3>1. PICK t \in Tokens : fresh' = [fresh EXCEPT ![r].token = t]
      BY <2>1, <2>2
    <3>2. last' = last \/ (last.token + 1 \in Tokens /\ last' = [last EXCEPT !.token = @ + 1])
      BY <2>2
    <3> QED
      BY <3>1, <3>2 DEF Pairs
  <2>4. valid' \in [Accounts -> SUBSET (Tokens \ {0})]
    BY <2>1, <2>2 DEF Pairs
  <2> QED
    BY <1>4, <2>3, <2>4 DEF RefreshCredentials, Move
<1>5. ASSUME NEW r \in Requests, RefreshAnswerLost(r) PROVE WxTypeOK'
  BY <1>5 DEF RefreshAnswerLost, Move, Snapshots
<1>6. ASSUME NEW r \in Requests, FetchLoginBuffer(r) PROVE WxTypeOK'
  <2>1. last' \in Pairs /\ fresh' \in [Requests -> Pairs]
    BY <1>6 DEF FetchLoginBuffer, Pairs
  <2>2. tokenOf' \in [Buffers -> Tokens]
    BY <1>6 DEF FetchLoginBuffer, Pairs
  <2> QED
    BY <1>6, <2>1, <2>2 DEF FetchLoginBuffer, Move
<1>7. ASSUME NEW r \in Requests, FetchFails(r) PROVE WxTypeOK'
  <2>1. lost' \in [Accounts -> BOOLEAN]
    BY <1>7 DEF FetchFails
  <2> QED
    BY <1>0, <1>7, <2>1 DEF FetchFails, Move
<1>8. ASSUME NEW r \in Requests, SetAccountCredential(r) PROVE WxTypeOK'
  <2>1. row' \in [Accounts -> [buf : Buffers, token : Tokens, status : Statuses]]
    <3>1. fresh[r].buf \in Buffers /\ fresh[r].token \in Tokens
      BY DEF Pairs
    <3>2. row' \in {row, [row EXCEPT ![acc[r].acct].buf = fresh[r].buf,
                                   ![acc[r].acct].token = fresh[r].token]}
      BY <1>8 DEF SetAccountCredential
    <3> QED
      BY <3>1, <3>2
  <2>2. lost' \in [Accounts -> BOOLEAN]
    BY <1>8 DEF SetAccountCredential
  <2> QED
    BY <1>0, <1>8, <2>1, <2>2 DEF SetAccountCredential, Move
<1>9. ASSUME NEW r \in Requests, HangUp(r) PROVE WxTypeOK'
  BY <1>9 DEF HangUp
<1>10. ASSUME NEW a \in Accounts, Confirm(a) PROVE WxTypeOK'
  <2>1. last' \in Pairs /\ tokenOf' \in [Buffers -> Tokens]
    <3>1. last' = [buf |-> last.buf + 1, token |-> last.token + 1]
      BY <1>10 DEF Confirm
    <3>2. tokenOf' = [tokenOf EXCEPT ![last.buf + 1] = last.token + 1]
      BY <1>10 DEF Confirm
    <3>3. last.buf + 1 \in Buffers /\ last.token + 1 \in Tokens
      BY <1>10 DEF Confirm
    <3> QED
      BY <3>1, <3>2, <3>3 DEF Pairs
  <2>2. valid' \in [Accounts -> SUBSET (Tokens \ {0})]
    <3>1. last.token \in Nat
      BY DEF Pairs
    <3>3. last.token + 1 \in Tokens
      BY <1>10 DEF Confirm
    <3>2. valid' = [valid EXCEPT ![a] = @ \cup {last.token + 1}]
      BY <1>10 DEF Confirm
    <3> QED
      BY <3>1, <3>2, <3>3
  <2>3. scan' \in [Accounts -> Pairs \cup {Null}]
    BY <1>10, <2>1 DEF Confirm
  <2> QED
    BY <1>10, <2>1, <2>2, <2>3 DEF Confirm
<1>11. ASSUME NEW a \in Accounts, StoreFromScan(a) PROVE WxTypeOK'
  <2>1. scan[a] \in Pairs
    BY <1>11 DEF StoreFromScan
  <2>2. [buf |-> scan[a].buf, token |-> scan[a].token, status |-> "alive"]
          \in [buf : Buffers, token : Tokens, status : Statuses]
    BY <2>1 DEF Pairs, Statuses
  <2>3. row' \in [Accounts -> [buf : Buffers, token : Tokens, status : Statuses]]
    BY <1>11, <2>2 DEF StoreFromScan
  <2>4. lost' \in [Accounts -> BOOLEAN]
    BY <1>11 DEF StoreFromScan
  <2> QED
    BY <1>11, <2>3, <2>4 DEF StoreFromScan
<1>12. ASSUME NEW a \in Accounts, DropQRSession(a) PROVE WxTypeOK'
  BY <1>12 DEF DropQRSession
<1>13. CASE WxRestart
  <2>1. lost' \in [Accounts -> BOOLEAN]
    BY <1>13 DEF WxRestart
  <2> QED
    BY <1>0, <1>13, <2>1 DEF WxRestart
<1> QED
  BY <1>1, <1>2, <1>3, <1>4, <1>5, <1>6, <1>7, <1>8, <1>9, <1>10, <1>11, <1>12, <1>13, Passing
     DEF WxNext, RequestStep, RefreshStep, vars

--------------------------------------------------------------------------------
(* A new buffer gets a number of its own, so no pair that is out changes.      *)
LEMMA PairStep ==
    ASSUME WxTypeOK, PairsIssued, [WxNext]_vars
    PROVE  PairsIssued'
<1> USE TokensAssumption
<1> USE DEF WxTypeOK, PairsIssued, Issued, server, Pairs
<1>1. ASSUME UNCHANGED wxVars PROVE PairsIssued'
  BY <1>1 DEF wxVars
<1>2. ASSUME NEW r \in Requests, Passes(r) PROVE PairsIssued'
  <2>1. \A q \in Requests : at'[q] = "save" => at[q] = "save" /\ fresh'[q] = fresh[q]
    BY <1>2 DEF Passes
  <2> QED
    BY <1>2, <2>1 DEF Passes
<1>3. ASSUME NEW r \in Requests, NEW a \in Accounts, Arrive(r, a) PROVE PairsIssued'
  BY <1>3 DEF Arrive
<1>4. ASSUME NEW r \in Requests, RefreshCredentials(r) PROVE PairsIssued'
  <2>1. \A q \in Requests : at'[q] = "save" => at[q] = "save" /\ fresh'[q] = fresh[q]
    BY <1>4 DEF RefreshCredentials, Move
  <2>2. last'.buf = last.buf /\ UNCHANGED <<row, scan, tokenOf>>
    BY <1>4 DEF RefreshCredentials
  <2> QED
    BY <2>1, <2>2
<1>5. ASSUME NEW r \in Requests, RefreshAnswerLost(r) PROVE PairsIssued'
  BY <1>5 DEF RefreshAnswerLost, Move
<1>6. ASSUME NEW p, p.buf \in Buffers, Issued(p), last'.buf = last.buf + 1,
             NEW t, tokenOf' = [tokenOf EXCEPT ![last.buf + 1] = t]
      PROVE  p.buf <= last'.buf /\ p.token = tokenOf'[p.buf]
  <2>1. p.buf \in Nat /\ last.buf \in Nat
    BY <1>6
  <2>2. p.buf <= last'.buf /\ p.buf # last.buf + 1
    BY <1>6, <2>1
  <2>3. tokenOf'[p.buf] = tokenOf[p.buf]
    BY <1>6, <2>2
  <2> QED
    BY <1>6, <2>2, <2>3
<1>7. ASSUME NEW r \in Requests, FetchLoginBuffer(r) PROVE PairsIssued'
  <2>1. /\ last.buf + 1 \in Buffers /\ last'.buf = last.buf + 1
        /\ tokenOf' = [tokenOf EXCEPT ![last.buf + 1] = fresh[r].token]
        /\ fresh' = [fresh EXCEPT ![r].buf = last.buf + 1]
        /\ at' = [at EXCEPT ![r] = "save"]
        /\ UNCHANGED <<row, scan>>
    BY <1>7 DEF FetchLoginBuffer, Move
  <2>2. fresh'[r].buf = last'.buf /\ fresh'[r].token = tokenOf'[fresh'[r].buf]
    BY <2>1
  <2>3. ASSUME NEW q \in Requests, at'[q] = "save"
        PROVE  fresh'[q].buf <= last'.buf /\ fresh'[q].token = tokenOf'[fresh'[q].buf]
    <3>1. CASE q = r
      BY <2>1, <2>2, <3>1
    <3>2. CASE q # r
      <4>1. fresh'[q] = fresh[q] /\ Issued(fresh[q])
        BY <2>1, <2>3, <3>2
      <4> QED
        BY <1>6, <2>1, <4>1
    <3> QED
      BY <3>1, <3>2
  <2>4. \A a \in Accounts : row[a].buf <= last'.buf /\ row[a].token = tokenOf'[row[a].buf]
    BY <1>6, <2>1
  <2>5. \A a \in Accounts : scan[a] # Null =>
          scan[a].buf <= last'.buf /\ scan[a].token = tokenOf'[scan[a].buf]
    BY <1>6, <2>1
  <2> QED
    BY <2>1, <2>3, <2>4, <2>5
<1>8. ASSUME NEW r \in Requests, FetchFails(r) PROVE PairsIssued'
  BY <1>8 DEF FetchFails, Move
<1>9. ASSUME NEW r \in Requests, SetAccountCredential(r) PROVE PairsIssued'
  <2>1. /\ \A q \in Requests : at'[q] = "save" => at[q] = "save" /\ fresh'[q] = fresh[q]
        /\ at[r] = "save"
    BY <1>9 DEF SetAccountCredential, Move
  <2>2. row' \in {row, [row EXCEPT ![acc[r].acct].buf = fresh[r].buf,
                                 ![acc[r].acct].token = fresh[r].token]}
    BY <1>9 DEF SetAccountCredential
  <2>3. \A a \in Accounts : Issued(row'[a])
    BY <2>1, <2>2
  <2> QED
    BY <1>9, <2>1, <2>3 DEF SetAccountCredential
<1>10. ASSUME NEW r \in Requests, HangUp(r) PROVE PairsIssued'
  BY <1>10 DEF HangUp
<1>11. ASSUME NEW a \in Accounts, Confirm(a) PROVE PairsIssued'
  <2>1. /\ last.buf + 1 \in Buffers /\ last' = [buf |-> last.buf + 1, token |-> last.token + 1]
        /\ tokenOf' = [tokenOf EXCEPT ![last.buf + 1] = last.token + 1]
        /\ scan' = [scan EXCEPT ![a] = last']
        /\ UNCHANGED <<row, at, fresh>>
    BY <1>11 DEF Confirm
  <2>2. ASSUME NEW q \in Requests, at'[q] = "save"
        PROVE  fresh'[q].buf <= last'.buf /\ fresh'[q].token = tokenOf'[fresh'[q].buf]
    BY <1>6, <2>1, <2>2
  <2>3. \A b \in Accounts : row[b].buf <= last'.buf /\ row[b].token = tokenOf'[row[b].buf]
    BY <1>6, <2>1
  <2>4. ASSUME NEW b \in Accounts, scan'[b] # Null
        PROVE  scan'[b].buf <= last'.buf /\ scan'[b].token = tokenOf'[scan'[b].buf]
    <3>1. CASE b = a
      <4>1. last'.token = tokenOf'[last'.buf] /\ last'.buf \in Nat
        BY <2>1
      <4> QED
        BY <2>1, <3>1, <4>1
    <3>2. CASE b # a
      BY <1>6, <2>1, <2>4, <3>2
    <3> QED
      BY <3>1, <3>2
  <2> QED
    BY <2>1, <2>2, <2>3, <2>4
<1>12. ASSUME NEW a \in Accounts, StoreFromScan(a) PROVE PairsIssued'
  <2>1. Issued(scan[a]) /\ row' = [row EXCEPT ![a] =
                              [buf |-> scan[a].buf, token |-> scan[a].token, status |-> "alive"]]
    BY <1>12 DEF StoreFromScan
  <2>2. \A b \in Accounts : Issued(row'[b])
    BY <2>1
  <2> QED
    BY <1>12, <2>2 DEF StoreFromScan
<1>13. ASSUME NEW a \in Accounts, DropQRSession(a) PROVE PairsIssued'
  BY <1>13 DEF DropQRSession
<1>14. CASE WxRestart
  BY <1>14 DEF WxRestart
<1> QED
  BY <1>1, <1>2, <1>3, <1>4, <1>5, <1>7, <1>8, <1>9, <1>10, <1>11, <1>12, <1>13, <1>14, Passing
     DEF WxNext, RequestStep, RefreshStep, vars

(* Tokens are numbered as they are issued, and only copied afterwards.         *)
LEMMA TokenStep ==
    ASSUME WxTypeOK, TokensIssued, [WxNext]_vars
    PROVE  TokensIssued'
<1> USE TokensAssumption
<1> USE DEF WxTypeOK, TokensIssued, server, Pairs
<1>0. /\ last.token \in Nat
      /\ NoSnapshot.token = 0 /\ NoPair.token = 0
  BY DEF NoSnapshot, NoPair
<1>1. ASSUME UNCHANGED wxVars PROVE TokensIssued'
  BY <1>1 DEF wxVars
<1>2. ASSUME NEW r \in Requests, Passes(r) PROVE TokensIssued'
  <2>1. \A q \in Requests : acc'[q] \in {acc[q], NoSnapshot} /\ fresh'[q] \in {fresh[q], NoPair}
    BY <1>2 DEF Passes
  <2>2. UNCHANGED <<last, scan>> /\ \A a \in Accounts : row'[a].token = row[a].token
    BY <1>2 DEF Passes
  <2> QED
    BY <1>0, <2>1, <2>2
<1>3. ASSUME NEW r \in Requests, NEW a \in Accounts, Arrive(r, a) PROVE TokensIssued'
  <2>1. \A q \in Requests : acc'[q] = acc[q] \/ acc'[q].token = row[a].token
    BY <1>3 DEF Arrive
  <2> QED
    BY <1>3, <2>1 DEF Arrive
<1>4. ASSUME NEW r \in Requests, RefreshCredentials(r) PROVE TokensIssued'
  <2>1. last'.token \in {last.token, last.token + 1}
    BY <1>4 DEF RefreshCredentials
  <2>2. fresh'[r].token <= last'.token /\ \A q \in Requests \ {r} : fresh'[q] = fresh[q]
    BY <1>4, <1>0 DEF RefreshCredentials
  <2>3. \A t \in Tokens : t <= last.token => t <= last'.token
    BY <1>0, <2>1
  <2>4. \A q \in Requests : acc[q].token \in Tokens
    BY DEF Snapshots
  <2> QED
    BY <1>4, <2>2, <2>3, <2>4 DEF RefreshCredentials
<1>5. ASSUME NEW r \in Requests, RefreshAnswerLost(r) PROVE TokensIssued'
  BY <1>5 DEF RefreshAnswerLost
<1>6. ASSUME NEW r \in Requests, FetchLoginBuffer(r) PROVE TokensIssued'
  <2>1. last'.token = last.token /\ \A q \in Requests : fresh'[q].token = fresh[q].token
    BY <1>6 DEF FetchLoginBuffer
  <2> QED
    BY <1>6, <2>1 DEF FetchLoginBuffer
<1>7. ASSUME NEW r \in Requests, FetchFails(r) PROVE TokensIssued'
  BY <1>0, <1>7 DEF FetchFails
<1>8. ASSUME NEW r \in Requests, SetAccountCredential(r) PROVE TokensIssued'
  <2>1. row' \in {row, [row EXCEPT ![acc[r].acct].buf = fresh[r].buf,
                                 ![acc[r].acct].token = fresh[r].token]}
    BY <1>8 DEF SetAccountCredential
  <2>2. \A a \in Accounts : row'[a].token <= last.token
    BY <2>1
  <2> QED
    BY <1>0, <1>8, <2>2 DEF SetAccountCredential
<1>9. ASSUME NEW r \in Requests, HangUp(r) PROVE TokensIssued'
  BY <1>9 DEF HangUp
<1>10. ASSUME NEW a \in Accounts, Confirm(a) PROVE TokensIssued'
  <2>1. /\ last'.token = last.token + 1
        /\ \A b \in Accounts : scan'[b] # Null => scan'[b] = scan[b] \/ scan'[b] = last'
        /\ UNCHANGED <<row, acc, fresh>>
    BY <1>10 DEF Confirm
  <2>2. \A t \in Tokens : t <= last.token => t <= last'.token
    BY <1>0, <2>1
  <2>3. \A q \in Requests : acc[q].token \in Tokens
    BY DEF Snapshots
  <2>4. last'.token <= last'.token
    BY <1>0, <2>1
  <2> QED
    BY <2>1, <2>2, <2>3, <2>4
<1>11. ASSUME NEW a \in Accounts, StoreFromScan(a) PROVE TokensIssued'
  <2>1. \A b \in Accounts : row'[b] = row[b] \/ (scan[a] # Null /\ row'[b].token = scan[a].token)
    BY <1>11 DEF StoreFromScan
  <2> QED
    BY <1>11, <2>1 DEF StoreFromScan
<1>12. ASSUME NEW a \in Accounts, DropQRSession(a) PROVE TokensIssued'
  BY <1>12 DEF DropQRSession
<1>13. CASE WxRestart
  BY <1>0, <1>13 DEF WxRestart
<1> QED
  BY <1>1, <1>2, <1>3, <1>4, <1>5, <1>6, <1>7, <1>8, <1>9, <1>10, <1>11, <1>12, <1>13, Passing
     DEF WxNext, RequestStep, RefreshStep, vars

--------------------------------------------------------------------------------
(* A step that starts no refresh, spends only tokens somebody else holds and   *)
(* hands on only what is held or new leaves every refresh its token.           *)
LeavesRefreshes ==
    /\ \A q \in Requests : Refreshing(q)' =>
         /\ Refreshing(q) /\ acc'[q] = acc[q] /\ fresh'[q].token = fresh[q].token
    /\ \A q \in Requests : Refreshing(q) =>
         /\ \A a \in Accounts : fresh[q].token \in valid[a] => fresh[q].token \in valid'[a]
         /\ \A p \in Requests :
              /\ acc'[p].token # acc[p].token => acc'[p].token # fresh[q].token
              /\ p # q /\ fresh'[p].token # fresh[p].token => fresh'[p].token # fresh[q].token
         /\ \A a \in Accounts :
              /\ row'[a].token # row[a].token => row'[a].token # fresh[q].token
              /\ scan'[a] # Null /\ scan'[a] # scan[a] => scan'[a].token # fresh[q].token

(* A step that touches no refresh in flight.                                   *)
LEMMA RefreshesLeft ==
    ASSUME WxTypeOK, FreshTokensOwn, LeavesRefreshes
    PROVE  FreshTokensOwn'
<1> SUFFICES ASSUME NEW r \in Requests, Refreshing(r)'
             PROVE  /\ Carries(r, acc[r].acct)'
                    /\ \A a \in Accounts : row'[a].token # fresh'[r].token
                    /\ \A a \in Accounts : scan'[a] # Null => scan'[a].token # fresh'[r].token
                    /\ \A q \in Requests : acc'[q].token # fresh'[r].token
                    /\ \A q \in Requests \ {r} : fresh'[q].token # fresh'[r].token
  BY DEF FreshTokensOwn, Refreshing
<1> USE DEF LeavesRefreshes
<1>1. /\ Refreshing(r) /\ acc'[r] = acc[r] /\ fresh'[r].token = fresh[r].token
      /\ acc[r].acct \in Accounts
  BY DEF WxTypeOK, Snapshots
<1>2. Carries(r, acc[r].acct)
  BY <1>1 DEF FreshTokensOwn, Refreshing
<1>3. fresh[r].token \in valid'[acc[r].acct]
  BY <1>1, <1>2 DEF Carries
<1>4. Carries(r, acc[r].acct)'
  BY <1>1, <1>3 DEF Carries, Refreshing
<1>5. \A a \in Accounts : row'[a].token # fresh[r].token
  BY <1>1 DEF FreshTokensOwn, Refreshing
<1>6. \A a \in Accounts : scan'[a] # Null => scan'[a].token # fresh[r].token
  BY <1>1 DEF FreshTokensOwn, Refreshing
<1>7. \A q \in Requests : acc'[q].token # fresh[r].token
  BY <1>1 DEF FreshTokensOwn, Refreshing
<1>8. \A q \in Requests \ {r} : fresh'[q].token # fresh[r].token
  BY <1>1 DEF FreshTokensOwn, Refreshing
<1> QED
  BY <1>1, <1>4, <1>5, <1>6, <1>7, <1>8

(* All steps: a refresh in flight has a token nobody else has.                 *)
LEMMA OwnStep ==
    ASSUME WxTypeOK, TokensIssued, FreshTokensOwn, [WxNext]_vars
    PROVE  FreshTokensOwn'
<1> USE TokensAssumption
<1> USE DEF WxTypeOK, server, Refreshing, Rotated
<1>a. /\ last.token \in Nat
      /\ NoSnapshot.token = 0 /\ NoPair.token = 0
  BY DEF NoSnapshot, NoPair, Pairs
<1>b. \A q \in Requests : Refreshing(q) =>
        /\ fresh[q].token \in valid[acc[q].acct] /\ fresh[q].token # 0
        /\ fresh[q].token # last.token + 1
        /\ acc[q].acct \in Accounts
  BY <1>a DEF FreshTokensOwn, Carries, Snapshots, TokensIssued, Pairs
<1> USE DEF LeavesRefreshes
<1>1. ASSUME UNCHANGED wxVars PROVE FreshTokensOwn'
  BY <1>1, RefreshesLeft DEF wxVars
<1>2. ASSUME NEW r \in Requests, Passes(r) PROVE FreshTokensOwn'
  <2>1. \A q \in Requests : q # r => at'[q] = at[q] /\ acc'[q] = acc[q] /\ fresh'[q] = fresh[q]
    BY <1>2 DEF Passes
  <2>2. /\ acc'[r] \in {acc[r], NoSnapshot} /\ fresh'[r] \in {fresh[r], NoPair}
        /\ ~Refreshing(r) /\ ~Refreshing(r)'
    BY <1>2 DEF Passes
  <2>3. UNCHANGED <<valid, scan>> /\ \A a \in Accounts : row'[a].token = row[a].token
    BY <1>2 DEF Passes
  <2> QED
    BY <1>a, <1>b, <2>1, <2>2, <2>3, RefreshesLeft
<1>3. ASSUME NEW r \in Requests, NEW a \in Accounts, Arrive(r, a) PROVE FreshTokensOwn'
  <2>1. acc'[r].token = row[a].token /\ ~Refreshing(r) /\ ~Refreshing(r)'
    BY <1>3 DEF Arrive
  <2>2. \A q \in Requests : q # r => at'[q] = at[q] /\ acc'[q] = acc[q]
    BY <1>3 DEF Arrive
  <2>3. UNCHANGED <<valid, scan, row, fresh>>
    BY <1>3 DEF Arrive
  <2>4. \A q \in Requests : Refreshing(q) => fresh[q].token # row[a].token
    BY DEF FreshTokensOwn
  <2> QED
    BY <2>1, <2>2, <2>3, <2>4, RefreshesLeft
<1>4. ASSUME NEW r \in Requests, RefreshCredentials(r) PROVE FreshTokensOwn'
  <2> DEFINE new == last.token + 1
  <2>1. /\ at[r] = "refresh" /\ at' = [at EXCEPT ![r] = "fetch"]
        /\ UNCHANGED <<row, scan, acc>>
    BY <1>4 DEF RefreshCredentials, Move
  <2>2. \/ fresh' = [fresh EXCEPT ![r].token = acc[r].token] /\ valid' = valid
        \/ /\ fresh' = [fresh EXCEPT ![r].token = new]
           /\ valid' = [valid EXCEPT ![acc[r].acct] = (@ \ {acc[r].token}) \cup {new}]
    BY <1>4 DEF RefreshCredentials
  <2>3. /\ acc[r].acct \in Accounts
        /\ \A a \in Accounts : row[a].token # new /\ (scan[a] # Null => scan[a].token # new)
        /\ \A q \in Requests : acc[q].token # new /\ fresh[q].token # new
    BY <1>a DEF TokensIssued, Snapshots, Pairs
  <2> HIDE DEF new
  <2>4. CASE fresh' = [fresh EXCEPT ![r].token = acc[r].token] /\ valid' = valid
    <3>1. ~Refreshing(r)'
      BY <2>1, <2>4
    <3>2. \A q \in Requests : q # r => at'[q] = at[q] /\ fresh'[q] = fresh[q]
      BY <2>1, <2>4
    <3>3. \A q \in Requests : Refreshing(q) => fresh'[r].token # fresh[q].token
      BY <2>4 DEF FreshTokensOwn
    <3> QED
      BY <2>1, <2>4, <3>1, <3>2, <3>3, RefreshesLeft
  <2>5. CASE /\ fresh' = [fresh EXCEPT ![r].token = new]
             /\ valid' = [valid EXCEPT ![acc[r].acct] = (@ \ {acc[r].token}) \cup {new}]
    <3>1. fresh'[r].token = new /\ \A q \in Requests \ {r} : fresh'[q] = fresh[q]
      BY <2>5
    <3>2. new \in valid'[acc[r].acct]
      BY <2>3, <2>5
    <3>3. ASSUME NEW q \in Requests, Refreshing(q)'
          PROVE  /\ Carries(q, acc[q].acct)'
                 /\ \A a \in Accounts : row'[a].token # fresh'[q].token
                 /\ \A a \in Accounts : scan'[a] # Null => scan'[a].token # fresh'[q].token
                 /\ \A p \in Requests : acc'[p].token # fresh'[q].token
                 /\ \A p \in Requests \ {q} : fresh'[p].token # fresh'[q].token
      <4>1. CASE q = r
        BY <2>1, <2>3, <3>1, <3>2, <3>3, <4>1 DEF Carries
      <4>2. CASE q # r
        <5>1. Refreshing(q) /\ fresh'[q] = fresh[q] /\ acc'[q] = acc[q]
          BY <2>1, <3>1, <3>3, <4>2
        <5>2. fresh[q].token # acc[r].token
          BY <5>1 DEF FreshTokensOwn
        <5>3. fresh[q].token \in valid'[acc[q].acct]
          BY <1>b, <2>3, <2>5, <5>1, <5>2
        <5>4. Carries(q, acc[q].acct)'
          BY <3>3, <5>1, <5>3 DEF Carries
        <5> QED
          BY <2>1, <2>3, <3>1, <5>1, <5>4 DEF FreshTokensOwn
      <4> QED
        BY <4>1, <4>2
    <3> QED
      BY <3>3 DEF FreshTokensOwn
  <2> QED
    BY <2>2, <2>4, <2>5
<1>5. ASSUME NEW r \in Requests, RefreshAnswerLost(r) PROVE FreshTokensOwn'
  <2>1. /\ \A q \in Requests : Refreshing(q)' => Refreshing(q)
        /\ valid' = [valid EXCEPT ![acc[r].acct] = @ \ {acc[r].token}]
        /\ UNCHANGED <<row, scan, acc, fresh>>
    BY <1>5 DEF RefreshAnswerLost, Move
  <2>2. \A q \in Requests : Refreshing(q) => fresh[q].token # acc[r].token
    BY DEF FreshTokensOwn
  <2> QED
    BY <2>1, <2>2, RefreshesLeft
<1>6. ASSUME NEW r \in Requests, FetchLoginBuffer(r) PROVE FreshTokensOwn'
  <2>1. /\ \A q \in Requests : Refreshing(q)' => Refreshing(q)
        /\ \A q \in Requests : fresh'[q].token = fresh[q].token
        /\ UNCHANGED <<row, scan, acc, valid>>
    BY <1>6 DEF FetchLoginBuffer, Move
  <2> QED
    BY <2>1, RefreshesLeft
<1>7. ASSUME NEW r \in Requests, FetchFails(r) PROVE FreshTokensOwn'
  <2>1. /\ ~Refreshing(r)' /\ fresh'[r] = NoPair
        /\ \A q \in Requests : q # r => at'[q] = at[q] /\ fresh'[q] = fresh[q]
        /\ UNCHANGED <<row, scan, acc, valid>>
    BY <1>7 DEF FetchFails, Move
  <2> QED
    BY <1>a, <1>b, <2>1, RefreshesLeft
<1>8. ASSUME NEW r \in Requests, SetAccountCredential(r) PROVE FreshTokensOwn'
  <2>1. /\ ~Refreshing(r)' /\ fresh'[r] = NoPair
        /\ \A q \in Requests : q # r => at'[q] = at[q] /\ fresh'[q] = fresh[q]
        /\ UNCHANGED <<scan, acc, valid>>
    BY <1>8 DEF SetAccountCredential, Move
  <2>2. \A a \in Accounts : row'[a] = row[a] \/ row'[a].token = fresh[r].token
    BY <1>8 DEF SetAccountCredential
  <2>3. \A q \in Requests : Refreshing(q) /\ q # r => fresh[q].token # fresh[r].token
    BY DEF FreshTokensOwn
  <2>4. ASSUME NEW q \in Requests, Refreshing(q)'
        PROVE  /\ Carries(q, acc[q].acct)'
               /\ \A a \in Accounts : row'[a].token # fresh'[q].token
               /\ \A a \in Accounts : scan'[a] # Null => scan'[a].token # fresh'[q].token
               /\ \A p \in Requests : acc'[p].token # fresh'[q].token
               /\ \A p \in Requests \ {q} : fresh'[p].token # fresh'[q].token
    <3>1. q # r /\ Refreshing(q) /\ at'[q] = at[q] /\ fresh'[q] = fresh[q]
      BY <2>1, <2>4
    <3>2. Carries(q, acc[q].acct)'
      BY <2>1, <3>1 DEF FreshTokensOwn, Carries
    <3> QED
      BY <1>a, <1>b, <2>1, <2>2, <2>3, <3>1, <3>2 DEF FreshTokensOwn
  <2> QED
    BY <2>4 DEF FreshTokensOwn
<1>9. ASSUME NEW r \in Requests, HangUp(r) PROVE FreshTokensOwn'
  BY <1>9, RefreshesLeft DEF HangUp
<1>10. ASSUME NEW a \in Accounts, Confirm(a) PROVE FreshTokensOwn'
  <2>1. /\ \A b \in Accounts : valid[b] \subseteq valid'[b]
        /\ \A b \in Accounts : scan'[b] = scan[b] \/ scan'[b].token = last.token + 1
        /\ UNCHANGED <<row, at, acc, fresh>>
    BY <1>10 DEF Confirm
  <2> QED
    BY <1>b, <2>1, RefreshesLeft
<1>11. ASSUME NEW a \in Accounts, StoreFromScan(a) PROVE FreshTokensOwn'
  <2>1. /\ scan[a] # Null
        /\ \A b \in Accounts : row'[b] = row[b] \/ row'[b].token = scan[a].token
        /\ UNCHANGED <<valid, scan, at, acc, fresh>>
    BY <1>11 DEF StoreFromScan
  <2>2. \A q \in Requests : Refreshing(q) => scan[a].token # fresh[q].token
    BY <2>1 DEF FreshTokensOwn
  <2> QED
    BY <2>1, <2>2, RefreshesLeft
<1>12. ASSUME NEW a \in Accounts, DropQRSession(a) PROVE FreshTokensOwn'
  BY <1>12, RefreshesLeft DEF DropQRSession
<1>13. CASE WxRestart
  BY <1>13 DEF WxRestart, FreshTokensOwn
<1> QED
  BY <1>1, <1>2, <1>3, <1>4, <1>5, <1>6, <1>7, <1>8, <1>9, <1>10, <1>11, <1>12, <1>13, Passing
     DEF WxNext, RequestStep, RefreshStep, vars

(* A row keeps its token, and who carries one goes on, unless it is lost.      *)
KeepsTokens ==
    \A a \in Accounts : Present(a)' =>
        \/ lost'[a]
        \/ row'[a].token \in valid'[a]
        \/ /\ Present(a) /\ row'[a].token = row[a].token /\ lost[a] = lost'[a]
           /\ row[a].token \in valid[a] => row[a].token \in valid'[a]
           /\ \A q \in Requests : Carries(q, a) => Carries(q, a)'
        \/ \E q \in Requests : Carries(q, a)'

(* A step that saves no token and starts no refresh.                           *)
LEMMA TokensKept ==
    ASSUME TokenKept, KeepsTokens
    PROVE  TokenKept'
<1> SUFFICES ASSUME NEW a \in Accounts, Present(a)', row'[a].token # 0, ~lost'[a]
             PROVE  row'[a].token \in valid'[a] \/ \E q \in Requests : Carries(q, a)'
  BY DEF TokenKept
<1>1. CASE row'[a].token \in valid'[a] \/ \E q \in Requests : Carries(q, a)'
  BY <1>1
<1>2. CASE /\ Present(a) /\ row'[a].token = row[a].token /\ lost[a] = lost'[a]
           /\ row[a].token \in valid[a] => row[a].token \in valid'[a]
           /\ \A q \in Requests : Carries(q, a) => Carries(q, a)'
  BY <1>2 DEF TokenKept
<1> QED
  BY <1>1, <1>2 DEF KeepsTokens

(* All steps: the newest token is saved or about to be.                        *)
LEMMA KeptStep ==
    ASSUME PoolTypeOK, WxTypeOK, TokensIssued, FreshTokensOwn, TokenKept, [WxNext]_vars
    PROVE  TokenKept'
<1> USE DEF WxTypeOK, server, KeepsTokens, Present
<1>1. ASSUME UNCHANGED wxVars, accounts' = accounts PROVE TokenKept'
  BY <1>1, TokensKept DEF wxVars, Carries, Rotated
<1>2. ASSUME NEW r \in Requests, Passes(r) PROVE TokenKept'
  <2>1. \A q \in Requests, a \in Accounts : Carries(q, a) => Carries(q, a)'
    <3>1. \A q \in Requests : q # r => at'[q] = at[q] /\ acc'[q] = acc[q] /\ fresh'[q] = fresh[q]
      BY <1>2 DEF Passes
    <3>2. at[r] \notin {"fetch", "save"} /\ valid' = valid
      BY <1>2 DEF Passes
    <3> QED
      BY <3>1, <3>2 DEF Carries, Rotated
  <2> QED
    BY <1>2, <2>1, TokensKept DEF Passes
<1>3. ASSUME NEW r \in Requests, NEW a \in Accounts, Arrive(r, a) PROVE TokenKept'
  <2>1. \A q \in Requests, b \in Accounts : Carries(q, b) => Carries(q, b)'
    BY <1>3 DEF Arrive, Carries, Rotated
  <2> QED
    BY <1>3, <2>1, TokensKept DEF Arrive, poolVars
<1>4. ASSUME NEW r \in Requests, RefreshCredentials(r) PROVE TokenKept'
  <2> DEFINE new == last.token + 1
  <2>1. /\ at[r] = "refresh" /\ at' = [at EXCEPT ![r] = "fetch"]
        /\ UNCHANGED <<accounts, row, acc, lost>>
    BY <1>4 DEF RefreshCredentials, Move, poolVars
  <2>2. \/ fresh' = [fresh EXCEPT ![r].token = acc[r].token] /\ valid' = valid
        \/ /\ fresh' = [fresh EXCEPT ![r].token = new]
           /\ valid' = [valid EXCEPT ![acc[r].acct] = (@ \ {acc[r].token}) \cup {new}]
    BY <1>4 DEF RefreshCredentials
  <2>3. acc[r].acct \in Accounts /\ acc[r].token # new
    <3>1. acc[r] \in Snapshots /\ last \in Pairs
      OBVIOUS
    <3>2. acc[r].acct \in Accounts /\ acc[r].token \in Nat /\ last.token \in Nat
      BY <3>1, TokensAssumption DEF Snapshots, Pairs
    <3>3. acc[r].token <= last.token
      BY DEF TokensIssued
    <3> QED
      BY <3>2, <3>3
  <2> HIDE DEF new
  <2>4. CASE fresh' = [fresh EXCEPT ![r].token = acc[r].token] /\ valid' = valid
    <3>1. \A q \in Requests, a \in Accounts : Carries(q, a) => Carries(q, a)'
      BY <2>1, <2>4 DEF Carries, Rotated
    <3> QED
      BY <2>1, <2>4, <3>1, TokensKept
  <2>5. CASE /\ fresh' = [fresh EXCEPT ![r].token = new]
             /\ valid' = [valid EXCEPT ![acc[r].acct] = (@ \ {acc[r].token}) \cup {new}]
    <3>1. Carries(r, acc[r].acct)'
      BY <2>1, <2>3, <2>5 DEF Carries, Rotated
    <3>2. ASSUME NEW a \in Accounts, a # acc[r].acct
          PROVE  valid'[a] = valid[a] /\ \A q \in Requests : Carries(q, a) => Carries(q, a)'
      BY <2>1, <2>5, <3>2 DEF Carries, Rotated
    <3> QED
      BY <2>1, <3>1, <3>2, TokensKept
  <2> QED
    BY <2>2, <2>4, <2>5
<1>5. ASSUME NEW r \in Requests, RefreshAnswerLost(r) PROVE TokenKept'
  <2>1. /\ at[r] = "refresh" /\ at' = [at EXCEPT ![r] = "markExpired"]
        /\ valid' = [valid EXCEPT ![acc[r].acct] = @ \ {acc[r].token}]
        /\ lost' = [lost EXCEPT ![acc[r].acct] = @ \/ row[acc[r].acct].token = acc[r].token]
        /\ UNCHANGED <<accounts, row, acc, fresh>>
    BY <1>5 DEF RefreshAnswerLost, Move, poolVars
  <2>2. acc[r].acct \in Accounts
    BY DEF Snapshots
  <2>3. ASSUME NEW q \in Requests, NEW a \in Accounts, Carries(q, a) PROVE Carries(q, a)'
    <3>1. fresh[q].token # acc[r].token
      BY <2>3 DEF Carries, FreshTokensOwn, Refreshing
    <3> QED
      BY <2>1, <2>2, <2>3, <3>1 DEF Carries, Rotated
  <2>4. ASSUME NEW a \in Accounts
        PROVE  \/ lost'[a]
               \/ lost'[a] = lost[a] /\ (row[a].token \in valid[a] => row[a].token \in valid'[a])
    <3>1. CASE a = acc[r].acct /\ row[a].token = acc[r].token
      BY <2>1, <2>2, <3>1
    <3>2. CASE a = acc[r].acct /\ row[a].token # acc[r].token
      BY <2>1, <2>2, <3>2
    <3>3. CASE a # acc[r].acct
      BY <2>1, <2>2, <3>3
    <3> QED
      BY <3>1, <3>2, <3>3
  <2> QED
    BY <2>1, <2>3, <2>4, TokensKept
<1>6. ASSUME NEW r \in Requests, FetchLoginBuffer(r) PROVE TokenKept'
  <2>1. \A q \in Requests, a \in Accounts : Carries(q, a) => Carries(q, a)'
    BY <1>6 DEF FetchLoginBuffer, Move, Carries, Rotated
  <2> QED
    BY <1>6, <2>1, TokensKept DEF FetchLoginBuffer, poolVars
<1>7. ASSUME NEW r \in Requests, FetchFails(r) PROVE TokenKept'
  <2>1. /\ at' = [at EXCEPT ![r] = "markExpired"]
        /\ lost' = [lost EXCEPT ![acc[r].acct] = @ \/ Rotated(r)]
        /\ fresh' = [fresh EXCEPT ![r] = NoPair]
        /\ UNCHANGED <<accounts, row, acc, valid>>
    BY <1>7 DEF FetchFails, Move, poolVars
  <2>2. acc[r].acct \in Accounts
    BY DEF Snapshots
  <2>3. ASSUME NEW a \in Accounts
        PROVE  lost'[a] \/ (lost'[a] = lost[a] /\ \A q \in Requests : Carries(q, a) => Carries(q, a)')
    <3>1. CASE a = acc[r].acct /\ Rotated(r)
      BY <2>1, <2>2, <3>1
    <3>2. CASE ~(a = acc[r].acct /\ Rotated(r))
      <4>1. lost'[a] = lost[a] /\ ~Carries(r, a)
        BY <2>1, <2>2, <3>2 DEF Carries
      <4>2. \A q \in Requests : q # r /\ Carries(q, a) => Carries(q, a)'
        BY <2>1 DEF Carries, Rotated
      <4> QED
        BY <4>1, <4>2
    <3> QED
      BY <3>1, <3>2
  <2> QED
    BY <2>1, <2>3, TokensKept
<1>8. ASSUME NEW r \in Requests, SetAccountCredential(r) PROVE TokenKept'
  <2>1. /\ at[r] = "save" /\ at' = [at EXCEPT ![r] = "markAlive"]
        /\ fresh' = [fresh EXCEPT ![r] = NoPair]
        /\ UNCHANGED <<accounts, acc, valid>>
    BY <1>8 DEF SetAccountCredential, Move, poolVars
  <2>2. acc[r].acct \in Accounts
    BY DEF Snapshots
  <2>3. ASSUME NEW q \in Requests, NEW a \in Accounts, Carries(q, a), q # r PROVE Carries(q, a)'
    BY <2>1, <2>3 DEF Carries, Rotated
  <2>4. CASE /\ row' = [row EXCEPT ![acc[r].acct].buf = fresh[r].buf,
                                   ![acc[r].acct].token = fresh[r].token]
             /\ lost' = [lost EXCEPT ![acc[r].acct] =
                            ~Rotated(r) /\ fresh[r].token \notin valid[acc[r].acct]]
    <3>1. row'[acc[r].acct].token = fresh[r].token
      BY <2>2, <2>4
    <3>2. Rotated(r) => fresh[r].token \in valid[acc[r].acct]
      BY <2>1 DEF FreshTokensOwn, Refreshing, Carries
    <3>3. lost'[acc[r].acct] \/ row'[acc[r].acct].token \in valid'[acc[r].acct]
      BY <2>1, <2>2, <2>4, <3>1, <3>2
    <3>4. ASSUME NEW a \in Accounts, a # acc[r].acct
          PROVE  row'[a] = row[a] /\ lost'[a] = lost[a] /\ ~Carries(r, a)
      BY <2>4, <3>4 DEF Carries
    <3> QED
      BY <2>1, <2>3, <3>3, <3>4, TokensKept
  <2>5. CASE row' = row /\ lost' = [lost EXCEPT ![acc[r].acct] = @ \/ Rotated(r)]
    <3>1. ASSUME NEW a \in Accounts
          PROVE  lost'[a] \/ (lost'[a] = lost[a] /\ ~Carries(r, a))
      BY <2>2, <2>5 DEF Carries
    <3> QED
      BY <2>1, <2>3, <2>5, <3>1, TokensKept
  <2> QED
    BY <1>8, <2>4, <2>5 DEF SetAccountCredential
<1>9. ASSUME NEW r \in Requests, HangUp(r) PROVE TokenKept'
  <2>1. accounts' = accounts
    BY <1>9, AccountsKept DEF HangUp, poolVars
  <2> QED
    BY <1>9, <2>1, TokensKept DEF HangUp, Carries, Rotated
<1>10. ASSUME NEW a \in Accounts, Confirm(a) PROVE TokenKept'
  <2>1. \A b \in Accounts : valid[b] \subseteq valid'[b]
    BY <1>10 DEF Confirm
  <2>2. UNCHANGED <<accounts, row, at, acc, fresh, lost>>
    BY <1>10 DEF Confirm, poolVars
  <2>3. \A q \in Requests, b \in Accounts : Carries(q, b) => Carries(q, b)'
    BY <2>1, <2>2 DEF Carries, Rotated
  <2> QED
    BY <2>1, <2>2, <2>3, TokensKept
<1>11. ASSUME NEW a \in Accounts, StoreFromScan(a) PROVE TokenKept'
  <2>1. \A b \in Accounts \ {a} : /\ row'[b] = row[b] /\ lost'[b] = lost[b]
                                  /\ Present(b)' => Present(b)
    BY <1>11 DEF StoreFromScan, CreateAccount, poolVars, PoolTypeOK
  <2>2. UNCHANGED <<valid, at, acc, fresh>>
    BY <1>11 DEF StoreFromScan
  <2>3. lost'[a] \/ row'[a].token \in valid'[a]
    BY <1>11 DEF StoreFromScan
  <2>4. \A q \in Requests, b \in Accounts : Carries(q, b) => Carries(q, b)'
    BY <2>2 DEF Carries, Rotated
  <2> QED
    BY <2>1, <2>2, <2>3, <2>4, TokensKept
<1>12. ASSUME NEW a \in Accounts, DropQRSession(a) PROVE TokenKept'
  BY <1>12, TokensKept DEF DropQRSession, Carries, Rotated, poolVars
<1>13. ASSUME NEW a \in Accounts, DeleteAccount(a), UNCHANGED wxVars PROVE TokenKept'
  <2>1. \A b \in Accounts : Present(b)' => Present(b)
    BY <1>13 DEF DeleteAccount
  <2> QED
    BY <1>13, <2>1, TokensKept DEF wxVars, Carries, Rotated
<1>14. CASE WxRestart
  <2>1. accounts' = accounts
    BY <1>14, AccountsKept DEF WxRestart, Restart, tables
  <2>2. UNCHANGED <<row, valid>>
    BY <1>14 DEF WxRestart
  <2>3. \A a \in Accounts : lost'[a] = (lost[a] \/ \E r \in Requests : Carries(r, a))
    BY <1>14 DEF WxRestart
  <2> QED
    BY <2>1, <2>2, <2>3 DEF TokenKept
<1>15. ASSUME NEW r \in Requests, PoolStep(r), UNCHANGED wxVars PROVE TokenKept'
  BY <1>1, <1>15, AccountsKept
<1>16. ASSUME NEW k \in Keys, Expire(k), UNCHANGED wxVars PROVE TokenKept'
  BY <1>1, <1>16 DEF Expire
<1> QED
  BY <1>1, <1>2, <1>3, <1>4, <1>5, <1>6, <1>7, <1>8, <1>9, <1>10, <1>11, <1>12, <1>13, <1>14,
     <1>15, <1>16, Passing
     DEF WxNext, RequestStep, RefreshStep, vars, poolVars

--------------------------------------------------------------------------------
(* WxInv holds in every reachable state, whatever the token server does.       *)
THEOREM WxInvariant == WxSpec => []WxInv
<1>1. WxInit => WxInv
  BY InitWxInv
<1>2. WxInv /\ [WxNext]_vars => WxInv'
  BY WxTypeStep, PairStep, TokenStep DEF WxInv
<1> QED
  BY <1>1, <1>2, PTL DEF WxSpec

(* Columns, snapshots and tokens keep their types (app.go:529-616).            *)
THEOREM WxTypeCorrect == WxSpec => []WxTypeOK
<1>1. WxInv => WxTypeOK
  BY DEF WxInv
<1> QED
  BY <1>1, WxInvariant, PTL

(* A row's login buffer was issued with the row's credentials, however         *)
(* refreshes, scans and restarts interleave (app.go:732, 746).                 *)
THEOREM CredentialsArePaired == WxSpec => []PairedCredentials
<1>1. WxInv => PairedCredentials
  BY DEF WxInv, PairsIssued, Issued, PairedCredentials
<1> QED
  BY <1>1, WxInvariant, PTL

(* The HTTP layer uses the pool as its callers may: what is proved of the pool *)
(* holds of the calls made here (app.go:560-616, pool.go:143-199).             *)
THEOREM CallsUseThePool == WxSpec => PoolSpec
<1>1. WxInit => PoolInit
  BY DEF WxInit
<1>2. WxInv /\ [WxNext]_vars => [PoolNext]_poolVars
  BY UsesPool DEF WxInv
<1> QED
  BY <1>1, <1>2, WxInvariant, PTL DEF WxSpec, PoolSpec

(* Whether the server rotates always, never or now and then, a row never keeps *)
(* a spent token for longer than a refresh takes, but for the losses TokenKept *)
(* names (app.go:741-746, loginbuffer.go:160-170).                             *)
THEOREM NewestTokenKept == WxSpec => []TokenKept
<1>1. WxInit => RotationInv
  BY InitWxInv
<1>2. WxInv /\ PoolTypeOK /\ RotationInv /\ [WxNext]_vars => RotationInv'
  BY OwnStep, KeptStep DEF WxInv, RotationInv
<1>3. RotationInv => TokenKept
  BY DEF RotationInv
<1> QED
  BY <1>1, <1>2, <1>3, WxInvariant, CallsUseThePool,
     PoolTypeCorrect, PTL DEF WxSpec
================================================================================
