--------------------------- MODULE SessionPoolProofs ---------------------------
(* The safety properties of SessionPool for every value of its constants.      *)
EXTENDS SessionPool, FiniteSetTheorems, TLAPS

(* Who holds a mutex is who is between lock.Lock() and lock.Unlock().          *)
MutexHeld ==
    \A r \in Requests : pc[r] \in HoldingMutex => mutex[Key(r)] = r

(* A login that succeeded produced the session that PutSession writes.         *)
SessionAtPut ==
    \A r \in Requests : pc[r] = "put" => sess[r] \in Buffers

(* Inductive, unlike the properties the runs check: OneLoginPerKey follows     *)
(* from MutexHeld, and NoWastedLogin needs it for the step PutSession.         *)
PoolInv ==
    /\ PoolTypeOK
    /\ SessionAtPut
    /\ MutexHeld
    /\ NoWastedLogin
    /\ NoOrphanSession
    /\ LoginTokensExact
    /\ ShortlinkTokensExact

--------------------------------------------------------------------------------
(* Moving one request changes the number of requests inside a set of program   *)
(* points by at most one.                                                      *)
LEMMA HoldersCount ==
    ASSUME PoolTypeOK, NEW P, NEW r \in Requests, NEW from, NEW to, Goto(r, from, to)
    PROVE  LET before == {q \in Requests : pc[q] \in P}
               after == {q \in Requests : pc'[q] \in P}
           IN  /\ Cardinality(before) \in Nat
               /\ (from \in P <=> to \in P) => after = before
               /\ from \notin P /\ to \in P =>
                    Cardinality(after) = Cardinality(before) + 1
               /\ from \in P /\ to \notin P =>
                    /\ Cardinality(before) > 0
                    /\ Cardinality(after) = Cardinality(before) - 1
<1> DEFINE before == {q \in Requests : pc[q] \in P}
           after == {q \in Requests : pc'[q] \in P}
<1> USE DEF PoolTypeOK, Goto
<1>1. IsFiniteSet(before) /\ Cardinality(before) \in Nat
  BY RequestsAssumption, FS_Subset, FS_CardinalityType
<1>2. (from \in P <=> to \in P) => after = before
  OBVIOUS
<1>3. ASSUME from \notin P, to \in P
      PROVE  Cardinality(after) = Cardinality(before) + 1
  <2>1. after = before \cup {r}
    BY <1>3
  <2>2. r \notin before
    BY <1>3
  <2> QED
    BY <1>1, <2>1, <2>2, FS_AddElement
<1>4. ASSUME from \in P, to \notin P
      PROVE  /\ Cardinality(before) > 0
             /\ Cardinality(after) = Cardinality(before) - 1
  <2>1. after = before \ {r}
    BY <1>4
  <2>2. r \in before
    BY <1>4
  <2>3. Cardinality(before) # 0
    BY <1>1, <2>2, FS_EmptySet
  <2>4. Cardinality(before \ {r}) = Cardinality(before) - 1
    BY <1>1, <2>2, FS_RemoveElement
  <2> HIDE DEF before, after
  <2> QED
    BY <1>1, <2>1, <2>3, <2>4
<1> QED
  BY <1>1, <1>2, <1>3, <1>4

--------------------------------------------------------------------------------
(* The program starts with the invariant.                                      *)
LEMMA InitPoolInv == PoolInit => PoolInv
<1> SUFFICES ASSUME PoolInit PROVE PoolInv
  OBVIOUS
<1> USE DEF PoolInit
<1>1. NoCall \in Calls
  BY ConfigAssumption DEF NoCall, Calls
<1>2. PoolTypeOK
  BY <1>1, ConfigAssumption DEF PoolTypeOK, Running
<1>3. SessionAtPut /\ MutexHeld
  BY DEF SessionAtPut, MutexHeld, HoldingMutex, LoggingIn
<1>4. NoWastedLogin /\ NoOrphanSession
  BY DEF NoWastedLogin, NoOrphanSession, LoggingIn
<1>5. Cardinality({}) = 0
  BY FS_EmptySet
<1>6. LoginTokensExact
  BY <1>5 DEF LoginTokensExact, HoldingToken
<1>7. ShortlinkTokensExact
  BY <1>5 DEF ShortlinkTokensExact
<1> QED
  BY <1>2, <1>3, <1>4, <1>6, <1>7 DEF PoolInv

(* A step that only moves the program counter, and not to "put".               *)
LEMMA TypeOfMove ==
    ASSUME PoolTypeOK, SessionAtPut, NEW r \in Requests, NEW from,
           NEW to \in Running \ {"put"}, Goto(r, from, to),
           UNCHANGED <<tables, mutex, sems, call, via, sess, cancelled>>
    PROVE  PoolTypeOK' /\ SessionAtPut'
<1> USE DEF Goto, tables, sems
<1>1. SessionAtPut'
  BY DEF PoolTypeOK, SessionAtPut
<1>2. pc' \in [Requests -> Running \cup {"idle"}]
  BY DEF PoolTypeOK
<1>3. PoolTypeOK'
  BY <1>2 DEF PoolTypeOK
<1> QED
  BY <1>1, <1>3

(* Typing, one step per action.                                                *)
LEMMA TypeStep ==
    ASSUME PoolTypeOK, SessionAtPut, [PoolNext]_poolVars
    PROVE  PoolTypeOK' /\ SessionAtPut'
<1> USE ConfigAssumption, NullAssumption
<1>0. ASSUME NEW r \in Requests,
             \/ CheckFails(r) \/ GetAccountFails(r) \/ AcquireLoginCancelled(r)
             \/ GetAccount(r) \/ LoginFails(r)
      PROVE  PoolTypeOK' /\ SessionAtPut'
  <2>1. {"unlock", "acquire", "release"} \subseteq Running \ {"put"}
    BY DEF Running, HoldingMutex, LoggingIn
  <2>2. CASE CheckFails(r)
    BY <2>1, <2>2, TypeOfMove DEF CheckFails
  <2>3. CASE GetAccountFails(r)
    BY <2>1, <2>3, TypeOfMove DEF GetAccountFails
  <2>4. CASE AcquireLoginCancelled(r)
    BY <2>1, <2>4, TypeOfMove DEF AcquireLoginCancelled
  <2>5. CASE GetAccount(r)
    BY <2>1, <2>5, TypeOfMove DEF GetAccount
  <2>6. CASE LoginFails(r)
    BY <2>1, <2>6, TypeOfMove DEF LoginFails
  <2> QED
    BY <1>0, <2>2, <2>3, <2>4, <2>5, <2>6
<1> USE DEF PoolTypeOK, SessionAtPut, Goto, tables, sems, Running, HoldingMutex,
            LoggingIn, Rows, Calls, Keys, Key
<1>1. NoCall \in Calls
  BY DEF NoCall
<1>2. CASE UNCHANGED poolVars
  BY <1>2 DEF poolVars
<1>3. ASSUME NEW r \in Requests, NEW a \in Accounts, NEW p \in Proxies, NEW b \in Buffers,
             Start(r, a, p, b)
      PROVE  PoolTypeOK' /\ SessionAtPut'
  BY <1>3 DEF Start, EffectiveProxy
<1>4. ASSUME NEW r \in Requests, StateStep(r)
      PROVE  PoolTypeOK' /\ SessionAtPut'
  <2>1. CASE Peek(r) \/ Check(r)
    <3>1. Live(Key(r)) => sessions[Key(r)].buf \in Buffers
      BY DEF Live
    <3>2. CASE Live(Key(r))
      BY <2>1, <3>1, <3>2 DEF Peek, Check
    <3>3. CASE ~Live(Key(r))
      BY <2>1, <3>3 DEF Peek, Check
    <3> QED
      BY <3>2, <3>3
  <2>2. CASE PeekFails(r)
    <3>1. CASE MayFallBack(r)
      BY <2>2, <3>1 DEF PeekFails, AttemptFailed
    <3>2. CASE ~MayFallBack(r)
      BY <2>2, <3>2 DEF PeekFails, AttemptFailed
    <3> QED
      BY <3>1, <3>2
  <2>3. CASE Lock(r)
    <3>1. mutex' \in [Keys -> Requests \cup {Null}]
      BY <2>3 DEF Lock
    <3>2. pc' = [pc EXCEPT ![r] = "check"]
      BY <2>3 DEF Lock
    <3> QED
      BY <2>3, <3>1, <3>2 DEF Lock
  <2>4. CASE \/ CheckFails(r) \/ GetAccountFails(r) \/ AcquireLoginCancelled(r)
             \/ GetAccount(r) \/ LoginFails(r)
    BY <1>0, <2>4
  <2>5. CASE AcquireLogin(r) \/ ReleaseLogin(r)
    <3>1. CASE AcquireLogin(r)
      BY <3>1 DEF AcquireLogin
    <3>2. CASE ReleaseLogin(r)
      BY <3>2 DEF ReleaseLogin
    <3> QED
      BY <2>5, <3>1, <3>2
  <2>6. CASE Login(r)
    BY <2>6 DEF Login
  <2>7. CASE PutSession(r)
    BY <2>7 DEF PutSession
  <2>8. CASE Unlock(r)
    <3>1. mutex' \in [Keys -> Requests \cup {Null}]
      BY <2>8 DEF Unlock
    <3>2. /\ pc' \in [Requests -> Running \cup {"idle"}]
          /\ via' \in [Requests -> Proxies]
          /\ \A q \in Requests : pc'[q] = "put" => pc[q] = "put"
      <4>1. /\ \E to \in {"peek", "done", "enqueue"} : pc' = [pc EXCEPT ![r] = to]
            /\ via' = via \/ via' = [via EXCEPT ![r] = Direct]
        BY <2>8 DEF Unlock, AttemptFailed
      <4> QED
        BY <4>1
    <3>3. UNCHANGED <<tables, sems, call, sess, cancelled>>
      BY <2>8 DEF Unlock
    <3>4. SessionAtPut'
      BY <3>2, <3>3
    <3>5. PoolTypeOK'
      BY <3>1, <3>2, <3>3
    <3> QED
      BY <3>4, <3>5
  <2>9. CASE PutSessionFails(r)
    BY <2>9 DEF PutSessionFails
  <2> QED
    BY <1>4, <2>1, <2>2, <2>3, <2>4, <2>5, <2>6, <2>7, <2>8, <2>9 DEF StateStep
<1>5. ASSUME NEW r \in Requests, OpStep(r)
      PROVE  PoolTypeOK' /\ SessionAtPut'
  <2>1. CASE AcquireShortlink(r)
    BY <2>1 DEF AcquireShortlink
  <2>2. CASE AcquireShortlinkFails(r)
    BY <2>2 DEF AcquireShortlinkFails, OpFailed
  <2>3. CASE Send(r)
    BY <2>3 DEF Send, ReleaseShortlink
  <2>4. CASE SendFails(r)
    BY <2>4 DEF SendFails, OpFailed, ReleaseShortlink
  <2>5. CASE Invalidate(r)
    BY <2>5 DEF Invalidate
  <2> QED
    BY <1>5, <2>1, <2>2, <2>3, <2>4, <2>5 DEF OpStep
<1>6. ASSUME NEW r \in Requests, Return(r) \/ Cancel(r)
      PROVE  PoolTypeOK' /\ SessionAtPut'
  <2>1. CASE Return(r)
    BY <1>1, <2>1 DEF Return
  <2>2. CASE Cancel(r)
    BY <2>2 DEF Cancel
  <2> QED
    BY <1>6, <2>1, <2>2
<1>7. CASE TableStep
  <2>1. ASSUME NEW k \in Keys, Expire(k) \/ InvalidateSession(k)
        PROVE  PoolTypeOK' /\ SessionAtPut'
    <3>1. CASE Expire(k)
      <4>1. sessions[k] \in Rows
        BY <3>1 DEF Expire, Live
      <4>2. [sessions[k] EXCEPT !.live = FALSE] \in Rows
        BY <4>1
      <4> QED
        BY <3>1, <4>2 DEF Expire
    <3>2. CASE InvalidateSession(k)
      BY <3>2 DEF InvalidateSession
    <3> QED
      BY <2>1, <3>1, <3>2
  <2>2. ASSUME NEW a \in Accounts, CreateAccount(a) \/ DeleteAccount(a)
        PROVE  PoolTypeOK' /\ SessionAtPut'
    BY <2>2 DEF CreateAccount, DeleteAccount
  <2> QED
    BY <1>7, <2>1, <2>2 DEF TableStep
<1>8. CASE Restart
  BY <1>1, <1>8 DEF Restart
<1> QED
  BY <1>2, <1>3, <1>4, <1>5, <1>6, <1>7, <1>8 DEF PoolNext, PoolStep
(* The mutexes: only Lock and Unlock change who holds one, and a request keeps *)
(* its key while it holds it.                                                  *)
LEMMA MutexStep ==
    ASSUME PoolTypeOK, MutexHeld, [PoolNext]_poolVars
    PROVE  MutexHeld'
<1> USE NullAssumption
<1> USE DEF PoolTypeOK, MutexHeld, Goto, tables, sems, Running, HoldingMutex,
            LoggingIn, Keys, Key, Calls
<1>1. CASE UNCHANGED poolVars
  BY <1>1 DEF poolVars
<1>2. ASSUME NEW r \in Requests, NEW a \in Accounts, NEW p \in Proxies, NEW b \in Buffers,
             Start(r, a, p, b)
      PROVE  MutexHeld'
  BY <1>2 DEF Start
<1>3. ASSUME NEW r \in Requests, StateStep(r)
      PROVE  MutexHeld'
  <2>1. CASE Lock(r)
    BY <2>1 DEF Lock
  <2>2. CASE Unlock(r)
    <3>1. ASSUME NEW q \in Requests, q # r, pc[q] \in HoldingMutex
          PROVE  Key(q) # Key(r) /\ mutex[Key(q)] = q
      BY <2>2, <3>1 DEF Unlock
    <3>2. /\ mutex' = [mutex EXCEPT ![Key(r)] = Null]
          /\ pc'[r] \notin HoldingMutex
          /\ \A q \in Requests \ {r} : pc'[q] = pc[q] /\ via'[q] = via[q]
          /\ call' = call
      BY <2>2 DEF Unlock, AttemptFailed
    <3> QED
      BY <3>1, <3>2
  <2>3. CASE Peek(r) \/ Check(r)
    BY <2>3 DEF Peek, Check
  <2>4. CASE PeekFails(r)
    BY <2>4 DEF PeekFails, AttemptFailed
  <2>5. CASE CheckFails(r) \/ GetAccount(r) \/ GetAccountFails(r) \/ LoginFails(r)
             \/ AcquireLoginCancelled(r)
    BY <2>5 DEF CheckFails, GetAccount, GetAccountFails, LoginFails, AcquireLoginCancelled
  <2>6. CASE AcquireLogin(r) \/ ReleaseLogin(r)
    BY <2>6 DEF AcquireLogin, ReleaseLogin
  <2>7. CASE Login(r) \/ PutSessionFails(r)
    BY <2>7 DEF Login, PutSessionFails
  <2>8. CASE PutSession(r)
    BY <2>8 DEF PutSession
  <2> QED
    BY <1>3, <2>1, <2>2, <2>3, <2>4, <2>5, <2>6, <2>7, <2>8 DEF StateStep
<1>4. ASSUME NEW r \in Requests, OpStep(r)
      PROVE  MutexHeld'
  BY <1>4 DEF OpStep, AcquireShortlink, AcquireShortlinkFails, Send, SendFails,
              OpFailed, Invalidate
<1>5. ASSUME NEW r \in Requests, Return(r) \/ Cancel(r)
      PROVE  MutexHeld'
  BY <1>5 DEF Return, Cancel
<1>6. CASE TableStep
  BY <1>6 DEF TableStep, Expire, InvalidateSession, CreateAccount, DeleteAccount
<1>7. CASE Restart
  BY <1>7 DEF Restart
<1> QED
  BY <1>1, <1>2, <1>3, <1>4, <1>5, <1>6, <1>7 DEF PoolNext, PoolStep

(* Between two requests that hold a mutex of the same key there is no          *)
(* difference: pool.go:169-171 let one through at a time.                      *)
LEMMA MutualExclusion == MutexHeld => OneLoginPerKey
  BY DEF MutexHeld, OneLoginPerKey

(* Only PutSession makes a row live, and its writer is the only request that   *)
(* was logging in for the key; a row is only ever written while its account is *)
(* there.                                                                      *)
LEMMA RowsStep ==
    ASSUME PoolTypeOK, SessionAtPut, OneLoginPerKey, NoWastedLogin, NoOrphanSession,
           [PoolNext]_poolVars
    PROVE  NoWastedLogin' /\ NoOrphanSession'
<1> USE NullAssumption
<1> USE DEF PoolTypeOK, NoWastedLogin, NoOrphanSession, Goto, tables, sems, Running,
            HoldingMutex, LoggingIn, Keys, Key, Calls, Live
<1>1. CASE UNCHANGED poolVars
  BY <1>1 DEF poolVars
<1>2. ASSUME NEW r \in Requests, NEW a \in Accounts, NEW p \in Proxies, NEW b \in Buffers,
             Start(r, a, p, b)
      PROVE  NoWastedLogin' /\ NoOrphanSession'
  BY <1>2 DEF Start
<1>3. ASSUME NEW r \in Requests, StateStep(r)
      PROVE  NoWastedLogin' /\ NoOrphanSession'
  <2>1. CASE PutSession(r)
    <3>1. \A q \in Requests \ {r} : pc[q] \in LoggingIn => Key(q) # Key(r)
      BY <2>1 DEF PutSession, OneLoginPerKey
    <3>2. PICK row : sessions' = [sessions EXCEPT ![Key(r)] = row]
      BY <2>1 DEF PutSession
    <3>3. /\ pc' = [pc EXCEPT ![r] = "release"]
          /\ UNCHANGED <<accounts, call, via>>
          /\ accounts[call[r].acct] = "present"
      BY <2>1 DEF PutSession
    <3>4. NoWastedLogin'
      BY <3>1, <3>2, <3>3
    <3>5. NoOrphanSession'
      BY <3>2, <3>3
    <3> QED
      BY <3>4, <3>5
  <2>2. CASE Peek(r) \/ Check(r)
    <3>1. /\ UNCHANGED <<tables, call, via>>
          /\ \A q \in Requests \ {r} : pc'[q] = pc[q]
          /\ pc'[r] \in LoggingIn => ~Live(Key(r))
      <4>1. CASE Peek(r)
        BY <4>1 DEF Peek
      <4>2. CASE Check(r)
        BY <4>2 DEF Check
      <4> QED
        BY <2>2, <4>1, <4>2
    <3>2. NoWastedLogin'
      BY <3>1
    <3>3. NoOrphanSession'
      BY <3>1
    <3> QED
      BY <3>2, <3>3
  <2>3. CASE PeekFails(r) \/ Unlock(r)
    BY <2>3 DEF PeekFails, Unlock, AttemptFailed
  <2>4. CASE CheckFails(r) \/ GetAccount(r) \/ GetAccountFails(r) \/ LoginFails(r)
             \/ AcquireLoginCancelled(r)
    BY <2>4 DEF CheckFails, GetAccount, GetAccountFails, LoginFails, AcquireLoginCancelled
  <2>5. CASE Lock(r) \/ AcquireLogin(r) \/ ReleaseLogin(r)
    BY <2>5 DEF Lock, AcquireLogin, ReleaseLogin
  <2>6. CASE Login(r) \/ PutSessionFails(r)
    BY <2>6 DEF Login, PutSessionFails
  <2> QED
    BY <1>3, <2>1, <2>2, <2>3, <2>4, <2>5, <2>6 DEF StateStep
<1>4. ASSUME NEW r \in Requests, OpStep(r)
      PROVE  NoWastedLogin' /\ NoOrphanSession'
  <2>1. CASE Invalidate(r)
    BY <2>1 DEF Invalidate
  <2>2. CASE ~Invalidate(r)
    BY <1>4, <2>2 DEF OpStep, AcquireShortlink, AcquireShortlinkFails, Send, SendFails, OpFailed
  <2> QED
    BY <2>1, <2>2
<1>5. ASSUME NEW r \in Requests, Return(r) \/ Cancel(r)
      PROVE  NoWastedLogin' /\ NoOrphanSession'
  BY <1>5 DEF Return, Cancel
<1>6. CASE TableStep
  <2>1. ASSUME NEW k \in Keys, Expire(k)
        PROVE  NoWastedLogin' /\ NoOrphanSession'
    <3>1. /\ \A j \in Keys : Live(j)' => Live(j)
          /\ \A j \in Keys : sessions'[j] # Null => sessions[j] # Null
          /\ UNCHANGED <<accounts, pc, call, via>>
      BY <2>1 DEF Expire
    <3> QED
      BY <3>1
  <2>2. ASSUME NEW k \in Keys, InvalidateSession(k)
        PROVE  NoWastedLogin' /\ NoOrphanSession'
    BY <2>2 DEF InvalidateSession
  <2>3. ASSUME NEW a \in Accounts, CreateAccount(a) \/ DeleteAccount(a)
        PROVE  NoWastedLogin' /\ NoOrphanSession'
    BY <2>3 DEF CreateAccount, DeleteAccount
  <2> QED
    BY <1>6, <2>1, <2>2, <2>3 DEF TableStep
<1>7. CASE Restart
  BY <1>7 DEF Restart
<1> QED
  BY <1>1, <1>2, <1>3, <1>4, <1>5, <1>6, <1>7 DEF PoolNext, PoolStep
--------------------------------------------------------------------------------
(* The login channel: AcquireLogin adds the request and the token together,    *)
(* ReleaseLogin takes both away, no other step moves a request in or out.      *)
LEMMA LoginTokensStep ==
    ASSUME PoolTypeOK, LoginTokensExact, [PoolNext]_poolVars
    PROVE  LoginTokensExact'
<1> DEFINE holders == {q \in Requests : pc[q] \in HoldingToken}
<1> USE DEF LoginTokensExact
<1>1. CASE UNCHANGED poolVars
  BY <1>1 DEF poolVars
<1>2. ASSUME NEW r \in Requests, NEW to, Goto(r, pc[r], to), UNCHANGED loginSem,
             pc[r] \in HoldingToken <=> to \in HoldingToken
      PROVE  LoginTokensExact'
  <2>1. {q \in Requests : pc'[q] \in HoldingToken} = holders
    BY <1>2, HoldersCount
  <2> QED
    BY <1>2, <2>1
<1>3. ASSUME NEW r \in Requests, AcquireLogin(r)
      PROVE  LoginTokensExact'
  <2>1. Cardinality({q \in Requests : pc'[q] \in HoldingToken}) = Cardinality(holders) + 1
    <3>1. "acquire" \notin HoldingToken /\ "login" \in HoldingToken
      BY DEF HoldingToken
    <3> QED
      BY <1>3, <3>1, HoldersCount DEF AcquireLogin
  <2> QED
    BY <1>3, <2>1 DEF AcquireLogin
<1>4. ASSUME NEW r \in Requests, ReleaseLogin(r)
      PROVE  LoginTokensExact'
  <2>1. /\ Cardinality(holders) > 0
        /\ Cardinality({q \in Requests : pc'[q] \in HoldingToken}) = Cardinality(holders) - 1
    <3>1. "release" \in HoldingToken /\ "unlock" \notin HoldingToken
      BY DEF HoldingToken
    <3> QED
      BY <1>4, <3>1, HoldersCount DEF ReleaseLogin
  <2> QED
    BY <1>4, <2>1 DEF ReleaseLogin
<1>5. ASSUME NEW r \in Requests, NEW a \in Accounts, NEW p \in Proxies, NEW b \in Buffers,
             Start(r, a, p, b)
      PROVE  LoginTokensExact'
  BY <1>2, <1>5 DEF Start, Goto, sems, HoldingToken
<1>6. ASSUME NEW r \in Requests, StateStep(r)
      PROVE  LoginTokensExact'
  <2>1. CASE Peek(r) \/ Check(r) \/ Lock(r) \/ CheckFails(r) \/ GetAccount(r)
             \/ GetAccountFails(r) \/ AcquireLoginCancelled(r)
    <3>1. PICK to : Goto(r, pc[r], to) /\ {pc[r], to} \cap HoldingToken = {}
      BY <2>1 DEF Peek, Check, Lock, CheckFails, GetAccount, GetAccountFails,
                  AcquireLoginCancelled, Goto, HoldingToken
    <3>2. UNCHANGED loginSem
      BY <2>1 DEF Peek, Check, Lock, CheckFails, GetAccount, GetAccountFails,
                  AcquireLoginCancelled, sems
    <3> QED
      BY <1>2, <3>1, <3>2
  <2>2. CASE Login(r) \/ LoginFails(r) \/ PutSession(r) \/ PutSessionFails(r)
    <3>1. PICK to : Goto(r, pc[r], to) /\ {pc[r], to} \subseteq HoldingToken
      BY <2>2 DEF Login, LoginFails, PutSession, PutSessionFails, Goto, HoldingToken
    <3>2. UNCHANGED loginSem
      BY <2>2 DEF Login, LoginFails, PutSession, PutSessionFails, sems
    <3> QED
      BY <1>2, <3>1, <3>2
  <2>3. CASE PeekFails(r) \/ Unlock(r)
    <3>1. PICK to : Goto(r, pc[r], to) /\ {pc[r], to} \cap HoldingToken = {}
      BY <2>3 DEF PeekFails, Unlock, AttemptFailed, Goto, HoldingToken
    <3>2. UNCHANGED loginSem
      BY <2>3 DEF PeekFails, Unlock, sems
    <3> QED
      BY <1>2, <3>1, <3>2
  <2> QED
    BY <1>3, <1>4, <1>6, <2>1, <2>2, <2>3 DEF StateStep
<1>7. ASSUME NEW r \in Requests, OpStep(r)
      PROVE  LoginTokensExact'
  <2>1. PICK to : Goto(r, pc[r], to) /\ {pc[r], to} \cap HoldingToken = {}
    BY <1>7 DEF OpStep, AcquireShortlink, AcquireShortlinkFails, Send, SendFails,
                OpFailed, Invalidate, Goto, HoldingToken
  <2>2. UNCHANGED loginSem
    BY <1>7 DEF OpStep, AcquireShortlink, AcquireShortlinkFails, Send, SendFails,
                Invalidate, sems
  <2> QED
    BY <1>2, <2>1, <2>2
<1>8. ASSUME NEW r \in Requests, Return(r)
      PROVE  LoginTokensExact'
  BY <1>2, <1>8 DEF Return, Goto, sems, HoldingToken
<1>9. ASSUME NEW r \in Requests, Cancel(r)
      PROVE  LoginTokensExact'
  BY <1>9 DEF Cancel, sems
<1>10. CASE TableStep
  BY <1>10 DEF TableStep, Expire, InvalidateSession, CreateAccount, DeleteAccount, sems
<1>11. CASE Restart
  <2>1. {q \in Requests : pc'[q] \in HoldingToken} = {}
    BY <1>11 DEF Restart, HoldingToken
  <2> QED
    BY <1>11, <2>1, FS_EmptySet DEF Restart
<1> QED
  BY <1>1, <1>5, <1>6, <1>7, <1>8, <1>9, <1>10, <1>11 DEF PoolNext, PoolStep

(* The shortlink channel, by the same argument.                                *)
LEMMA ShortlinkTokensStep ==
    ASSUME PoolTypeOK, ShortlinkTokensExact, [PoolNext]_poolVars
    PROVE  ShortlinkTokensExact'
<1> DEFINE holders == {q \in Requests : pc[q] \in {"send"}}
<1>0. /\ shortlinkSem = Cardinality(holders)
      /\ shortlinkSem' = Cardinality({q \in Requests : pc'[q] \in {"send"}})
         => ShortlinkTokensExact'
  <2>1. holders = {q \in Requests : pc[q] = "send"}
    OBVIOUS
  <2>2. {q \in Requests : pc'[q] \in {"send"}} = {q \in Requests : pc'[q] = "send"}
    OBVIOUS
  <2> QED
    BY <2>1, <2>2 DEF ShortlinkTokensExact
<1>1. CASE UNCHANGED poolVars
  BY <1>1 DEF poolVars, ShortlinkTokensExact
<1>2. ASSUME NEW r \in Requests, NEW to, Goto(r, pc[r], to), UNCHANGED shortlinkSem,
             "send" \notin {pc[r], to}
      PROVE  ShortlinkTokensExact'
  <2>1. {q \in Requests : pc'[q] \in {"send"}} = holders
    BY <1>2, HoldersCount
  <2> QED
    BY <1>0, <1>2, <2>1
<1>3. ASSUME NEW r \in Requests, AcquireShortlink(r)
      PROVE  ShortlinkTokensExact'
  <2>1. Cardinality({q \in Requests : pc'[q] \in {"send"}}) = Cardinality(holders) + 1
    <3>1. "enqueue" \notin {"send"} /\ "send" \in {"send"}
      OBVIOUS
    <3> QED
      BY <1>3, <3>1, HoldersCount DEF AcquireShortlink
  <2> QED
    BY <1>0, <1>3, <2>1 DEF AcquireShortlink
<1>4. ASSUME NEW r \in Requests, Send(r) \/ SendFails(r)
      PROVE  ShortlinkTokensExact'
  <2>1. PICK to : Goto(r, "send", to) /\ to # "send"
    BY <1>4 DEF Send, SendFails, OpFailed, Goto
  <2>2. /\ Cardinality(holders) > 0
        /\ Cardinality({q \in Requests : pc'[q] \in {"send"}}) = Cardinality(holders) - 1
    <3>1. "send" \in {"send"} /\ to \notin {"send"}
      BY <2>1
    <3> QED
      BY <2>1, <3>1, HoldersCount
  <2> QED
    BY <1>0, <1>4, <2>2 DEF Send, SendFails, ReleaseShortlink
<1>5. ASSUME NEW r \in Requests, NEW a \in Accounts, NEW p \in Proxies, NEW b \in Buffers,
             Start(r, a, p, b)
      PROVE  ShortlinkTokensExact'
  BY <1>2, <1>5 DEF Start, Goto, sems
<1>6. ASSUME NEW r \in Requests, StateStep(r)
      PROVE  ShortlinkTokensExact'
  <2>1. PICK to : Goto(r, pc[r], to) /\ "send" \notin {pc[r], to}
    BY <1>6 DEF StateStep, Peek, Check, Lock, CheckFails, GetAccount, GetAccountFails,
                AcquireLoginCancelled, AcquireLogin, ReleaseLogin, Login, LoginFails,
                PutSession, PutSessionFails, PeekFails, Unlock, AttemptFailed, Goto
  <2>2. UNCHANGED shortlinkSem
    BY <1>6 DEF StateStep, Peek, Check, Lock, CheckFails, GetAccount, GetAccountFails,
                AcquireLoginCancelled, AcquireLogin, ReleaseLogin, Login, LoginFails,
                PutSession, PutSessionFails, PeekFails, Unlock, sems
  <2> QED
    BY <1>2, <2>1, <2>2
<1>7. ASSUME NEW r \in Requests, AcquireShortlinkFails(r) \/ Invalidate(r) \/ Return(r)
      PROVE  ShortlinkTokensExact'
  <2>1. PICK to : Goto(r, pc[r], to) /\ "send" \notin {pc[r], to}
    BY <1>7 DEF AcquireShortlinkFails, OpFailed, Invalidate, Return, Goto
  <2>2. UNCHANGED shortlinkSem
    BY <1>7 DEF AcquireShortlinkFails, Invalidate, Return, sems
  <2> QED
    BY <1>2, <2>1, <2>2
<1>8. ASSUME NEW r \in Requests, Cancel(r)
      PROVE  ShortlinkTokensExact'
  BY <1>8 DEF Cancel, sems, ShortlinkTokensExact
<1>9. CASE TableStep
  BY <1>9 DEF TableStep, Expire, InvalidateSession, CreateAccount, DeleteAccount, sems,
              ShortlinkTokensExact
<1>10. CASE Restart
  <2>1. {q \in Requests : pc'[q] \in {"send"}} = {}
    BY <1>10 DEF Restart
  <2> QED
    BY <1>0, <1>10, <2>1, FS_EmptySet DEF Restart
<1> QED
  BY <1>1, <1>3, <1>4, <1>5, <1>6, <1>7, <1>8, <1>9, <1>10
     DEF PoolNext, PoolStep, OpStep

--------------------------------------------------------------------------------
(* The invariant holds in every reachable state, for any number of requests,   *)
(* accounts and proxies and any limits.                                        *)
THEOREM PoolInvariant == PoolSpec => []PoolInv
<1>1. PoolInit => PoolInv
  BY InitPoolInv
<1>2. PoolInv /\ [PoolNext]_poolVars => PoolInv'
  BY TypeStep, MutexStep, MutualExclusion, RowsStep, LoginTokensStep, ShortlinkTokensStep
     DEF PoolInv
<1> QED
  BY <1>1, <1>2, PTL DEF PoolSpec

(* The variables keep the types of the Go values they stand for.               *)
THEOREM PoolTypeCorrect == PoolSpec => []PoolTypeOK
<1>1. PoolInv => PoolTypeOK
  BY DEF PoolInv
<1> QED
  BY <1>1, PoolInvariant, PTL

(* At most one request at a time looks a key up again and logs in for it.      *)
THEOREM LoginsAreExclusive == PoolSpec => []OneLoginPerKey
<1>1. PoolInv => OneLoginPerKey
  BY MutualExclusion DEF PoolInv
<1> QED
  BY <1>1, PoolInvariant, PTL

(* No request logs in for a key that has a usable session.                     *)
THEOREM LoginsAreNeeded == PoolSpec => []NoWastedLogin
<1>1. PoolInv => NoWastedLogin
  BY DEF PoolInv
<1> QED
  BY <1>1, PoolInvariant, PTL

(* The login channel counts exactly the requests between acquire and the       *)
(* deferred release: no slot is lost and none is handed out twice.             *)
THEOREM LoginSlotsAreExact == PoolSpec => []LoginTokensExact
<1>1. PoolInv => LoginTokensExact
  BY DEF PoolInv
<1> QED
  BY <1>1, PoolInvariant, PTL

(* The same for the shortlink channel and the requests that send.              *)
THEOREM ShortlinkSlotsAreExact == PoolSpec => []ShortlinkTokensExact
<1>1. PoolInv => ShortlinkTokensExact
  BY DEF PoolInv
<1> QED
  BY <1>1, PoolInvariant, PTL

(* The sessions table never keeps a row of a deleted account.                  *)
THEOREM SessionsHaveAccounts == PoolSpec => []NoOrphanSession
<1>1. PoolInv => NoOrphanSession
  BY DEF PoolInv
<1> QED
  BY <1>1, PoolInvariant, PTL

--------------------------------------------------------------------------------
(* SessionPool implements SingleFlight, for every value of the constants.      *)
(* A step that leaves what is cached and who is loading as they are stutters.  *)
LEMMA Stutters ==
    ASSUME \A k \in Keys : Live(k)' = Live(k),
           \A q \in Requests : pc'[q] \in LoggingIn <=> pc[q] \in LoggingIn,
           \A q \in Requests : pc[q] \in LoggingIn => Key(q)' = Key(q)
    PROVE  UNCHANGED <<Cached, Loaders>>
  BY DEF Cached, Loaders

(* Rows disappear or expire and no request moves in or out of its login.       *)
LEMMA Drops ==
    ASSUME \A k \in Keys : Live(k)' => Live(k),
           \A q \in Requests : pc'[q] \in LoggingIn <=> pc[q] \in LoggingIn,
           \A q \in Requests : pc[q] \in LoggingIn => Key(q)' = Key(q)
    PROVE  [Flight!Next]_Flight!vars
<1> DEFINE gone == {k \in Keys : Live(k) /\ ~Live(k)'}
<1>1. UNCHANGED Loaders
  BY DEF Loaders
<1>2. CASE gone = {}
  <2>1. \A k \in Keys : Live(k)' = Live(k)
    BY <1>2 DEF Live
  <2>2. Cached' = Cached
    BY <2>1 DEF Cached
  <2> QED
    BY <1>1, <2>2 DEF Flight!vars
<1>3. CASE gone # {}
  <2>1. Cached' = [k \in Keys |-> Cached[k] /\ k \notin gone]
    <3>1. \A k \in Keys : Live(k)' = (Cached[k] /\ k \notin gone)
      BY DEF Cached, Live
    <3> QED
      BY <3>1 DEF Cached
  <2>2. \A k \in gone : Cached[k]
    BY DEF Cached
  <2>3. Flight!Drop(gone)
    BY <1>1, <1>3, <2>1, <2>2 DEF Flight!Drop
  <2> QED
    BY <2>3 DEF Flight!Next
<1> QED
  BY <1>2, <1>3

(* A request enters its login: the key had no session and no other request.    *)
LEMMA Begins ==
    ASSUME PoolTypeOK, OneLoginPerKey, NEW r \in Requests, Check(r), ~Live(Key(r))
    PROVE  Flight!Begin(r, Key(r))
<1> USE DEF PoolTypeOK, Goto, Check, tables, sems, HoldingMutex, LoggingIn, Keys, Calls
<1>1. Key(r) \in Keys
  BY DEF Key
<1>2. \A k \in Keys : Live(k)' = Live(k)
  BY DEF Live
<1>3. \A q \in Requests : Key(q)' = Key(q)
  BY DEF Key
<1>4. \A q \in Requests : pc[q] \in LoggingIn => Key(q) # Key(r)
  BY DEF OneLoginPerKey
<1>5. \A q \in Requests : pc'[q] \in LoggingIn <=> pc[q] \in LoggingIn \/ q = r
  OBVIOUS
<1> HIDE DEF PoolTypeOK, Goto, Check, tables, sems, HoldingMutex, LoggingIn, Keys, Calls
<1>6. Loaders[Key(r)] = {}
  BY <1>1, <1>4 DEF Loaders
<1>7. Loaders' = [Loaders EXCEPT ![Key(r)] = {r}]
  BY <1>1, <1>3, <1>4, <1>5 DEF Loaders
<1>8. Cached' = Cached /\ ~Cached[Key(r)]
  BY <1>1, <1>2 DEF Cached
<1> QED
  BY <1>6, <1>7, <1>8 DEF Flight!Begin

(* A request leaves its login; only its own key may have become live.          *)
LEMMA Finishes ==
    ASSUME PoolTypeOK, OneLoginPerKey, NoWastedLogin,
           NEW r \in Requests, pc[r] \in LoggingIn, pc'[r] \notin LoggingIn,
           \A q \in Requests \ {r} : pc'[q] = pc[q],
           \A q \in Requests : Key(q)' = Key(q),
           \A k \in Keys \ {Key(r)} : Live(k)' = Live(k)
    PROVE  Flight!Finish(Key(r))
<1>1. Key(r) \in Keys
  BY DEF PoolTypeOK, Key, Keys, Calls
<1>2. \A q \in Requests \ {r} : pc[q] \in LoggingIn => Key(q) # Key(r)
  BY DEF OneLoginPerKey, HoldingMutex
<1>3. Loaders[Key(r)] # {}
  BY <1>1 DEF Loaders
<1>4. Loaders' = [Loaders EXCEPT ![Key(r)] = {}]
  BY <1>1, <1>2 DEF Loaders
<1>5. Cached' = [Cached EXCEPT ![Key(r)] = Live(Key(r))']
  BY <1>1 DEF Cached
<1>6. Live(Key(r))' \in BOOLEAN
  BY <1>1 DEF Live, PoolTypeOK, Rows
<1> QED
  BY <1>3, <1>4, <1>5, <1>6 DEF Flight!Finish
--------------------------------------------------------------------------------
(* A step inside State begins or ends a login of the abstract pool, or stutters. *)
LEMMA StateStepRefines ==
    ASSUME PoolInv, NEW r \in Requests, StateStep(r)
    PROVE  [Flight!Next]_Flight!vars
<1>0. /\ PoolTypeOK
      /\ OneLoginPerKey
      /\ NoWastedLogin
  BY MutualExclusion DEF PoolInv
<1>1. Key(r) \in Keys
  BY <1>0 DEF PoolTypeOK, Key, Keys, Calls
<1> USE DEF Goto, tables, sems, HoldingMutex, LoggingIn
<1>2. CASE Check(r) /\ ~Live(Key(r))
  BY <1>0, <1>1, <1>2, Begins DEF Flight!Next
<1>3. CASE GetAccountFails(r) \/ AcquireLoginCancelled(r) \/ LoginFails(r) \/ PutSessionFails(r)
  <2>1. /\ pc[r] \in LoggingIn /\ pc'[r] \notin LoggingIn
        /\ \A q \in Requests \ {r} : pc'[q] = pc[q]
        /\ UNCHANGED <<call, via, sessions>>
    BY <1>0, <1>3 DEF PoolTypeOK, GetAccountFails, AcquireLoginCancelled, LoginFails,
                      PutSessionFails
  <2>2. /\ \A q \in Requests : Key(q)' = Key(q)
        /\ \A k \in Keys : Live(k)' = Live(k)
    BY <2>1 DEF Key, Live
  <2>3. Flight!Finish(Key(r))
    BY <1>0, <2>1, <2>2, Finishes
  <2> QED
    BY <1>1, <2>3 DEF Flight!Next
<1>4. CASE PutSession(r)
  <2>1. PICK row : sessions' = [sessions EXCEPT ![Key(r)] = row]
    BY <1>4 DEF PutSession
  <2>2. /\ pc[r] \in LoggingIn /\ pc'[r] \notin LoggingIn
        /\ \A q \in Requests \ {r} : pc'[q] = pc[q]
        /\ UNCHANGED <<call, via>>
    BY <1>0, <1>4 DEF PoolTypeOK, PutSession
  <2>3. \A q \in Requests : Key(q)' = Key(q)
    BY <2>2 DEF Key
  <2>4. \A k \in Keys \ {Key(r)} : sessions'[k] = sessions[k]
    BY <1>0, <2>1 DEF PoolTypeOK
  <2>5. \A k \in Keys \ {Key(r)} : Live(k)' = Live(k)
    BY <2>4 DEF Live
  <2>6. Flight!Finish(Key(r))
    BY <1>0, <2>2, <2>3, <2>5, Finishes
  <2> QED
    BY <1>1, <2>6 DEF Flight!Next
<1>5. ASSUME UNCHANGED sessions,
             \A q \in Requests : pc'[q] \in LoggingIn <=> pc[q] \in LoggingIn,
             \A q \in Requests : pc[q] \in LoggingIn => Key(q)' = Key(q)
      PROVE  [Flight!Next]_Flight!vars
  <2>1. \A k \in Keys : Live(k)' = Live(k)
    BY <1>5 DEF Live
  <2> QED
    BY <1>5, <2>1, Stutters DEF Flight!vars
<1>6. CASE Peek(r) \/ (Check(r) /\ Live(Key(r))) \/ CheckFails(r) \/ Lock(r)
           \/ GetAccount(r) \/ AcquireLogin(r) \/ Login(r) \/ ReleaseLogin(r)
  <2>1. /\ UNCHANGED <<call, via, sessions>>
        /\ \A q \in Requests : pc'[q] \in LoggingIn <=> pc[q] \in LoggingIn
    BY <1>0, <1>6 DEF PoolTypeOK, Peek, Check, CheckFails, Lock, GetAccount, AcquireLogin,
                      Login, ReleaseLogin
  <2>2. \A q \in Requests : Key(q)' = Key(q)
    BY <2>1 DEF Key
  <2> QED
    BY <1>5, <2>1, <2>2
<1>7. CASE PeekFails(r) \/ Unlock(r)
  <2>1. /\ UNCHANGED <<call, sessions>>
        /\ \A q \in Requests : pc'[q] \in LoggingIn <=> pc[q] \in LoggingIn
        /\ pc[r] \notin LoggingIn
        /\ \A q \in Requests \ {r} : via'[q] = via[q]
    BY <1>0, <1>7 DEF PoolTypeOK, PeekFails, Unlock, AttemptFailed
  <2>2. \A q \in Requests : pc[q] \in LoggingIn => Key(q)' = Key(q)
    BY <2>1 DEF Key
  <2> QED
    BY <1>5, <2>1, <2>2
<1> QED
  BY <1>2, <1>3, <1>4, <1>6, <1>7 DEF StateStep

(* What follows State drops at most the session it was given.                  *)
LEMMA OpStepRefines ==
    ASSUME PoolInv, NEW r \in Requests, OpStep(r) \/ Return(r) \/ Cancel(r)
    PROVE  [Flight!Next]_Flight!vars
<1>0. PoolTypeOK
  BY DEF PoolInv
<1> USE DEF Goto, tables, sems, HoldingMutex, LoggingIn
<1>1. /\ \A q \in Requests : pc'[q] \in LoggingIn <=> pc[q] \in LoggingIn
      /\ \A q \in Requests : pc[q] \in LoggingIn => Key(q)' = Key(q)
  BY <1>0 DEF PoolTypeOK, OpStep, AcquireShortlink, AcquireShortlinkFails, Send, SendFails,
              OpFailed, Invalidate, Return, Cancel, Key
<1>2. \A k \in Keys : sessions'[k] = sessions[k] \/ sessions'[k] = Null
  BY <1>0 DEF PoolTypeOK, OpStep, AcquireShortlink, AcquireShortlinkFails, Send, SendFails,
              Invalidate, Return, Cancel
<1>3. \A k \in Keys : Live(k)' => Live(k)
  BY <1>2 DEF Live
<1> QED
  BY <1>1, <1>3, Drops

(* Sessions that expire or go with their account are dropped.                  *)
LEMMA TableStepRefines ==
    ASSUME PoolInv, TableStep
    PROVE  [Flight!Next]_Flight!vars
<1>0. PoolTypeOK
  BY DEF PoolInv
<1>1. UNCHANGED <<pc, call, via>>
  BY DEF TableStep, Expire, InvalidateSession, CreateAccount, DeleteAccount
<1>2. \A k \in Keys : Live(k)' => Live(k)
  <2>1. ASSUME NEW k \in Keys, Expire(k)
        PROVE  \A j \in Keys : Live(j)' => Live(j)
    BY <1>0, <2>1 DEF PoolTypeOK, Expire, Live, Rows
  <2>2. ASSUME NEW k \in Keys, InvalidateSession(k)
        PROVE  \A j \in Keys : Live(j)' => Live(j)
    BY <1>0, <2>2 DEF PoolTypeOK, InvalidateSession, Live
  <2>3. ASSUME NEW a \in Accounts, CreateAccount(a) \/ DeleteAccount(a)
        PROVE  \A j \in Keys : Live(j)' => Live(j)
    BY <2>3 DEF CreateAccount, DeleteAccount, Live
  <2> QED
    BY <2>1, <2>2, <2>3 DEF TableStep
<1> QED
  BY <1>1, <1>2, Drops DEF Key

(* A restart is a crash of the abstract pool.                                  *)
LEMMA RestartRefines ==
    ASSUME Restart
    PROVE  Flight!Next
<1>1. Cached' = Cached
  BY DEF Restart, tables, Cached, Live
<1>2. Loaders' = [k \in Keys |-> {}]
  <2>1. \A r \in Requests : pc'[r] \notin LoggingIn
    BY DEF Restart, LoggingIn
  <2> QED
    BY <2>1 DEF Loaders
<1> QED
  BY <1>1, <1>2 DEF Flight!Next, Flight!Crash

(* The pool implements the single-flight cache: whatever requests, clients and *)
(* the WeChat servers do, each key has at most one login in flight, it starts  *)
(* without a usable session, and only its outcome makes one usable.            *)
THEOREM PoolIsSingleFlight == PoolSpec => ImplementsSingleFlight
<1>1. PoolInit => Flight!Init
  BY DEF PoolInit, Flight!Init, Cached, Loaders, Live, LoggingIn
<1>2. PoolInv /\ [PoolNext]_poolVars => [Flight!Next]_Flight!vars
  <2> SUFFICES ASSUME PoolInv, [PoolNext]_poolVars
               PROVE  [Flight!Next]_Flight!vars
    OBVIOUS
  <2>1. CASE UNCHANGED poolVars
    BY <2>1 DEF poolVars, Flight!vars, Cached, Loaders, Live, Key
  <2>2. ASSUME NEW r \in Requests, NEW a \in Accounts, NEW p \in Proxies, NEW b \in Buffers,
             Start(r, a, p, b)
        PROVE  [Flight!Next]_Flight!vars
    <3>1. /\ \A q \in Requests : pc'[q] \in LoggingIn <=> pc[q] \in LoggingIn
          /\ \A q \in Requests : pc[q] \in LoggingIn => Key(q)' = Key(q)
          /\ UNCHANGED sessions
      BY <2>2 DEF PoolInv, PoolTypeOK, Start, Goto, tables, LoggingIn, Key
    <3> QED
      BY <3>1, Drops DEF Live
  <2> QED
    BY <2>1, <2>2, StateStepRefines, OpStepRefines, TableStepRefines, RestartRefines
       DEF PoolNext, PoolStep
<1> QED
  BY <1>1, <1>2, PoolInvariant, PTL DEF PoolSpec, ImplementsSingleFlight, Flight!Spec
================================================================================
