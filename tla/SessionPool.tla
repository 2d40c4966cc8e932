------------------------------ MODULE SessionPool ------------------------------
(* protocol.Pool (internal/protocol/pool.go) over the sessions table of        *)
(* internal/store/store.go: concurrent requests ask for the WeChat session of  *)
(* an (account, proxy) key, log in when there is none, and run one shortlink   *)
(* operation with it.                                                          *)
(*                                                                             *)
(* A step is the code between two points where other goroutines can run: one   *)
(* SQL statement, one lock or channel operation, one network exchange.  A      *)
(* session is known by the login buffer it was made from; whether a login or   *)
(* an operation succeeds is up to the WeChat servers, hence nondeterministic.  *)
EXTENDS Integers, FiniteSets

CONSTANTS
    Requests,        \* calls of GetCode, GetPhoneNumber or OperateWXData
    Accounts,        \* ids of wechat_accounts rows, never reused (AUTOINCREMENT)
    Proxies,         \* values of tcp_proxy, among them
    Direct,          \* the empty string, "no proxy"
    DefaultProxy,    \* Config.TCPProxy
    FallbackDirect,  \* Config.TCPProxyFallbackDirect
    Buffers,         \* login buffers
    MaxLogin,        \* Config.MaxLoginConcurrency
    MaxShortlink,    \* Config.MaxShortlinkConcurrency
    Null             \* no session, no request

ASSUME ConfigAssumption ==
    /\ Accounts # {} /\ Buffers # {}
    /\ Direct \in Proxies /\ DefaultProxy \in Proxies
    /\ FallbackDirect \in BOOLEAN
    /\ MaxLogin \in Nat \ {0} /\ MaxShortlink \in Nat \ {0}

ASSUME NullAssumption ==
    /\ Null \notin Requests /\ Null \notin Buffers
    /\ Null \notin [buf : Buffers, live : BOOLEAN]

ASSUME RequestsAssumption == IsFiniteSet(Requests)

VARIABLES
    accounts,      \* accounts[a]: "unused", "present" or "deleted"
    sessions,      \* the sessions table: a row or Null for each key
    mutex,         \* Pool.locks: the request that holds the mutex of a key
    loginSem,      \* tokens in the channel Pool.loginSem
    shortlinkSem,  \* tokens in the channel Pool.shortlinkSem
    pc,            \* where each request is
    call,          \* its arguments, the proxy being the effective one
    via,           \* the proxy of the current attempt
    sess,          \* the session it got, by its login buffer
    cancelled      \* requests whose context is done

poolVars == <<accounts, sessions, mutex, loginSem, shortlinkSem,
              pc, call, via, sess, cancelled>>

(* accounts and sessions are on disk, everything else is in memory.            *)
tables == <<accounts, sessions>>
sems == <<loginSem, shortlinkSem>>

Keys == Accounts \X Proxies
Rows == [buf : Buffers, live : BOOLEAN]
Calls == [acct : Accounts, proxy : Proxies, buf : Buffers]

(* The program counter names the next statement of run, state or op.           *)
HoldingToken == {"login", "put", "release"}
LoggingIn == {"account", "acquire", "login", "put"}
HoldingMutex == {"check", "unlock", "release"} \cup LoggingIn
Running == {"peek", "lock", "enqueue", "send", "invalidate", "done"} \cup HoldingMutex

PoolTypeOK ==
    /\ accounts \in [Accounts -> {"unused", "present", "deleted"}]
    /\ sessions \in [Keys -> Rows \cup {Null}]
    /\ mutex \in [Keys -> Requests \cup {Null}]
    /\ loginSem \in 0 .. MaxLogin
    /\ shortlinkSem \in 0 .. MaxShortlink
    /\ pc \in [Requests -> Running \cup {"idle"}]
    /\ call \in [Requests -> Calls]
    /\ via \in [Requests -> Proxies]
    /\ sess \in [Requests -> Buffers \cup {Null}]
    /\ cancelled \in SUBSET Requests

--------------------------------------------------------------------------------
Key(r) == <<call[r].acct, via[r]>>

(* What GetSession returns a row for: expires_at > now.                        *)
Live(k) == sessions[k] # Null /\ sessions[k].live

EffectiveProxy(p) == IF p # Direct THEN p ELSE DefaultProxy

(* Operators named Faulty... are slips a maintainer could make; the mutation   *)
(* runs put one in the place of the definition that follows it.                *)

(* The condition under which run makes a second, direct attempt.               *)
MayFallBack(r) == FallbackDirect /\ call[r].proxy # Direct /\ via[r] # Direct

NoCall == [acct |-> CHOOSE a \in Accounts : TRUE, proxy |-> Direct,
           buf |-> CHOOSE b \in Buffers : TRUE]

PoolInit ==
    /\ accounts \in [Accounts -> {"unused", "present"}]
    /\ sessions = [k \in Keys |-> Null]
    /\ mutex = [k \in Keys |-> Null]
    /\ loginSem = 0
    /\ shortlinkSem = 0
    /\ pc = [r \in Requests |-> "idle"]
    /\ call = [r \in Requests |-> NoCall]
    /\ via = [r \in Requests |-> Direct]
    /\ sess = [r \in Requests |-> Null]
    /\ cancelled = {}

Goto(r, from, to) ==
    /\ pc[r] = from
    /\ pc' = [pc EXCEPT ![r] = to]

(* The attempt failed before its operation ran: retry directly or give up.     *)
AttemptFailed(r) ==
    IF MayFallBack(r)
    THEN /\ pc' = [pc EXCEPT ![r] = "peek"]
         /\ via' = [via EXCEPT ![r] = Direct]
    ELSE /\ pc' = [pc EXCEPT ![r] = "done"]
         /\ UNCHANGED via

(* The operation failed: a proxied session is invalidated before the retry.    *)
OpFailed(r) ==
    /\ pc' = [pc EXCEPT ![r] = IF MayFallBack(r) THEN "invalidate" ELSE "done"]
    /\ sess' = [sess EXCEPT ![r] = Null]

--------------------------------------------------------------------------------
(* GetCode and its siblings enter run, which calls state.  The context they    *)
(* are given may be done already.                                              *)
Start(r, a, p, b) ==
    /\ Goto(r, "idle", "peek")
    /\ call' = [call EXCEPT ![r] = [acct |-> a, proxy |-> EffectiveProxy(p), buf |-> b]]
    /\ via' = [via EXCEPT ![r] = EffectiveProxy(p)]
    /\ cancelled' \in {cancelled, cancelled \cup {r}}
    /\ UNCHANGED <<tables, mutex, sems, sess>>

FaultyPeek(r) ==
    /\ r \notin cancelled
    /\ Goto(r, "peek", IF Live(Key(r)) THEN "enqueue" ELSE "account")
    /\ sess' = [sess EXCEPT ![r] = IF Live(Key(r)) THEN sessions[Key(r)].buf ELSE Null]
    /\ UNCHANGED <<tables, mutex, sems, call, via, cancelled>>

(* The lock-free lookup.  A done context fails every SQL statement, and a      *)
(* statement may fail on its own.                                              *)
Peek(r) ==
    /\ r \notin cancelled
    /\ Goto(r, "peek", IF Live(Key(r)) THEN "enqueue" ELSE "lock")
    /\ sess' = [sess EXCEPT ![r] = IF Live(Key(r)) THEN sessions[Key(r)].buf ELSE Null]
    /\ UNCHANGED <<tables, mutex, sems, call, via, cancelled>>

PeekFails(r) ==
    /\ pc[r] = "peek"
    /\ AttemptFailed(r)
    /\ UNCHANGED <<tables, mutex, sems, call, sess, cancelled>>

FaultyLock(r) ==
    /\ Goto(r, "lock", "check")
    /\ mutex' = [mutex EXCEPT ![Key(r)] = r]
    /\ UNCHANGED <<tables, sems, call, via, sess, cancelled>>

(* lock.Lock() does not look at the context.                                   *)
Lock(r) ==
    /\ Goto(r, "lock", "check")
    /\ mutex[Key(r)] = Null
    /\ mutex' = [mutex EXCEPT ![Key(r)] = r]
    /\ UNCHANGED <<tables, sems, call, via, sess, cancelled>>

FaultyCheck(r) ==
    /\ Goto(r, "check", "account")
    /\ UNCHANGED <<tables, mutex, sems, call, via, sess, cancelled>>

(* The second lookup, under the lock.                                          *)
Check(r) ==
    /\ r \notin cancelled
    /\ Goto(r, "check", IF Live(Key(r)) THEN "unlock" ELSE "account")
    /\ sess' = [sess EXCEPT ![r] = IF Live(Key(r)) THEN sessions[Key(r)].buf ELSE Null]
    /\ UNCHANGED <<tables, mutex, sems, call, via, cancelled>>

CheckFails(r) ==
    /\ Goto(r, "check", "unlock")
    /\ UNCHANGED <<tables, mutex, sems, call, via, sess, cancelled>>

GetAccount(r) ==
    /\ r \notin cancelled
    /\ accounts[call[r].acct] = "present"
    /\ Goto(r, "account", "acquire")
    /\ UNCHANGED <<tables, mutex, sems, call, via, sess, cancelled>>

GetAccountFails(r) ==
    /\ Goto(r, "account", "unlock")
    /\ UNCHANGED <<tables, mutex, sems, call, via, sess, cancelled>>

FaultyAcquireLogin(r) ==
    /\ Goto(r, "acquire", "login")
    /\ loginSem' = loginSem + 1
    /\ UNCHANGED <<tables, mutex, shortlinkSem, call, via, sess, cancelled>>

(* A select with both cases ready may take either.                             *)
AcquireLogin(r) ==
    /\ Goto(r, "acquire", "login")
    /\ loginSem < MaxLogin
    /\ loginSem' = loginSem + 1
    /\ UNCHANGED <<tables, mutex, shortlinkSem, call, via, sess, cancelled>>

AcquireLoginCancelled(r) ==
    /\ r \in cancelled
    /\ Goto(r, "acquire", "unlock")
    /\ UNCHANGED <<tables, mutex, sems, call, via, sess, cancelled>>

(* loginAndSession uses the login buffer the caller passed, whatever the       *)
(* account row holds by now.                                                   *)
Login(r) ==
    /\ Goto(r, "login", "put")
    /\ sess' = [sess EXCEPT ![r] = call[r].buf]
    /\ UNCHANGED <<tables, mutex, sems, call, via, cancelled>>

FaultyLoginFails(r) ==
    /\ Goto(r, "login", "unlock")
    /\ UNCHANGED <<tables, mutex, sems, call, via, sess, cancelled>>

LoginFails(r) ==
    /\ Goto(r, "login", "release")
    /\ UNCHANGED <<tables, mutex, sems, call, via, sess, cancelled>>

FaultyPutSession(r) ==
    /\ r \notin cancelled
    /\ Goto(r, "put", "release")
    /\ \E live \in BOOLEAN :
        sessions' = [sessions EXCEPT ![Key(r)] = [buf |-> sess[r], live |-> live]]
    /\ UNCHANGED <<accounts, mutex, sems, call, via, sess, cancelled>>

(* PutSession: the foreign key refuses a row whose account is gone; the expiry *)
(* of the access PSK may already have passed.                                  *)
PutSession(r) ==
    /\ r \notin cancelled
    /\ accounts[call[r].acct] = "present"
    /\ Goto(r, "put", "release")
    /\ \E live \in BOOLEAN :
        sessions' = [sessions EXCEPT ![Key(r)] = [buf |-> sess[r], live |-> live]]
    /\ UNCHANGED <<accounts, mutex, sems, call, via, sess, cancelled>>

PutSessionFails(r) ==
    /\ Goto(r, "put", "release")
    /\ sess' = [sess EXCEPT ![r] = Null]
    /\ UNCHANGED <<tables, mutex, sems, call, via, cancelled>>

(* The deferred release(p.loginSem), then the deferred lock.Unlock().          *)
ReleaseLogin(r) ==
    /\ Goto(r, "release", "unlock")
    /\ loginSem' = IF loginSem > 0 THEN loginSem - 1 ELSE loginSem
    /\ UNCHANGED <<tables, mutex, shortlinkSem, call, via, sess, cancelled>>

FaultyUnlock(r) ==
    /\ pc[r] = "unlock"
    /\ IF sess[r] = Null
       THEN AttemptFailed(r) /\ UNCHANGED mutex
       ELSE /\ pc' = [pc EXCEPT ![r] = "enqueue"]
            /\ mutex' = [mutex EXCEPT ![Key(r)] = Null]
            /\ UNCHANGED via
    /\ UNCHANGED <<tables, sems, call, sess, cancelled>>

Unlock(r) ==
    /\ pc[r] = "unlock"
    /\ mutex' = [mutex EXCEPT ![Key(r)] = Null]
    /\ IF sess[r] = Null
       THEN AttemptFailed(r)
       ELSE pc' = [pc EXCEPT ![r] = "enqueue"] /\ UNCHANGED via
    /\ UNCHANGED <<tables, sems, call, sess, cancelled>>

(* sendEnvelope queues for one of the shortlink slots.                         *)
AcquireShortlink(r) ==
    /\ Goto(r, "enqueue", "send")
    /\ shortlinkSem < MaxShortlink
    /\ shortlinkSem' = shortlinkSem + 1
    /\ UNCHANGED <<tables, mutex, loginSem, call, via, sess, cancelled>>

AcquireShortlinkFails(r) ==
    /\ pc[r] = "enqueue"
    /\ OpFailed(r)
    /\ UNCHANGED <<tables, mutex, sems, call, via, cancelled>>

ReleaseShortlink == shortlinkSem' = IF shortlinkSem > 0 THEN shortlinkSem - 1 ELSE shortlinkSem

Send(r) ==
    /\ Goto(r, "send", "done")
    /\ ReleaseShortlink
    /\ UNCHANGED <<tables, mutex, loginSem, call, via, sess, cancelled>>

FaultySendFails(r) ==
    /\ pc[r] = "send"
    /\ OpFailed(r)
    /\ UNCHANGED <<tables, mutex, sems, call, via, cancelled>>

SendFails(r) ==
    /\ pc[r] = "send"
    /\ OpFailed(r)
    /\ ReleaseShortlink
    /\ UNCHANGED <<tables, mutex, loginSem, call, via, cancelled>>

(* run discards the error of Invalidate, so the row may survive.               *)
Invalidate(r) ==
    /\ Goto(r, "invalidate", "peek")
    /\ via' = [via EXCEPT ![r] = Direct]
    /\ \/ /\ r \notin cancelled
          /\ sessions' = [sessions EXCEPT ![<<call[r].acct, call[r].proxy>>] = Null]
       \/ UNCHANGED sessions
    /\ UNCHANGED <<accounts, mutex, sems, call, sess, cancelled>>

(* run returns: a result when sess[r] is a session, else an error.             *)
Return(r) ==
    /\ Goto(r, "done", "idle")
    /\ call' = [call EXCEPT ![r] = NoCall]
    /\ via' = [via EXCEPT ![r] = Direct]
    /\ sess' = [sess EXCEPT ![r] = Null]
    /\ cancelled' = cancelled \ {r}
    /\ UNCHANGED <<tables, mutex, sems>>

--------------------------------------------------------------------------------
(* What happens around the pool.                                               *)

(* The client hangs up, or the server shuts down.                              *)
Cancel(r) ==
    /\ pc[r] \in Running \ {"done"}
    /\ cancelled' = cancelled \cup {r}
    /\ UNCHANGED <<tables, mutex, sems, pc, call, via, sess>>

Expire(k) ==
    /\ Live(k)
    /\ sessions' = [sessions EXCEPT ![k].live = FALSE]
    /\ UNCHANGED <<accounts, mutex, sems, pc, call, via, sess, cancelled>>

(* store.InvalidateSession, called by the HTTP layer when an operation failed. *)
InvalidateSession(k) ==
    /\ sessions' = [sessions EXCEPT ![k] = Null]
    /\ UNCHANGED <<accounts, mutex, sems, pc, call, via, sess, cancelled>>

CreateAccount(a) ==
    /\ accounts[a] = "unused"
    /\ accounts' = [accounts EXCEPT ![a] = "present"]
    /\ UNCHANGED <<sessions, mutex, sems, pc, call, via, sess, cancelled>>

(* DELETE FROM wechat_accounts, with ON DELETE CASCADE on the sessions.        *)
DeleteAccount(a) ==
    /\ accounts[a] = "present"
    /\ accounts' = [accounts EXCEPT ![a] = "deleted"]
    /\ sessions' = [k \in Keys |-> IF k[1] = a THEN Null ELSE sessions[k]]
    /\ UNCHANGED <<mutex, sems, pc, call, via, sess, cancelled>>

(* The process dies and NewPool starts afresh on the same database file.       *)
Restart ==
    /\ mutex' = [k \in Keys |-> Null]
    /\ loginSem' = 0
    /\ shortlinkSem' = 0
    /\ pc' = [r \in Requests |-> "idle"]
    /\ call' = [r \in Requests |-> NoCall]
    /\ via' = [r \in Requests |-> Direct]
    /\ sess' = [r \in Requests |-> Null]
    /\ cancelled' = {}
    /\ UNCHANGED tables

--------------------------------------------------------------------------------
(* The steps of one call, in the order of the code.                            *)
StateStep(r) ==
    \/ Peek(r) \/ PeekFails(r) \/ Lock(r) \/ Check(r) \/ CheckFails(r)
    \/ GetAccount(r) \/ GetAccountFails(r)
    \/ AcquireLogin(r) \/ AcquireLoginCancelled(r)
    \/ Login(r) \/ LoginFails(r) \/ PutSession(r) \/ PutSessionFails(r)
    \/ ReleaseLogin(r) \/ Unlock(r)

OpStep(r) ==
    \/ AcquireShortlink(r) \/ AcquireShortlinkFails(r)
    \/ Send(r) \/ SendFails(r) \/ Invalidate(r)

PoolStep(r) == StateStep(r) \/ OpStep(r)

TableStep ==
    \/ \E k \in Keys : Expire(k) \/ InvalidateSession(k)
    \/ \E a \in Accounts : CreateAccount(a) \/ DeleteAccount(a)

PoolNext ==
    \/ \E r \in Requests, a \in Accounts, p \in Proxies, b \in Buffers : Start(r, a, p, b)
    \/ \E r \in Requests : PoolStep(r) \/ Return(r) \/ Cancel(r)
    \/ TableStep
    \/ Restart

PoolSpec == PoolInit /\ [][PoolNext]_poolVars

(* Goroutines keep running; sync.Mutex hands itself over to a starved waiter   *)
(* and a channel serves its senders in order, hence strong fairness there.     *)
(* Network exchanges end: they run under deadlines.                            *)
Obtain(r) == Lock(r) \/ AcquireLogin(r) \/ AcquireShortlink(r)

PoolFairness ==
    \A r \in Requests :
        /\ WF_poolVars(PoolStep(r) \/ Return(r))
        /\ SF_poolVars(Obtain(r))

PoolFairSpec == PoolSpec /\ PoolFairness
--------------------------------------------------------------------------------
(* No login for nothing: from the second lookup (pool.go:172) until the new    *)
(* row is written (pool.go:195), no usable session of that key exists that the *)
(* request could have used instead.                                            *)
NoWastedLogin ==
    \A r \in Requests : pc[r] \in LoggingIn => ~Live(Key(r))

(* One login per key: of the requests that found no session for the same       *)
(* account and proxy, one logs in and the others wait (pool.go:169-171).       *)
OneLoginPerKey ==
    \A r1, r2 \in Requests :
        /\ pc[r1] \in HoldingMutex
        /\ pc[r2] \in HoldingMutex
        /\ Key(r1) = Key(r2)
        => r1 = r2

(* The login channel holds one token for each request between acquire and the  *)
(* deferred release, whichever way loginAndSession and PutSession end          *)
(* (pool.go:181-195): the limit is kept and no slot is ever lost.              *)
LoginTokensExact ==
    loginSem = Cardinality({r \in Requests : pc[r] \in HoldingToken})

(* The same for the shortlink channel (pool.go:292-304).                       *)
ShortlinkTokensExact ==
    shortlinkSem = Cardinality({r \in Requests : pc[r] = "send"})

(* A login that was overtaken by the deletion of its account leaves no row     *)
(* behind (foreign key and cascade of the sessions table, pool.go:195).        *)
NoOrphanSession ==
    \A k \in Keys : sessions[k] # Null => accounts[k[1]] = "present"

(* A call that waits for the mutex, a login slot or a shortlink slot gets it:  *)
(* every call returns, whatever failed on the way (pool.go:143-199).           *)
EveryCallReturns ==
    \A r \in Requests : pc[r] # "idle" ~> pc[r] = "idle"

(* The pool implements single flight per key: what is cached is what           *)
(* GetSession returns, and a load lasts from the second miss to PutSession.    *)
Cached == [k \in Keys |-> Live(k)]
Loaders == [k \in Keys |-> {r \in Requests : pc[r] \in LoggingIn /\ Key(r) = k}]

Flight == INSTANCE SingleFlight WITH cached <- Cached, loaders <- Loaders

(* Every step of the pool is a step of the abstract cache or none of its       *)
(* business: a session becomes usable only as the outcome of the one login in  *)
(* flight for its key (pool.go:163-199).                                       *)
ImplementsSingleFlight == Flight!Spec
================================================================================
