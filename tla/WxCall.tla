--------------------------------- MODULE WxCall ---------------------------------
(* The account-level life of a wxapp call (internal/httpapi/app.go): use the   *)
(* cached session, else refresh the account's login buffer with the token      *)
(* server, write the outcome back to wechat_accounts, and call the pool again. *)
(* The pool is SessionPool itself; a request of this module is the goroutine   *)
(* that makes the pool's calls.  Scans store fresh credentials concurrently.   *)
EXTENDS SessionPool

CONSTANTS
    Tokens,     \* refresh tokens, numbered as they are issued; 0 is none
    Rotations,  \* what the token server may do on a refresh: TRUE is rotate
    Faults      \* whether calls of the token server and SQL statements may fail on their own

ASSUME TokensAssumption ==
    /\ Buffers \subseteq Nat /\ 1 \in Buffers
    /\ Tokens \subseteq Nat /\ {0, 1} \subseteq Tokens
    /\ Rotations \subseteq BOOLEAN /\ Rotations # {}
    /\ Faults \in BOOLEAN

VARIABLES
    row,      \* login_buffer, credentials and status columns of an account
    valid,    \* the refresh tokens of an account that the server accepts
    tokenOf,  \* the token each login buffer was issued with; 0 .. for unissued
    last,     \* the last login buffer and the last token issued
    scan,     \* the result a confirmed QR session holds for an account
    at,       \* where each HTTP request is
    acc,      \* its *store.WechatAccount, read at some earlier moment
    fresh,    \* what RefreshLoginBuffer has got so far
    hungUp,   \* requests whose r.Context() is done
    lost      \* accounts that have lost their newest token to one of the named events

wxVars == <<row, valid, tokenOf, last, scan, at, acc, fresh, hungUp, lost>>
vars == <<poolVars, wxVars>>

server == <<valid, tokenOf, last>>
Pairs == [buf : Buffers, token : Tokens]
Statuses == {"unknown", "alive", "expired"}
Snapshots == [acct : Accounts, buf : Buffers, token : Tokens, only : BOOLEAN]

InRefresh == {"refresh", "fetch", "save", "markAlive", "markExpired"}
Places == {"home", "session", "first", "forget", "reread", "second"} \cup InRefresh

WxTypeOK ==
    /\ row \in [Accounts -> [buf : Buffers, token : Tokens, status : Statuses]]
    /\ valid \in [Accounts -> SUBSET (Tokens \ {0})]
    /\ tokenOf \in [Buffers -> Tokens]
    /\ last \in Pairs
    /\ scan \in [Accounts -> Pairs \cup {Null}]
    /\ at \in [Requests -> Places]
    /\ acc \in [Requests -> Snapshots]
    /\ fresh \in [Requests -> Pairs]
    /\ hungUp \in SUBSET Requests
    /\ lost \in [Accounts -> BOOLEAN]

--------------------------------------------------------------------------------
NoSnapshot == [acct |-> CHOOSE a \in Accounts : TRUE, buf |-> 1, token |-> 0, only |-> FALSE]
NoPair == [buf |-> 1, token |-> 0]

Present(a) == accounts[a] = "present"
SessionKey(r) == <<acc[r].acct, DefaultProxy>>

WxInit ==
    /\ PoolInit
    /\ \E t \in {0, 1} :
        /\ t = 1 => \E a \in Accounts : Present(a)
        /\ row = [a \in Accounts |->
                    [buf |-> 1, token |-> t, status |-> IF t = 0 THEN "unknown" ELSE "alive"]]
        /\ valid = [a \in Accounts |-> {t} \ {0}]
        /\ tokenOf = [b \in Buffers |-> IF b = 1 THEN t ELSE 0]
    /\ last = [buf |-> 1, token |-> 1]
    /\ scan = [a \in Accounts |-> Null]
    /\ at = [r \in Requests |-> "home"]
    /\ acc = [r \in Requests |-> NoSnapshot]
    /\ fresh = [r \in Requests |-> NoPair]
    /\ hungUp = {}
    /\ lost = [a \in Accounts |-> FALSE]

Move(r, from, to) ==
    /\ at[r] = from
    /\ at' = [at EXCEPT ![r] = to]

(* The request is answered and forgotten.                                      *)
Answer(r) ==
    /\ at' = [at EXCEPT ![r] = "home"]
    /\ acc' = [acc EXCEPT ![r] = NoSnapshot]
    /\ fresh' = [fresh EXCEPT ![r] = NoPair]
    /\ hungUp' = hungUp \ {r}

(* The pool call gets the login buffer of acc and the request's context.       *)
CallPool(r, b) ==
    /\ Start(r, acc[r].acct, DefaultProxy, b)
    /\ r \in cancelled' <=> r \in hungUp

(* A token that has replaced another is on its way into the row of a.          *)
Rotated(r) == fresh[r].token # acc[r].token

Carries(r, a) ==
    /\ at[r] \in {"fetch", "save"} /\ Rotated(r)
    /\ acc[r].acct = a
    /\ fresh[r].token \in valid[a]

(* A statement about the account of a request takes effect; or it does not:    *)
(* the row is gone, the context is done, or the statement fails on its own.    *)
Reaches(r) == Present(acc[r].acct) /\ r \notin hungUp
Misses(r) == Faults \/ ~Reaches(r)

--------------------------------------------------------------------------------
(* resolveAccountRef reads the row.  callWXApp goes on with the lookup of a    *)
(* session, or in its farm5 branch by invalidating it; handleAccountRefresh    *)
(* only refreshes.                                                             *)
Arrive(r, a) ==
    /\ at[r] = "home"
    /\ Present(a)
    /\ \E entry \in {"session", "forget", "refresh"} :
        /\ at' = [at EXCEPT ![r] = entry]
        /\ acc' = [acc EXCEPT ![r] = [acct |-> a, buf |-> row[a].buf, token |-> row[a].token,
                                      only |-> entry = "refresh"]]
    /\ UNCHANGED <<poolVars, row, server, scan, fresh, hungUp, lost>>

(* invokeWXApp: any error of GetSession counts as a miss.                      *)
LookSession(r) ==
    /\ at[r] = "session"
    /\ \/ /\ Reaches(r) /\ Live(SessionKey(r))
          /\ CallPool(r, acc[r].buf) /\ Move(r, "session", "first")
       \/ /\ Misses(r) \/ ~Live(SessionKey(r))
          /\ UNCHANGED poolVars /\ Move(r, "session", "refresh")
    /\ UNCHANGED <<row, server, scan, acc, fresh, hungUp, lost>>

FaultyFirstReturns(r) ==
    /\ at[r] = "first"
    /\ Return(r)
    /\ IF sess[r] # Null
       THEN Answer(r)
       ELSE Move(r, "first", "session") /\ UNCHANGED <<acc, fresh, hungUp>>
    /\ UNCHANGED <<row, server, scan, lost>>

FirstReturns(r) ==
    /\ at[r] = "first"
    /\ Return(r)
    /\ IF sess[r] # Null
       THEN Answer(r)
       ELSE Move(r, "first", "forget") /\ UNCHANGED <<acc, fresh, hungUp>>
    /\ UNCHANGED <<row, server, scan, lost>>

(* InvalidateSession, its error discarded.                                     *)
Forget(r) ==
    /\ Move(r, "forget", "refresh")
    /\ \/ Reaches(r) /\ InvalidateSession(SessionKey(r))
       \/ Misses(r) /\ UNCHANGED poolVars
    /\ UNCHANGED <<row, server, scan, acc, fresh, hungUp, lost>>

(* SetAccountStatus, its error discarded.                                      *)
WriteStatus(r, status) ==
    \/ Reaches(r) /\ row' = [row EXCEPT ![acc[r].acct].status = status]
    \/ Misses(r) /\ UNCHANGED row

FaultyNoCredentials(r) ==
    /\ at[r] = "refresh"
    /\ acc[r].token = 0
    /\ WriteStatus(r, "none")
    /\ Answer(r)
    /\ UNCHANGED <<poolVars, server, scan, lost>>

(* refreshLiveness without credentials ("unknown") or with credentials that    *)
(* hold no refresh token ("expired"); either way the call is refused.          *)
NoCredentials(r) ==
    /\ at[r] = "refresh"
    /\ acc[r].token = 0
    /\ \E status \in {"unknown", "expired"} : WriteStatus(r, status)
    /\ Answer(r)
    /\ UNCHANGED <<poolVars, server, scan, lost>>

FaultyRefreshCredentials(r) ==
    LET a == acc[r].acct
        old == acc[r].token
    IN  /\ Move(r, "refresh", "fetch")
        /\ r \notin hungUp
        /\ old \in valid[a]
        /\ last.token + 1 \in Tokens
        /\ last' = [last EXCEPT !.token = @ + 1]
        /\ valid' = [valid EXCEPT ![a] = (@ \ {old}) \cup {last.token + 1}]
        /\ fresh' = [fresh EXCEPT ![r].token = old]
        /\ UNCHANGED <<poolVars, row, tokenOf, scan, acc, hungUp, lost>>

(* RefreshCredentials is accepted; the server may replace the refresh token.   *)
RefreshCredentials(r) ==
    LET a == acc[r].acct
        old == acc[r].token
    IN  /\ Move(r, "refresh", "fetch")
        /\ r \notin hungUp
        /\ old \in valid[a]
        /\ \E rotate \in Rotations :
            IF rotate
            THEN /\ last.token + 1 \in Tokens
                 /\ last' = [last EXCEPT !.token = @ + 1]
                 /\ valid' = [valid EXCEPT ![a] = (@ \ {old}) \cup {last.token + 1}]
                 /\ fresh' = [fresh EXCEPT ![r].token = last.token + 1]
            ELSE /\ fresh' = [fresh EXCEPT ![r].token = old]
                 /\ UNCHANGED <<last, valid>>
        /\ UNCHANGED <<poolVars, row, tokenOf, scan, acc, hungUp, lost>>

(* The server refuses the token, or the call fails before it gets there.       *)
RefreshRefused(r) ==
    /\ acc[r].token # 0
    /\ acc[r].token \notin valid[acc[r].acct] \/ Faults \/ r \in hungUp
    /\ Move(r, "refresh", "markExpired")
    /\ UNCHANGED <<poolVars, row, server, scan, acc, fresh, hungUp, lost>>

(* The server has rotated the token but the answer never arrives.              *)
RefreshAnswerLost(r) ==
    /\ Faults
    /\ TRUE \in Rotations
    /\ acc[r].token \in valid[acc[r].acct]
    /\ Move(r, "refresh", "markExpired")
    /\ valid' = [valid EXCEPT ![acc[r].acct] = @ \ {acc[r].token}]
    /\ lost' = [lost EXCEPT ![acc[r].acct] = @ \/ row[acc[r].acct].token = acc[r].token]
    /\ UNCHANGED <<poolVars, row, tokenOf, last, scan, acc, fresh, hungUp>>

FetchLoginBuffer(r) ==
    /\ r \notin hungUp
    /\ Move(r, "fetch", "save")
    /\ last.buf + 1 \in Buffers
    /\ last' = [last EXCEPT !.buf = @ + 1]
    /\ tokenOf' = [tokenOf EXCEPT ![last.buf + 1] = fresh[r].token]
    /\ fresh' = [fresh EXCEPT ![r].buf = last.buf + 1]
    /\ UNCHANGED <<poolVars, row, valid, scan, acc, hungUp, lost>>

(* RefreshLoginBuffer drops the refreshed credentials with the error.          *)
FetchFails(r) ==
    /\ Faults \/ r \in hungUp
    /\ Move(r, "fetch", "markExpired")
    /\ lost' = [lost EXCEPT ![acc[r].acct] = @ \/ Rotated(r)]
    /\ fresh' = [fresh EXCEPT ![r] = NoPair]
    /\ UNCHANGED <<poolVars, row, server, scan, acc, hungUp>>

FaultySetAccountCredential(r) ==
    LET a == acc[r].acct
    IN  /\ Move(r, "save", "markAlive")
        /\ \/ /\ Reaches(r)
              /\ row' = [row EXCEPT ![a].buf = fresh[r].buf, ![a].token = acc[r].token]
              /\ UNCHANGED lost
           \/ /\ Misses(r)
              /\ lost' = [lost EXCEPT ![a] = @ \/ Rotated(r)]
              /\ UNCHANGED row
        /\ fresh' = [fresh EXCEPT ![r] = NoPair]
        /\ UNCHANGED <<poolVars, server, scan, acc, hungUp>>

(* SetAccountCredential, its error discarded.  A token the server has kept may *)
(* have been spent by another refresh since; a rotated one that is not written *)
(* is gone.                                                                    *)
SetAccountCredential(r) ==
    LET a == acc[r].acct
    IN  /\ Move(r, "save", "markAlive")
        /\ \/ /\ Reaches(r)
              /\ row' = [row EXCEPT ![a].buf = fresh[r].buf, ![a].token = fresh[r].token]
              /\ lost' = [lost EXCEPT ![a] = ~Rotated(r) /\ fresh[r].token \notin valid[a]]
           \/ /\ Misses(r)
              /\ lost' = [lost EXCEPT ![a] = @ \/ Rotated(r)]
              /\ UNCHANGED row
        /\ fresh' = [fresh EXCEPT ![r] = NoPair]
        /\ UNCHANGED <<poolVars, server, scan, acc, hungUp>>

(* SetAccountStatus "alive"; a plain refresh is answered, a call goes on.      *)
MarkAlive(r) ==
    /\ at[r] = "markAlive"
    /\ WriteStatus(r, "alive")
    /\ IF acc[r].only
       THEN Answer(r)
       ELSE Move(r, "markAlive", "reread") /\ UNCHANGED <<acc, fresh, hungUp>>
    /\ UNCHANGED <<poolVars, server, scan, lost>>

(* SetAccountStatus "expired" and the 409 answer.                              *)
MarkExpired(r) ==
    /\ at[r] = "markExpired"
    /\ WriteStatus(r, "expired")
    /\ Answer(r)
    /\ UNCHANGED <<poolVars, server, scan, lost>>

(* The row is read again, and on an error the old snapshot is used; after the  *)
(* call of the pool it is not needed any more.                                 *)
Reread(r) ==
    /\ Move(r, "reread", "second")
    /\ \/ Reaches(r) /\ CallPool(r, row[acc[r].acct].buf)
       \/ Misses(r) /\ CallPool(r, acc[r].buf)
    /\ acc' = [acc EXCEPT ![r] = NoSnapshot]
    /\ UNCHANGED <<row, server, scan, fresh, hungUp, lost>>

SecondReturns(r) ==
    /\ at[r] = "second"
    /\ Return(r)
    /\ Answer(r)
    /\ UNCHANGED <<row, server, scan, lost>>

--------------------------------------------------------------------------------
(* A QR session of the account is confirmed: new token, new login buffer.      *)
Confirm(a) ==
    /\ scan[a] = Null
    /\ last.buf + 1 \in Buffers /\ last.token + 1 \in Tokens
    /\ last' = [buf |-> last.buf + 1, token |-> last.token + 1]
    /\ valid' = [valid EXCEPT ![a] = @ \cup {last.token + 1}]
    /\ tokenOf' = [tokenOf EXCEPT ![last.buf + 1] = last.token + 1]
    /\ scan' = [scan EXCEPT ![a] = last']
    /\ UNCHANGED <<poolVars, row, at, acc, fresh, hungUp, lost>>

(* storeFromScan: UpsertAccount of what the session holds, once for every      *)
(* confirm request that got it before dropQRSession.  A deleted account comes  *)
(* back under a new id.                                                        *)
StoreFromScan(a) ==
    /\ scan[a] # Null
    /\ accounts[a] # "deleted"
    /\ row' = [row EXCEPT ![a] = [buf |-> scan[a].buf, token |-> scan[a].token,
                                  status |-> "alive"]]
    /\ lost' = [lost EXCEPT ![a] = scan[a].token \notin valid[a]]
    /\ IF accounts[a] = "unused" THEN CreateAccount(a) ELSE UNCHANGED poolVars
    /\ UNCHANGED <<server, scan, at, acc, fresh, hungUp>>

DropQRSession(a) ==
    /\ scan[a] # Null
    /\ scan' = [scan EXCEPT ![a] = Null]
    /\ UNCHANGED <<poolVars, row, server, at, acc, fresh, hungUp, lost>>

HangUp(r) ==
    /\ at[r] # "home"
    /\ r \notin hungUp
    /\ hungUp' = hungUp \cup {r}
    /\ IF pc[r] \in Running \ {"done"} THEN Cancel(r) ELSE UNCHANGED poolVars
    /\ UNCHANGED <<row, server, scan, at, acc, fresh, lost>>

(* Requests and QR sessions are gone; what they carried is lost.               *)
WxRestart ==
    /\ Restart
    /\ at' = [r \in Requests |-> "home"]
    /\ acc' = [r \in Requests |-> NoSnapshot]
    /\ fresh' = [r \in Requests |-> NoPair]
    /\ hungUp' = {}
    /\ scan' = [a \in Accounts |-> Null]
    /\ lost' = [a \in Accounts |-> lost[a] \/ \E r \in Requests : Carries(r, a)]
    /\ UNCHANGED <<row, server>>

--------------------------------------------------------------------------------
RefreshStep(r) ==
    \/ NoCredentials(r) \/ RefreshCredentials(r) \/ RefreshRefused(r) \/ RefreshAnswerLost(r)
    \/ FetchLoginBuffer(r) \/ FetchFails(r) \/ SetAccountCredential(r)
    \/ MarkAlive(r) \/ MarkExpired(r)

CallStep(r) ==
    \/ LookSession(r) \/ FirstReturns(r) \/ Forget(r) \/ Reread(r) \/ SecondReturns(r)

RequestStep(r) ==
    \/ CallStep(r)
    \/ at[r] \in InRefresh /\ RefreshStep(r)
    \/ at[r] \in {"first", "second"} /\ PoolStep(r) /\ UNCHANGED wxVars

WxNext ==
    \/ \E r \in Requests, a \in Accounts : Arrive(r, a)
    \/ \E r \in Requests : RequestStep(r) \/ HangUp(r)
    \/ \E a \in Accounts : Confirm(a) \/ StoreFromScan(a) \/ DropQRSession(a)
    \/ \E k \in Keys : Expire(k) /\ UNCHANGED wxVars
    \/ \E a \in Accounts : DeleteAccount(a) /\ UNCHANGED wxVars
    \/ WxRestart

WxSpec == WxInit /\ [][WxNext]_vars

(* A goroutine that can go on again and again does go on: it runs, its network *)
(* calls end by their deadlines, and it only ever waits for a mutex or a slot  *)
(* that others give back and that is handed over in turn.                      *)
WxFairSpec == WxSpec /\ \A r \in Requests : SF_vars(RequestStep(r))

--------------------------------------------------------------------------------
(* The login buffer in a row was always issued with the credentials in the     *)
(* same row, however refreshes and scans of the account interleave             *)
(* (app.go:732, 746).                                                          *)
PairedCredentials ==
    \A a \in Accounts : Present(a) => row[a].token = tokenOf[row[a].buf]

(* Whether or not the token server rotates, the row of an account holds a      *)
(* token that it accepts, or a request is about to write one.  Lost is only    *)
(* what a call or statement loses that fails, a hang-up, a restart, a late     *)
(* store of an old scan, or a late write of a token that the server kept at    *)
(* the time and has replaced since; nobody ever overtakes the write of a new   *)
(* one (app.go:741-746, loginbuffer.go:160-170).                               *)
TokenKept ==
    \A a \in Accounts :
        Present(a) /\ row[a].token # 0 /\ ~lost[a] =>
            \/ row[a].token \in valid[a]
            \/ \E r \in Requests : Carries(r, a)

(* Every HTTP request is answered (app.go:529-616).                            *)
EveryRequestAnswered ==
    \A r \in Requests : at[r] # "home" ~> at[r] = "home"

(* What index.html:1269 and the 409 answer of app.go:609 tell the user: an     *)
(* account shown as expired, with no refresh under way, has to be scanned      *)
(* again because the server no longer accepts its credentials.                 *)
ExpiredMeansRescan ==
    \A a \in Accounts :
        /\ Present(a)
        /\ row[a].status = "expired"
        /\ \A r \in Requests : at[r] \in InRefresh => acc[r].acct # a
        => row[a].token \notin valid[a]
================================================================================
