---------------------------------- MODULE Auth ----------------------------------
(* Users, console sessions and the admin password (internal/httpapi/auth.go    *)
(* and users_admin.go over the users table of internal/store/store.go).  Every *)
(* handler runs in a goroutine of its own and takes several steps: it finds    *)
(* out who is calling, reads a row, writes it, drops sessions.  No lock covers *)
(* two of them.  Tokens are not numbered: "the holder of the current token of  *)
(* a user" is all that currentIdentity can tell.                               *)
EXTENDS Naturals, FiniteSets

CONSTANTS
    Requests,   \* handlers that may run at the same time
    Names,      \* user names, compared without case, without adminUser
    Passwords,  \* passwords a client may send, all of legal length
    Cookies,    \* session ids
    MaxId,      \* bound on the ids handed out to users
    PassFromEnv,\* adminPassFromEnv
    Default,    \* the password of a configuration without YYB_ADMIN_PASS
    Stored,     \* the settings row admin_password, or Null; nothing ever writes it
    Null

ASSUME AuthAssumption ==
    /\ MaxId \in Nat \ {0}
    /\ Default \in Passwords
    /\ PassFromEnv \in BOOLEAN
    /\ Stored \in Passwords \cup {Null}
    /\ Null \notin Passwords \cup Names

VARIABLES
    users,      \* rows of the users table by id
    nextId,     \* the AUTOINCREMENT counter of that table
    adminPass,  \* the package variable adminPass
    sessions,   \* the package variable sessions
    owner,      \* owner_id of a wechat_accounts row, Null when there is no row
    at,         \* where each handler is
    job         \* what its local variables hold

vars == <<users, nextId, adminPass, sessions, owner, at, job>>

Admin == 0
Ids == 1..MaxId
Principals == Ids \cup {Admin}
Rows == [name : Names, pw : Passwords, disabled : BOOLEAN]
Ops == {"disable", "enable", "reset", "delete", "change", "store"}

(* pw is the password a session was opened with; overtaken says that the row   *)
(* was changed while the login that opened it was still under way.             *)
Entries == [who : Principals, name : Names \cup {Null}, pw : Passwords, overtaken : BOOLEAN]

Jobs == [op : Ops \cup {"login", "register"}, id : Principals,
         name : Names \cup {Null}, pw : Passwords, overtaken : BOOLEAN]

Places == {"home", "login", "insert", "look", "write", "drop", "dropAll"}

(* Null is none of the values it stands in for.                                *)
ASSUME NullAssumption == Null \notin Rows \cup Entries \cup Jobs \cup Principals

AuthTypeOK ==
    /\ users \in [Ids -> Rows \cup {Null}]
    /\ nextId \in 1..MaxId + 1
    /\ adminPass \in Passwords
    /\ sessions \in [Cookies -> Entries \cup {Null}]
    /\ owner \in Principals \cup {Null}
    /\ at \in [Requests -> Places]
    /\ job \in [Requests -> Jobs \cup {Null}]
    /\ \A r \in Requests : at[r] = "home" <=> job[r] = Null

--------------------------------------------------------------------------------
Present(i) == i \in Ids /\ users[i] # Null
Enabled(i) == Present(i) /\ ~users[i].disabled
Named(n) == {i \in Ids : Present(i) /\ users[i].name = n}

FaultyLoadedPassword == IF PassFromEnv THEN Default ELSE Stored

(* loadStoredPassword                                                          *)
LoadedPassword == IF PassFromEnv \/ Stored = Null THEN Default ELSE Stored

AuthInit ==
    /\ users = [i \in Ids |-> Null]
    /\ nextId = 1
    /\ adminPass = LoadedPassword
    /\ sessions = [c \in Cookies |-> Null]
    /\ owner = Null
    /\ at = [r \in Requests |-> "home"]
    /\ job = [r \in Requests |-> Null]

(* currentIdentity: the admin's token is always a valid credential of admin, a *)
(* user's token while the row is there and enabled, and a cookie stands for    *)
(* the identity it was opened with, without a look at the row.                 *)
CurrentIdentities ==
    {Admin} \cup {i \in Ids : Enabled(i)}
            \cup {sessions[c].who : c \in {d \in Cookies : sessions[d] # Null}}

Begin(r, place, j) ==
    /\ at[r] = "home"
    /\ at' = [at EXCEPT ![r] = place]
    /\ job' = [job EXCEPT ![r] = j]

Move(r, from, to) ==
    /\ at[r] = from
    /\ at' = [at EXCEPT ![r] = to]

Answer(r) ==
    /\ at' = [at EXCEPT ![r] = "home"]
    /\ job' = [job EXCEPT ![r] = Null]

(* Logins of i that are under way have read a row that is now out of date.     *)
Overtake(i) ==
    job' = [q \in Requests |->
              IF at[q] = "login" /\ job[q].id = i
              THEN [job[q] EXCEPT !.overtaken = TRUE]
              ELSE job[q]]

--------------------------------------------------------------------------------
(* handleLogin: verifyCredentials reads adminPass, or the row of the user.  It *)
(* may race with the write of adminPass; a torn value matches no password.     *)
VerifyCredentials(r, i, p) ==
    /\ \/ i = Admin /\ p = adminPass
       \/ Enabled(i) /\ p = users[i].pw
    /\ Begin(r, "login", [op |-> "login", id |-> i, pw |-> p, overtaken |-> FALSE,
                          name |-> IF i = Admin THEN Null ELSE users[i].name])
    /\ UNCHANGED <<users, nextId, adminPass, sessions, owner>>

(* A new random session id maps to the identity that was verified.             *)
OpenSession(r) ==
    /\ at[r] = "login"
    /\ \E c \in Cookies :
        /\ sessions[c] = Null
        /\ sessions' = [sessions EXCEPT ![c] =
             [who |-> job[r].id, name |-> job[r].name, pw |-> job[r].pw,
              overtaken |-> job[r].overtaken]]
    /\ Answer(r)
    /\ UNCHANGED <<users, nextId, adminPass, owner>>

(* handleLogout, or the end of the 24 hours: an entry past its expiry is never *)
(* accepted again, so it is gone here before sessionCleanupLoop deletes it.    *)
CloseSession(c) ==
    /\ sessions[c] # Null
    /\ sessions' = [sessions EXCEPT ![c] = Null]
    /\ UNCHANGED <<users, nextId, adminPass, owner, at, job>>

--------------------------------------------------------------------------------
(* handleRegisterAPI looks the name up first; the form posts straight on.      *)
Register(r, n, p) ==
    /\ Begin(r, "insert", [op |-> "register", id |-> Admin, name |-> n,
                           pw |-> p, overtaken |-> FALSE])
    /\ UNCHANGED <<users, nextId, adminPass, sessions, owner>>

FaultyInsertUser(r) ==
    /\ at[r] = "insert"
    /\ nextId \in Ids
    /\ users' = [users EXCEPT ![nextId] = [name |-> job[r].name, pw |-> job[r].pw,
                                           disabled |-> FALSE]]
    /\ nextId' = nextId + 1
    /\ Answer(r)
    /\ UNCHANGED <<adminPass, sessions, owner>>

FaultyIdOfInsertUser(r) ==
    /\ at[r] = "insert"
    /\ IF Named(job[r].name) = {}
       THEN /\ nextId \in Ids
            /\ \E i \in 1..nextId :
                /\ ~Present(i) /\ \A k \in 1..i - 1 : Present(k)
                /\ users' = [users EXCEPT ![i] = [name |-> job[r].name, pw |-> job[r].pw,
                                                 disabled |-> FALSE]]
            /\ nextId' = nextId + 1
       ELSE UNCHANGED <<users, nextId>>
    /\ Answer(r)
    /\ UNCHANGED <<adminPass, sessions, owner>>

(* The INSERT of CreateUser, refused when the name is taken.  The SELECT that  *)
(* follows only composes the answer.                                           *)
InsertUser(r) ==
    /\ at[r] = "insert"
    /\ IF Named(job[r].name) = {}
       THEN /\ nextId \in Ids
            /\ users' = [users EXCEPT ![nextId] = [name |-> job[r].name, pw |-> job[r].pw,
                                                   disabled |-> FALSE]]
            /\ nextId' = nextId + 1
       ELSE UNCHANGED <<users, nextId>>
    /\ Answer(r)
    /\ UNCHANGED <<adminPass, sessions, owner>>

--------------------------------------------------------------------------------
(* A handler that acts on user i for whoever currentIdentity found: the admin  *)
(* for the four operations of requireAdmin, a principal for itself to change   *)
(* its password or to store a scanned account.                                 *)
Identify(r, who, op, i, p) ==
    /\ IF op \in {"change", "store"} THEN i = who ELSE who = Admin /\ i \in Ids
    /\ (op = "change" /\ who = Admin) => ~PassFromEnv
    /\ op \notin {"change", "reset"} => p = Default
    /\ Begin(r, IF op = "store" THEN "write" ELSE "look",
             [op |-> op, id |-> i, pw |-> p, name |-> Null, overtaken |-> FALSE])
    /\ UNCHANGED <<users, nextId, adminPass, sessions, owner>>

(* GetUser finds the row, and a password change checks the old password and    *)
(* that the new one differs.                                                   *)
LookUser(r) ==
    /\ Move(r, "look", "write")
    /\ IF job[r].id = Admin
       THEN job[r].pw # adminPass
       ELSE /\ Present(job[r].id)
            /\ job[r].op = "change" => job[r].pw # users[job[r].id].pw
    /\ UNCHANGED <<users, nextId, adminPass, sessions, owner, job>>

FaultySetUserDisabled(r) ==
    LET i == job[r].id
    IN  /\ at[r] = "write"
        /\ job[r].op \in {"disable", "enable"}
        /\ users' = [users EXCEPT ![i] =
                       IF @ = Null THEN @ ELSE [@ EXCEPT !.disabled = job[r].op = "disable"]]
        /\ Answer(r)
        /\ UNCHANGED <<nextId, adminPass, sessions, owner>>

(* SetUserDisabled: no row, no change, no error.                               *)
SetUserDisabled(r) ==
    LET i == job[r].id
    IN  /\ at[r] = "write"
        /\ job[r].op \in {"disable", "enable"}
        /\ users' = [users EXCEPT ![i] =
                       IF @ = Null THEN @ ELSE [@ EXCEPT !.disabled = job[r].op = "disable"]]
        /\ IF job[r].op = "disable"
           THEN Move(r, "write", "drop") /\ Overtake(i)
           ELSE Answer(r)
        /\ UNCHANGED <<nextId, adminPass, sessions, owner>>

(* UpdateUserPassword, for the user or for the admin who resets it.            *)
UpdateUserPassword(r) ==
    LET i == job[r].id
    IN  /\ Move(r, "write", "drop")
        /\ job[r].op \in {"reset", "change"}
        /\ i # Admin
        /\ users' = [users EXCEPT ![i] = IF @ = Null THEN @ ELSE [@ EXCEPT !.pw = job[r].pw]]
        /\ Overtake(i)
        /\ UNCHANGED <<nextId, adminPass, sessions, owner>>

(* DeleteUser: one transaction for the accounts and the user.                  *)
DeleteUser(r) ==
    LET i == job[r].id
    IN  /\ Move(r, "write", "drop")
        /\ job[r].op = "delete"
        /\ users' = [users EXCEPT ![i] = Null]
        /\ owner' = IF owner = i THEN Null ELSE owner
        /\ Overtake(i)
        /\ UNCHANGED <<nextId, adminPass, sessions>>

(* handleAdminPasswordChange assigns adminPass; nothing calls SetSetting.      *)
SetAdminPassword(r) ==
    /\ Move(r, "write", "dropAll")
    /\ job[r].op = "change" /\ job[r].id = Admin
    /\ adminPass' = job[r].pw
    /\ Overtake(Admin)
    /\ UNCHANGED <<users, nextId, sessions, owner>>

(* UpsertAccount with COALESCE(excluded.owner_id, owner_id).                   *)
UpsertAccount(r) ==
    /\ at[r] = "write"
    /\ job[r].op = "store"
    /\ owner' = IF job[r].id = Admin /\ owner # Null THEN owner ELSE job[r].id
    /\ Answer(r)
    /\ UNCHANGED <<users, nextId, adminPass, sessions>>

InvalidateUserSessions(r) ==
    /\ at[r] = "drop"
    /\ sessions' = [c \in Cookies |->
         IF sessions[c] # Null /\ sessions[c].who = job[r].id THEN Null ELSE sessions[c]]
    /\ Answer(r)
    /\ UNCHANGED <<users, nextId, adminPass, owner>>

InvalidateAllSessions(r) ==
    /\ at[r] = "dropAll"
    /\ sessions' = [c \in Cookies |-> Null]
    /\ Answer(r)
    /\ UNCHANGED <<users, nextId, adminPass, owner>>

(* A check refuses the request, or its context is done when it gets to the     *)
(* database.  Once the row is written the handler goes on to the end.          *)
Refuse(r) ==
    /\ at[r] \in {"insert", "look", "write"}
    /\ ~(at[r] = "write" /\ job[r].op = "change" /\ job[r].id = Admin)
    /\ Answer(r)
    /\ UNCHANGED <<users, nextId, adminPass, sessions, owner>>

AuthRestart ==
    /\ sessions' = [c \in Cookies |-> Null]
    /\ adminPass' = LoadedPassword
    /\ at' = [r \in Requests |-> "home"]
    /\ job' = [r \in Requests |-> Null]
    /\ UNCHANGED <<users, nextId, owner>>

--------------------------------------------------------------------------------
HandlerStep(r) ==
    \/ OpenSession(r) \/ InsertUser(r) \/ LookUser(r)
    \/ SetUserDisabled(r) \/ UpdateUserPassword(r) \/ DeleteUser(r) \/ SetAdminPassword(r)
    \/ UpsertAccount(r) \/ InvalidateUserSessions(r) \/ InvalidateAllSessions(r) \/ Refuse(r)

Arrive(r) ==
    /\ at[r] = "home"
    /\ \/ \E i \in Principals, p \in Passwords : VerifyCredentials(r, i, p)
       \/ \E n \in Names, p \in Passwords : Register(r, n, p)
       \/ \E who \in CurrentIdentities, i \in Principals, op \in Ops, p \in Passwords :
            Identify(r, who, op, i, p)

AuthNext ==
    \/ \E r \in Requests : Arrive(r) \/ HandlerStep(r)
    \/ \E c \in Cookies : CloseSession(c)
    \/ AuthRestart

AuthSpec == AuthInit /\ [][AuthNext]_vars

--------------------------------------------------------------------------------
(* Sessions of i are about to be dropped.                                      *)
DropPending(i) ==
    \E r \in Requests : at[r] = "dropAll" \/ (at[r] = "drop" /\ job[r].id = i)

(* A session still agrees with the row it was opened from (enabled, the same   *)
(* password) or is about to be dropped, unless its login was already verified  *)
(* when the row changed (auth.go:292-300 against users_admin.go:70-80,         *)
(* 125-129, 159-163 and auth.go:406-410, 443-444).                             *)
SessionsMatchUsers ==
    \A c \in Cookies :
        sessions[c] # Null /\ ~sessions[c].overtaken =>
            LET i == sessions[c].who
            IN  \/ DropPending(i)
                \/ i = Admin /\ sessions[c].pw = adminPass
                \/ Enabled(i) /\ sessions[c].pw = users[i].pw

(* The name kept in a session is the name in the row its id points to, even    *)
(* when the session outlives its user and the name is registered again: ids    *)
(* are AUTOINCREMENT (store.go:40, auth.go:104-109).                           *)
SessionsAreOwn ==
    \A c \in Cookies :
        sessions[c] # Null /\ Present(sessions[c].who) =>
            sessions[c].name = users[sessions[c].who].name

(* A name leads to one row, although two registrations may both find it free   *)
(* (auth.go:597-602, store.go:41); logins by name rest on it.                  *)
OneRowPerName ==
    \A i, k \in Ids : Present(i) /\ Present(k) /\ users[i].name = users[k].name => i = k

(* auth.go:197-199: no valid credential of a disabled user.                    *)
DisabledLockedOut ==
    \A c \in Cookies :
        sessions[c] # Null /\ Present(sessions[c].who) /\ users[sessions[c].who].disabled =>
            DropPending(sessions[c].who)

(* store.go:296: when a user is removed so are the accounts it owns.           *)
AccountsHaveOwners == owner \in Ids => Present(owner)
================================================================================
