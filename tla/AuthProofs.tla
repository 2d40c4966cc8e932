------------------------------- MODULE AuthProofs -------------------------------
(* The safety properties of Auth for every value of its constants.             *)
EXTENDS Auth, TLAPS

(* What verifyCredentials asks of a principal and a password.                  *)
Verified(i, p) ==
    \/ i = Admin /\ p = adminPass
    \/ Enabled(i) /\ p = users[i].pw

(* An id at or above the AUTOINCREMENT counter is nobody's: no row, no session *)
(* and no login under way has it.                                              *)
IdsGivenOut ==
    /\ \A i \in Ids : Present(i) => i < nextId
    /\ \A c \in Cookies : sessions[c] # Null => sessions[c].who < nextId
    /\ \A r \in Requests : at[r] = "login" => job[r].id < nextId

(* A registration has passed the check of its name.                            *)
NamesGiven ==
    \A r \in Requests : at[r] = "insert" => job[r].name \in Names

(* Between the two halves of handleLogin, what was read is still so, unless a  *)
(* write in between has been noted.                                            *)
LoginsAreOwn ==
    \A r \in Requests :
        at[r] = "login" /\ Present(job[r].id) => job[r].name = users[job[r].id].name

LoginsMatchUsers ==
    \A r \in Requests :
        at[r] = "login" => job[r].overtaken \/ Verified(job[r].id, job[r].pw)

(* Inductive: SessionsAreOwn needs that a new row never gets an id somebody    *)
(* still holds, and both properties of sessions need the same of the logins    *)
(* that are about to open one.                                                 *)
AuthInv ==
    /\ AuthTypeOK
    /\ NamesGiven
    /\ OneRowPerName
    /\ IdsGivenOut
    /\ LoginsAreOwn
    /\ SessionsAreOwn
    /\ LoginsMatchUsers
    /\ SessionsMatchUsers

--------------------------------------------------------------------------------
(* The program starts with the invariant.                                      *)
LEMMA InitAuthInv == AuthInit => AuthInv
<1> SUFFICES ASSUME AuthInit PROVE AuthInv
  OBVIOUS
<1> USE AuthAssumption, NullAssumption DEF AuthInit
<1>1. LoadedPassword \in Passwords
  BY DEF LoadedPassword
<1>2. AuthTypeOK
  BY <1>1 DEF AuthTypeOK, Places, Principals, Ids
<1>3. NamesGiven /\ OneRowPerName /\ IdsGivenOut
  BY DEF NamesGiven, OneRowPerName, IdsGivenOut, Present
<1>4. LoginsAreOwn /\ SessionsAreOwn /\ LoginsMatchUsers /\ SessionsMatchUsers
  BY DEF LoginsAreOwn, SessionsAreOwn, LoginsMatchUsers, SessionsMatchUsers
<1> QED
  BY <1>2, <1>3, <1>4 DEF AuthInv

(* Noting a write in the logins it overtakes changes no handler's type, and    *)
(* only logins of that principal.                                              *)
LEMMA OvertakeKeeps ==
    ASSUME AuthTypeOK, NEW i \in Principals, Overtake(i)
    PROVE  /\ job' \in [Requests -> Jobs \cup {Null}]
           /\ \A q \in Requests :
                /\ job'[q] = Null <=> job[q] = Null
                /\ job[q] # Null =>
                    /\ job'[q].op = job[q].op /\ job'[q].id = job[q].id
                    /\ job'[q].name = job[q].name /\ job'[q].pw = job[q].pw
                    /\ job'[q].overtaken =
                         (job[q].overtaken \/ (at[q] = "login" /\ job[q].id = i))
<1> USE NullAssumption DEF AuthTypeOK
<1>1. \A q \in Requests : at[q] = "login" => job[q] \in Jobs
  OBVIOUS
<1>2. ASSUME NEW j \in Jobs
      PROVE  /\ [j EXCEPT !.overtaken = TRUE] \in Jobs
             /\ j # Null /\ [j EXCEPT !.overtaken = TRUE] # Null
  BY DEF Jobs
<1>3. job' \in [Requests -> Jobs \cup {Null}]
  BY <1>1, <1>2 DEF Overtake
<1>4. ASSUME NEW q \in Requests
      PROVE  /\ job'[q] = Null <=> job[q] = Null
             /\ job[q] # Null =>
                  /\ job'[q].op = job[q].op /\ job'[q].id = job[q].id
                  /\ job'[q].name = job[q].name /\ job'[q].pw = job[q].pw
                  /\ job'[q].overtaken =
                       (job[q].overtaken \/ (at[q] = "login" /\ job[q].id = i))
  <2>1. CASE at[q] = "login" /\ job[q].id = i
    BY <1>1, <1>2, <2>1 DEF Overtake, Jobs
  <2>2. CASE ~(at[q] = "login" /\ job[q].id = i)
    <3>1. job'[q] = job[q]
      BY <2>2 DEF Overtake
    <3>2. job[q] # Null => job[q].overtaken \in BOOLEAN
      BY DEF Jobs
    <3> QED
      BY <2>2, <3>1, <3>2
  <2> QED
    BY <2>1, <2>2
<1> QED
  BY <1>3, <1>4

--------------------------------------------------------------------------------
(* Typing, one step per action.                                                *)
LEMMA TypeStep ==
    ASSUME AuthTypeOK, NamesGiven, [AuthNext]_vars
    PROVE  AuthTypeOK' /\ NamesGiven'
<1> USE AuthAssumption, NullAssumption
<1> USE DEF AuthTypeOK, NamesGiven, Principals, Ids, Admin
<1>0. CASE UNCHANGED vars
  BY <1>0 DEF vars
<1>a. ASSUME NEW r \in Requests, at[r] # "home"
      PROVE  job[r] \in Jobs
  BY <1>a
<1>1. ASSUME NEW r \in Requests, NEW i \in Principals, NEW p \in Passwords,
             VerifyCredentials(r, i, p)
      PROVE  AuthTypeOK' /\ NamesGiven'
  <2>1. IF i = Admin THEN TRUE ELSE users[i].name \in Names
    BY <1>1 DEF VerifyCredentials, Enabled, Present, Rows
  <2>2. [op |-> "login", id |-> i, pw |-> p, overtaken |-> FALSE,
         name |-> IF i = Admin THEN Null ELSE users[i].name] \in Jobs
    BY <2>1 DEF Jobs
  <2> QED
    BY <1>1, <2>2 DEF VerifyCredentials, Begin, Places
<1>2. ASSUME NEW r \in Requests, NEW n \in Names, NEW p \in Passwords, Register(r, n, p)
      PROVE  AuthTypeOK' /\ NamesGiven'
  <2>1. [op |-> "register", id |-> Admin, name |-> n, pw |-> p, overtaken |-> FALSE] \in Jobs
    BY DEF Jobs
  <2> QED
    BY <1>2, <2>1 DEF Register, Begin, Places
<1>3. ASSUME NEW r \in Requests, NEW who, NEW i \in Principals, NEW op \in Ops,
             NEW p \in Passwords, Identify(r, who, op, i, p)
      PROVE  AuthTypeOK' /\ NamesGiven'
  <2>1. [op |-> op, id |-> i, pw |-> p, name |-> Null, overtaken |-> FALSE] \in Jobs
    BY DEF Jobs
  <2> QED
    BY <1>3, <2>1 DEF Identify, Begin, Places
<1>4. ASSUME NEW r \in Requests, OpenSession(r)
      PROVE  AuthTypeOK' /\ NamesGiven'
  <2>1. job[r] \in Jobs
    BY <1>4 DEF OpenSession
  <2>2. [who |-> job[r].id, name |-> job[r].name, pw |-> job[r].pw,
         overtaken |-> job[r].overtaken] \in Entries
    BY <2>1 DEF Jobs, Entries
  <2> QED
    BY <1>4, <2>2 DEF OpenSession, Answer, Places
<1>5. ASSUME NEW r \in Requests, InsertUser(r)
      PROVE  AuthTypeOK' /\ NamesGiven'
  <2>1. job[r] \in Jobs
    BY <1>5 DEF InsertUser
  <2>2. CASE Named(job[r].name) = {}
    <3>1. nextId \in Ids /\ nextId' \in 1 .. MaxId + 1
      BY <1>5, <2>2 DEF InsertUser
    <3>2. job[r].name \in Names /\ job[r].pw \in Passwords
      BY <1>5, <2>1 DEF InsertUser, Jobs
    <3>3. [name |-> job[r].name, pw |-> job[r].pw, disabled |-> FALSE] \in Rows
      BY <3>2 DEF Rows
    <3>4. users' \in [Ids -> Rows \cup {Null}]
      BY <1>5, <2>2, <3>3 DEF InsertUser
    <3> QED
      BY <1>5, <3>1, <3>4 DEF InsertUser, Answer, Places
  <2>3. CASE Named(job[r].name) # {}
    BY <1>5, <2>3 DEF InsertUser, Answer, Places
  <2> QED
    BY <2>2, <2>3
<1>6. ASSUME NEW r \in Requests, LookUser(r)
      PROVE  AuthTypeOK' /\ NamesGiven'
  BY <1>6 DEF LookUser, Move, Places
<1>7. ASSUME NEW r \in Requests, SetUserDisabled(r)
      PROVE  AuthTypeOK' /\ NamesGiven'
  <2>1. job[r] \in Jobs /\ job[r].id \in Principals
    BY <1>7 DEF SetUserDisabled, Jobs
  <2>a. \A u \in Rows, b \in BOOLEAN : [u EXCEPT !.disabled = b] \in Rows
    BY DEF Rows
  <2>2. users' \in [Ids -> Rows \cup {Null}]
    <3> DEFINE written == job[r].op = "disable"
    <3>1. users' = [users EXCEPT ![job[r].id] =
                      IF @ = Null THEN @ ELSE [@ EXCEPT !.disabled = written]]
      BY <1>7 DEF SetUserDisabled
    <3>2. written \in BOOLEAN
      OBVIOUS
    <3>3. \A i \in Ids : users[i] # Null => [users[i] EXCEPT !.disabled = written] \in Rows
      BY <2>a, <3>2
    <3> HIDE DEF written
    <3>4. DOMAIN users' = Ids
      BY <3>1
    <3>5. \A i \in Ids : users'[i] \in Rows \cup {Null}
      BY <3>1, <3>3
    <3> QED
      BY <3>1, <3>4, <3>5
  <2>3. CASE job[r].op = "disable"
    BY <1>7, <2>1, <2>2, <2>3, OvertakeKeeps DEF SetUserDisabled, Move, Places
  <2>4. CASE job[r].op # "disable"
    <3>1. Answer(r) /\ UNCHANGED <<nextId, adminPass, sessions, owner>>
      BY <1>7, <2>4 DEF SetUserDisabled
    <3> QED
      BY <2>2, <3>1 DEF Answer, Places
  <2> QED
    BY <2>3, <2>4
<1>8. ASSUME NEW r \in Requests, UpdateUserPassword(r)
      PROVE  AuthTypeOK' /\ NamesGiven'
  <2>1. job[r] \in Jobs /\ job[r].id \in Principals /\ job[r].pw \in Passwords
    BY <1>8 DEF UpdateUserPassword, Move, Jobs
  <2>a. \A u \in Rows, p \in Passwords : [u EXCEPT !.pw = p] \in Rows
    BY DEF Rows
  <2>2. users' \in [Ids -> Rows \cup {Null}]
    BY <1>8, <2>1, <2>a DEF UpdateUserPassword
  <2> QED
    BY <1>8, <2>1, <2>2, OvertakeKeeps DEF UpdateUserPassword, Move, Places
<1>9. ASSUME NEW r \in Requests, DeleteUser(r)
      PROVE  AuthTypeOK' /\ NamesGiven'
  <2>1. job[r] \in Jobs /\ job[r].id \in Principals
    BY <1>9 DEF DeleteUser, Move, Jobs
  <2> QED
    BY <1>9, <2>1, OvertakeKeeps DEF DeleteUser, Move, Places
<1>10. ASSUME NEW r \in Requests, SetAdminPassword(r)
      PROVE  AuthTypeOK' /\ NamesGiven'
  <2>1. job[r] \in Jobs /\ job[r].pw \in Passwords
    BY <1>10 DEF SetAdminPassword, Move, Jobs
  <2> QED
    BY <1>10, <2>1, OvertakeKeeps DEF SetAdminPassword, Move, Places
<1>11. ASSUME NEW r \in Requests, UpsertAccount(r)
      PROVE  AuthTypeOK' /\ NamesGiven'
  <2>1. job[r] \in Jobs /\ job[r].id \in Principals
    BY <1>11 DEF UpsertAccount, Jobs
  <2> QED
    BY <1>11, <2>1 DEF UpsertAccount, Answer, Places
<1>12. ASSUME NEW r \in Requests, InvalidateUserSessions(r) \/ InvalidateAllSessions(r)
      PROVE  AuthTypeOK' /\ NamesGiven'
  BY <1>12 DEF InvalidateUserSessions, InvalidateAllSessions, Answer, Places
<1>13. ASSUME NEW r \in Requests, Refuse(r)
      PROVE  AuthTypeOK' /\ NamesGiven'
  BY <1>13 DEF Refuse, Answer, Places
<1>14. ASSUME NEW c \in Cookies, CloseSession(c)
      PROVE  AuthTypeOK' /\ NamesGiven'
  BY <1>14 DEF CloseSession
<1>15. CASE AuthRestart
  BY <1>15 DEF AuthRestart, LoadedPassword, Places
<1> QED
  BY <1>0, <1>1, <1>2, <1>3, <1>4, <1>5, <1>6, <1>7, <1>8, <1>9, <1>10, <1>11, <1>12,
     <1>13, <1>14, <1>15 DEF AuthNext, Arrive, HandlerStep

--------------------------------------------------------------------------------
(* Who is who.  Most steps only remove rows, sessions and logins.              *)
OnlyRemoves ==
    /\ nextId' = nextId
    /\ \A i \in Ids : Present(i)' => Present(i) /\ users'[i].name = users[i].name
    /\ \A c \in Cookies : sessions'[c] # Null => sessions'[c] = sessions[c]
    /\ \A q \in Requests : at'[q] = "login" =>
         /\ at[q] = "login"
         /\ job'[q].id = job[q].id /\ job'[q].name = job[q].name

(* Changing or deleting a user makes no row and moves no session to another one. *)
LEMMA WritesOnlyRemove ==
    ASSUME AuthTypeOK, NEW r \in Requests,
           \/ SetUserDisabled(r) \/ UpdateUserPassword(r) \/ DeleteUser(r) \/ SetAdminPassword(r)
    PROVE  OnlyRemoves
<1> USE AuthAssumption, NullAssumption DEF OnlyRemoves, AuthTypeOK, Present, Admin
<1>1. job[r] \in Jobs /\ job[r].id \in Principals
  BY DEF SetUserDisabled, UpdateUserPassword, DeleteUser, SetAdminPassword, Move, Jobs
<1>2. \A q \in Requests : at[q] = "login" => job[q] # Null
  OBVIOUS
<1>a. \A u \in Rows : \A b : [u EXCEPT !.disabled = b].name = u.name /\ [u EXCEPT !.pw = b].name = u.name
  BY DEF Rows
<1>3. CASE SetUserDisabled(r)
  <2> DEFINE written == job[r].op = "disable"
  <2>1. users' = [users EXCEPT ![job[r].id] =
                    IF @ = Null THEN @ ELSE [@ EXCEPT !.disabled = written]]
    BY <1>3 DEF SetUserDisabled
  <2>2. nextId' = nextId /\ sessions' = sessions
    BY <1>3 DEF SetUserDisabled
  <2>3. \/ Move(r, "write", "drop") /\ Overtake(job[r].id)
        \/ Answer(r)
    BY <1>3 DEF SetUserDisabled
  <2> HIDE DEF written
  <2>4. \A i \in Ids : Present(i)' => Present(i) /\ users'[i].name = users[i].name
    BY <1>a, <2>1
  <2>5. CASE Move(r, "write", "drop") /\ Overtake(job[r].id)
    BY <1>1, <1>2, <2>2, <2>4, <2>5, OvertakeKeeps DEF Move
  <2>6. CASE Answer(r)
    BY <2>2, <2>4, <2>6 DEF Answer
  <2> QED
    BY <2>3, <2>5, <2>6
<1>4. CASE UpdateUserPassword(r)
  <2>1. \A i \in Ids : Present(i)' => Present(i) /\ users'[i].name = users[i].name
    BY <1>4, <1>a DEF UpdateUserPassword
  <2> QED
    BY <1>1, <1>2, <1>4, <2>1, OvertakeKeeps DEF UpdateUserPassword, Move
<1>5. CASE DeleteUser(r)
  BY <1>1, <1>2, <1>5, OvertakeKeeps DEF DeleteUser, Move
<1>6. CASE SetAdminPassword(r)
  BY <1>1, <1>2, <1>6, OvertakeKeeps DEF SetAdminPassword, Move
<1> QED
  BY <1>3, <1>4, <1>5, <1>6

Identities == OneRowPerName /\ IdsGivenOut /\ LoginsAreOwn /\ SessionsAreOwn

(* Such a write keeps who every session and request stands for.                *)
LEMMA IdentitiesKept ==
    ASSUME AuthTypeOK, Identities, OnlyRemoves
    PROVE  Identities'
<1> USE DEF Identities, OnlyRemoves
<1>1. OneRowPerName'
  BY DEF OneRowPerName
<1>2. IdsGivenOut'
  BY DEF IdsGivenOut
<1>3. LoginsAreOwn'
  <2> SUFFICES ASSUME NEW q \in Requests, at'[q] = "login", Present(job[q].id)'
               PROVE  job'[q].name = users'[job'[q].id].name
    BY DEF LoginsAreOwn
  <2>1. job'[q].id \in Ids
    BY DEF Present
  <2> QED
    BY <2>1 DEF LoginsAreOwn
<1>4. SessionsAreOwn'
  <2> SUFFICES ASSUME NEW c \in Cookies, sessions'[c] # Null, Present(sessions[c].who)'
               PROVE  sessions'[c].name = users'[sessions'[c].who].name
    BY DEF SessionsAreOwn
  <2>1. sessions'[c].who \in Ids
    BY DEF Present
  <2> QED
    BY <2>1 DEF SessionsAreOwn
<1> QED
  BY <1>1, <1>2, <1>3, <1>4

(* So does every other step.                                                   *)
LEMMA IdentityStep ==
    ASSUME AuthTypeOK, NamesGiven, Identities, [AuthNext]_vars
    PROVE  Identities'
<1> USE AuthAssumption, NullAssumption
<1>0. CASE UNCHANGED vars
  <2>1. OnlyRemoves
    BY <1>0 DEF vars, OnlyRemoves, Present
  <2> QED
    BY <2>1, IdentitiesKept
<1>1. ASSUME NEW r \in Requests, NEW i \in Principals, NEW p \in Passwords,
             VerifyCredentials(r, i, p)
      PROVE  Identities'
  <2>1. i < nextId
    BY <1>1 DEF VerifyCredentials, Enabled, Identities, IdsGivenOut, Present, Admin, Ids, AuthTypeOK
  <2>2. /\ at' = [at EXCEPT ![r] = "login"]
        /\ job' = [job EXCEPT ![r] = [op |-> "login", id |-> i, pw |-> p, overtaken |-> FALSE,
                                      name |-> IF i = Admin THEN Null ELSE users[i].name]]
        /\ UNCHANGED <<users, nextId, sessions>>
    BY <1>1 DEF VerifyCredentials, Begin
  <2>3. OneRowPerName' /\ SessionsAreOwn'
    BY <2>2 DEF Identities, OneRowPerName, SessionsAreOwn, Present
  <2>4. IdsGivenOut'
    BY <2>1, <2>2 DEF Identities, IdsGivenOut, AuthTypeOK, Present
  <2>5. LoginsAreOwn'
    BY <2>2 DEF Identities, LoginsAreOwn, AuthTypeOK, Present, Ids, Admin
  <2> QED
    BY <2>3, <2>4, <2>5 DEF Identities
<1>2. ASSUME NEW r \in Requests, OpenSession(r)
      PROVE  Identities'
  <2>1. PICK c \in Cookies : sessions' = [sessions EXCEPT ![c] =
             [who |-> job[r].id, name |-> job[r].name, pw |-> job[r].pw,
              overtaken |-> job[r].overtaken]]
    BY <1>2 DEF OpenSession
  <2>2. at[r] = "login" /\ Answer(r) /\ UNCHANGED <<users, nextId>>
    BY <1>2 DEF OpenSession
  <2>3. OneRowPerName'
    BY <2>2 DEF Identities, OneRowPerName, Present
  <2>4. IdsGivenOut'
    BY <2>1, <2>2 DEF Identities, IdsGivenOut, AuthTypeOK, Present, Answer
  <2>5. LoginsAreOwn'
    BY <2>2 DEF Identities, LoginsAreOwn, AuthTypeOK, Present, Answer
  <2>6. SessionsAreOwn'
    BY <2>1, <2>2 DEF Identities, LoginsAreOwn, SessionsAreOwn, AuthTypeOK, Present
  <2> QED
    BY <2>3, <2>4, <2>5, <2>6 DEF Identities
<1>3. ASSUME NEW r \in Requests, InsertUser(r)
      PROVE  Identities'
  <2>1. Answer(r) /\ UNCHANGED sessions
    BY <1>3 DEF InsertUser
  <2>2. CASE Named(job[r].name) # {}
    <3>1. UNCHANGED <<users, nextId>>
      BY <1>3, <2>2 DEF InsertUser
    <3>2. OnlyRemoves
      BY <2>1, <3>1 DEF OnlyRemoves, Answer, AuthTypeOK, Present
    <3> QED
      BY <3>2, IdentitiesKept
  <2>3. CASE Named(job[r].name) = {}
    <3>1. /\ nextId \in Ids /\ nextId' = nextId + 1
          /\ users' = [users EXCEPT ![nextId] =
                          [name |-> job[r].name, pw |-> job[r].pw, disabled |-> FALSE]]
      BY <1>3, <2>3 DEF InsertUser
    <3>2. \A i \in Ids : Present(i)' /\ i # nextId => Present(i) /\ users'[i] = users[i]
      BY <3>1 DEF AuthTypeOK, Present
    <3>3. users'[nextId].name = job[r].name
      BY <3>1 DEF AuthTypeOK
    <3>4. \A i \in Ids : Present(i) => users[i].name # job[r].name
      BY <2>3 DEF Named
    <3>5. \A q \in Requests : at'[q] = "login" => at[q] = "login" /\ job'[q] = job[q]
      BY <2>1 DEF AuthTypeOK, Answer
    <3>6. OneRowPerName'
      BY <3>2, <3>3, <3>4 DEF Identities, OneRowPerName
    <3>7. IdsGivenOut'
      <4>1. nextId \in Nat /\ \A i \in Ids : i \in Nat
        BY DEF Ids, AuthTypeOK
      <4>2. ASSUME NEW i \in Ids, Present(i)' PROVE i < nextId'
        BY <3>1, <3>2, <4>1, <4>2 DEF Identities, IdsGivenOut
      <4>3. ASSUME NEW c \in Cookies, sessions'[c] # Null PROVE sessions'[c].who < nextId'
        <5>1. sessions[c].who \in Nat
          BY <2>1, <4>3 DEF AuthTypeOK, Entries, Principals, Ids, Admin
        <5> QED
          BY <2>1, <3>1, <4>1, <4>3, <5>1 DEF Identities, IdsGivenOut
      <4>4. ASSUME NEW q \in Requests, at'[q] = "login" PROVE job'[q].id < nextId'
        <5>1. job[q].id \in Nat
          BY <3>5, <4>4 DEF AuthTypeOK, Jobs, Principals, Ids, Admin
        <5> QED
          BY <3>1, <3>5, <4>1, <4>4, <5>1 DEF Identities, IdsGivenOut
      <4> QED
        BY <4>2, <4>3, <4>4 DEF IdsGivenOut
    <3>8. LoginsAreOwn'
      <4> SUFFICES ASSUME NEW q \in Requests, at'[q] = "login", Present(job[q].id)'
                   PROVE  job'[q].name = users'[job'[q].id].name
        BY DEF LoginsAreOwn
      <4>1. job[q].id # nextId /\ job[q].id \in Ids
        BY <3>5 DEF Identities, IdsGivenOut, Present, AuthTypeOK, Ids
      <4> QED
        BY <3>2, <3>5, <4>1 DEF Identities, LoginsAreOwn
    <3>9. SessionsAreOwn'
      <4> SUFFICES ASSUME NEW c \in Cookies, sessions'[c] # Null, Present(sessions[c].who)'
                   PROVE  sessions'[c].name = users'[sessions'[c].who].name
        BY DEF SessionsAreOwn
      <4>1. sessions[c].who # nextId /\ sessions[c].who \in Ids
        BY <2>1 DEF Identities, IdsGivenOut, Present, AuthTypeOK, Ids
      <4> QED
        BY <2>1, <3>2, <4>1 DEF Identities, SessionsAreOwn
    <3> QED
      BY <3>6, <3>7, <3>8, <3>9 DEF Identities
  <2> QED
    BY <2>2, <2>3
<1>4. ASSUME NEW r \in Requests,
             \/ SetUserDisabled(r) \/ UpdateUserPassword(r) \/ DeleteUser(r)
             \/ SetAdminPassword(r)
      PROVE  Identities'
  BY <1>4, WritesOnlyRemove, IdentitiesKept
<1> USE DEF OnlyRemoves, Present, AuthTypeOK
<1>5. ASSUME NEW r \in Requests, NEW n \in Names, NEW p \in Passwords, Register(r, n, p)
      PROVE  Identities'
  <2>1. OnlyRemoves
    BY <1>5 DEF Register, Begin
  <2> QED
    BY <2>1, IdentitiesKept
<1>6. ASSUME NEW r \in Requests, NEW who, NEW i \in Principals, NEW op \in Ops,
             NEW p \in Passwords, Identify(r, who, op, i, p)
      PROVE  Identities'
  <2>1. OnlyRemoves
    BY <1>6 DEF Identify, Begin
  <2> QED
    BY <2>1, IdentitiesKept
<1>7. ASSUME NEW r \in Requests,
             \/ LookUser(r) \/ UpsertAccount(r) \/ InvalidateUserSessions(r)
             \/ InvalidateAllSessions(r) \/ Refuse(r)
      PROVE  Identities'
  <2>1. CASE LookUser(r)
    BY <2>1, IdentitiesKept DEF LookUser, Move
  <2>2. CASE UpsertAccount(r) \/ Refuse(r)
    BY <2>2, IdentitiesKept DEF UpsertAccount, Refuse, Answer
  <2>3. CASE InvalidateUserSessions(r) \/ InvalidateAllSessions(r)
    BY <2>3, IdentitiesKept DEF InvalidateUserSessions, InvalidateAllSessions, Answer
  <2> QED
    BY <1>7, <2>1, <2>2, <2>3
<1>8. ASSUME NEW c \in Cookies, CloseSession(c)
      PROVE  Identities'
  BY <1>8, IdentitiesKept DEF CloseSession
<1>9. CASE AuthRestart
  BY <1>9, IdentitiesKept DEF AuthRestart
<1> QED
  BY <1>0, <1>1, <1>2, <1>3, <1>4, <1>5, <1>6, <1>7, <1>8, <1>9
     DEF AuthNext, Arrive, HandlerStep

--------------------------------------------------------------------------------
(* What a session is worth.  Steps that leave rows and adminPass alone, open   *)
(* no session and finish no removal of sessions.                               *)
OnlyForgets ==
    /\ users' = users /\ adminPass' = adminPass
    /\ \A c \in Cookies : sessions'[c] # Null => sessions'[c] = sessions[c]
    /\ \A q \in Requests : at'[q] = "login" => at[q] = "login" /\ job'[q] = job[q]
    /\ \A q \in Requests : at[q] \in {"drop", "dropAll"} => at'[q] = at[q] /\ job'[q] = job[q]

Worth == LoginsMatchUsers /\ SessionsMatchUsers

(* A step that only forgets sessions keeps what the remaining ones are worth.  *)
LEMMA WorthKept ==
    ASSUME AuthTypeOK, Worth, OnlyForgets
    PROVE  Worth'
<1> USE DEF Worth, OnlyForgets
<1>1. LoginsMatchUsers'
  BY DEF LoginsMatchUsers, Verified, Enabled, Present
<1>2. ASSUME NEW i, DropPending(i)
      PROVE  DropPending(i)'
  BY <1>2 DEF DropPending
<1>3. SessionsMatchUsers'
  BY <1>2 DEF SessionsMatchUsers, Enabled, Present
<1> QED
  BY <1>1, <1>3

(* A write of the row of i, or of adminPass, is followed by the removal of the *)
(* sessions of i, and overtakes its logins.                                    *)
LEMMA WorthWritten ==
    ASSUME AuthTypeOK, Worth, NEW r \in Requests, NEW i \in Principals, Overtake(i),
           \/ Move(r, "write", "drop") /\ job[r].id = i
           \/ Move(r, "write", "dropAll"),
           i # Admin => adminPass' = adminPass,
           \A k \in Ids \ {i} : users'[k] = users[k],
           sessions' = sessions
    PROVE  Worth'
<1> USE NullAssumption DEF Worth, AuthTypeOK, Move
<1>1. \A q \in Requests : at'[q] = "login" => at[q] = "login" /\ job[q] # Null
  OBVIOUS
<1>2. LoginsMatchUsers'
  <2> SUFFICES ASSUME NEW q \in Requests, at'[q] = "login", ~job'[q].overtaken
               PROVE  Verified(job[q].id, job[q].pw)'
    BY DEF LoginsMatchUsers
  <2>1. at[q] = "login" /\ job[q].id # i
    BY <1>1, OvertakeKeeps
  <2>2. job'[q].id = job[q].id /\ job'[q].pw = job[q].pw /\ ~job[q].overtaken
    BY <1>1, OvertakeKeeps
  <2>3. Verified(job[q].id, job[q].pw)
    BY <2>1, <2>2 DEF LoginsMatchUsers
  <2> QED
    BY <2>1, <2>2, <2>3 DEF Verified, Enabled, Present
<1>3. ASSUME NEW k \in Principals, DropPending(k)
      PROVE  DropPending(k)'
  BY <1>3, OvertakeKeeps DEF DropPending
<1>4. DropPending(i)'
  BY OvertakeKeeps DEF DropPending
<1>5. SessionsMatchUsers'
  BY <1>3, <1>4 DEF SessionsMatchUsers, Enabled, Present, Entries
<1> QED
  BY <1>2, <1>5

(* So does every other step.                                                   *)
LEMMA WorthStep ==
    ASSUME AuthTypeOK, IdsGivenOut, Worth, [AuthNext]_vars
    PROVE  Worth'
<1> USE AuthAssumption, NullAssumption
<1>0. CASE UNCHANGED vars
  BY <1>0, WorthKept DEF vars, OnlyForgets
<1>1. ASSUME NEW r \in Requests, NEW i \in Principals, NEW p \in Passwords,
             VerifyCredentials(r, i, p)
      PROVE  Worth'
  <2>1. Verified(i, p)
    BY <1>1 DEF VerifyCredentials, Verified
  <2>2. /\ at[r] = "home" /\ at' = [at EXCEPT ![r] = "login"]
        /\ job' = [job EXCEPT ![r] = [op |-> "login", id |-> i, pw |-> p, overtaken |-> FALSE,
                                      name |-> IF i = Admin THEN Null ELSE users[i].name]]
        /\ UNCHANGED <<users, adminPass, sessions>>
    BY <1>1 DEF VerifyCredentials, Begin
  <2>3. LoginsMatchUsers'
    BY <2>1, <2>2 DEF Worth, LoginsMatchUsers, AuthTypeOK, Verified, Enabled, Present
  <2>4. ASSUME NEW k, DropPending(k)
        PROVE  DropPending(k)'
    BY <2>2, <2>4 DEF DropPending, AuthTypeOK
  <2>5. SessionsMatchUsers'
    BY <2>2, <2>4 DEF Worth, SessionsMatchUsers, Enabled, Present
  <2> QED
    BY <2>3, <2>5 DEF Worth
<1>2. ASSUME NEW r \in Requests, OpenSession(r)
      PROVE  Worth'
  <2>1. PICK c \in Cookies : sessions' = [sessions EXCEPT ![c] =
             [who |-> job[r].id, name |-> job[r].name, pw |-> job[r].pw,
              overtaken |-> job[r].overtaken]]
    BY <1>2 DEF OpenSession
  <2>2. at[r] = "login" /\ Answer(r) /\ UNCHANGED <<users, adminPass>>
    BY <1>2 DEF OpenSession
  <2>3. LoginsMatchUsers'
    BY <2>2 DEF Worth, LoginsMatchUsers, AuthTypeOK, Answer, Verified, Enabled, Present
  <2>4. ASSUME NEW k, DropPending(k)
        PROVE  DropPending(k)'
    BY <2>2, <2>4 DEF DropPending, AuthTypeOK, Answer
  <2>5. \/ sessions'[c].overtaken
        \/ Verified(sessions[c].who, sessions[c].pw)'
    BY <2>1, <2>2 DEF Worth, LoginsMatchUsers, AuthTypeOK, Verified, Enabled, Present
  <2>6. \A d \in Cookies : d # c => sessions'[d] = sessions[d]
    BY <2>1 DEF AuthTypeOK
  <2>7. SessionsMatchUsers'
    BY <2>2, <2>4, <2>5, <2>6 DEF Worth, SessionsMatchUsers, Verified, Enabled, Present
  <2> QED
    BY <2>3, <2>7 DEF Worth
<1>3. ASSUME NEW r \in Requests, InsertUser(r)
      PROVE  Worth'
  <2>1. at[r] = "insert" /\ Answer(r) /\ UNCHANGED <<adminPass, sessions>>
    BY <1>3 DEF InsertUser
  <2>2. \A k \in Ids : Present(k) => users'[k] = users[k]
    <3>1. ~Present(nextId)
      BY DEF IdsGivenOut, AuthTypeOK, Present, Ids
    <3> QED
      BY <1>3, <3>1 DEF InsertUser, AuthTypeOK, Present
  <2>3. LoginsMatchUsers'
    BY <2>1, <2>2 DEF Worth, LoginsMatchUsers, AuthTypeOK, Answer, Verified, Enabled, Present
  <2>4. ASSUME NEW k, DropPending(k)
        PROVE  DropPending(k)'
    BY <2>1, <2>4 DEF DropPending, AuthTypeOK, Answer
  <2>5. SessionsMatchUsers'
    BY <2>1, <2>2, <2>4 DEF Worth, SessionsMatchUsers, Enabled, Present
  <2> QED
    BY <2>3, <2>5 DEF Worth
<1>4. ASSUME NEW r \in Requests,
             UpdateUserPassword(r) \/ DeleteUser(r) \/ SetAdminPassword(r) \/ SetUserDisabled(r)
      PROVE  Worth'
  <2>1. job[r].id \in Principals
    BY <1>4 DEF AuthTypeOK, Jobs, UpdateUserPassword, DeleteUser, SetAdminPassword,
                SetUserDisabled, Move
  <2>2. CASE UpdateUserPassword(r)
    BY <2>1, <2>2, WorthWritten DEF UpdateUserPassword, AuthTypeOK
  <2>3. CASE DeleteUser(r)
    BY <2>1, <2>3, WorthWritten DEF DeleteUser, AuthTypeOK
  <2>4. CASE SetAdminPassword(r)
    BY <2>1, <2>4, WorthWritten DEF SetAdminPassword
  <2>5. CASE SetUserDisabled(r)
    <3> DEFINE written == job[r].op = "disable"
    <3>1. users' = [users EXCEPT ![job[r].id] =
                      IF @ = Null THEN @ ELSE [@ EXCEPT !.disabled = written]]
      BY <2>5 DEF SetUserDisabled
    <3>2. UNCHANGED <<adminPass, sessions>> /\ at[r] = "write"
      BY <2>5 DEF SetUserDisabled
    <3>3. CASE written
      <4>1. Move(r, "write", "drop") /\ Overtake(job[r].id)
        BY <2>5, <3>3 DEF SetUserDisabled
      <4>2. \A k \in Ids \ {job[r].id} : users'[k] = users[k]
        BY <3>1 DEF AuthTypeOK
      <4> QED
        BY <2>1, <3>2, <4>1, <4>2, WorthWritten
    <3>4. CASE ~written
      <4>1. Answer(r)
        BY <2>5, <3>4 DEF SetUserDisabled
      <4>2. \A u \in Rows : /\ [u EXCEPT !.disabled = FALSE] \in Rows
                            /\ [u EXCEPT !.disabled = FALSE].pw = u.pw
                            /\ [u EXCEPT !.disabled = FALSE].disabled = FALSE
        BY DEF Rows
      <4>a. users' = [users EXCEPT ![job[r].id] =
                        IF @ = Null THEN @ ELSE [@ EXCEPT !.disabled = FALSE]]
        BY <3>1, <3>4
      <4>3. \A k \in Ids : users[k] # Null =>
              users'[k] # Null /\ users'[k].pw = users[k].pw
              /\ (users'[k].disabled => users[k].disabled)
        BY <4>2, <4>a DEF AuthTypeOK
      <4>4. LoginsMatchUsers'
        BY <3>2, <4>1, <4>3 DEF Worth, LoginsMatchUsers, AuthTypeOK, Answer, Verified, Enabled, Present
      <4>5. ASSUME NEW k, DropPending(k)
            PROVE  DropPending(k)'
        BY <3>2, <4>1, <4>5 DEF DropPending, AuthTypeOK, Answer
      <4>6. SessionsMatchUsers'
        BY <3>2, <4>3, <4>5 DEF Worth, SessionsMatchUsers, Enabled, Present
      <4> QED
        BY <4>4, <4>6 DEF Worth
    <3> QED
      BY <3>3, <3>4
  <2> QED
    BY <1>4, <2>2, <2>3, <2>4, <2>5
<1>5. ASSUME NEW r \in Requests, InvalidateUserSessions(r)
      PROVE  Worth'
  <2>1. at[r] = "drop" /\ Answer(r) /\ UNCHANGED <<users, adminPass>>
    BY <1>5 DEF InvalidateUserSessions
  <2>2. \A c \in Cookies :
          sessions'[c] # Null => sessions'[c] = sessions[c] /\ sessions[c].who # job[r].id
    BY <1>5 DEF InvalidateUserSessions
  <2>3. LoginsMatchUsers'
    BY <2>1 DEF Worth, LoginsMatchUsers, AuthTypeOK, Answer, Verified, Enabled, Present
  <2>4. ASSUME NEW k, k # job[r].id, DropPending(k)
        PROVE  DropPending(k)'
    BY <2>1, <2>4 DEF DropPending, AuthTypeOK, Answer
  <2>5. SessionsMatchUsers'
    BY <2>1, <2>2, <2>4 DEF Worth, SessionsMatchUsers, Enabled, Present
  <2> QED
    BY <2>3, <2>5 DEF Worth
<1>6. ASSUME NEW r \in Requests, InvalidateAllSessions(r)
      PROVE  Worth'
  <2>1. Answer(r) /\ UNCHANGED <<users, adminPass>> /\ \A c \in Cookies : sessions'[c] = Null
    BY <1>6 DEF InvalidateAllSessions
  <2>2. LoginsMatchUsers'
    BY <2>1 DEF Worth, LoginsMatchUsers, AuthTypeOK, Answer, Verified, Enabled, Present
  <2> QED
    BY <2>1, <2>2 DEF Worth, SessionsMatchUsers
<1> USE DEF OnlyForgets, AuthTypeOK
<1>7. ASSUME NEW r \in Requests, NEW n \in Names, NEW p \in Passwords, Register(r, n, p)
      PROVE  Worth'
  BY <1>7, WorthKept DEF Register, Begin
<1>8. ASSUME NEW r \in Requests, NEW who, NEW i \in Principals, NEW op \in Ops,
             NEW p \in Passwords, Identify(r, who, op, i, p)
      PROVE  Worth'
  <2>1. OnlyForgets
    BY <1>8 DEF Identify, Begin
  <2> QED
    BY <2>1, WorthKept
<1>9. ASSUME NEW r \in Requests, LookUser(r) \/ UpsertAccount(r) \/ Refuse(r)
      PROVE  Worth'
  <2>1. OnlyForgets
    BY <1>9 DEF LookUser, UpsertAccount, Refuse, Move, Answer
  <2> QED
    BY <2>1, WorthKept
<1>10. ASSUME NEW c \in Cookies, CloseSession(c)
      PROVE  Worth'
  BY <1>10, WorthKept DEF CloseSession
<1>11. CASE AuthRestart
  BY <1>11 DEF AuthRestart, Worth, LoginsMatchUsers, SessionsMatchUsers
<1> QED
  BY <1>0, <1>1, <1>2, <1>3, <1>4, <1>5, <1>6, <1>7, <1>8, <1>9, <1>10, <1>11
     DEF AuthNext, Arrive, HandlerStep

--------------------------------------------------------------------------------
(* AuthInv holds in every reachable state, whatever the handlers, users and    *)
(* cookies, and however the steps of handlers interleave.                      *)
THEOREM AuthInvariant == AuthSpec => []AuthInv
<1>1. AuthInv /\ [AuthNext]_vars => AuthInv'
  BY TypeStep, IdentityStep, WorthStep DEF AuthInv, Identities, Worth
<1> QED
  BY InitAuthInv, <1>1, PTL DEF AuthSpec

(* Variables, locals of handlers and rows keep their types (auth.go).          *)
THEOREM AuthTypeCorrect == AuthSpec => []AuthTypeOK
<1>1. AuthInv => AuthTypeOK
  BY DEF AuthInv
<1> QED
  BY AuthInvariant, <1>1, PTL

(* A name leads to one row, although registrations check and insert in two     *)
(* statements (auth.go:597-602).                                               *)
THEOREM NamesAreUnique == AuthSpec => []OneRowPerName
<1>1. AuthInv => OneRowPerName
  BY DEF AuthInv
<1> QED
  BY AuthInvariant, <1>1, PTL

(* A session never turns into that of another user (auth.go:224, store.go:40). *)
THEOREM SessionsStayOwn == AuthSpec => []SessionsAreOwn
<1>1. AuthInv => SessionsAreOwn
  BY DEF AuthInv
<1> QED
  BY AuthInvariant, <1>1, PTL

(* A session agrees with its user's row or is about to be dropped, unless its  *)
(* login was under way when the row changed (auth.go:292-300).                 *)
THEOREM SessionsAgree == AuthSpec => []SessionsMatchUsers
<1>1. AuthInv => SessionsMatchUsers
  BY DEF AuthInv
<1> QED
  BY AuthInvariant, <1>1, PTL
=================================================================================
