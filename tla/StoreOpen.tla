------------------------------- MODULE StoreOpen -------------------------------
(* Opening the database (internal/store/store.go, Open): migrations of the     *)
(* sessions table and of two columns, the schema, the default features.  Every *)
(* statement is a transaction of its own, so a program may stop between any    *)
(* two of them, another one may be starting on the same file, and a version    *)
(* from before the migrations may have run in between.                         *)
EXTENDS Integers, FiniteSets, FiniteSetsExt, Sequences

CONSTANTS
    Programs,   \* processes that open the file
    Accounts,   \* ids of wechat_accounts
    Blobs,      \* values of session_blob
    MaxId,      \* bound: row ids of the session tables
    MaxFaults,  \* bound: programs that stop and runs of an older version
    Null

ASSUME StoreAssumption == MaxId \in Nat \ {0} /\ MaxFaults \in Nat

VARIABLES
    db,     \* the file, see NewFile
    pc,     \* the statement of Open each program is at: a place, and which of a list
    faults

storeVars == <<db, pc, faults>>

Rows == [id : 1 .. MaxId, blob : Blobs]
NoRows == [a \in Accounts |-> Null]
OneRow(x, b) == [a \in Accounts |-> IF a = x THEN [id |-> 1, blob |-> b] ELSE Null]
Ids(t) == {t[a].id : a \in {x \in Accounts : t[x] # Null}}

(* The file: sqlite_master, the columns not every version has had, and the     *)
(* rows.  old is wmpf_sessions and new is sessions, one row per account; lastO *)
(* and lastN are the last ids drawn for them (sqlite_sequence).                *)
NewFile == [tables |-> {}, columns |-> {}, indexes |-> {}, features |-> {}, accounts |-> {},
            old |-> NoRows, new |-> NoRows, lastO |-> 0, lastN |-> 0]

(* The statements of the schema, in order.                                     *)
Table(name) == [kind |-> "table", name |-> name, on |-> name]
Index(name, on) == [kind |-> "index", name |-> name, on |-> on]
Schema == <<
    Table("wechat_accounts"),
    Index("idx_wxacc_uin", "wechat_accounts"),
    Index("idx_wxacc_owner", "wechat_accounts"),
    Table("users"),
    Index("idx_users_api_token", "users"),
    Table("sessions"),
    Index("idx_sessions_expires", "sessions"),
    Table("features"),
    Table("settings") >>

(* migrateOwnerColumn and migrateUserDisabledColumn, one after the other.      *)
Migrations == << [table |-> "wechat_accounts", column |-> "owner_id"],
                 [table |-> "users", column |-> "disabled"] >>
ColumnsOf(table) == {m.column : m \in {Migrations[i] : i \in {j \in 1 .. 2 : Migrations[j].table = table}}}
Needs(index) == IF index = "idx_wxacc_owner" THEN {"owner_id"} ELSE {}

DefaultFeatures == <<1001, 1002, 1003>>

--------------------------------------------------------------------------------
Closed == <<"closed", 1>>
Opened == <<"open", 1>>
Places == {"closed", "oldExists", "newExists", "dropIndex", "rename", "copy", "dropTable",
           "table", "column", "alter", "schema", "features", "open"}

(* The rows of a session table are of accounts that exist, under distinct ids. *)
SessionTable(t) ==
    /\ t \in [Accounts -> Rows \cup {Null}]
    /\ \A a \in Accounts : t[a] # Null => a \in db.accounts
    /\ \A a, b \in Accounts : a # b /\ t[a] # Null /\ t[b] # Null => t[a].id # t[b].id

StoreTypeOK ==
    /\ db.tables \subseteq {Schema[i].on : i \in DOMAIN Schema} \cup {"wmpf_sessions"}
    /\ db.columns \subseteq {"owner_id", "disabled"}
    /\ \A index \in db.indexes : index[2] \in db.tables
    /\ db.features \subseteq {1001, 1002, 1003}
    /\ db.accounts \subseteq Accounts
    /\ SessionTable(db.old) /\ SessionTable(db.new)
    /\ {db.lastO, db.lastN} \subseteq 0 .. MaxId
    /\ pc \in [Programs -> Places \X (1 .. Len(Schema))]
    /\ faults \in 0 .. MaxFaults

(* A file some earlier version left: with or without users and the two         *)
(* columns, its sessions under either name.                                    *)
EarlierFile(users, columns) ==
    [NewFile EXCEPT !.tables = {"wechat_accounts"} \cup users, !.columns = columns,
                    !.accounts = Accounts]
BeforeRename(file, t) ==
    [file EXCEPT !.tables = @ \cup {"wmpf_sessions"}, !.old = t, !.lastO = 1,
                 !.indexes = {<<"idx_sess_expires", "wmpf_sessions">>}]
AfterRename(file, t) ==
    [file EXCEPT !.tables = @ \cup {"sessions"}, !.new = t, !.lastN = 1,
                 !.indexes = {<<"idx_sessions_expires", "sessions">>}]
EarlierFiles ==
    LET base == {EarlierFile(users, c) : users \in SUBSET {"users"},
                                         c \in SUBSET {"owner_id", "disabled"}}
        rows == {OneRow(a, b) : a \in Accounts, b \in Blobs}
    IN  {BeforeRename(f, t) : f \in base, t \in rows} \cup {AfterRename(f, t) : f \in base, t \in rows}

StoreInit ==
    /\ db \in {NewFile} \cup {f \in EarlierFiles : "disabled" \in f.columns => "users" \in f.tables}
    /\ pc = [p \in Programs |-> Closed]
    /\ faults = 0

--------------------------------------------------------------------------------
(* One statement of Open.  On an error the database is closed, the error is    *)
(* returned and the program exits.                                             *)
Exec(p, from, to, allowed, file) ==
    /\ pc[p] = from
    /\ pc' = [pc EXCEPT ![p] = IF allowed THEN to ELSE Closed]
    /\ db' = IF allowed THEN file ELSE db
    /\ UNCHANGED faults

Query(p, from, to) == Exec(p, from, to, TRUE, db)

(* What follows the i-th of n statements of a list.                            *)
Following(first, i, n, after) == IF i < n THEN <<first, i + 1>> ELSE after

Start(p) == Query(p, Closed, <<"oldExists", 1>>)

OldExists(p) ==
    Query(p, <<"oldExists", 1>>,
          IF "wmpf_sessions" \in db.tables THEN <<"newExists", 1>> ELSE <<"table", 1>>)

FaultyNewExists(p) == Query(p, <<"newExists", 1>>, <<"dropIndex", 1>>)

NewExists(p) ==
    Query(p, <<"newExists", 1>>,
          IF "sessions" \in db.tables THEN <<"copy", 1>> ELSE <<"dropIndex", 1>>)

FaultyDropIndex(p) == Query(p, <<"dropIndex", 1>>, <<"rename", 1>>)

DropIndex(p) ==
    Exec(p, <<"dropIndex", 1>>, <<"rename", 1>>, TRUE,
         [db EXCEPT !.indexes = {x \in @ : x[1] # "idx_sess_expires"}])

(* ALTER TABLE RENAME takes indexes, rows and the sequence along.              *)
Rename(p) ==
    Exec(p, <<"rename", 1>>, <<"table", 1>>,
         "wmpf_sessions" \in db.tables /\ "sessions" \notin db.tables,
         [db EXCEPT !.tables = (@ \ {"wmpf_sessions"}) \cup {"sessions"},
                    !.indexes = {IF x[2] = "wmpf_sessions" THEN <<x[1], "sessions">> ELSE x : x \in @},
                    !.new = db.old, !.old = NoRows, !.lastN = db.lastO, !.lastO = 0])

FaultyMerged(to, from) ==
    [a \in Accounts |-> IF from[a] # Null THEN from[a]
                        ELSE IF to[a] # Null /\ to[a].id \in Ids(from) THEN Null ELSE to[a]]

(* What INSERT OR IGNORE .. SELECT leaves in sessions: a row of wmpf_sessions  *)
(* whose account or whose id is taken is ignored.                              *)
Merged(to, from) ==
    [a \in Accounts |-> IF to[a] = Null /\ from[a] # Null /\ from[a].id \notin Ids(to)
                        THEN from[a] ELSE to[a]]

(* OR IGNORE does not cover the foreign key: a row of no account fails it all. *)
Copy(p) ==
    LET merged == Merged(db.new, db.old)
    IN  Exec(p, <<"copy", 1>>, <<"dropTable", 1>>,
             /\ {"wmpf_sessions", "sessions"} \subseteq db.tables
             /\ \A a \in Accounts : merged[a] # Null => a \in db.accounts,
             [db EXCEPT !.new = merged, !.lastN = Max(Ids(merged) \cup {@})])

DropTable(p) ==
    Exec(p, <<"dropTable", 1>>, <<"table", 1>>, "wmpf_sessions" \in db.tables,
         [db EXCEPT !.tables = @ \ {"wmpf_sessions"}, !.old = NoRows, !.lastO = 0,
                    !.indexes = {x \in @ : x[2] # "wmpf_sessions"}])

(* A table that is not there yet will be created with the column.              *)
TableExists(p) ==
    \E i \in DOMAIN Migrations :
        Query(p, <<"table", i>>,
              IF Migrations[i].table \in db.tables THEN <<"column", i>>
              ELSE Following("table", i, 2, <<"schema", 1>>))

ColumnExists(p) ==
    \E i \in DOMAIN Migrations :
        Query(p, <<"column", i>>,
              IF Migrations[i].column \notin db.columns THEN <<"alter", i>>
              ELSE Following("table", i, 2, <<"schema", 1>>))

AddColumn(p) ==
    \E i \in DOMAIN Migrations :
        Exec(p, <<"alter", i>>, Following("table", i, 2, <<"schema", 1>>),
             Migrations[i].column \notin db.columns,
             [db EXCEPT !.columns = @ \cup {Migrations[i].column}])

(* CREATE TABLE and CREATE INDEX, both IF NOT EXISTS; the name decides.        *)
CreateTable(s) ==
    IF s.name \in db.tables THEN db
    ELSE [db EXCEPT !.tables = @ \cup {s.name}, !.columns = @ \cup ColumnsOf(s.name)]

CreateIndex(s) ==
    IF \E x \in db.indexes : x[1] = s.name THEN db
    ELSE [db EXCEPT !.indexes = @ \cup {<<s.name, s.on>>}]

ApplySchema(p) ==
    \E i \in DOMAIN Schema :
        LET s == Schema[i]
        IN  Exec(p, <<"schema", i>>, Following("schema", i, Len(Schema), <<"features", 1>>),
                 s.kind = "index" => Needs(s.name) \subseteq db.columns,
                 IF s.kind = "table" THEN CreateTable(s) ELSE CreateIndex(s))

EnsureDefaultFeatures(p) ==
    \E i \in DOMAIN DefaultFeatures :
        Exec(p, <<"features", i>>, Following("features", i, Len(DefaultFeatures), Opened), TRUE,
             [db EXCEPT !.features = @ \cup {DefaultFeatures[i]}])

OpenStep(p) ==
    \/ OldExists(p) \/ NewExists(p) \/ DropIndex(p) \/ Rename(p) \/ Copy(p) \/ DropTable(p)
    \/ TableExists(p) \/ ColumnExists(p) \/ AddColumn(p)
    \/ ApplySchema(p) \/ EnsureDefaultFeatures(p)

--------------------------------------------------------------------------------
SomeOpen == \E p \in Programs : pc[p] = Opened
AllClosed == \A p \in Programs : pc[p] = Closed

(* UpsertAccount, PutSession and DeleteAccount of a program that is open.      *)
AddAccount(a) ==
    /\ SomeOpen
    /\ db' = [db EXCEPT !.accounts = @ \cup {a}]
    /\ UNCHANGED <<pc, faults>>

(* An upsert keeps the id of the row it finds and draws one for a new row.     *)
Upsert(t, a, b, last) == [t EXCEPT ![a] = [id |-> IF @ = Null THEN last + 1 ELSE @.id, blob |-> b]]
Drawn(t, a, last) == IF t[a] = Null THEN last + 1 ELSE last

PutSession(a, b) ==
    /\ SomeOpen
    /\ a \in db.accounts
    /\ Drawn(db.new, a, db.lastN) <= MaxId
    /\ db' = [db EXCEPT !.new = Upsert(@, a, b, db.lastN), !.lastN = Drawn(db.new, a, @)]
    /\ UNCHANGED <<pc, faults>>

FaultyCascade(t, a) == t

(* ON DELETE CASCADE, which PRAGMA foreign_keys has to turn on.                *)
Cascade(t, a) == [t EXCEPT ![a] = Null]

(* The older version, too, deletes accounts.                                   *)
DeleteAccount(a) ==
    /\ SomeOpen \/ (AllClosed /\ "wmpf_sessions" \in db.tables)
    /\ db' = [db EXCEPT !.accounts = @ \ {a}, !.old = Cascade(@, a), !.new = Cascade(@, a)]
    /\ UNCHANGED <<pc, faults>>

(* A version from before the migrations runs on the file while no other does:  *)
(* it creates the tables it misses and stores a session in its own.            *)
OlderVersion(a, b) ==
    /\ AllClosed
    /\ faults < MaxFaults /\ faults' = faults + 1
    /\ Drawn(db.old, a, db.lastO) <= MaxId
    /\ db' = [db EXCEPT !.tables = @ \cup {"wechat_accounts", "wmpf_sessions"},
                        !.indexes = IF \E x \in @ : x[1] = "idx_sess_expires" THEN @
                                    ELSE @ \cup {<<"idx_sess_expires", "wmpf_sessions">>},
                        !.accounts = @ \cup {a},
                        !.old = Upsert(@, a, b, db.lastO), !.lastO = Drawn(db.old, a, @)]
    /\ UNCHANGED pc

(* A program is stopped, or killed between two statements, or Open runs out of *)
(* its ten seconds.                                                            *)
Stop(p) ==
    /\ pc[p] # Closed
    /\ faults < MaxFaults /\ faults' = faults + 1
    /\ pc' = [pc EXCEPT ![p] = Closed]
    /\ UNCHANGED db

StoreNext ==
    \/ \E p \in Programs : Start(p) \/ OpenStep(p) \/ Stop(p)
    \/ \E a \in Accounts : AddAccount(a) \/ DeleteAccount(a)
    \/ \E a \in Accounts, b \in Blobs : PutSession(a, b) \/ OlderVersion(a, b)

StoreSpec == StoreInit /\ [][StoreNext]_storeVars

(* A program that has stopped, or whose Open failed, is started again, and its *)
(* statements end: SQLite waits busy_timeout for the other program's.          *)
StoreFairSpec ==
    StoreSpec /\ \A p \in Programs : WF_storeVars(Start(p) \/ OpenStep(p))

--------------------------------------------------------------------------------
(* What a program that gets through Open serves: the row in sessions, else the *)
(* one in wmpf_sessions unless its id stands for another row by now.           *)
View == [a \in Accounts |->
            IF db.new[a] # Null THEN db.new[a]
            ELSE IF db.old[a] # Null /\ \E b \in Accounts : /\ db.new[b] # Null
                                                            /\ db.new[b].id = db.old[a].id
                 THEN Null
                 ELSE db.old[a]]

(* No statement of Open, no failure of one and no stop between two changes     *)
(* which session of an account will be served, nor its id, also when two       *)
(* programs migrate the file at once (store.go:338-370; store_test.go:78-87    *)
(* tests one file and no interruption).                                        *)
OpenKeepsSessions == [][pc' # pc => View' = View]_storeVars

(* A program that is open has every table, column and index, on the table it   *)
(* belongs to and none besides, whatever file it found and whatever other      *)
(* programs did to it meanwhile (store.go:168-191).                            *)
SchemaComplete ==
    SomeOpen =>
        /\ db.tables = {Schema[i].on : i \in DOMAIN Schema}
        /\ db.columns = {"owner_id", "disabled"}
        /\ db.indexes = {<<s.name, s.on>> : s \in {Schema[i] : i \in {j \in DOMAIN Schema : Schema[j].kind = "index"}}}
        /\ db.features = {1001, 1002, 1003}

(* Once nothing stops them any more all programs get through Open: neither an  *)
(* interrupted migration nor another program that is starting can make it fail *)
(* for ever (store.go:145-192).                                                *)
EveryProgramOpens == \A p \in Programs : <>[](pc[p] = Opened)
================================================================================
