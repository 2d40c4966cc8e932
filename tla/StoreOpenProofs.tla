---------------------------- MODULE StoreOpenProofs ----------------------------
(* The safety properties of StoreOpen for every number of programs, accounts   *)
(* and faults.                                                                 *)
EXTENDS StoreOpen, WellFoundedInduction, TLAPS

Fields == {"tables", "columns", "indexes", "features", "accounts", "old", "new",
           "lastO", "lastN"}

SchemaTables == {"wechat_accounts", "users", "sessions", "features", "settings"}
SchemaIndexes == {<<"idx_wxacc_uin", "wechat_accounts">>, <<"idx_wxacc_owner", "wechat_accounts">>,
                  <<"idx_users_api_token", "users">>, <<"idx_sessions_expires", "sessions">>}
OldIndex == <<"idx_sess_expires", "wmpf_sessions">>

(* The rows of a session table are of accounts that are present, under         *)
(* distinct ids that sqlite_sequence has drawn.                                *)
SessionRows(t, last, present) ==
    /\ t \in [Accounts -> Rows \cup {Null}]
    /\ last \in 0 .. MaxId
    /\ \A a \in Accounts : t[a] # Null => a \in present /\ t[a].id <= last
    /\ \A a, b \in Accounts : a # b /\ t[a] # Null /\ t[b] # Null => t[a].id # t[b].id

IsFile(file) == file = [f \in Fields |-> file[f]]
Kept(fields) == \A f \in fields : db'[f] = db[f]

(* The file holds what one of the two versions makes, in tables that exist.    *)
FileOK ==
    /\ IsFile(db)
    /\ db.tables \subseteq SchemaTables \cup {"wmpf_sessions"}
    /\ db.columns \subseteq {"owner_id", "disabled"}
    /\ db.indexes \subseteq SchemaIndexes \cup {OldIndex}
    /\ \A x \in db.indexes : x[2] \in db.tables
    /\ db.features \subseteq {1001, 1002, 1003}
    /\ db.accounts \subseteq Accounts
    /\ SessionRows(db.old, db.lastO, db.accounts)
    /\ SessionRows(db.new, db.lastN, db.accounts)
    /\ "wmpf_sessions" \notin db.tables => db.old = NoRows
    /\ "sessions" \notin db.tables => db.new = NoRows

PlacesOK ==
    /\ pc \in [Programs -> Places \X (1 .. Len(Schema))]
    /\ faults \in 0 .. MaxFaults

(* What the statements of Open that a program has behind it have left, and no  *)
(* other program undoes.                                                       *)
Covered ==
    \A a \in Accounts : db.old[a] # Null =>
        \/ db.new[a] # Null
        \/ \E b \in Accounts : db.new[b] # Null /\ db.new[b].id = db.old[a].id

Migrated(i) == Migrations[i].table \in db.tables => Migrations[i].column \in db.columns

Applied(j) ==
    IF Schema[j].kind = "table" THEN Schema[j].name \in db.tables
    ELSE <<Schema[j].name, Schema[j].on>> \in db.indexes

Merging == {"copy", "dropTable"}
Migrating == {"table", "column", "alter"}
Finishing == {"features", "open"}

(* The statement l of Open finds the file as the earlier ones left it.         *)
Ready(l) ==
    /\ l[1] = "rename" => OldIndex \notin db.indexes
    /\ l[1] \in Merging => "sessions" \in db.tables
    /\ l[1] = "dropTable" => Covered
    /\ l[1] \in Migrating \cup {"schema"} \cup Finishing => "wmpf_sessions" \notin db.tables
    /\ l[1] \in Migrating => l[2] \in 1 .. 2
    /\ l[1] \in {"column", "alter"} => Migrations[l[2]].table \in db.tables
    /\ \A i \in 1 .. 2 :
         (l[1] \in Migrating /\ i < l[2]) \/ l[1] \in {"schema"} \cup Finishing => Migrated(i)
    /\ \A j \in DOMAIN Schema :
         (l[1] = "schema" /\ j < l[2]) \/ l[1] \in Finishing => Applied(j)
    /\ \A k \in DOMAIN DefaultFeatures :
         (l[1] = "features" /\ k < l[2]) \/ l[1] = "open" => DefaultFeatures[k] \in db.features

ProgramsReady == \A p \in Programs : Ready(pc[p])

(* Inductive: SchemaComplete is what Ready says of a program that is open, and *)
(* View needs that a table is dropped only when its rows are covered.          *)
StoreInv ==
    /\ FileOK
    /\ PlacesOK
    /\ ProgramsReady

(* A change of the file that takes nothing from a program that is past it.     *)
Grows ==
    /\ db.tables \ {"wmpf_sessions"} \subseteq db'.tables
    /\ "wmpf_sessions" \in db'.tables => "wmpf_sessions" \in db.tables
    /\ OldIndex \in db'.indexes => OldIndex \in db.indexes
    /\ db.indexes \cap SchemaIndexes \subseteq db'.indexes
    /\ db.features \subseteq db'.features
    /\ Covered => Covered'
    /\ \A i \in 1 .. 2 : Migrated(i) => Migrated(i)'

(* What every statement of Open does: its program finds the file ready for the *)
(* next one, the others find it as ready as before.                            *)
Advances(p) == FileOK' /\ Grows /\ Ready(pc[p])' /\ View' = View

--------------------------------------------------------------------------------
(* A non-empty set of ids has a greatest one.                                  *)
LEMMA MinExists ==
    ASSUME NEW S \in SUBSET Nat, S # {}
    PROVE  \E x \in S : \A y \in S : x <= y
<1>1. IsWellFoundedOn({ss \in Nat \X Nat : ss[1] < ss[2]}, Nat)
  BY NatLessThanWellFounded DEF OpToRel
<1>2. PICK x \in S : \A y \in S : <<y, x>> \notin {ss \in Nat \X Nat : ss[1] < ss[2]}
  BY <1>1, WFMin
<1>3. \A y \in S : ~(y < x)
  BY <1>2
<1> QED
  BY <1>3

(* A finite set of numbers has a highest one: CHOOSE finds it.                 *)
LEMMA MaxOfIds ==
    ASSUME NEW n \in Nat, NEW S \in SUBSET (0 .. n), S # {}
    PROVE  Max(S) \in S /\ \A i \in S : i <= Max(S)
<1> DEFINE distances == {n - i : i \in S}
<1>1. distances \in SUBSET Nat /\ distances # {}
  <2>1. \A i \in S : n - i \in Nat
    OBVIOUS
  <2> QED
    BY <2>1
<1>2. PICK m \in distances : \A y \in distances : m <= y
  BY <1>1, MinExists
<1>3. PICK x \in S : m = n - x
  BY <1>2
<1>4. \A y \in S : x >= y
  BY <1>2, <1>3
<1> QED
  BY <1>3, <1>4 DEF Max

(* The identifiers of a table are those of its rows.                           *)
LEMMA IdsAre ==
    ASSUME NEW t \in [Accounts -> Rows \cup {Null}]
    PROVE  /\ Ids(t) \subseteq 1 .. MaxId
           /\ \A a \in Accounts : t[a] # Null => t[a].id \in Ids(t)
           /\ \A i \in Ids(t) : \E a \in Accounts : t[a] # Null /\ t[a].id = i
BY DEF Ids, Rows

(* The statements of the schema and of the migrations, one by one.             *)
LEMMA Statements ==
    /\ DOMAIN Schema = 1 .. 9 /\ Len(Schema) = 9
    /\ \A j \in 1 .. 9 :
         \/ Schema[j].kind = "table" /\ Schema[j].name \in SchemaTables
         \/ Schema[j].kind = "index" /\ <<Schema[j].name, Schema[j].on>> \in SchemaIndexes
    /\ {Schema[i].on : i \in 1 .. 9} = SchemaTables
    /\ \A t \in SchemaTables : \E j \in 1 .. 9 : Schema[j].kind = "table" /\ Schema[j].name = t
    /\ \A x \in SchemaIndexes : \E j \in 1 .. 9 :
         Schema[j].kind = "index" /\ x = <<Schema[j].name, Schema[j].on>>
<1>1. Schema = [j \in 1 .. 9 |-> Schema[j]] /\ Len(Schema) = 9
  BY DEF Schema
<1>2. /\ Schema[1] = Table("wechat_accounts")
      /\ Schema[2] = Index("idx_wxacc_uin", "wechat_accounts")
      /\ Schema[3] = Index("idx_wxacc_owner", "wechat_accounts")
      /\ Schema[4] = Table("users")
      /\ Schema[5] = Index("idx_users_api_token", "users")
      /\ Schema[6] = Table("sessions")
      /\ Schema[7] = Index("idx_sessions_expires", "sessions")
      /\ Schema[8] = Table("features")
      /\ Schema[9] = Table("settings")
  BY DEF Schema
<1>3. \A j \in 1 .. 9 : j \in {1, 2, 3, 4, 5, 6, 7, 8, 9}
  OBVIOUS
<1>4. \A j \in 1 .. 9 : /\ Schema[j].on \in SchemaTables
                        /\ \/ Schema[j].kind = "table" /\ Schema[j].name \in SchemaTables
                           \/ Schema[j].kind = "index" /\ <<Schema[j].name, Schema[j].on>> \in SchemaIndexes
  BY <1>2, <1>3 DEF Table, Index, SchemaTables, SchemaIndexes
<1>5. ASSUME NEW t \in SchemaTables
      PROVE  \E j \in 1 .. 9 : Schema[j].kind = "table" /\ Schema[j].name = t /\ Schema[j].on = t
  BY <1>2 DEF Table, SchemaTables
<1>6. ASSUME NEW x \in SchemaIndexes
      PROVE  \E j \in 1 .. 9 : Schema[j].kind = "index" /\ x = <<Schema[j].name, Schema[j].on>>
  BY <1>2 DEF Index, SchemaIndexes
<1>7. {Schema[i].on : i \in 1 .. 9} = SchemaTables
  BY <1>4, <1>5
<1> QED
  BY <1>1, <1>4, <1>5, <1>6, <1>7

(* The two migrations of the code, spelled out for the provers.                *)
LEMMA MigrationsAre ==
    /\ DOMAIN Migrations = 1 .. 2
    /\ Migrations[1].table = "wechat_accounts" /\ Migrations[1].column = "owner_id"
    /\ Migrations[2].table = "users" /\ Migrations[2].column = "disabled"
    /\ \A t : ColumnsOf(t) = (IF t = "wechat_accounts" THEN {"owner_id"}
                              ELSE IF t = "users" THEN {"disabled"} ELSE {})
<1>1. /\ DOMAIN Migrations = 1 .. 2
      /\ Migrations[1].table = "wechat_accounts" /\ Migrations[1].column = "owner_id"
      /\ Migrations[2].table = "users" /\ Migrations[2].column = "disabled"
  BY DEF Migrations
<1>2. ASSUME NEW t PROVE ColumnsOf(t) = {Migrations[j].column : j \in {i \in 1 .. 2 : Migrations[i].table = t}}
  BY DEF ColumnsOf
<1>3. \A i \in 1 .. 2 : i \in {1, 2}
  OBVIOUS
<1> QED
  BY <1>1, <1>2, <1>3

--------------------------------------------------------------------------------
(* What the writers of sessions keep of one table of them.                     *)
LEMMA NoRowsAreRows ==
    ASSUME NEW last \in 0 .. MaxId, NEW present
    PROVE  SessionRows(NoRows, last, present)
BY DEF SessionRows, NoRows

(* An upsert keeps the rows of a session table in order.                       *)
LEMMA UpsertKeepsRows ==
    ASSUME NEW t, NEW last, NEW present, SessionRows(t, last, present),
           NEW a \in Accounts, NEW b \in Blobs, Drawn(t, a, last) <= MaxId
    PROVE  SessionRows(Upsert(t, a, b, last), Drawn(t, a, last), present \cup {a})
<1> USE StoreAssumption DEF SessionRows, Drawn
<1>1. CASE t[a] = Null
  <2>1. /\ Upsert(t, a, b, last) = [t EXCEPT ![a] = [id |-> last + 1, blob |-> b]]
      /\ last + 1 \in 1 .. MaxId
    BY <1>1 DEF Upsert
  <2>2. [id |-> last + 1, blob |-> b] \in Rows
    BY <2>1 DEF Rows
  <2>3. \A x \in Accounts : t[x] # Null => t[x].id \in Nat
    BY DEF Rows
  <2> QED
    BY <1>1, <2>1, <2>2, <2>3
<1>2. CASE t[a] # Null
  <2>1. /\ Upsert(t, a, b, last) = [t EXCEPT ![a] = [id |-> t[a].id, blob |-> b]]
      /\ t[a].id \in 1 .. MaxId
    BY <1>2 DEF Upsert, Rows
  <2>2. [id |-> t[a].id, blob |-> b] \in Rows
    BY <2>1 DEF Rows
  <2> QED
    BY <1>2, <2>1, <2>2
<1> QED
  BY <1>1, <1>2

(* So does the deletion of an account,                                         *)
LEMMA CascadeKeepsRows ==
    ASSUME NEW t, NEW last, NEW present, SessionRows(t, last, present), NEW a \in Accounts
    PROVE  SessionRows(Cascade(t, a), last, present \ {a})
BY DEF SessionRows, Cascade

(* and copying one session table into the other.                               *)
LEMMA MergedKeepsRows ==
    ASSUME NEW to, NEW from, NEW lastN, NEW lastO, NEW present,
           SessionRows(to, lastN, present), SessionRows(from, lastO, present)
    PROVE  SessionRows(Merged(to, from), Max(Ids(Merged(to, from)) \cup {lastN}), present)
<1> DEFINE merged == Merged(to, from)
           last == Max(Ids(merged) \cup {lastN})
<1> USE StoreAssumption DEF SessionRows
<1>1. /\ \A a \in Accounts : to[a] # Null => to[a].id \in Ids(to)
      /\ \A a \in Accounts : /\ merged[a] # Null =>
                                 \/ merged[a] = to[a]
                                 \/ /\ merged[a] = from[a] /\ to[a] = Null
                                    /\ from[a].id \notin Ids(to)
      /\ merged \in [Accounts -> Rows \cup {Null}]
  BY IdsAre DEF Merged
<1> HIDE DEF merged
<1>2. /\ Ids(merged) \cup {lastN} \in SUBSET (0 .. MaxId)
      /\ \A a \in Accounts : merged[a] # Null => merged[a].id \in Ids(merged)
  BY <1>1, IdsAre
<1>3. last \in 0 .. MaxId /\ \A i \in Ids(merged) : i <= last
  BY <1>2, MaxOfIds
<1> HIDE DEF last
<1>4. \A a \in Accounts : merged[a] # Null => a \in present /\ merged[a].id <= last
  BY <1>1, <1>2, <1>3
<1>5. \A a, b \in Accounts :
        a # b /\ merged[a] # Null /\ merged[b] # Null => merged[a].id # merged[b].id
  BY <1>1
<1> QED
  BY <1>1, <1>3, <1>4, <1>5 DEF merged, last
--------------------------------------------------------------------------------
(* The invariant gives the types.                                              *)
LEMMA InvHasTypes == FileOK /\ PlacesOK => StoreTypeOK
<1> SUFFICES ASSUME FileOK, PlacesOK PROVE StoreTypeOK
  OBVIOUS
<1>1. SessionTable(db.old) /\ SessionTable(db.new)
  BY DEF FileOK, SessionTable, SessionRows
<1> QED
  BY <1>1, Statements DEF FileOK, PlacesOK, StoreTypeOK, SessionRows

(* An index comes after the table it is on.                                    *)
LEMMA IndexHasTable ==
    ASSUME ProgramsReady, NEW p \in Programs, NEW i \in 1 .. 9, pc[p] = <<"schema", i>>,
           Schema[i].kind # "table"
    PROVE  Schema[i].on \in db.tables
<1>1. \A j \in 1 .. 9 : j < i => Applied(j)
  BY Statements DEF ProgramsReady, Ready
<1>2. \A j \in 1 .. 9 : j < i /\ Schema[j].kind = "table" => Schema[j].name \in db.tables
  BY <1>1 DEF Applied
<1>3. PICK j \in 1 .. 9 : j < i /\ Schema[j].kind = "table" /\ Schema[j].name = Schema[i].on
  <2>1. i \in {1, 2, 3, 4, 5, 6, 7, 8, 9}
    OBVIOUS
  <2> QED
    BY <2>1 DEF Schema, Table, Index
<1> QED
  BY <1>2, <1>3

(* What a program relies on survives every step by which the file only grows.  *)
LEMMA GrowsKeepsReady ==
    ASSUME Grows, NEW l, Ready(l) PROVE Ready(l)'
<1>1. \A j \in 1 .. 9 : Applied(j) => Applied(j)'
  <2>1. ASSUME NEW j \in 1 .. 9, Applied(j) PROVE Applied(j)'
    <3>1. CASE Schema[j].kind = "table" /\ Schema[j].name \in SchemaTables
      BY <2>1, <3>1 DEF Applied, Grows, SchemaTables
    <3>2. CASE Schema[j].kind = "index" /\ <<Schema[j].name, Schema[j].on>> \in SchemaIndexes
      BY <2>1, <3>2 DEF Applied, Grows
    <3> QED
      BY <3>1, <3>2, Statements
  <2> QED
    BY <2>1
<1>2. l[1] \in {"column", "alter"} => Migrations[l[2]].table \in (db.tables)'
  <2> SUFFICES ASSUME l[1] \in {"column", "alter"} PROVE Migrations[l[2]].table \in (db.tables)'
    OBVIOUS
  <2>1. l[2] \in {1, 2} /\ Migrations[l[2]].table \in db.tables
    BY DEF Ready, Migrating
  <2>2. Migrations[l[2]].table # "wmpf_sessions"
    BY <2>1, MigrationsAre
  <2> QED
    BY <2>1, <2>2 DEF Grows
<1>3. l[1] \in Merging => "sessions" \in (db.tables)'
  BY DEF Ready, Grows
<1> QED
  BY <1>1, <1>2, <1>3, Statements DEF Ready, Grows

(* A statement that fails closes the database; one that only reads keeps it.   *)
LEMMA ClosedIsReady ==
    ASSUME NEW p \in Programs, pc'[p] = Closed PROVE Ready(pc[p])'
BY DEF Closed, Ready, Merging, Migrating, Finishing

(* A step that does not write.                                                 *)
LEMMA SameFile ==
    ASSUME FileOK, db' = db PROVE FileOK' /\ Grows /\ View' = View
<1>1. FileOK'
  BY DEF FileOK, IsFile
<1>2. Grows
  BY DEF Grows, Covered, Migrated
<1>3. View' = View
  BY DEF View
<1> QED
  BY <1>1, <1>2, <1>3

(* A program goes to the next place, or closes when its statement fails.       *)
LEMMA NextPlace ==
    ASSUME PlacesOK, NEW p \in Programs, NEW STATE from, NEW STATE to, NEW STATE allowed,
           NEW STATE file, Exec(p, from, to, allowed, file)
    PROVE  /\ pc[p] = from
           /\ \/ allowed /\ pc'[p] = to /\ db' = file
              \/ ~allowed /\ pc'[p] = Closed /\ db' = db
<1>1. pc[p] = from /\ p \in DOMAIN pc
  BY DEF Exec, PlacesOK
<1>2. CASE allowed
  BY <1>1, <1>2 DEF Exec
<1>3. CASE ~allowed
  BY <1>1, <1>3 DEF Exec
<1> QED
  BY <1>1, <1>2, <1>3

(* The migration of the i-th column is over.                                   *)
LEMMA AfterMigration ==
    ASSUME NEW p \in Programs, NEW i \in 1 .. 2, NEW l,
           l \in {<<"table", i>>, <<"column", i>>, <<"alter", i>>},
           Ready(l), Grows, Migrated(i)',
           pc'[p] = Following("table", i, 2, <<"schema", 1>>)
    PROVE  Ready(pc[p])'
<1>1. /\ l[1] \in Migrating /\ l[2] = i
      /\ "wmpf_sessions" \notin db'.tables
      /\ \A j \in 1 .. 2 : j < i => Migrated(j)'
  BY DEF Ready, Migrating, Grows
<1>2. CASE i = 1
  <2>1. pc'[p] = <<"table", 2>>
    BY <1>2 DEF Following
  <2>2. pc'[p][1] = "table" /\ pc'[p][2] = 2
    BY <2>1
  <2> QED
    BY <1>1, <1>2, <2>2 DEF Ready, Migrating, Merging, Finishing
<1>3. CASE i = 2
  <2>1. pc'[p] = <<"schema", 1>>
    BY <1>3 DEF Following
  <2>2. pc'[p][1] = "schema" /\ pc'[p][2] = 1
    BY <2>1
  <2> QED
    BY <1>1, <1>3, <2>2, Statements DEF Ready, Migrating, Merging, Finishing
<1> QED
  BY <1>2, <1>3

(* The statements that only read.                                              *)
LEMMA QueriesAdvance ==
    ASSUME FileOK, PlacesOK, ProgramsReady, NEW p \in Programs,
           Start(p) \/ OldExists(p) \/ NewExists(p) \/ TableExists(p) \/ ColumnExists(p)
    PROVE  Advances(p)
<1>1. db' = db
  BY DEF Start, OldExists, NewExists, TableExists, ColumnExists, Query, Exec
<1>2. FileOK' /\ Grows /\ View' = View
  BY <1>1, SameFile
<1>3. Ready(pc[p])
  BY DEF ProgramsReady
<1> USE DEF Query
<1>4. CASE Start(p)
  <2>1. pc'[p] = <<"oldExists", 1>>
    BY <1>4, NextPlace DEF Start
  <2> QED
    BY <1>2, <2>1 DEF Advances, Ready, Merging, Migrating, Finishing
<1>5. CASE OldExists(p)
  <2>1. pc'[p] = IF "wmpf_sessions" \in db.tables THEN <<"newExists", 1>> ELSE <<"table", 1>>
    BY <1>5, NextPlace DEF OldExists
  <2>2. CASE "wmpf_sessions" \in db.tables
    BY <1>2, <2>1, <2>2 DEF Advances, Ready, Merging, Migrating, Finishing
  <2>3. CASE "wmpf_sessions" \notin db.tables
    BY <1>1, <1>2, <2>1, <2>3 DEF Advances, Ready, Merging, Migrating, Finishing
  <2> QED
    BY <2>2, <2>3
<1>6. CASE NewExists(p)
  <2>1. pc'[p] = IF "sessions" \in db.tables THEN <<"copy", 1>> ELSE <<"dropIndex", 1>>
    BY <1>6, NextPlace DEF NewExists
  <2>2. CASE "sessions" \in db.tables
    BY <1>1, <1>2, <2>1, <2>2 DEF Advances, Ready, Merging, Migrating, Finishing
  <2>3. CASE "sessions" \notin db.tables
    BY <1>2, <2>1, <2>3 DEF Advances, Ready, Merging, Migrating, Finishing
  <2> QED
    BY <2>2, <2>3
<1>7. CASE TableExists(p)
  <2>1. PICK i \in 1 .. 2 :
          Query(p, <<"table", i>>, IF Migrations[i].table \in db.tables THEN <<"column", i>>
                                   ELSE Following("table", i, 2, <<"schema", 1>>))
    BY <1>7, MigrationsAre DEF TableExists
  <2>2. /\ pc[p] = <<"table", i>>
        /\ pc'[p] = IF Migrations[i].table \in db.tables THEN <<"column", i>>
                    ELSE Following("table", i, 2, <<"schema", 1>>)
    BY <2>1, NextPlace
  <2>3. CASE Migrations[i].table \in db.tables
    <3>1. pc'[p] = <<"column", i>>
      BY <2>2, <2>3
    <3>2. pc'[p][1] = "column" /\ pc'[p][2] = i
      BY <3>1
    <3>3. pc[p][1] = "table" /\ pc[p][2] = i
      BY <2>2
    <3> QED
      BY <1>1, <1>2, <1>3, <2>3, <3>2, <3>3
      DEF Advances, Ready, Merging, Migrating, Finishing, Migrated
  <2>4. CASE Migrations[i].table \notin db.tables
    <3>1. Migrated(i)'
      BY <1>1, <2>4 DEF Migrated
    <3> QED
      BY <1>2, <1>3, <2>2, <2>4, <3>1, AfterMigration DEF Advances
  <2> QED
    BY <2>3, <2>4
<1>8. CASE ColumnExists(p)
  <2>1. PICK i \in 1 .. 2 :
          Query(p, <<"column", i>>, IF Migrations[i].column \notin db.columns THEN <<"alter", i>>
                                    ELSE Following("table", i, 2, <<"schema", 1>>))
    BY <1>8, MigrationsAre DEF ColumnExists
  <2>2. /\ pc[p] = <<"column", i>>
        /\ pc'[p] = IF Migrations[i].column \notin db.columns THEN <<"alter", i>>
                    ELSE Following("table", i, 2, <<"schema", 1>>)
    BY <2>1, NextPlace
  <2>3. CASE Migrations[i].column \notin db.columns
    <3>1. pc'[p] = <<"alter", i>>
      BY <2>2, <2>3
    <3>2. pc'[p][1] = "alter" /\ pc'[p][2] = i
      BY <3>1
    <3>3. pc[p][1] = "column" /\ pc[p][2] = i
      BY <2>2
    <3> QED
      BY <1>1, <1>2, <1>3, <3>2, <3>3
      DEF Advances, Ready, Merging, Migrating, Finishing, Migrated
  <2>4. CASE Migrations[i].column \in db.columns
    <3>1. Migrated(i)'
      BY <1>1, <2>4 DEF Migrated
    <3> QED
      BY <1>2, <1>3, <2>2, <2>4, <3>1, AfterMigration DEF Advances
  <2> QED
    BY <2>3, <2>4
<1> QED
  BY <1>4, <1>5, <1>6, <1>7, <1>8

(* The statements that write, one lemma for each; a failing one closes.        *)
LEMMA FailedAdvances ==
    ASSUME FileOK, NEW p \in Programs, pc'[p] = Closed, db' = db PROVE Advances(p)
BY SameFile, ClosedIsReady DEF Advances

(* The old index goes.                                                         *)
LEMMA DropIndexAdvances ==
    ASSUME FileOK, PlacesOK, NEW p \in Programs, DropIndex(p) PROVE Advances(p)
<1>1. /\ db' = [db EXCEPT !.indexes = {x \in @ : x[1] # "idx_sess_expires"}]
      /\ pc'[p] = <<"rename", 1>>
  BY NextPlace DEF DropIndex
<1>2. /\ IsFile(db') /\ Kept(Fields \ {"indexes"})
      /\ db'.indexes = {x \in db.indexes : x[1] # "idx_sess_expires"}
  <2>1. IsFile(db)
    BY DEF FileOK
  <2> QED
    BY <1>1, <2>1 DEF IsFile, Fields, Kept
<1>3. FileOK'
  BY <1>2 DEF FileOK, Kept, Fields
<1>4. OldIndex \notin db'.indexes /\ db.indexes \cap SchemaIndexes \subseteq db'.indexes
  BY <1>2 DEF OldIndex, SchemaIndexes
<1>5. Grows
  BY <1>2, <1>4 DEF Grows, Covered, Migrated, Kept, Fields
<1>6. Ready(pc[p])'
  BY <1>1, <1>4 DEF Ready, Merging, Migrating, Finishing
<1>7. View' = View
  BY <1>2 DEF View, Kept, Fields
<1> QED
  BY <1>3, <1>5, <1>6, <1>7 DEF Advances

(* Rename finds no sessions, so the rows it moves are the only ones.           *)
LEMMA RenameAdvances ==
    ASSUME FileOK, PlacesOK, ProgramsReady, NEW p \in Programs, Rename(p) PROVE Advances(p)
<1> DEFINE file == [db EXCEPT !.tables = (@ \ {"wmpf_sessions"}) \cup {"sessions"},
                    !.indexes = {IF x[2] = "wmpf_sessions" THEN <<x[1], "sessions">> ELSE x : x \in @},
                    !.new = db.old, !.old = NoRows, !.lastN = db.lastO, !.lastO = 0]
<1>1. CASE pc'[p] = Closed /\ db' = db
  BY <1>1, FailedAdvances
<1>2. CASE "wmpf_sessions" \in db.tables /\ "sessions" \notin db.tables
           /\ pc[p] = <<"rename", 1>> /\ pc'[p] = <<"table", 1>> /\ db' = file
  <2>1. \A x \in db.indexes : x \in SchemaIndexes /\ x[2] # "wmpf_sessions"
    <3>1. OldIndex \notin db.indexes
      BY <1>2 DEF ProgramsReady, Ready
    <3> QED
      BY <3>1 DEF FileOK, SchemaIndexes
  <2>2. IsFile(db)
    BY DEF FileOK
  <2>3. db'.indexes = {IF x[2] = "wmpf_sessions" THEN <<x[1], "sessions">> ELSE x : x \in db.indexes}
    BY <1>2, <2>2 DEF IsFile, Fields
  <2>4. db'.indexes = db.indexes
    BY <2>1, <2>3
  <2>5. /\ IsFile(db') /\ Kept({"columns", "features", "accounts"})
        /\ db'.tables = (db.tables \ {"wmpf_sessions"}) \cup {"sessions"}
        /\ db'.new = db.old /\ db'.old = NoRows /\ db'.lastN = db.lastO /\ db'.lastO = 0
    BY <1>2, <2>2 DEF IsFile, Fields, Kept
  <2>6. FileOK'
    <3>1. SessionRows(NoRows, 0, db.accounts)
      BY NoRowsAreRows, StoreAssumption
    <3>2. \A x \in db'.indexes : x[2] \in db'.tables
      BY <2>1, <2>4, <2>5 DEF FileOK
    <3> QED
      BY <2>4, <2>5, <3>1, <3>2 DEF FileOK, SchemaTables, Kept
  <2>7. Grows
    <3>1. Covered'
      BY <2>5 DEF Covered, NoRows
    <3>2. \A i \in 1 .. 2 : Migrated(i) => Migrated(i)'
      <4>1. \A i \in 1 .. 2 : Migrations[i].table # "sessions"
        BY MigrationsAre
      <4> QED
        BY <2>5, <4>1 DEF Migrated, Kept
    <3> QED
      BY <2>4, <2>5, <3>1, <3>2 DEF Grows, Kept
  <2>8. Ready(pc[p])'
    BY <1>2, <2>5 DEF Ready, Merging, Migrating, Finishing
  <2>9. View' = View
    <3>1. db.new = NoRows
      BY <1>2 DEF FileOK
    <3> QED
      BY <2>5, <3>1 DEF View, NoRows
  <2> QED
    BY <2>6, <2>7, <2>8, <2>9 DEF Advances
<1> DEFINE allowed == "wmpf_sessions" \in db.tables /\ "sessions" \notin db.tables
<1>3. Exec(p, <<"rename", 1>>, <<"table", 1>>, allowed, file)
  BY DEF Rename
<1> HIDE DEF file
<1>4. /\ pc[p] = <<"rename", 1>>
      /\ \/ allowed /\ pc'[p] = <<"table", 1>> /\ db' = file
         \/ ~allowed /\ pc'[p] = Closed /\ db' = db
  BY <1>3, NextPlace
<1> QED
  BY <1>1, <1>2, <1>4

(* Copy makes visible in sessions what View takes from wmpf_sessions.          *)
LEMMA CopyAdvances ==
    ASSUME FileOK, PlacesOK, ProgramsReady, NEW p \in Programs, Copy(p) PROVE Advances(p)
<1> DEFINE merged == Merged(db.new, db.old)
           last == Max(Ids(merged) \cup {db.lastN})
           file == [db EXCEPT !.new = merged, !.lastN = last]
<1>1. CASE pc'[p] = Closed /\ db' = db
  BY <1>1, FailedAdvances
<1>2. CASE "sessions" \in db.tables /\ pc'[p] = <<"dropTable", 1>> /\ db' = file
  <2>1. SessionRows(merged, last, db.accounts)
    BY MergedKeepsRows DEF FileOK
  <2>2. /\ \A a \in Accounts : db.new[a] # Null => merged[a] = db.new[a]
        /\ \A a \in Accounts : db.new[a] = Null /\ db.old[a] = Null => merged[a] = Null
        /\ \A a \in Accounts :
             db.new[a] = Null /\ db.old[a] # Null =>
               \/ /\ merged[a] = db.old[a]
                  /\ \A b \in Accounts : db.new[b] # Null => db.new[b].id # db.old[a].id
               \/ /\ merged[a] = Null
                  /\ \E b \in Accounts : db.new[b] # Null /\ db.new[b].id = db.old[a].id
    <3>1. db.new \in [Accounts -> Rows \cup {Null}]
      BY DEF FileOK, SessionRows
    <3> QED
      BY <3>1, IdsAre DEF Merged
  <2> HIDE DEF merged, last
  <2>3. /\ IsFile(db') /\ Kept(Fields \ {"new", "lastN"})
        /\ db'.new = merged /\ db'.lastN = last
    <3>1. IsFile(db)
      BY DEF FileOK
    <3> QED
      BY <1>2, <3>1 DEF IsFile, Fields, Kept
  <2>4. FileOK'
    BY <1>2, <2>1, <2>3 DEF FileOK, Kept, Fields
  <2>5. Covered'
    BY <2>2, <2>3 DEF Covered, Kept, Fields
  <2>6. Grows
    BY <2>3, <2>5 DEF Grows, Migrated, Kept, Fields
  <2>7. Ready(pc[p])'
    BY <1>2, <2>3, <2>5 DEF Ready, Merging, Migrating, Finishing, Kept, Fields
  <2>8. View' = View
    BY <2>2, <2>3 DEF View, Kept, Fields
  <2> QED
    BY <2>4, <2>6, <2>7, <2>8 DEF Advances
<1> DEFINE allowed == /\ {"wmpf_sessions", "sessions"} \subseteq db.tables
                      /\ \A a \in Accounts : merged[a] # Null => a \in db.accounts
<1>3. Exec(p, <<"copy", 1>>, <<"dropTable", 1>>, allowed, file)
  BY DEF Copy
<1>4. allowed => "sessions" \in db.tables
  OBVIOUS
<1> HIDE DEF file, allowed
<1>5. \/ allowed /\ pc'[p] = <<"dropTable", 1>> /\ db' = file
      \/ ~allowed /\ pc'[p] = Closed /\ db' = db
  BY <1>3, NextPlace
<1> QED
  BY <1>1, <1>2, <1>4, <1>5

(* DropTable drops only rows that View takes from sessions.                    *)
LEMMA DropTableAdvances ==
    ASSUME FileOK, PlacesOK, ProgramsReady, NEW p \in Programs, DropTable(p) PROVE Advances(p)
<1> DEFINE file == [db EXCEPT !.tables = @ \ {"wmpf_sessions"}, !.old = NoRows, !.lastO = 0,
                              !.indexes = {x \in @ : x[2] # "wmpf_sessions"}]
<1>1. CASE pc'[p] = Closed /\ db' = db
  BY <1>1, FailedAdvances
<1>2. CASE pc[p] = <<"dropTable", 1>> /\ pc'[p] = <<"table", 1>> /\ db' = file
  <2>1. /\ IsFile(db') /\ Kept({"columns", "features", "accounts", "new", "lastN"})
        /\ db'.tables = db.tables \ {"wmpf_sessions"}
        /\ db'.indexes = {x \in db.indexes : x[2] # "wmpf_sessions"}
        /\ db'.old = NoRows /\ db'.lastO = 0
    <3>1. IsFile(db)
      BY DEF FileOK
    <3> QED
      BY <1>2, <3>1 DEF IsFile, Fields, Kept
  <2>2. FileOK'
    <3>1. SessionRows(NoRows, 0, db.accounts)
      BY NoRowsAreRows, StoreAssumption
    <3> QED
      BY <2>1, <3>1 DEF FileOK, Kept
  <2>3. Grows
    <3>1. Covered'
      BY <2>1 DEF Covered, NoRows
    <3>2. db.indexes \cap SchemaIndexes \subseteq db'.indexes
      BY <2>1 DEF SchemaIndexes
    <3>3. \A i \in 1 .. 2 : Migrated(i) => Migrated(i)'
      BY <2>1 DEF Migrated, Kept
    <3> QED
      BY <2>1, <3>1, <3>2, <3>3 DEF Grows, Kept
  <2>4. Ready(pc[p])'
    BY <1>2, <2>1 DEF Ready, Merging, Migrating, Finishing
  <2>5. View' = View
    <3>1. Covered
      BY <1>2 DEF ProgramsReady, Ready
    <3> QED
      BY <2>1, <3>1 DEF View, Covered, NoRows, Kept
  <2> QED
    BY <2>2, <2>3, <2>4, <2>5 DEF Advances
<1> QED
  BY <1>1, <1>2, NextPlace DEF DropTable

(* A migration adds its column.                                                *)
LEMMA AddColumnAdvances ==
    ASSUME FileOK, PlacesOK, ProgramsReady, NEW p \in Programs, AddColumn(p) PROVE Advances(p)
<1>1. PICK i \in 1 .. 2 :
        Exec(p, <<"alter", i>>, Following("table", i, 2, <<"schema", 1>>),
             Migrations[i].column \notin db.columns,
             [db EXCEPT !.columns = @ \cup {Migrations[i].column}])
  BY MigrationsAre DEF AddColumn
<1>2. CASE pc'[p] = Closed /\ db' = db
  BY <1>2, FailedAdvances
<1>3. CASE /\ pc[p] = <<"alter", i>> /\ pc'[p] = Following("table", i, 2, <<"schema", 1>>)
           /\ db' = [db EXCEPT !.columns = @ \cup {Migrations[i].column}]
  <2>1. /\ IsFile(db') /\ Kept(Fields \ {"columns"})
        /\ db'.columns = db.columns \cup {Migrations[i].column}
    <3>1. IsFile(db)
      BY DEF FileOK
    <3> QED
      BY <1>3, <3>1 DEF IsFile, Fields, Kept
  <2>2. FileOK'
    <3>1. Migrations[i].column \in {"owner_id", "disabled"}
      BY MigrationsAre
    <3> QED
      BY <2>1, <3>1 DEF FileOK, Kept, Fields
  <2>3. Grows
    BY <2>1 DEF Grows, Covered, Migrated, Kept, Fields
  <2>4. Ready(pc[p])'
    <3>1. Migrated(i)'
      BY <2>1 DEF Migrated
    <3>2. Ready(pc[p])
      BY DEF ProgramsReady
    <3> QED
      BY <1>3, <2>3, <3>1, <3>2, AfterMigration
  <2>5. View' = View
    BY <2>1 DEF View, Kept, Fields
  <2> QED
    BY <2>2, <2>3, <2>4, <2>5 DEF Advances
<1> QED
  BY <1>1, <1>2, <1>3, NextPlace

(* What the i-th statement of the schema leaves; an index under its name is    *)
(* the one it would create.                                                    *)
LEMMA SchemaApplied ==
    ASSUME FileOK, ProgramsReady, NEW p \in Programs, NEW i \in 1 .. 9, pc[p] = <<"schema", i>>,
           db' = IF Schema[i].kind = "table" THEN CreateTable(Schema[i]) ELSE CreateIndex(Schema[i])
    PROVE  FileOK' /\ Grows /\ Applied(i)' /\ View' = View
<1>1. CASE db' = db
  <2>1. Applied(i)
    <3>1. CASE Schema[i].kind = "table"
      <4>1. CASE Schema[i].name \in db.tables
        BY <3>1, <4>1 DEF Applied
      <4>2. CASE Schema[i].name \notin db.tables
        <5>1. db = [db EXCEPT !.tables = @ \cup {Schema[i].name}, !.columns = @ \cup ColumnsOf(Schema[i].name)]
          BY <1>1, <3>1, <4>2 DEF CreateTable
        <5>2. IsFile(db)
          BY DEF FileOK
        <5>3. db.tables = db.tables \cup {Schema[i].name}
          BY <5>1, <5>2 DEF IsFile, Fields
        <5> QED
          BY <4>2, <5>3
      <4> QED
        BY <4>1, <4>2
    <3>2. CASE Schema[i].kind # "table"
      <4>0. <<Schema[i].name, Schema[i].on>> \in SchemaIndexes
        BY <3>2, Statements
      <4>1. CASE \E x \in db.indexes : x[1] = Schema[i].name
        <5>1. PICK x \in SchemaIndexes \cup {OldIndex} : x \in db.indexes /\ x[1] = Schema[i].name
          BY <4>1 DEF FileOK
        <5>2. x = <<Schema[i].name, Schema[i].on>>
          BY <4>0, <5>1 DEF SchemaIndexes, OldIndex
        <5> QED
          BY <3>2, <5>1, <5>2 DEF Applied
      <4>2. CASE ~\E x \in db.indexes : x[1] = Schema[i].name
        <5>1. db = [db EXCEPT !.indexes = @ \cup {<<Schema[i].name, Schema[i].on>>}]
          BY <1>1, <3>2, <4>2 DEF CreateIndex
        <5>2. IsFile(db)
          BY DEF FileOK
        <5>3. db.indexes = db.indexes \cup {<<Schema[i].name, Schema[i].on>>}
          BY <5>1, <5>2 DEF IsFile, Fields
        <5> QED
          BY <3>2, <5>3 DEF Applied
      <4> QED
        BY <4>1, <4>2
    <3> QED
      BY <3>1, <3>2
  <2> QED
    BY <1>1, <2>1, SameFile DEF Applied
<1>2. CASE db' # db /\ Schema[i].kind = "table"
  <2>1. /\ Schema[i].name \in SchemaTables
        /\ db' = [db EXCEPT !.tables = @ \cup {Schema[i].name},
                            !.columns = @ \cup ColumnsOf(Schema[i].name)]
    BY <1>2, Statements DEF CreateTable
  <2>2. ColumnsOf(Schema[i].name) \subseteq {"owner_id", "disabled"}
    BY MigrationsAre
  <2>3. /\ IsFile(db') /\ Kept(Fields \ {"tables", "columns"})
        /\ db'.tables = db.tables \cup {Schema[i].name}
        /\ db'.columns = db.columns \cup ColumnsOf(Schema[i].name)
    <3>1. IsFile(db)
      BY DEF FileOK
    <3> QED
      BY <2>1, <3>1 DEF IsFile, Fields, Kept
  <2>4. FileOK'
    BY <2>1, <2>2, <2>3 DEF FileOK, Kept, Fields
  <2>5. \A j \in 1 .. 2 : Migrated(j) => Migrated(j)'
    <3>1. \A j \in 1 .. 2 : Migrations[j].table = Schema[i].name =>
                                Migrations[j].column \in ColumnsOf(Schema[i].name)
      <4>1. \A j \in 1 .. 2 : j \in {1, 2}
        OBVIOUS
      <4> QED
        BY <4>1, MigrationsAre
    <3> QED
      BY <2>3, <3>1 DEF Migrated
  <2>6. Grows
    <3>1. "wmpf_sessions" \notin SchemaTables
      BY DEF SchemaTables
    <3> QED
      BY <2>1, <2>3, <2>5, <3>1 DEF Grows, Covered, Kept, Fields
  <2>7. Applied(i)' /\ View' = View
    BY <1>2, <2>3 DEF Applied, View, Kept, Fields
  <2> QED
    BY <2>4, <2>6, <2>7
<1>3. CASE db' # db /\ Schema[i].kind # "table"
  <2>1. /\ <<Schema[i].name, Schema[i].on>> \in SchemaIndexes
        /\ db' = [db EXCEPT !.indexes = @ \cup {<<Schema[i].name, Schema[i].on>>}]
    BY <1>3, Statements DEF CreateIndex
  <2>2. Schema[i].on \in db.tables
    BY <1>3, IndexHasTable
  <2>3. /\ IsFile(db') /\ Kept(Fields \ {"indexes"})
        /\ db'.indexes = db.indexes \cup {<<Schema[i].name, Schema[i].on>>}
    <3>1. IsFile(db)
      BY DEF FileOK
    <3> QED
      BY <2>1, <3>1 DEF IsFile, Fields, Kept
  <2>4. FileOK'
    BY <2>1, <2>2, <2>3 DEF FileOK, Kept, Fields
  <2>5. Grows
    <3>1. OldIndex \notin SchemaIndexes
      BY DEF SchemaIndexes, OldIndex
    <3> QED
      BY <2>1, <2>3, <3>1 DEF Grows, Covered, Migrated, Kept, Fields
  <2>6. Applied(i)' /\ View' = View
    BY <1>3, <2>3 DEF Applied, View, Kept, Fields
  <2> QED
    BY <2>4, <2>5, <2>6
<1> QED
  BY <1>1, <1>2, <1>3

(* The schema makes the tables and indexes that are missing.                   *)
LEMMA ApplySchemaAdvances ==
    ASSUME FileOK, PlacesOK, ProgramsReady, NEW p \in Programs, ApplySchema(p) PROVE Advances(p)
<1>1. PICK i \in 1 .. 9 :
        Exec(p, <<"schema", i>>, Following("schema", i, 9, <<"features", 1>>),
             Schema[i].kind = "index" => Needs(Schema[i].name) \subseteq db.columns,
             IF Schema[i].kind = "table" THEN CreateTable(Schema[i]) ELSE CreateIndex(Schema[i]))
  BY Statements DEF ApplySchema
<1>2. CASE pc'[p] = Closed /\ db' = db
  BY <1>2, FailedAdvances
<1>3. CASE /\ pc[p] = <<"schema", i>> /\ pc'[p] = Following("schema", i, 9, <<"features", 1>>)
           /\ db' = IF Schema[i].kind = "table" THEN CreateTable(Schema[i]) ELSE CreateIndex(Schema[i])
  <2>1. FileOK' /\ Grows /\ Applied(i)' /\ View' = View
    BY <1>3, SchemaApplied
  <2>2. Ready(pc[p])'
    <3>1. Ready(<<"schema", i>>)'
      <4>1. Ready(<<"schema", i>>)
        BY <1>3 DEF ProgramsReady
      <4> QED
        BY <2>1, <4>1, GrowsKeepsReady
    <3>2. /\ "wmpf_sessions" \notin db'.tables
          /\ \A j \in 1 .. 2 : Migrated(j)'
          /\ \A j \in 1 .. 9 : j <= i => Applied(j)'
      BY <2>1, <3>1, Statements DEF Ready
    <3>3. CASE i < 9
      <4>1. pc'[p] = <<"schema", i + 1>>
        BY <1>3, <3>3 DEF Following
      <4>2. pc'[p][1] = "schema" /\ pc'[p][2] = i + 1
        BY <4>1
      <4> QED
        BY <3>2, <4>2, Statements DEF Ready, Migrating, Merging, Finishing
    <3>4. CASE i = 9
      <4>1. pc'[p] = <<"features", 1>>
        BY <1>3, <3>4 DEF Following
      <4>2. pc'[p][1] = "features" /\ pc'[p][2] = 1
        BY <4>1
      <4> QED
        BY <3>2, <3>4, <4>2, Statements DEF Ready, Migrating, Merging, Finishing, DefaultFeatures
    <3> QED
      BY <3>3, <3>4
  <2> QED
    BY <2>1, <2>2 DEF Advances
<1> QED
  BY <1>1, <1>2, <1>3, NextPlace

(* The default features are written.                                           *)
LEMMA FeaturesAdvance ==
    ASSUME FileOK, PlacesOK, ProgramsReady, NEW p \in Programs, EnsureDefaultFeatures(p)
    PROVE  Advances(p)
<1>1. PICK i \in 1 .. 3 :
        Exec(p, <<"features", i>>, Following("features", i, 3, Opened), TRUE,
             [db EXCEPT !.features = @ \cup {DefaultFeatures[i]}])
  <2>1. DOMAIN DefaultFeatures = 1 .. 3 /\ Len(DefaultFeatures) = 3
    BY DEF DefaultFeatures
  <2> QED
    BY <2>1 DEF EnsureDefaultFeatures
<1>2. /\ pc[p] = <<"features", i>> /\ pc'[p] = Following("features", i, 3, Opened)
      /\ db' = [db EXCEPT !.features = @ \cup {DefaultFeatures[i]}]
  BY <1>1, NextPlace
<1>3. /\ IsFile(db') /\ Kept(Fields \ {"features"})
      /\ db'.features = db.features \cup {DefaultFeatures[i]}
  <2>1. IsFile(db)
    BY DEF FileOK
  <2> QED
    BY <1>2, <2>1 DEF IsFile, Fields, Kept
<1>4. FileOK'
  <2>1. DefaultFeatures[i] \in {1001, 1002, 1003}
    BY DEF DefaultFeatures
  <2> QED
    BY <1>3, <2>1 DEF FileOK, Kept, Fields
<1>5. Grows
  BY <1>3 DEF Grows, Covered, Migrated, Kept, Fields
<1>6. Ready(pc[p])'
  <2>1. Ready(<<"features", i>>)'
    <3>1. Ready(<<"features", i>>)
      BY <1>2 DEF ProgramsReady
    <3> QED
      BY <1>5, <3>1, GrowsKeepsReady
  <2>2. /\ "wmpf_sessions" \notin db'.tables
        /\ \A j \in 1 .. 2 : Migrated(j)'
        /\ \A j \in DOMAIN Schema : Applied(j)'
        /\ \A k \in 1 .. 3 : k <= i => DefaultFeatures[k] \in db'.features
    <3>1. DOMAIN DefaultFeatures = 1 .. 3
      BY DEF DefaultFeatures
    <3> QED
      BY <1>3, <2>1, <3>1 DEF Ready, Finishing
  <2>3. CASE i < 3
    <3>1. pc'[p] = <<"features", i + 1>>
      BY <1>2, <2>3 DEF Following
    <3>2. pc'[p][1] = "features" /\ pc'[p][2] = i + 1 /\ DOMAIN DefaultFeatures = 1 .. 3
      BY <3>1 DEF DefaultFeatures
    <3> QED
      BY <2>2, <3>2 DEF Ready, Migrating, Merging, Finishing
  <2>4. CASE i = 3
    <3>1. pc'[p] = Opened
      BY <1>2, <2>4 DEF Following
    <3>2. pc'[p][1] = "open" /\ DOMAIN DefaultFeatures = 1 .. 3
      BY <3>1 DEF Opened, DefaultFeatures
    <3> QED
      BY <2>2, <2>4, <3>2 DEF Ready, Migrating, Merging, Finishing
  <2> QED
    BY <2>3, <2>4
<1>7. View' = View
  BY <1>3 DEF View, Kept, Fields
<1> QED
  BY <1>4, <1>5, <1>6, <1>7 DEF Advances

(* All steps of Open.                                                          *)
LEMMA OpenAdvances ==
    ASSUME FileOK, PlacesOK, ProgramsReady, NEW p \in Programs, Start(p) \/ OpenStep(p)
    PROVE  Advances(p)
BY QueriesAdvance, DropIndexAdvances, RenameAdvances, CopyAdvances, DropTableAdvances,
   AddColumnAdvances, ApplySchemaAdvances, FeaturesAdvance DEF OpenStep

--------------------------------------------------------------------------------
(* While a program is open there is no wmpf_sessions, so nothing a program     *)
(* writes through its sessions can uncover one of its rows.                    *)
LEMMA OpenSeesNoOldTable ==
    ASSUME FileOK, ProgramsReady, SomeOpen
    PROVE  /\ "wmpf_sessions" \notin db.tables /\ "sessions" \in db.tables
           /\ db.old = NoRows
<1>1. PICK p \in Programs : pc[p] = Opened
  BY DEF SomeOpen
<1>2. pc[p][1] = "open" /\ Ready(pc[p])
  BY <1>1 DEF Opened, ProgramsReady
<1>3. "wmpf_sessions" \notin db.tables /\ \A j \in 1 .. 9 : Applied(j)
  BY <1>2, Statements DEF Ready, Finishing
<1>4. Applied(6) /\ Schema[6].kind = "table" /\ Schema[6].name = "sessions"
  BY <1>3 DEF Schema, Table
<1> QED
  BY <1>3, <1>4 DEF Applied, FileOK

(* An account is added.                                                        *)
LEMMA AddAccountKeeps ==
    ASSUME FileOK, ProgramsReady, NEW a \in Accounts, AddAccount(a) PROVE FileOK' /\ Grows
<1>1. /\ IsFile(db') /\ Kept(Fields \ {"accounts"})
      /\ db'.accounts = db.accounts \cup {a}
  <2>1. IsFile(db)
    BY DEF FileOK
  <2> QED
    BY <2>1 DEF AddAccount, IsFile, Fields, Kept
<1>2. SessionRows(db.old, db.lastO, db'.accounts) /\ SessionRows(db.new, db.lastN, db'.accounts)
  BY <1>1 DEF FileOK, SessionRows
<1>3. FileOK'
  BY <1>1, <1>2 DEF FileOK, Kept, Fields
<1>4. Grows
  BY <1>1 DEF Grows, Covered, Migrated, Kept, Fields
<1> QED
  BY <1>3, <1>4

(* A session is saved.                                                         *)
LEMMA PutSessionKeeps ==
    ASSUME FileOK, ProgramsReady, NEW a \in Accounts, NEW b \in Blobs, PutSession(a, b)
    PROVE  FileOK' /\ Grows
<1> DEFINE new == Upsert(db.new, a, b, db.lastN)
           last == Drawn(db.new, a, db.lastN)
<1>1. /\ SomeOpen /\ a \in db.accounts /\ last <= MaxId
      /\ db' = [db EXCEPT !.new = new, !.lastN = last]
  BY DEF PutSession, Upsert, Drawn
<1>2. SessionRows(new, last, db.accounts)
  <2>1. SessionRows(db.new, db.lastN, db.accounts) /\ db.accounts \cup {a} = db.accounts
    BY <1>1 DEF FileOK
  <2>2. SessionRows(new, last, db.accounts \cup {a})
    BY <1>1, <2>1, UpsertKeepsRows
  <2> QED
    BY <2>1, <2>2
<1> HIDE DEF new, last
<1>3. /\ IsFile(db') /\ Kept(Fields \ {"new", "lastN"})
      /\ db'.new = new /\ db'.lastN = last
  <2>1. IsFile(db)
    BY DEF FileOK
  <2> QED
    BY <1>1, <2>1 DEF IsFile, Fields, Kept
<1>4. "sessions" \in db.tables /\ db.old = NoRows
  BY <1>1, OpenSeesNoOldTable
<1>5. FileOK'
  BY <1>2, <1>3, <1>4 DEF FileOK, Kept, Fields
<1>6. Grows
  <2>1. Covered'
    BY <1>3, <1>4 DEF Covered, NoRows, Kept, Fields
  <2> QED
    BY <1>3, <2>1 DEF Grows, Migrated, Kept, Fields
<1> QED
  BY <1>5, <1>6

(* An account is deleted, with its sessions.                                   *)
LEMMA DeleteAccountKeeps ==
    ASSUME FileOK, ProgramsReady, NEW a \in Accounts, DeleteAccount(a)
    PROVE  FileOK' /\ (AllClosed \/ Grows)
<1>1. /\ IsFile(db') /\ Kept(Fields \ {"accounts", "old", "new"})
      /\ db'.accounts = db.accounts \ {a}
      /\ db'.old = Cascade(db.old, a) /\ db'.new = Cascade(db.new, a)
  <2>1. IsFile(db)
    BY DEF FileOK
  <2>2. db' = [db EXCEPT !.accounts = @ \ {a}, !.old = Cascade(@, a), !.new = Cascade(@, a)]
    BY DEF DeleteAccount
  <2> QED
    BY <2>1, <2>2 DEF IsFile, Fields, Kept
<1>2. /\ SessionRows(Cascade(db.old, a), db.lastO, db.accounts \ {a})
      /\ SessionRows(Cascade(db.new, a), db.lastN, db.accounts \ {a})
  BY CascadeKeepsRows DEF FileOK
<1>3. Cascade(NoRows, a) = NoRows
  BY DEF Cascade, NoRows
<1>4. FileOK'
  BY <1>1, <1>2, <1>3 DEF FileOK, Kept, Fields
<1>5. ASSUME SomeOpen PROVE Grows
  <2>1. db'.old = NoRows
    BY <1>1, <1>3, <1>5, OpenSeesNoOldTable
  <2>2. Covered'
    BY <2>1 DEF Covered, NoRows
  <2> QED
    BY <1>1, <2>2 DEF Grows, Migrated, Kept, Fields
<1> QED
  BY <1>4, <1>5 DEF DeleteAccount

(* An older version of the program has run on the file.                        *)
LEMMA OlderVersionKeeps ==
    ASSUME FileOK, NEW a \in Accounts, NEW b \in Blobs, OlderVersion(a, b)
    PROVE  FileOK'
<1> DEFINE old == Upsert(db.old, a, b, db.lastO)
           last == Drawn(db.old, a, db.lastO)
           indexes == IF \E x \in db.indexes : x[1] = "idx_sess_expires" THEN db.indexes
                      ELSE db.indexes \cup {<<"idx_sess_expires", "wmpf_sessions">>}
           tables == db.tables \cup {"wechat_accounts", "wmpf_sessions"}
           accounts == db.accounts \cup {a}
<1>1. /\ last <= MaxId
      /\ db' = [db EXCEPT !.tables = tables, !.indexes = indexes, !.accounts = accounts,
                          !.old = old, !.lastO = last]
  BY DEF OlderVersion, Upsert, Drawn
<1>2. /\ SessionRows(old, last, accounts)
      /\ SessionRows(db.new, db.lastN, accounts)
  <2>1. SessionRows(db.old, db.lastO, db.accounts) /\ SessionRows(db.new, db.lastN, db.accounts)
    BY DEF FileOK
  <2>2. SessionRows(old, last, accounts)
    BY <1>1, <2>1, UpsertKeepsRows
  <2> QED
    BY <2>1, <2>2 DEF SessionRows
<1>3. /\ tables \subseteq SchemaTables \cup {"wmpf_sessions"}
      /\ "wmpf_sessions" \in tables /\ db.tables \subseteq tables
  BY DEF FileOK, SchemaTables
<1>4. /\ indexes \subseteq SchemaIndexes \cup {OldIndex}
      /\ \A x \in indexes : x[2] \in tables
  BY <1>3 DEF FileOK, OldIndex
<1>5. "sessions" \notin tables => "sessions" \notin db.tables
  BY <1>3
<1> HIDE DEF old, last, indexes, tables, accounts
<1>6. /\ IsFile(db') /\ Kept({"columns", "features", "new", "lastN"})
      /\ db'.tables = tables /\ db'.indexes = indexes /\ db'.accounts = accounts
      /\ db'.old = old /\ db'.lastO = last
  <2>1. IsFile(db)
    BY DEF FileOK
  <2> QED
    BY <1>1, <2>1 DEF IsFile, Fields, Kept
<1>7. accounts \subseteq Accounts
  BY DEF accounts, FileOK
<1> QED
  BY <1>2, <1>3, <1>4, <1>5, <1>6, <1>7 DEF FileOK, Kept

--------------------------------------------------------------------------------
(* Every program is at a place of Open, whatever happens.                      *)
LEMMA NextPlacesOK ==
    ASSUME PlacesOK, [StoreNext]_storeVars PROVE PlacesOK'
<1> DEFINE Targets == Places \X (1 .. 9)
<1> USE StoreAssumption
<1>1. pc \in [Programs -> Targets] /\ faults \in 0 .. MaxFaults
  BY Statements DEF PlacesOK
<1>2. Closed \in Targets /\ Opened \in Targets
  BY DEF Closed, Opened, Places
<1>3. ASSUME NEW first \in Places, NEW n \in 1 .. 9, NEW i \in 1 .. n, NEW after \in Targets
      PROVE  Following(first, i, n, after) \in Targets
  BY DEF Following
<1> HIDE DEF Targets
<1>4. ASSUME NEW p \in Programs, NEW STATE from, NEW STATE to, NEW STATE allowed, NEW STATE file,
             Exec(p, from, to, allowed, file), to \in Targets
      PROVE  pc' \in [Programs -> Targets] /\ faults' = faults
  <2>1. (IF allowed THEN to ELSE Closed) \in Targets
    BY <1>2, <1>4
  <2> QED
    BY <1>1, <1>4, <2>1 DEF Exec
<1>5. /\ \A i \in 1 .. 2 : Following("table", i, 2, <<"schema", 1>>) \in Targets
      /\ \A i \in 1 .. 9 : Following("schema", i, 9, <<"features", 1>>) \in Targets
      /\ \A i \in 1 .. 3 : Following("features", i, 3, Opened) \in Targets
      /\ \A i \in 1 .. 2 : <<"column", i>> \in Targets /\ <<"alter", i>> \in Targets
      /\ <<"oldExists", 1>> \in Targets /\ <<"newExists", 1>> \in Targets
      /\ <<"dropIndex", 1>> \in Targets /\ <<"rename", 1>> \in Targets /\ <<"copy", 1>> \in Targets
      /\ <<"dropTable", 1>> \in Targets /\ <<"table", 1>> \in Targets
  <2>1. {<<"schema", 1>>, <<"features", 1>>} \subseteq Targets
    BY DEF Targets, Places
  <2>2. {"table", "schema", "features"} \subseteq Places
    BY DEF Places
  <2>3. \A i \in 1 .. 2 : <<"column", i>> \in Targets /\ <<"alter", i>> \in Targets
    BY DEF Targets, Places
  <2>4. /\ <<"oldExists", 1>> \in Targets /\ <<"newExists", 1>> \in Targets
        /\ <<"dropIndex", 1>> \in Targets /\ <<"rename", 1>> \in Targets /\ <<"copy", 1>> \in Targets
        /\ <<"dropTable", 1>> \in Targets /\ <<"table", 1>> \in Targets
    BY DEF Targets, Places
  <2>5. /\ \A i \in 1 .. 2 : Following("table", i, 2, <<"schema", 1>>) \in Targets
        /\ \A i \in 1 .. 9 : Following("schema", i, 9, <<"features", 1>>) \in Targets
        /\ \A i \in 1 .. 3 : Following("features", i, 3, Opened) \in Targets
    BY <1>2, <1>3, <2>1, <2>2
  <2> QED
    BY <2>3, <2>4, <2>5
<1>6. ASSUME NEW p \in Programs, Start(p) \/ OpenStep(p)
      PROVE  pc' \in [Programs -> Targets] /\ faults' = faults
  <2> USE DEF Query
  <2>1. CASE Start(p)
    BY <1>4, <1>5, <2>1 DEF Start
  <2>2. CASE OldExists(p)
    <3>1. (IF "wmpf_sessions" \in db.tables THEN <<"newExists", 1>> ELSE <<"table", 1>>) \in Targets
      BY <1>5
    <3> QED
      BY <1>4, <2>2, <3>1 DEF OldExists
  <2>3. CASE NewExists(p)
    <3>1. (IF "sessions" \in db.tables THEN <<"copy", 1>> ELSE <<"dropIndex", 1>>) \in Targets
      BY <1>5
    <3> QED
      BY <1>4, <2>3, <3>1 DEF NewExists
  <2>4. CASE DropIndex(p)
    BY <1>4, <1>5, <2>4 DEF DropIndex
  <2>5. CASE Rename(p)
    BY <1>4, <1>5, <2>5 DEF Rename
  <2>6. CASE Copy(p)
    BY <1>4, <1>5, <2>6 DEF Copy
  <2>7. CASE DropTable(p)
    BY <1>4, <1>5, <2>7 DEF DropTable
  <2>8. CASE TableExists(p)
    <3>1. PICK i \in 1 .. 2 :
            Query(p, <<"table", i>>, IF Migrations[i].table \in db.tables THEN <<"column", i>>
                                     ELSE Following("table", i, 2, <<"schema", 1>>))
      BY <2>8, MigrationsAre DEF TableExists
    <3>2. (IF Migrations[i].table \in db.tables THEN <<"column", i>>
           ELSE Following("table", i, 2, <<"schema", 1>>)) \in Targets
      BY <1>5
    <3> QED
      BY <1>4, <3>1, <3>2
  <2>9. CASE ColumnExists(p)
    <3>1. PICK i \in 1 .. 2 :
            Query(p, <<"column", i>>, IF Migrations[i].column \notin db.columns THEN <<"alter", i>>
                                      ELSE Following("table", i, 2, <<"schema", 1>>))
      BY <2>9, MigrationsAre DEF ColumnExists
    <3>2. (IF Migrations[i].column \notin db.columns THEN <<"alter", i>>
           ELSE Following("table", i, 2, <<"schema", 1>>)) \in Targets
      BY <1>5
    <3> QED
      BY <1>4, <3>1, <3>2
  <2>10. CASE AddColumn(p)
    <3>1. PICK i \in 1 .. 2 :
            Exec(p, <<"alter", i>>, Following("table", i, 2, <<"schema", 1>>),
                 Migrations[i].column \notin db.columns,
                 [db EXCEPT !.columns = @ \cup {Migrations[i].column}])
      BY <2>10, MigrationsAre DEF AddColumn
    <3>2. Following("table", i, 2, <<"schema", 1>>) \in Targets
      BY <1>5
    <3> QED
      BY <1>4, <3>1, <3>2
  <2>11. CASE ApplySchema(p)
    <3>1. PICK i \in 1 .. 9 :
            Exec(p, <<"schema", i>>, Following("schema", i, 9, <<"features", 1>>),
                 Schema[i].kind = "index" => Needs(Schema[i].name) \subseteq db.columns,
                 IF Schema[i].kind = "table" THEN CreateTable(Schema[i]) ELSE CreateIndex(Schema[i]))
      BY <2>11, Statements DEF ApplySchema
    <3> QED
      BY <1>4, <1>5, <3>1
  <2>12. CASE EnsureDefaultFeatures(p)
    <3>1. DOMAIN DefaultFeatures = 1 .. 3 /\ Len(DefaultFeatures) = 3
      BY DEF DefaultFeatures
    <3>2. PICK i \in 1 .. 3 :
            Exec(p, <<"features", i>>, Following("features", i, 3, Opened), TRUE,
                 [db EXCEPT !.features = @ \cup {DefaultFeatures[i]}])
      BY <2>12, <3>1 DEF EnsureDefaultFeatures
    <3> QED
      BY <1>4, <1>5, <3>2
  <2> QED
    BY <1>6, <2>1, <2>2, <2>3, <2>4, <2>5, <2>6, <2>7, <2>8, <2>9, <2>10, <2>11, <2>12 DEF OpenStep
<1>7. ASSUME NEW p \in Programs, Stop(p)
      PROVE  pc' \in [Programs -> Targets] /\ faults' \in 0 .. MaxFaults
  <2>1. pc' = [pc EXCEPT ![p] = Closed] /\ faults < MaxFaults /\ faults' = faults + 1
    BY <1>7 DEF Stop
  <2> QED
    BY <1>1, <1>2, <2>1
<1>8. ASSUME NEW a \in Accounts, NEW b \in Blobs, OlderVersion(a, b)
      PROVE  pc' \in [Programs -> Targets] /\ faults' \in 0 .. MaxFaults
  <2>1. pc' = pc /\ faults < MaxFaults /\ faults' = faults + 1
    BY <1>8 DEF OlderVersion
  <2> QED
    BY <1>1, <2>1
<1>9. ASSUME \/ \E a \in Accounts : AddAccount(a) \/ DeleteAccount(a)
             \/ \E a \in Accounts, b \in Blobs : PutSession(a, b)
             \/ UNCHANGED storeVars
      PROVE  pc' = pc /\ faults' = faults
  BY <1>9 DEF AddAccount, DeleteAccount, PutSession, storeVars
<1>10. pc' \in [Programs -> Targets] /\ faults' \in 0 .. MaxFaults
  BY <1>1, <1>6, <1>7, <1>8, <1>9 DEF StoreNext
<1> QED
  BY <1>10, Statements DEF PlacesOK, Targets

--------------------------------------------------------------------------------
(* Every file an earlier version may have left satisfies the invariant.        *)
LEMMA InitStoreInv == StoreInit => StoreInv
<1> SUFFICES ASSUME StoreInit PROVE StoreInv
  OBVIOUS
<1> USE StoreAssumption
<1>1. PlacesOK /\ ProgramsReady
  <2>1. \A p \in Programs : Ready(pc[p])
    BY DEF StoreInit, Ready, Closed, Merging, Migrating, Finishing
  <2> QED
    BY <2>1, Statements DEF StoreInit, PlacesOK, Closed, Places, ProgramsReady
<1>2. IsFile(NewFile)
  BY DEF IsFile, Fields, NewFile
<1>3. SessionRows(NoRows, 0, {}) /\ SessionRows(NoRows, 0, Accounts)
  BY NoRowsAreRows
<1>4. CASE db = NewFile
  <2>1. /\ db.tables = {} /\ db.columns = {} /\ db.indexes = {} /\ db.features = {}
        /\ db.accounts = {} /\ db.old = NoRows /\ db.new = NoRows
        /\ db.lastO = 0 /\ db.lastN = 0
    BY <1>4 DEF NewFile
  <2> QED
    BY <1>1, <1>2, <1>3, <1>4, <2>1 DEF StoreInv, FileOK
<1>5. ASSUME NEW x \in Accounts, NEW b \in Blobs
      PROVE  SessionRows(OneRow(x, b), 1, Accounts)
  <2>1. [id |-> 1, blob |-> b] \in Rows
    BY DEF Rows
  <2> QED
    BY <2>1 DEF OneRow, SessionRows
<1>6. CASE db # NewFile
  <2>1. db \in EarlierFiles
    BY <1>6 DEF StoreInit
  <2>2. PICK f, rows :
          /\ f \in {EarlierFile(users, c) : users \in SUBSET {"users"},
                                            c \in SUBSET {"owner_id", "disabled"}}
          /\ rows \in {OneRow(a, b) : a \in Accounts, b \in Blobs}
          /\ db = BeforeRename(f, rows) \/ db = AfterRename(f, rows)
    BY <2>1 DEF EarlierFiles
  <2>3. PICK users, c : /\ users \in SUBSET {"users"} /\ c \in SUBSET {"owner_id", "disabled"}
                        /\ f = EarlierFile(users, c)
    BY <2>2
  <2>4. /\ IsFile(f) /\ f.tables = {"wechat_accounts"} \cup users /\ f.columns = c
        /\ f.accounts = Accounts /\ f.indexes = {} /\ f.features = {}
        /\ f.old = NoRows /\ f.new = NoRows /\ f.lastO = 0 /\ f.lastN = 0
    BY <2>3 DEF EarlierFile, IsFile, Fields, NewFile
  <2>5. SessionRows(rows, 1, Accounts)
    BY <1>5, <2>2
  <2>6. \/ db = [f EXCEPT !.tables = @ \cup {"wmpf_sessions"}, !.old = rows, !.lastO = 1,
                          !.indexes = {<<"idx_sess_expires", "wmpf_sessions">>}]
        \/ db = [f EXCEPT !.tables = @ \cup {"sessions"}, !.new = rows, !.lastN = 1,
                          !.indexes = {<<"idx_sessions_expires", "sessions">>}]
    BY <2>2 DEF BeforeRename, AfterRename
  <2>7. /\ IsFile(db) /\ db.columns = c /\ db.accounts = Accounts /\ db.features = {}
        /\ \/ /\ db.tables = f.tables \cup {"wmpf_sessions"}
              /\ db.indexes = {<<"idx_sess_expires", "wmpf_sessions">>}
              /\ db.old = rows /\ db.lastO = 1 /\ db.new = NoRows /\ db.lastN = 0
           \/ /\ db.tables = f.tables \cup {"sessions"}
              /\ db.indexes = {<<"idx_sessions_expires", "sessions">>}
              /\ db.old = NoRows /\ db.lastO = 0 /\ db.new = rows /\ db.lastN = 1
    <3>1. CASE db = [f EXCEPT !.tables = @ \cup {"wmpf_sessions"}, !.old = rows, !.lastO = 1,
                              !.indexes = {<<"idx_sess_expires", "wmpf_sessions">>}]
      BY <2>4, <3>1 DEF IsFile, Fields
    <3>2. CASE db = [f EXCEPT !.tables = @ \cup {"sessions"}, !.new = rows, !.lastN = 1,
                              !.indexes = {<<"idx_sessions_expires", "sessions">>}]
      BY <2>4, <3>2 DEF IsFile, Fields
    <3> QED
      BY <2>6, <3>1, <3>2
  <2>8. f.tables \subseteq SchemaTables
    BY <2>3, <2>4 DEF SchemaTables
  <2>9. /\ db.tables \subseteq SchemaTables \cup {"wmpf_sessions"}
        /\ db.indexes \subseteq SchemaIndexes \cup {OldIndex}
        /\ \A i \in db.indexes : i[2] \in db.tables
    BY <2>7, <2>8 DEF SchemaTables, SchemaIndexes, OldIndex
  <2>10. /\ SessionRows(db.old, db.lastO, db.accounts) /\ SessionRows(db.new, db.lastN, db.accounts)
         /\ "wmpf_sessions" \notin db.tables => db.old = NoRows
         /\ "sessions" \notin db.tables => db.new = NoRows
    BY <1>3, <2>5, <2>7
  <2>11. db.features \subseteq {1001, 1002, 1003} /\ db.accounts \subseteq Accounts
         /\ db.columns \subseteq {"owner_id", "disabled"}
    BY <2>3, <2>7
  <2> QED
    BY <1>1, <2>7, <2>9, <2>10, <2>11 DEF StoreInv, FileOK
<1> QED
  BY <1>4, <1>6

(* A program that did not move finds the file as ready as before.              *)
LEMMA OthersStayReady ==
    ASSUME ProgramsReady, Grows, NEW q \in Programs, pc'[q] = pc[q] PROVE Ready(pc[q])'
<1>1. PICK l : l = pc[q]
  OBVIOUS
<1>2. Ready(l)
  BY <1>1 DEF ProgramsReady
<1>3. Ready(l)'
  BY <1>2, GrowsKeepsReady
<1> QED
  BY <1>1, <1>3 DEF Ready

(* All steps together.                                                         *)
LEMMA NextStoreInv == StoreInv /\ [StoreNext]_storeVars => StoreInv'
<1> SUFFICES ASSUME StoreInv, [StoreNext]_storeVars PROVE StoreInv'
  OBVIOUS
<1> USE DEF StoreInv
<1>1. PlacesOK'
  BY NextPlacesOK
<1>2. ASSUME FileOK', Grows, pc' = pc PROVE StoreInv'
  BY <1>1, <1>2, OthersStayReady DEF ProgramsReady
<1>3. ASSUME FileOK', AllClosed, pc' = pc PROVE StoreInv'
  <2>1. \A p \in Programs : pc'[p] = Closed
    BY <1>3 DEF AllClosed
  <2> QED
    BY <1>1, <1>3, <2>1, ClosedIsReady DEF ProgramsReady
<1>4. CASE UNCHANGED storeVars
  BY <1>2, <1>4, SameFile DEF storeVars
<1>5. ASSUME NEW p \in Programs, Start(p) \/ OpenStep(p) PROVE StoreInv'
  <2>1. Advances(p)
    BY <1>5, OpenAdvances
  <2>2. ASSUME NEW q \in Programs, q # p PROVE pc'[q] = pc[q]
    BY <1>5, <2>2 DEF Start, OpenStep, OldExists, NewExists, DropIndex, Rename, Copy, DropTable,
       TableExists, ColumnExists, AddColumn, ApplySchema, EnsureDefaultFeatures, Query, Exec, PlacesOK
  <2>3. \A q \in Programs : Ready(pc[q])'
    BY <2>1, <2>2, OthersStayReady DEF Advances
  <2> QED
    BY <1>1, <2>1, <2>3 DEF Advances, ProgramsReady
<1>6. ASSUME NEW p \in Programs, Stop(p) PROVE StoreInv'
  <2>1. FileOK' /\ Grows
    BY <1>6, SameFile DEF Stop
  <2>2. pc'[p] = Closed /\ \A q \in Programs : q # p => pc'[q] = pc[q]
    BY <1>6 DEF Stop, PlacesOK
  <2>3. \A q \in Programs : Ready(pc[q])'
    BY <2>1, <2>2, ClosedIsReady, OthersStayReady
  <2> QED
    BY <1>1, <2>1, <2>3 DEF ProgramsReady
<1>7. ASSUME NEW a \in Accounts, AddAccount(a) PROVE StoreInv'
  BY <1>2, <1>7, AddAccountKeeps DEF AddAccount
<1>8. ASSUME NEW a \in Accounts, DeleteAccount(a) PROVE StoreInv'
  BY <1>2, <1>3, <1>8, DeleteAccountKeeps DEF DeleteAccount
<1>9. ASSUME NEW a \in Accounts, NEW b \in Blobs, PutSession(a, b) PROVE StoreInv'
  BY <1>2, <1>9, PutSessionKeeps DEF PutSession
<1>10. ASSUME NEW a \in Accounts, NEW b \in Blobs, OlderVersion(a, b) PROVE StoreInv'
  BY <1>3, <1>10, OlderVersionKeeps DEF OlderVersion
<1> QED
  BY <1>4, <1>5, <1>6, <1>7, <1>8, <1>9, <1>10 DEF StoreNext

(* The file and every program's place in Open fit together, for ever.          *)
THEOREM StoreInvariant == StoreSpec => []StoreInv
<1> QED
  BY InitStoreInv, NextStoreInv, PTL DEF StoreSpec

(* The file has the tables, columns and rows its statements can leave, and every *)
(* program is at a place of Open.                                              *)
THEOREM StoreTypeCorrect == StoreSpec => []StoreTypeOK
<1>1. StoreInv => StoreTypeOK
  BY InvHasTypes DEF StoreInv
<1> QED
  BY <1>1, StoreInvariant, PTL

(* A program that is open has been through every statement of Open.            *)
LEMMA InvSchemaComplete == StoreInv => SchemaComplete
<1> SUFFICES ASSUME StoreInv, SomeOpen
             PROVE  /\ db.tables = {Schema[i].on : i \in DOMAIN Schema}
                    /\ db.columns = {"owner_id", "disabled"}
                    /\ db.indexes = {<<s.name, s.on>> : s \in {Schema[i] : i \in {j \in DOMAIN Schema : Schema[j].kind = "index"}}}
                    /\ db.features = {1001, 1002, 1003}
  BY DEF SchemaComplete
<1>1. PICK p \in Programs : pc[p] = Opened
  BY DEF SomeOpen
<1>2. pc[p][1] = "open" /\ Ready(pc[p])
  BY <1>1 DEF Opened, StoreInv, ProgramsReady
<1>3. /\ "wmpf_sessions" \notin db.tables
      /\ \A j \in 1 .. 9 : Applied(j)
      /\ \A i \in 1 .. 2 : Migrated(i)
      /\ \A k \in DOMAIN DefaultFeatures : DefaultFeatures[k] \in db.features
  BY <1>2, Statements DEF Ready, Finishing
<1>4. SchemaTables \subseteq db.tables /\ SchemaIndexes \subseteq db.indexes
  BY <1>3, Statements DEF Applied
<1>5. db.tables = SchemaTables
  <2>1. db.tables \subseteq SchemaTables \cup {"wmpf_sessions"}
    BY DEF StoreInv, FileOK
  <2> QED
    BY <1>3, <1>4, <2>1
<1>6. db.indexes = SchemaIndexes
  <2>1. OldIndex \notin db.indexes
    BY <1>3 DEF StoreInv, FileOK, OldIndex
  <2> QED
    BY <1>4, <2>1 DEF StoreInv, FileOK
<1>7. db.columns = {"owner_id", "disabled"}
  <2>1. {"owner_id", "disabled"} \subseteq db.columns
    BY <1>3, <1>5, MigrationsAre DEF Migrated, SchemaTables
  <2> QED
    BY <2>1 DEF StoreInv, FileOK
<1>8. db.features = {1001, 1002, 1003}
  <2>1. DOMAIN DefaultFeatures = 1 .. 3 /\ DefaultFeatures[1] = 1001
        /\ DefaultFeatures[2] = 1002 /\ DefaultFeatures[3] = 1003
    BY DEF DefaultFeatures
  <2>2. {1001, 1002, 1003} \subseteq db.features
    BY <1>3, <2>1
  <2> QED
    BY <2>2 DEF StoreInv, FileOK
<1>9. {<<s.name, s.on>> : s \in {Schema[i] : i \in {j \in DOMAIN Schema : Schema[j].kind = "index"}}}
        = SchemaIndexes
  <2> DEFINE created == {Schema[i] : i \in {j \in DOMAIN Schema : Schema[j].kind = "index"}}
  <2>1. \A s \in created : <<s.name, s.on>> \in SchemaIndexes
    <3>1. ASSUME NEW j \in 1 .. 9, Schema[j].kind = "index"
          PROVE  <<Schema[j].name, Schema[j].on>> \in SchemaIndexes
      BY <3>1, Statements
    <3> QED
      BY <3>1, Statements
  <2>2. \A x \in SchemaIndexes : \E s \in created : x = <<s.name, s.on>>
    BY Statements
  <2> QED
    BY <2>1, <2>2
<1> QED
  BY <1>5, <1>6, <1>7, <1>8, <1>9, Statements

(* A program that is open has the whole schema and nothing besides, whatever   *)
(* the others did meanwhile.                                                   *)
THEOREM SchemaIsComplete == StoreSpec => []SchemaComplete
<1> QED
  BY InvSchemaComplete, StoreInvariant, PTL

(* No statement of Open, no failure of one and no stop changes what is served. *)
THEOREM MigrationKeepsSessions == StoreSpec => OpenKeepsSessions
<1>1. StoreInv /\ [StoreNext]_storeVars => [pc' # pc => View' = View]_storeVars
  <2> SUFFICES ASSUME StoreInv, StoreNext, pc' # pc PROVE View' = View
    OBVIOUS
  <2>1. PICK p \in Programs : Start(p) \/ OpenStep(p) \/ Stop(p)
    BY DEF StoreNext, AddAccount, DeleteAccount, PutSession, OlderVersion
  <2>2. CASE Start(p) \/ OpenStep(p)
    BY <2>2, OpenAdvances DEF StoreInv, Advances
  <2>3. CASE Stop(p)
    BY <2>3 DEF Stop, View
  <2> QED
    BY <2>1, <2>2, <2>3
<1> QED
  BY <1>1, StoreInvariant, PTL DEF StoreSpec, OpenKeepsSessions
================================================================================
