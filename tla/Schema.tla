------------------------------ MODULE Schema ------------------------------
(* The database schema as the ten migrations of src/src/migrations make it   *)
(* and take it back, against the schema the entities of the code describe.   *)
(*                                                                           *)
(* A schema is a set of objects: tables (each with its primary key), columns *)
(* with their type, indexes, unique indexes, foreign keys and the exclusion  *)
(* constraint no_overlap. A migration is a sequence of statements. TypeORM   *)
(* runs the pending ones in one transaction; the container `migrate` does    *)
(* that before the application of a new release starts.                      *)
EXTENDS Integers, Sequences, FiniteSets

VARIABLES
    release,      \* how many of the migrations the deployed release contains
    applied,      \* how many the table `migrations` records
    schema,       \* the objects of the database
    rows,         \* the tables that hold rows
    overlapping   \* two confirmed rows of a master overlap

vars == <<release, applied, schema, rows, overlapping>>

---------------------------------------------------------------------------
(* Objects.                                                                *)

Object(kind, table, name, def, ref) ==
    [kind |-> kind, table |-> table, name |-> name, def |-> def, ref |-> ref]
Col(t, c, type)      == Object("column", t, c, type, "none")
Table(t, types)      == {Object("table", t, "none", "none", "none")} \cup {Col(t, c, types[c]) : c \in DOMAIN types}
Indexes(t, names)    == {Object("index", t, n, "none", "none") : n \in names}
UniqueIndex(t, name) == {Object("unique", t, name, "none", "none")}
ForeignKey(t, c, r, onDelete) == {Object("fk", t, c, onDelete, r)}
NoOverlap            == Object("exclusion", "booking", "no_overlap", "confirmed", "none")

NameOf(o)      == <<o.kind, o.table, o.name>>
TablesOf(s)    == {o.table : o \in {p \in s : p.kind = "table"}}
Parents(s, t)  == {o.ref : o \in {p \in s : p.kind = "fk" /\ p.table = t}}
Children(s, t) == {u \in TablesOf(s) : t \in Parents(s, u)}

(* Statements: CREATE and ADD; ADD of NOT NULL columns without a default;    *)
(* DROP; DROP CONSTRAINT IF EXISTS; DROP TABLE. Statements of one kind that  *)
(* commute are written as one.                                               *)
Add(objects)         == [op |-> "add", what |-> objects]
AddRequired(columns) == [op |-> "addRequired", what |-> columns]
Drop(objects)        == [op |-> "drop", what |-> objects]
DropIfExists(o)      == [op |-> "dropIfExists", what |-> {o}]
DropTables(tables)   == [op |-> "dropTables", what |-> {Object("table", t, "none", "none", "none") : t \in tables}]

---------------------------------------------------------------------------
(* What the entities of the code describe.                                 *)

AuthEntity ==
    Table("auth", [email |-> "varchar", password |-> "varchar", role |-> "varchar_default_master"])
    \cup UniqueIndex("auth", "email")

RefreshTokenEntity ==
    Table("refresh", [user_id |-> "varchar", jwt_refresh |-> "varchar"])
    \cup Indexes("refresh", {"user_id"})

ResetTokenEntity ==
    Table("reset", [user_id |-> "varchar", email |-> "varchar", change_pass_token |-> "varchar",
                    pass_token_created_at |-> "timestamp_default_now",
                    pass_token_expired_at |-> "timestamp"])
    \cup Indexes("reset", {"user_id"})

BookingEntity ==
    Table("booking", [service_name |-> "varchar", service_id |-> "uuid",
                      starts_at |-> "timestamptz", ends_at |-> "timestamptz",
                      status |-> "varchar_default_confirmed", client_name |-> "varchar",
                      client_phone |-> "varchar", client_email |-> "varchar_null",
                      master_id |-> "uuid"])
    \cup Indexes("booking", {"service_id", "master_id_starts_at"})
    \cup ForeignKey("booking", "master_id", "master", "cascade")
    \cup ForeignKey("booking", "service_id", "services", "cascade")

BuisnesEntity ==
    Table("buisnes", [owner_id |-> "varchar", title |-> "varchar", address |-> "varchar",
                      cancellationDeadlineHours |-> "int_default_3",
                      timezone |-> "varchar_default_kyiv"])
    \cup Indexes("buisnes", {"owner_id"})

MasterEntity ==
    Table("master", [name |-> "varchar", specialism |-> "varchar", description |-> "varchar",
                     photo |-> "varchar", work_time |-> "jsonb", auth_id |-> "uuid",
                     buisnes_id |-> "uuid"])
    \cup UniqueIndex("master", "auth_id") \cup Indexes("master", {"buisnes_id"})
    \cup ForeignKey("master", "buisnes_id", "buisnes", "cascade")
    \cup ForeignKey("master", "auth_id", "auth", "cascade")
    \cup Table("master_services", [masterEntityId |-> "uuid", servicesEntityId |-> "uuid"])
    \cup Indexes("master_services", {"masterEntityId", "servicesEntityId"})
    \cup ForeignKey("master_services", "masterEntityId", "master", "cascade")
    \cup ForeignKey("master_services", "servicesEntityId", "services", "no_action")

ServicesEntity ==
    Table("services", [service |-> "varchar", duration |-> "int", price |-> "numeric_10_2",
                       buisnes_id |-> "uuid"])
    \cup Indexes("services", {"buisnes_id"})
    \cup ForeignKey("services", "buisnes_id", "buisnes", "cascade")

Entities == AuthEntity \cup RefreshTokenEntity \cup ResetTokenEntity \cup BookingEntity
            \cup BuisnesEntity \cup MasterEntity \cup ServicesEntity

---------------------------------------------------------------------------
(* The migrations: what up and down execute, in order.                     *)

InitTables ==
    Table("auth", [email |-> "varchar", password |-> "varchar"]) \cup UniqueIndex("auth", "email")
    \cup Table("refresh", [user_id |-> "varchar", jwt_refresh |-> "varchar"])
    \cup Table("reset", [user_id |-> "varchar", email |-> "varchar", change_pass_token |-> "varchar",
                         pass_token_created_at |-> "timestamp_default_now",
                         pass_token_expired_at |-> "timestamp"])

InitUp   == << Add(InitTables) >>
InitDown == << DropTables({"reset", "refresh", "auth"}) >>

Role == Col("auth", "role", "varchar_default_master")

AddRoleUp   == << Add({Role}) >>
AddRoleDown == << Drop({Role}) >>

Stage2Tables ==
    Table("booking", [service_name |-> "varchar", service_id |-> "varchar",
                      starts_at |-> "timestamptz", ends_at |-> "timestamptz", master_id |-> "uuid"])
    \cup Table("master", [name |-> "varchar", specialism |-> "varchar", description |-> "varchar",
                          photo |-> "varchar", work_time |-> "jsonb", auth_id |-> "varchar",
                          buisnes_id |-> "uuid"])
    \cup Table("services", [service |-> "varchar", duration |-> "int", price |-> "numeric_10_2",
                            buisnes_id |-> "uuid"])
    \cup Table("buisnes", [owner_id |-> "varchar", title |-> "varchar", address |-> "varchar",
                           timezone |-> "varchar_default_kyiv"])
    \cup Table("master_services", [masterEntityId |-> "uuid", servicesEntityId |-> "uuid"])

Stage2Indexes ==
    Indexes("booking", {"service_id", "master_id_starts_at"})
    \cup UniqueIndex("master", "auth_id") \cup Indexes("master", {"buisnes_id"})
    \cup Indexes("services", {"buisnes_id"}) \cup Indexes("buisnes", {"owner_id"})
    \cup Indexes("master_services", {"masterEntityId", "servicesEntityId"})
    \cup Indexes("refresh", {"user_id"}) \cup Indexes("reset", {"user_id"})

Stage2ForeignKeys ==
    ForeignKey("booking", "master_id", "master", "cascade")
    \cup ForeignKey("master", "buisnes_id", "buisnes", "cascade")
    \cup ForeignKey("services", "buisnes_id", "buisnes", "cascade")
    \cup ForeignKey("master_services", "masterEntityId", "master", "cascade")
    \cup ForeignKey("master_services", "servicesEntityId", "services", "no_action")

Stage2SalonsUp   == << Add(Stage2Tables), Add(Stage2Indexes), Add(Stage2ForeignKeys) >>
Stage2SalonsDown ==
    << Drop(Stage2ForeignKeys), Drop(Stage2Indexes),
       DropTables({"master_services", "buisnes", "services", "master", "booking"}) >>

MasterAuthKey == ForeignKey("master", "auth_id", "auth", "cascade")

MasterAuthFkUp ==
    << Drop(UniqueIndex("master", "auth_id") \cup {Col("master", "auth_id", "varchar")}),
       AddRequired({Col("master", "auth_id", "uuid")}),
       Add(UniqueIndex("master", "auth_id") \cup MasterAuthKey) >>

MasterAuthFkDown ==
    << Drop(MasterAuthKey \cup UniqueIndex("master", "auth_id") \cup {Col("master", "auth_id", "uuid")}),
       AddRequired({Col("master", "auth_id", "varchar")}),
       Add(UniqueIndex("master", "auth_id")) >>

BookingStatus == Col("booking", "status", "varchar_default_confirmed")
ClientColumns == {Col("booking", "client_name", "varchar"), Col("booking", "client_phone", "varchar")}

AddBookingStatusUp   == << Add({BookingStatus}), AddRequired(ClientColumns) >>
AddBookingStatusDown == << Drop(ClientColumns \cup {BookingStatus}) >>

NoOverlapUp   == << Add({NoOverlap}) >>
NoOverlapDown == << Drop({NoOverlap}) >>

ServiceIndex == Indexes("booking", {"service_id"})
ServiceKey   == ForeignKey("booking", "service_id", "services", "cascade")

(* Faulty: the new column may be empty.                                      *)
BookingServiceNullableUp ==
    << Drop({NoOverlap} \cup ServiceIndex \cup {Col("booking", "service_id", "varchar")}),
       Add({Col("booking", "service_id", "uuid")}),
       Add(ServiceIndex \cup ServiceKey) >>

BookingServiceFKUp ==
    << Drop({NoOverlap} \cup ServiceIndex \cup {Col("booking", "service_id", "varchar")}),
       AddRequired({Col("booking", "service_id", "uuid")}),
       Add(ServiceIndex \cup ServiceKey) >>

(* Faulty: the way back does not bring no_overlap back.                      *)
BookingServiceFKDownNoOverlap ==
    << Drop(ServiceKey \cup ServiceIndex \cup {Col("booking", "service_id", "uuid")}),
       AddRequired({Col("booking", "service_id", "varchar")}),
       Add(ServiceIndex) >>

BookingServiceFKDown ==
    << Drop(ServiceKey \cup ServiceIndex \cup {Col("booking", "service_id", "uuid")}),
       AddRequired({Col("booking", "service_id", "varchar")}),
       Add(ServiceIndex \cup {NoOverlap}) >>

DeadlineHours == Col("buisnes", "cancellationDeadlineHours", "int_default_3")

DeadlineHoursUp   == << Add({DeadlineHours}) >>
DeadlineHoursDown == << Drop({DeadlineHours}) >>

(* Faulty: as generated by comparing with the entities, which know nothing   *)
(* of no_overlap; or without IF EXISTS.                                      *)
RestoreNothingUp == << DropIfExists(NoOverlap) >>
RestoreStrictlyUp == << Drop({NoOverlap}), Add({NoOverlap}) >>

RestoreNoOverlapUp   == << DropIfExists(NoOverlap), Add({NoOverlap}) >>
RestoreNoOverlapDown == << DropIfExists(NoOverlap) >>

ClientEmail == Col("booking", "client_email", "varchar_null")

ClientEmailUp   == << Add({ClientEmail}) >>
ClientEmailDown == << Drop({ClientEmail}) >>

Up == << InitUp, AddRoleUp, Stage2SalonsUp, MasterAuthFkUp, AddBookingStatusUp, NoOverlapUp,
         BookingServiceFKUp, DeadlineHoursUp, RestoreNoOverlapUp, ClientEmailUp >>
Down == << InitDown, AddRoleDown, Stage2SalonsDown, MasterAuthFkDown, AddBookingStatusDown,
           NoOverlapDown, BookingServiceFKDown, DeadlineHoursDown, RestoreNoOverlapDown,
           ClientEmailDown >>

Latest == Len(Up)

---------------------------------------------------------------------------
(* Executing statements. d is what a transaction sees: whether it is still  *)
(* running and its schema. r and o stand for the tables with rows and for   *)
(* the overlapping rows: no migration writes rows.                          *)

Possible(st, s, r, o) ==
    CASE st.op = "add"         -> /\ \A x \in st.what, y \in s : NameOf(x) # NameOf(y)
                                  /\ NoOverlap \in st.what => ~o
      [] st.op = "addRequired" -> \A x \in st.what : /\ x.table \notin r
                                                    /\ \A y \in s : NameOf(x) # NameOf(y)
      [] st.op = "drop"        -> st.what \subseteq s
      [] st.op = "dropTables"  -> /\ st.what \subseteq s
                                  /\ \A x \in st.what : Children(s, x.table) \subseteq {x.table}
      [] OTHER                 -> TRUE

Effect(st, s) ==
    CASE st.op \in {"add", "addRequired"} -> s \cup st.what
      [] st.op = "dropTables" -> {y \in s : \A x \in st.what : x.table # y.table}
      [] OTHER                -> s \ st.what

Started(s) == [ok |-> TRUE, schema |-> s]

Do(st, d, r, o) ==
    IF d.ok /\ Possible(st, d.schema, r, o)
    THEN [ok |-> TRUE, schema |-> Effect(st, d.schema)]
    ELSE [ok |-> FALSE, schema |-> d.schema]

Execute(statements, d, r, o) ==
    LET done[i \in 0 .. Len(statements)] ==
          IF i = 0 THEN d ELSE Do(statements[i], done[i - 1], r, o)
    IN done[Len(statements)]

(* The migrations from .. to, one after the other.                           *)
Pending(from, to, s, r, o) ==
    LET done[n \in 0 .. Latest] ==
          IF n < from THEN Started(s) ELSE Execute(Up[n], done[n - 1], r, o)
    IN done[to]

(* All statements or none; the rows of a dropped table go with it.           *)
Commit(d, version) ==
    IF d.ok
    THEN /\ schema' = d.schema
         /\ applied' = version
         /\ rows' = rows \cap TablesOf(d.schema)
         /\ overlapping' = (overlapping /\ "booking" \in rows')
    ELSE UNCHANGED <<schema, applied, rows, overlapping>>

---------------------------------------------------------------------------
(* Steps.                                                                  *)

Init ==
    /\ release = 0 /\ applied = 0
    /\ schema = {} /\ rows = {} /\ overlapping = FALSE

(* A release is deployed with the migrations it contains.                    *)
Release(n) ==
    /\ n \in release + 1 .. Latest
    /\ release' = n
    /\ UNCHANGED <<applied, schema, rows, overlapping>>

(* The container `migrate`: everything pending, in one transaction.          *)
MigrationRun ==
    /\ applied < release
    /\ Commit(Pending(applied + 1, release, schema, rows, overlapping), release)
    /\ UNCHANGED release

(* An operator takes the last migration back.                                *)
MigrationRevert ==
    /\ applied > 0
    /\ Commit(Execute(Down[applied], Started(schema), rows, overlapping), applied - 1)
    /\ UNCHANGED release

(* "Added by hand": BookingServiceFK took no_overlap away and an operator    *)
(* puts it back before RestoreNoOverlap does.                                *)
AddByHand ==
    /\ applied \in 7 .. 8
    /\ NoOverlap \notin schema /\ ~overlapping
    /\ schema' = schema \cup {NoOverlap}
    /\ UNCHANGED <<release, applied, rows, overlapping>>

(* Rows come and go under the foreign keys.                                  *)
Fill(t) ==
    /\ t \in TablesOf(schema) \ rows
    /\ Parents(schema, t) \subseteq rows
    /\ rows' = rows \cup {t}
    /\ UNCHANGED <<release, applied, schema, overlapping>>

Empty(t) ==
    /\ t \in rows
    /\ Children(schema, t) \cap rows = {}
    /\ rows' = rows \ {t}
    /\ overlapping' = (overlapping /\ t # "booking")
    /\ UNCHANGED <<release, applied, schema>>

(* Two confirmed rows of a master overlap, where nothing forbids it; one of  *)
(* them is cancelled.                                                        *)
Overlap ==
    /\ "booking" \in rows
    /\ \E o \in schema : NameOf(o) = <<"column", "booking", "status">>
    /\ NoOverlap \notin schema
    /\ overlapping' = TRUE
    /\ UNCHANGED <<release, applied, schema, rows>>

Settle ==
    /\ overlapping
    /\ overlapping' = FALSE
    /\ UNCHANGED <<release, applied, schema, rows>>

Next ==
    \/ \E n \in 1 .. Latest : Release(n)
    \/ MigrationRun \/ MigrationRevert \/ AddByHand
    \/ \E t \in TablesOf(Entities) : Fill(t) \/ Empty(t)
    \/ Overlap \/ Settle

Spec == Init /\ [][Next]_vars

---------------------------------------------------------------------------
(* Properties.                                                             *)

(* What the migrations 1 .. n make of an empty database.                     *)
SchemaAt == [n \in 0 .. Latest |-> Pending(1, n, {}, {}, FALSE).schema]

(* The number of applied migrations says what the schema is, however the     *)
(* database got there - runs of several migrations at once, failed runs,     *)
(* reverts, constraints added by hand: every down undoes its up. Only        *)
(* no_overlap may be there in addition, where the history allows it.         *)
SchemaOfVersion ==
    /\ applied \in 0 .. release
    /\ SchemaAt[applied] \subseteq schema
    /\ schema \ SchemaAt[applied] \subseteq (IF applied \in 7 .. 8 THEN {NoOverlap} ELSE {})

(* With synchronize off, nothing else makes the schema of the entities: all  *)
(* migrations together make exactly what the entities declare, and the       *)
(* constraint no_overlap that no entity knows of - over bookings that do not *)
(* overlap, whatever was written while it was missing.                       *)
LatestIsSound == applied = Latest => schema = Entities \cup {NoOverlap} /\ ~overlapping

(* A migration that a release ships can always be applied, and an applied    *)
(* one always be taken back, once the rows in its way are gone: no schema is *)
(* a dead end. The one exception is BookingServiceFK.down over a constraint  *)
(* that was added by hand.                                                   *)
BlockedByRowsOnly ==
    /\ Pending(applied + 1, Latest, schema, {}, FALSE).ok
    /\ (applied > 0 /\ ~(applied = 7 /\ NoOverlap \in schema))
         => Execute(Down[applied], Started(schema), {}, FALSE).ok

(* A column or table that may hold data disappears in a revert only: a run   *)
(* that replaces a column of a table with rows fails as a whole.             *)
RunsKeepData ==
    [][\A o \in schema \ schema' :
         (o.kind \in {"table", "column"} /\ o.table \in rows) => applied' < applied]_vars
=============================================================================
