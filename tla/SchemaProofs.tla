---------------------------- MODULE SchemaProofs ---------------------------
(***************************************************************************)
(* The schema of a database follows from its version: proofs about Schema, *)
(* for every history of releases, runs, reverts and failures and every     *)
(* distribution of rows.                                                   *)
(***************************************************************************)
EXTENDS Schema, WellFoundedInduction, TLAPS

---------------------------------------------------------------------------
(* Induction over the statements of a migration and over the migrations.   *)

\* Induction over the natural numbers, for a set instead of a predicate: a
\* least counterexample exists because < is well founded.
LEMMA SetInduction ==
  ASSUME NEW S, 0 \in S, \A n \in Nat : n \in S => n + 1 \in S
  PROVE  \A n \in Nat : n \in S
<1> DEFINE T == {n \in Nat : n \notin S}
           R == {p \in Nat \X Nat : p[1] < p[2]}
<1>1. R = OpToRel(<, Nat)
  BY DEF OpToRel
<1>2. IsWellFoundedOn(R, Nat)
  BY <1>1, NatLessThanWellFounded
<1> SUFFICES ASSUME T # {} PROVE FALSE
  OBVIOUS
<1>3. T \subseteq Nat
  OBVIOUS
<1> HIDE DEF T, R
<1>4. PICK x \in T : \A y \in T : <<y, x>> \notin R
  BY <1>2, <1>3, WFMin
<1> USE DEF T, R
<1>5. x # 0 /\ x \in Nat
  OBVIOUS
<1>6. x - 1 \in Nat /\ <<x - 1, x>> \in R /\ (x - 1) + 1 = x
  BY <1>5
<1>7. x - 1 \notin T
  BY <1>4, <1>6
<1> QED BY <1>5, <1>6, <1>7

\* What a list of statements makes is the last of any trace of states that
\* follows the statements.
LEMMA ExecuteByTrace ==
  ASSUME NEW statements, Len(statements) \in Nat, NEW r, NEW o, NEW t,
         \A i \in 1 .. Len(statements) : t[i] = Do(statements[i], t[i - 1], r, o)
  PROVE  Execute(statements, t[0], r, o) = t[Len(statements)]
<1> DEFINE n == Len(statements)
           F(f) == [i \in 0 .. n |-> IF i = 0 THEN t[0] ELSE Do(statements[i], f[i - 1], r, o)]
           g == CHOOSE f : f = F(f)
           u == [i \in 0 .. n |-> t[i]]
<1>1. u = F(u)
  <2>1. \A i \in 0 .. n : i # 0 => i - 1 \in 0 .. n /\ i \in 1 .. n
    OBVIOUS
  <2> QED BY <2>1
<1>2. g = F(g)
  <2> HIDE DEF F, u
  <2> QED BY <1>1
<1>3. Execute(statements, t[0], r, o) = g[n]
  BY DEF Execute
<1> DEFINE S == {k \in Nat : k <= n => g[k] = t[k]}
<1>4. 0 \in S
  <2> HIDE DEF g, u
  <2> QED BY <1>2
<1> HIDE DEF g, F
<1>5. \A k \in Nat : k \in S => k + 1 \in S
  <2> SUFFICES ASSUME NEW k \in Nat, k <= n => g[k] = t[k], k + 1 <= n
               PROVE  g[k + 1] = t[k + 1]
    OBVIOUS
  <2>1. k + 1 \in 1 .. n /\ k + 1 \in 0 .. n /\ (k + 1) - 1 = k /\ k + 1 # 0
    OBVIOUS
  <2>2. g[k + 1] = Do(statements[k + 1], g[k], r, o)
    BY <1>2, <2>1 DEF F
  <2>3. g[k] = t[k]
    OBVIOUS
  <2>4. t[k + 1] = Do(statements[k + 1], t[k], r, o)
    BY <2>1
  <2> QED BY <2>2, <2>3, <2>4
<1> HIDE DEF S, n
<1>6. \A k \in Nat : k \in S
  BY <1>4, <1>5, SetInduction
<1>7. g[n] = t[n]
  BY <1>6 DEF S, n
<1> QED BY <1>3, <1>7 DEF n, g, F

\* A migration of one statement.
LEMMA ExecuteOne ==
  ASSUME NEW a, NEW d, NEW r, NEW o
  PROVE  Execute(<<a>>, d, r, o) = Do(a, d, r, o)
<1> DEFINE s == <<a>>
           t == [i \in 0 .. 1 |-> IF i = 0 THEN d ELSE Do(a, d, r, o)]
<1>1. t[0] = d /\ t[1] = Do(a, d, r, o)
  OBVIOUS
<1>2. t[1] = Do(s[1], t[0], r, o)
  BY <1>1
<1>3. Len(s) = 1
  OBVIOUS
<1>4. Len(s) \in Nat
  BY <1>3
<1> HIDE DEF t, s
<1>5. \A i \in 1 .. Len(s) : t[i] = Do(s[i], t[i - 1], r, o)
  BY <1>2, <1>3
<1>6. Execute(s, t[0], r, o) = t[Len(s)]
  BY <1>4, <1>5, ExecuteByTrace
<1> QED BY <1>1, <1>3, <1>6 DEF s

\* A migration of two statements.
LEMMA ExecuteTwo ==
  ASSUME NEW a, NEW b, NEW d, NEW r, NEW o
  PROVE  Execute(<<a, b>>, d, r, o) = Do(b, Do(a, d, r, o), r, o)
<1> DEFINE e == Do(a, d, r, o)
           s == <<a, b>>
           t == [i \in 0 .. 2 |-> IF i = 0 THEN d ELSE IF i = 1 THEN e ELSE Do(b, e, r, o)]
<1> HIDE DEF e
<1>1. t[0] = d /\ t[1] = e /\ t[2] = Do(b, e, r, o)
  OBVIOUS
<1>2. t[1] = Do(s[1], t[0], r, o) /\ t[2] = Do(s[2], t[1], r, o)
  BY <1>1 DEF e
<1>3. Len(s) = 2
  OBVIOUS
<1>4. Len(s) \in Nat
  BY <1>3
<1> HIDE DEF t, s
<1>5. \A i \in 1 .. Len(s) : t[i] = Do(s[i], t[i - 1], r, o)
  BY <1>2, <1>3
<1>6. Execute(s, t[0], r, o) = t[Len(s)]
  BY <1>4, <1>5, ExecuteByTrace
<1> QED BY <1>1, <1>3, <1>6 DEF e, s

\* A migration of three statements.
LEMMA ExecuteThree ==
  ASSUME NEW a, NEW b, NEW c, NEW d, NEW r, NEW o
  PROVE  Execute(<<a, b, c>>, d, r, o) = Do(c, Do(b, Do(a, d, r, o), r, o), r, o)
<1> DEFINE e == Do(a, d, r, o)
           f == Do(b, e, r, o)
           s == <<a, b, c>>
           t == [i \in 0 .. 3 |-> IF i = 0 THEN d ELSE IF i = 1 THEN e ELSE IF i = 2 THEN f
                                ELSE Do(c, f, r, o)]
<1> HIDE DEF e, f
<1>1. t[0] = d /\ t[1] = e /\ t[2] = f /\ t[3] = Do(c, f, r, o)
  OBVIOUS
<1>2. t[1] = Do(s[1], t[0], r, o) /\ t[2] = Do(s[2], t[1], r, o) /\ t[3] = Do(s[3], t[2], r, o)
  BY <1>1 DEF e, f
<1>3. Len(s) = 3
  OBVIOUS
<1>4. Len(s) \in Nat
  BY <1>3
<1> HIDE DEF t, s
<1>5. \A i \in 1 .. Len(s) : t[i] = Do(s[i], t[i - 1], r, o)
  BY <1>2, <1>3
<1>6. Execute(s, t[0], r, o) = t[Len(s)]
  BY <1>4, <1>5, ExecuteByTrace
<1> QED BY <1>1, <1>3, <1>6 DEF e, f, s

\* The pending migrations run one after the other.
LEMMA PendingSteps ==
  ASSUME NEW from \in Nat \ {0}, NEW s, NEW r, NEW o
  PROVE  \A n \in 0 .. Latest :
           Pending(from, n, s, r, o) =
             IF n < from THEN Started(s) ELSE Execute(Up[n], Pending(from, n - 1, s, r, o), r, o)
<1> DEFINE Value(f, n) == IF n < from THEN Started(s) ELSE Execute(Up[n], f[n - 1], r, o)
           F(f) == [n \in 0 .. Latest |-> Value(f, n)]
           g == CHOOSE f : f = F(f)
           Upto(k, f) == f = [n \in 0 .. k |-> Value(f, n)]
           S == {k \in Nat : \E f : Upto(k, f)}
<1> HIDE DEF Value
<1>1. \E f : f = F(f)
  <2>1. 0 \in S
    <3>1. \A f, n : n \in 0 .. 0 => Value(f, n) = Started(s)
      BY DEF Value
    <3>2. Upto(0, [n \in 0 .. 0 |-> Started(s)])
      BY <3>1
    <3> QED BY <3>2
  <2>2. \A k \in Nat : k \in S => k + 1 \in S
    <3> SUFFICES ASSUME NEW k \in Nat, NEW f, Upto(k, f) PROVE \E h : Upto(k + 1, h)
      OBVIOUS
    <3> DEFINE h == [n \in 0 .. k + 1 |-> IF n <= k THEN f[n] ELSE Value(f, k + 1)]
    <3>1. ASSUME NEW n \in 0 .. k + 1 PROVE Value(h, n) = Value(f, n)
      <4>1. n >= from => n - 1 \in 0 .. k + 1 /\ n - 1 <= k
        OBVIOUS
      <4>2. n >= from => h[n - 1] = f[n - 1]
        BY <4>1
      <4> HIDE DEF h
      <4> QED BY <4>2 DEF Value
    <3>2. ASSUME NEW n \in 0 .. k + 1 PROVE h[n] = Value(f, n)
      <4>1. CASE n <= k
        BY <4>1
      <4>2. CASE ~(n <= k)
        BY <4>2
      <4> QED BY <4>1, <4>2
    <3>3. h = [n \in 0 .. k + 1 |-> h[n]]
      OBVIOUS
    <3> HIDE DEF h
    <3> QED BY <3>1, <3>2, <3>3
  <2>3. Latest \in Nat
    BY DEF Latest, Up
  <2>4. Latest \in S
    <3> HIDE DEF S
    <3> QED BY <2>1, <2>2, <2>3, SetInduction
  <2> QED BY <2>4
<1>2. g = F(g)
  <2> HIDE DEF F
  <2> QED BY <1>1
<1>3. \A n : Pending(from, n, s, r, o) = g[n]
  BY DEF Pending, Value
<1> HIDE DEF g
<1> SUFFICES ASSUME NEW n \in 0 .. Latest
             PROVE  g[n] = IF n < from THEN Started(s) ELSE Execute(Up[n], g[n - 1], r, o)
  BY <1>3
<1>4. g[n] = Value(g, n)
  BY <1>2
<1> QED BY <1>4 DEF Value

---------------------------------------------------------------------------
(* The ten versions of the schema, and what is in their pieces.            *)

\* The columns that change their type.
OldAuthId    == Col("master", "auth_id", "varchar")
NewAuthId    == Col("master", "auth_id", "uuid")
OldServiceId == Col("booking", "service_id", "varchar")
NewServiceId == Col("booking", "service_id", "uuid")
Stage2       == Stage2Tables \cup Stage2Indexes \cup Stage2ForeignKeys

\* Version n is what the migrations 1 .. n make. MasterAuthFk replaces auth_id,
\* BookingServiceFK replaces service_id and takes no_overlap away.
V1  == InitTables
V2  == V1 \cup {Role}
V3  == V2 \cup Stage2
V4  == (V3 \ {OldAuthId}) \cup {NewAuthId} \cup MasterAuthKey
V5  == V4 \cup {BookingStatus} \cup ClientColumns
V6  == V5 \cup {NoOverlap}
V7  == (V5 \ {OldServiceId}) \cup {NewServiceId} \cup ServiceKey
V8  == V7 \cup {DeadlineHours}
V9  == V8 \cup {NoOverlap}
V10 == V9 \cup {ClientEmail}

\* A table is itself and its columns.
LEMMA TableObject ==
  ASSUME NEW t, NEW types, NEW y \in Table(t, types)
  PROVE  /\ y.table = t
         /\ \/ y.kind = "table" /\ y = Object("table", t, "none", "none", "none")
            \/ y.kind = "column" /\ y.name \in DOMAIN types /\ y = Col(t, y.name, types[y.name])
<1>1. ASSUME y = Object("table", t, "none", "none", "none")
      PROVE  y.table = t /\ y.kind = "table"
  BY <1>1 DEF Object
<1>2. ASSUME NEW c \in DOMAIN types, y = Col(t, c, types[c])
      PROVE  y.table = t /\ y.kind = "column" /\ y.name = c
  BY <1>2 DEF Col, Object
<1>3. y = Object("table", t, "none", "none", "none") \/ \E c \in DOMAIN types : y = Col(t, c, types[c])
  BY DEF Table
<1>4. CASE \E c \in DOMAIN types : y = Col(t, c, types[c])
  <2>1. PICK c \in DOMAIN types : y = Col(t, c, types[c])
    BY <1>4
  <2>2. y.table = t /\ y.kind = "column" /\ y.name = c
    BY <1>2, <2>1
  <2> QED BY <2>1, <2>2
<1> QED BY <1>1, <1>3, <1>4

\* An index has its table and its name.
LEMMA IndexObject ==
  ASSUME NEW t, NEW names, NEW y \in Indexes(t, names)
  PROVE  /\ y.table = t /\ y.kind = "index"
         /\ y.name \in names /\ \A n : y.name = n => y \in Indexes(t, {n})
<1>1. PICK n \in names : y = Object("index", t, n, "none", "none")
  BY DEF Indexes
<1> QED BY <1>1 DEF Indexes, Object

\* So has a unique index,
LEMMA UniqueObject ==
  ASSUME NEW t, NEW n, NEW y \in UniqueIndex(t, n)
  PROVE  y.table = t /\ y.kind = "unique" /\ y.name = n
BY DEF UniqueIndex, Object

\* and a foreign key.
LEMMA KeyObject ==
  ASSUME NEW t, NEW c, NEW r, NEW d, NEW y \in ForeignKey(t, c, r, d)
  PROVE  y.table = t /\ y.kind = "fk" /\ y.name = c
BY DEF ForeignKey, Object

\* What Init creates.
LEMMA InitObjects ==
  ASSUME NEW y \in InitTables
  PROVE  /\ y.table \in {"auth", "refresh", "reset"} /\ y.kind \in {"table", "column", "unique"}
         /\ y.kind = "column" /\ y.table = "auth" => y.name \in {"email", "password"}
BY TableObject, UniqueObject DEF InitTables

\* The tables of Stage2Salons and the columns that later migrations touch.
LEMMA Stage2TableObjects ==
  ASSUME NEW y \in Stage2Tables
  PROVE  /\ y.table \in {"booking", "master", "services", "buisnes", "master_services"}
         /\ y.kind \in {"table", "column"}
         /\ y.kind = "column" /\ y.table = "booking" =>
              y.name \in {"service_name", "service_id", "starts_at", "ends_at", "master_id"}
         /\ y.kind = "column" /\ y.table = "booking" /\ y.name = "service_id" => y = OldServiceId
         /\ y.kind = "column" /\ y.table = "master" /\ y.name = "auth_id" => y = OldAuthId
         /\ y.kind = "column" /\ y.table = "buisnes" =>
              y.name \in {"owner_id", "title", "address", "timezone"}
BY TableObject DEF Stage2Tables, OldServiceId, OldAuthId

\* The indexes of Stage2Salons.
LEMMA Stage2IndexObjects ==
  ASSUME NEW y \in Stage2Indexes
  PROVE  /\ y.kind \in {"index", "unique"}
         /\ y.kind = "unique" => y \in UniqueIndex("master", "auth_id")
         /\ y.kind = "index" /\ y.table = "booking" /\ y.name = "service_id" => y \in ServiceIndex
BY IndexObject, UniqueObject DEF Stage2Indexes, ServiceIndex

\* The foreign keys of Stage2Salons.
LEMMA Stage2KeyObjects ==
  ASSUME NEW y \in Stage2ForeignKeys
  PROVE  /\ y.kind = "fk"
         /\ y.table = "master" => y.name = "buisnes_id"
         /\ y.table = "booking" => y.name = "master_id"
BY KeyObject DEF Stage2ForeignKeys

---------------------------------------------------------------------------
(* What a statement does: Fresh objects can be added.                      *)

\* No object of s has the name of one of these.
Fresh(objects, s) == \A x \in objects, y \in s : NameOf(x) # NameOf(y)

\* Adding fresh objects fails only where no_overlap meets overlapping rows.
LEMMA DoAdd ==
  ASSUME NEW w, NEW s, NEW r, NEW o, Fresh(w, s)
  PROVE  /\ (NoOverlap \in w => ~o) => Do(Add(w), Started(s), r, o) = Started(s \cup w)
         /\ Do(Add(w), Started(s), r, o).ok => (NoOverlap \in w => ~o)
<1>1. Possible(Add(w), s, r, o) <=> (NoOverlap \in w => ~o)
  BY DEF Possible, Add, Fresh
<1>2. Effect(Add(w), s) = s \cup w
  BY DEF Effect, Add
<1> QED BY <1>1, <1>2 DEF Do, Started

\* An object is not added twice.
LEMMA DoAddTwice ==
  ASSUME NEW w, NEW s, NEW r, NEW o, ~Fresh(w, s)
  PROVE  ~Do(Add(w), Started(s), r, o).ok
<1>1. ~Possible(Add(w), s, r, o)
  BY DEF Possible, Add, Fresh
<1> QED BY <1>1 DEF Do, Started

\* A NOT NULL column without a default goes into an empty table only.
LEMMA DoAddRequired ==
  ASSUME NEW w, NEW s, NEW r, NEW o, Fresh(w, s)
  PROVE  /\ (\A x \in w : x.table \notin r) => Do(AddRequired(w), Started(s), r, o) = Started(s \cup w)
         /\ Do(AddRequired(w), Started(s), r, o).ok => \A x \in w : x.table \notin r
<1>1. Possible(AddRequired(w), s, r, o) <=> (\A x \in w : x.table \notin r)
  BY DEF Possible, AddRequired, Fresh
<1>2. Effect(AddRequired(w), s) = s \cup w
  BY DEF Effect, AddRequired
<1> QED BY <1>1, <1>2 DEF Do, Started

\* What is there can be dropped.
LEMMA DoDrop ==
  ASSUME NEW w, NEW s, NEW r, NEW o, w \subseteq s
  PROVE  Do(Drop(w), Started(s), r, o) = Started(s \ w)
BY DEF Do, Started, Possible, Effect, Drop

\* DROP IF EXISTS never fails.
LEMMA DoDropIfExists ==
  ASSUME NEW x, NEW s, NEW r, NEW o
  PROVE  Do(DropIfExists(x), Started(s), r, o) = Started(s \ {x})
BY DEF Do, Started, Possible, Effect, DropIfExists

\* A failed transaction stays failed.
LEMMA DoFails ==
  ASSUME NEW st, NEW d, NEW r, NEW o, ~d.ok
  PROVE  ~Do(st, d, r, o).ok
BY DEF Do

\* Tables without foreign keys around them can be dropped, with all they hold.
LEMMA DoDropTables ==
  ASSUME NEW tables, NEW s, NEW r, NEW o,
         \A t \in tables : Object("table", t, "none", "none", "none") \in s,
         \A y \in s : y.kind # "fk"
  PROVE  Do(DropTables(tables), Started(s), r, o) = Started({y \in s : y.table \notin tables})
<1> DEFINE w == DropTables(tables).what
<1>1. \A t : Children(s, t) = {}
  BY DEF Children, Parents
<1>2. w = {Object("table", t, "none", "none", "none") : t \in tables}
      /\ DropTables(tables).op = "dropTables"
  BY DEF DropTables
<1>3. w \subseteq s
  BY <1>2
<1>4. Possible(DropTables(tables), s, r, o)
  BY <1>1, <1>2, <1>3 DEF Possible
<1>5. \A t : Object("table", t, "none", "none", "none").table = t
  BY DEF Object
<1>6. Effect(DropTables(tables), s) = {y \in s : \A x \in w : x.table # y.table}
  BY <1>2 DEF Effect
<1>7. {y \in s : \A x \in w : x.table # y.table} = {y \in s : y.table \notin tables}
  <2>1. \A y : (\A x \in w : x.table # y.table) <=> y.table \notin tables
    <3> HIDE DEF w
    <3> QED BY <1>2, <1>5
  <2> QED BY <2>1
<1> QED BY <1>4, <1>6, <1>7 DEF Do, Started

---------------------------------------------------------------------------
(* No two objects of a version have one name.                              *)

\* What MasterAuthFk and BookingServiceFK leave between DROP and ADD.
MasterIndex == UniqueIndex("master", "auth_id")
Rest4 == V3 \ (MasterIndex \cup {OldAuthId})
Rest7 == V5 \ (ServiceIndex \cup {OldServiceId})

\* Two objects have one name when kind, table and name agree.
LEMMA Named ==
  \A x, y : NameOf(x) = NameOf(y) <=> x.kind = y.kind /\ x.table = y.table /\ x.name = y.name
BY DEF NameOf

\* The fields of a column.
LEMMA ColumnObject ==
  \A t, c, d : /\ Col(t, c, d).kind = "column" /\ Col(t, c, d).table = t /\ Col(t, c, d).name = c
               /\ Col(t, c, d).def = d
BY DEF Col, Object

\* After two migrations there are accounts and tokens only.
LEMMA V2Objects ==
  ASSUME NEW y \in V2
  PROVE  y.table \in {"auth", "refresh", "reset"} /\ y.kind \in {"table", "column", "unique"}
BY InitObjects, ColumnObject DEF V1, V2, Role

\* The column role is new to version 1.
LEMMA FreshRole == Fresh({Role}, V1)
BY InitObjects, ColumnObject, Named DEF Fresh, V1, Role

\* The objects of Stage2Salons are new to version 2, in the order they come.
LEMMA FreshStage2 ==
  /\ Fresh(Stage2Tables, V2)
  /\ Fresh(Stage2Indexes, V2 \cup Stage2Tables)
  /\ Fresh(Stage2ForeignKeys, V2 \cup Stage2Tables \cup Stage2Indexes)
<1>1. Fresh(Stage2Tables, V2)
  BY V2Objects, Stage2TableObjects, Named DEF Fresh
<1>2. Fresh(Stage2Indexes, V2 \cup Stage2Tables)
  BY V2Objects, Stage2TableObjects, Stage2IndexObjects, UniqueObject, Named DEF Fresh
<1>3. Fresh(Stage2ForeignKeys, V2 \cup Stage2Tables \cup Stage2Indexes)
  BY V2Objects, Stage2TableObjects, Stage2IndexObjects, Stage2KeyObjects, Named DEF Fresh
<1> QED BY <1>1, <1>2, <1>3

\* What version 3 knows of the objects that later migrations touch.
LEMMA V3Objects ==
  ASSUME NEW y \in V3
  PROVE  /\ y.kind \in {"table", "column", "index", "unique", "fk"}
         /\ y.kind = "column" /\ y.table = "booking" =>
              y.name \in {"service_name", "service_id", "starts_at", "ends_at", "master_id"}
         /\ y.kind = "column" /\ y.table = "booking" /\ y.name = "service_id" => y = OldServiceId
         /\ y.kind = "column" /\ y.table = "master" /\ y.name = "auth_id" => y = OldAuthId
         /\ y.kind = "column" /\ y.table = "buisnes" =>
              y.name \in {"owner_id", "title", "address", "timezone"}
         /\ y.kind = "unique" /\ y.table = "master" => y \in MasterIndex
         /\ y.kind = "index" /\ y.table = "booking" /\ y.name = "service_id" => y \in ServiceIndex
         /\ y.kind = "fk" /\ y.table = "master" => y.name = "buisnes_id"
         /\ y.kind = "fk" /\ y.table = "booking" => y.name = "master_id"
<1>1. CASE y \in V2
  BY <1>1, V2Objects
<1>2. CASE y \in Stage2Tables
  BY <1>2, Stage2TableObjects
<1>3. CASE y \in Stage2Indexes
  BY <1>3, Stage2IndexObjects DEF MasterIndex
<1>4. CASE y \in Stage2ForeignKeys
  BY <1>4, Stage2KeyObjects
<1> QED BY <1>1, <1>2, <1>3, <1>4 DEF V3, Stage2

\* What later migrations drop is there in version 3.
LEMMA Held3 ==
  /\ OldAuthId \in V3 /\ OldServiceId \in V3
  /\ MasterIndex \subseteq V3 /\ ServiceIndex \subseteq V3
  /\ \A t \in {"booking", "master", "services", "buisnes", "master_services"} :
        Object("table", t, "none", "none", "none") \in V3
<1>1. OldAuthId \in Stage2Tables /\ OldServiceId \in Stage2Tables
  BY DEF Stage2Tables, Table, OldAuthId, OldServiceId
<1>2. MasterIndex \subseteq Stage2Indexes
  BY DEF MasterIndex, Stage2Indexes
<1>3. ServiceIndex \subseteq Stage2Indexes
  BY DEF ServiceIndex, Stage2Indexes, Indexes
<1>4. \A t, types : Object("table", t, "none", "none", "none") \in Table(t, types)
  BY DEF Table
<1>5. \A t \in {"booking", "master", "services", "buisnes", "master_services"} :
        Object("table", t, "none", "none", "none") \in Stage2Tables
  BY <1>4 DEF Stage2Tables
<1> QED BY <1>1, <1>2, <1>3, <1>5 DEF V3, Stage2

\* Kind, table and name of every object a later migration touches.
LEMMA Touched ==
  /\ \A y \in MasterIndex : y.kind = "unique" /\ y.table = "master" /\ y.name = "auth_id"
  /\ \A y \in MasterAuthKey : y.kind = "fk" /\ y.table = "master" /\ y.name = "auth_id"
  /\ \A y \in ServiceIndex : y.kind = "index" /\ y.table = "booking" /\ y.name = "service_id"
  /\ \A y \in ServiceKey : y.kind = "fk" /\ y.table = "booking" /\ y.name = "service_id"
  /\ \A x \in {OldAuthId, NewAuthId} : x.kind = "column" /\ x.table = "master" /\ x.name = "auth_id"
  /\ \A x \in {OldServiceId, NewServiceId} : x.kind = "column" /\ x.table = "booking"
                                             /\ x.name = "service_id"
  /\ BookingStatus.kind = "column" /\ BookingStatus.table = "booking" /\ BookingStatus.name = "status"
  /\ \A x \in ClientColumns : x.kind = "column" /\ x.table = "booking"
                               /\ x.name \in {"client_name", "client_phone"}
  /\ ClientEmail.kind = "column" /\ ClientEmail.table = "booking" /\ ClientEmail.name = "client_email"
  /\ DeadlineHours.kind = "column" /\ DeadlineHours.table = "buisnes"
     /\ DeadlineHours.name = "cancellationDeadlineHours"
  /\ NoOverlap.kind = "exclusion"
<1>1. \A y \in MasterIndex : y.kind = "unique" /\ y.table = "master" /\ y.name = "auth_id"
  BY UniqueObject DEF MasterIndex
<1>2. \A y \in MasterAuthKey : y.kind = "fk" /\ y.table = "master" /\ y.name = "auth_id"
  BY KeyObject DEF MasterAuthKey
<1>3. \A y \in ServiceIndex : y.kind = "index" /\ y.table = "booking" /\ y.name = "service_id"
  BY IndexObject DEF ServiceIndex
<1>4. \A y \in ServiceKey : y.kind = "fk" /\ y.table = "booking" /\ y.name = "service_id"
  BY KeyObject DEF ServiceKey
<1>5. NoOverlap.kind = "exclusion"
  BY DEF NoOverlap, Object
<1> QED BY <1>1, <1>2, <1>3, <1>4, <1>5, ColumnObject
        DEF OldAuthId, NewAuthId, OldServiceId, NewServiceId, BookingStatus, ClientColumns,
            ClientEmail, DeadlineHours

\* auth_id, its index and its key are new where the old column was dropped.
LEMMA FreshAuthId ==
  /\ Fresh({NewAuthId}, Rest4) /\ Fresh(MasterIndex \cup MasterAuthKey, Rest4 \cup {NewAuthId})
  /\ Fresh({OldAuthId}, Rest4) /\ Fresh(MasterIndex, Rest4 \cup {OldAuthId})
<1>1. \A y \in Rest4, x \in {OldAuthId, NewAuthId} \cup MasterIndex \cup MasterAuthKey :
        NameOf(x) # NameOf(y)
  BY V3Objects, Touched, Named DEF Rest4
<1>2. \A y \in MasterIndex \cup MasterAuthKey, x \in {OldAuthId, NewAuthId} : NameOf(x) # NameOf(y)
  BY Touched, Named
<1> QED BY <1>1, <1>2 DEF Fresh

\* What version 5 knows of the objects that later migrations touch.
LEMMA V5Objects ==
  ASSUME NEW y \in V5
  PROVE  /\ y.kind \in {"table", "column", "index", "unique", "fk"}
         /\ y.kind = "column" /\ y.table = "booking" =>
              y.name \in {"service_name", "service_id", "starts_at", "ends_at", "master_id",
                          "status", "client_name", "client_phone"}
         /\ y.kind = "column" /\ y.table = "booking" /\ y.name = "service_id" => y = OldServiceId
         /\ y.kind = "column" /\ y.table = "buisnes" =>
              y.name \in {"owner_id", "title", "address", "timezone"}
         /\ y.kind = "index" /\ y.table = "booking" /\ y.name = "service_id" => y \in ServiceIndex
         /\ y.kind = "fk" /\ y.table = "booking" => y.name = "master_id"
<1>1. CASE y \in V3
  BY <1>1, V3Objects
<1>2. CASE y \in {NewAuthId, BookingStatus} \cup MasterAuthKey \cup ClientColumns
  BY <1>2, Touched
<1> QED BY <1>1, <1>2 DEF V4, V5

\* status and the client's columns are new to version 4.
LEMMA FreshVisitor ==
  /\ Fresh({BookingStatus}, V4) /\ Fresh(ClientColumns, V4 \cup {BookingStatus})
<1>1. \A y \in V4 : y \in V3 \cup {NewAuthId} \cup MasterAuthKey
  BY DEF V4
<1> QED BY <1>1, V3Objects, Touched, Named DEF Fresh

\* no_overlap is new wherever there is no exclusion constraint.
LEMMA FreshNoOverlap == \A s : (\A y \in s : y.kind # "exclusion") => Fresh({NoOverlap}, s)
BY Touched, Named DEF Fresh

\* service_id, its index and its key are new where the old column was dropped,
\* and so is no_overlap.
LEMMA FreshServiceId ==
  /\ Fresh({NewServiceId}, Rest7) /\ Fresh(ServiceIndex \cup ServiceKey, Rest7 \cup {NewServiceId})
  /\ Fresh({OldServiceId}, Rest7) /\ Fresh(ServiceIndex \cup {NoOverlap}, Rest7 \cup {OldServiceId})
<1>1. \A y \in Rest7, x \in {OldServiceId, NewServiceId, NoOverlap} \cup ServiceIndex \cup ServiceKey :
        NameOf(x) # NameOf(y)
  BY V5Objects, Touched, Named DEF Rest7
<1>2. \A y \in ServiceIndex \cup ServiceKey \cup {NoOverlap}, x \in {OldServiceId, NewServiceId} :
        NameOf(x) # NameOf(y)
  BY Touched, Named
<1> QED BY <1>1, <1>2 DEF Fresh

\* What version 7 knows of the objects that later migrations touch.
LEMMA V7Objects ==
  ASSUME NEW y \in V7
  PROVE  /\ y.kind \in {"table", "column", "index", "unique", "fk"}
         /\ y.kind = "column" /\ y.table = "booking" =>
              y.name \in {"service_name", "service_id", "starts_at", "ends_at", "master_id",
                          "status", "client_name", "client_phone"}
         /\ y.kind = "column" /\ y.table = "buisnes" =>
              y.name \in {"owner_id", "title", "address", "timezone"}
<1>1. CASE y \in V5
  BY <1>1, V5Objects
<1>2. CASE y \in {NewServiceId} \cup ServiceKey
  BY <1>2, Touched
<1> QED BY <1>1, <1>2 DEF V7

\* The columns of the last migrations are new to their versions.
LEMMA FreshLate ==
  /\ Fresh({DeadlineHours}, V7 \cup {NoOverlap})
  /\ Fresh({ClientEmail}, V9)
<1>1. Fresh({DeadlineHours}, V7 \cup {NoOverlap})
  BY V7Objects, Touched, Named DEF Fresh
<1>2. \A y \in V9 : y \in V7 \cup {DeadlineHours, NoOverlap}
  BY DEF V8, V9
<1>3. Fresh({ClientEmail}, V9)
  BY <1>2, V7Objects, Touched, Named DEF Fresh
<1> QED BY <1>1, <1>3

---------------------------------------------------------------------------
(* Every up and every down, executed on the version it starts from.        *)

\* Init, AddRole and Stage2Salons always succeed,
LEMMA UpEarly ==
  ASSUME NEW r, NEW o
  PROVE  /\ Execute(InitUp, Started({}), r, o) = Started(V1)
         /\ Execute(AddRoleUp, Started(V1), r, o) = Started(V2)
         /\ Execute(Stage2SalonsUp, Started(V2), r, o) = Started(V3)
<1>1. NoOverlap \notin InitTables \cup {Role} \cup Stage2
  BY InitObjects, V3Objects, Touched, V2Objects DEF V1, V2, V3
<1>2. Execute(InitUp, Started({}), r, o) = Started(V1)
  <2>1. Fresh(InitTables, {})
    BY DEF Fresh
  <2>2. Do(Add(InitTables), Started({}), r, o) = Started({} \cup InitTables)
    BY <1>1, <2>1, DoAdd
  <2> QED BY <2>2, ExecuteOne DEF InitUp, V1
<1>3. Execute(AddRoleUp, Started(V1), r, o) = Started(V2)
  BY <1>1, FreshRole, DoAdd, ExecuteOne DEF AddRoleUp, V2
<1>4. Execute(Stage2SalonsUp, Started(V2), r, o) = Started(V3)
  <2>1. Do(Add(Stage2Tables), Started(V2), r, o) = Started(V2 \cup Stage2Tables)
    BY <1>1, FreshStage2, DoAdd DEF Stage2
  <2>2. Do(Add(Stage2Indexes), Started(V2 \cup Stage2Tables), r, o)
        = Started(V2 \cup Stage2Tables \cup Stage2Indexes)
    BY <1>1, FreshStage2, DoAdd DEF Stage2
  <2>3. Do(Add(Stage2ForeignKeys), Started(V2 \cup Stage2Tables \cup Stage2Indexes), r, o)
        = Started((V2 \cup Stage2Tables \cup Stage2Indexes) \cup Stage2ForeignKeys)
    BY <1>1, FreshStage2, DoAdd DEF Stage2
  <2>4. (V2 \cup Stage2Tables \cup Stage2Indexes) \cup Stage2ForeignKeys = V3
    BY DEF V3, Stage2
  <2> QED BY <2>1, <2>2, <2>3, <2>4, ExecuteThree DEF Stage2SalonsUp
<1> QED BY <1>2, <1>3, <1>4

\* and are always taken back.
LEMMA DownEarly ==
  ASSUME NEW r, NEW o
  PROVE  /\ Execute(InitDown, Started(V1), r, o) = Started({})
         /\ Execute(AddRoleDown, Started(V2), r, o) = Started(V1)
         /\ Execute(Stage2SalonsDown, Started(V3), r, o) = Started(V2)
<1>1. Execute(InitDown, Started(V1), r, o) = Started({})
  <2>1. \A t \in {"reset", "refresh", "auth"} : Object("table", t, "none", "none", "none") \in V1
    BY DEF V1, InitTables, Table
  <2>2. {y \in V1 : y.table \notin {"reset", "refresh", "auth"}} = {}
    BY InitObjects DEF V1
  <2>3. \A y \in V1 : y.kind # "fk"
    BY InitObjects DEF V1
  <2> QED BY <2>1, <2>2, <2>3, DoDropTables, ExecuteOne DEF InitDown
<1>2. Execute(AddRoleDown, Started(V2), r, o) = Started(V1)
  <2>1. V2 \ {Role} = V1
    BY FreshRole DEF Fresh, V2
  <2>2. {Role} \subseteq V2
    BY DEF V2
  <2> QED BY <2>1, <2>2, DoDrop, ExecuteOne DEF AddRoleDown
<1>3. Execute(Stage2SalonsDown, Started(V3), r, o) = Started(V2)
  <2> DEFINE s1 == V2 \cup Stage2Tables \cup Stage2Indexes
             s2 == V2 \cup Stage2Tables
             tables == {"master_services", "buisnes", "services", "master", "booking"}
  <2>1. V3 \ Stage2ForeignKeys = s1 /\ Stage2ForeignKeys \subseteq V3
    BY FreshStage2 DEF Fresh, V3, Stage2
  <2>2. s1 \ Stage2Indexes = s2 /\ Stage2Indexes \subseteq s1
    BY FreshStage2 DEF Fresh
  <2>3. \A t \in tables : Object("table", t, "none", "none", "none") \in s2
    BY DEF Stage2Tables, Table
  <2>4. {y \in s2 : y.table \notin tables} = V2
    BY Stage2TableObjects, V2Objects
  <2>5. \A y \in s2 : y.kind # "fk"
    BY Stage2TableObjects, V2Objects
  <2>6. Do(Drop(Stage2ForeignKeys), Started(V3), r, o) = Started(s1)
    BY <2>1, DoDrop
  <2>7. Do(Drop(Stage2Indexes), Started(s1), r, o) = Started(s2)
    BY <2>2, DoDrop
  <2>8. Do(DropTables(tables), Started(s2), r, o) = Started(V2)
    <3> HIDE DEF s2, tables
    <3> QED BY <2>3, <2>4, <2>5, DoDropTables
  <2> QED BY <2>6, <2>7, <2>8, ExecuteThree DEF Stage2SalonsDown
<1> QED BY <1>1, <1>2, <1>3

\* MasterAuthFk needs an empty table of masters.
LEMMA UpAuthFk ==
  ASSUME NEW r, NEW o
  PROVE  /\ "master" \notin r => Execute(MasterAuthFkUp, Started(V3), r, o) = Started(V4)
         /\ Execute(MasterAuthFkUp, Started(V3), r, o).ok => "master" \notin r
<1> DEFINE e1 == Started(Rest4)
           e2 == Do(AddRequired({NewAuthId}), e1, r, o)
           e3 == Do(Add(MasterIndex \cup MasterAuthKey), e2, r, o)
<1>1. Do(Drop(MasterIndex \cup {OldAuthId}), Started(V3), r, o) = e1
  BY Held3, DoDrop DEF Rest4
<1>2. Execute(MasterAuthFkUp, Started(V3), r, o) = e3
  BY <1>1, ExecuteThree DEF MasterAuthFkUp, MasterIndex, OldAuthId, NewAuthId
<1>3. CASE "master" \in r
  <2>1. ~(\A x \in {NewAuthId} : x.table \notin r)
    BY <1>3, Touched
  <2>2. ~e2.ok
    BY <2>1, FreshAuthId, DoAddRequired
  <2> QED BY <1>2, <1>3, <2>2, DoFails
<1>4. CASE "master" \notin r
  <2>1. e2 = Started(Rest4 \cup {NewAuthId})
    BY <1>4, FreshAuthId, DoAddRequired, Touched
  <2>2. NoOverlap \notin MasterIndex \cup MasterAuthKey
    BY Touched
  <2>3. e3 = Started((Rest4 \cup {NewAuthId}) \cup (MasterIndex \cup MasterAuthKey))
    BY <2>1, <2>2, FreshAuthId, DoAdd
  <2>4. (Rest4 \cup {NewAuthId}) \cup (MasterIndex \cup MasterAuthKey) = V4
    BY Held3, Touched DEF V4, Rest4
  <2> QED BY <1>2, <1>4, <2>3, <2>4
<1> QED BY <1>3, <1>4

\* So does its way back.
LEMMA DownAuthFk ==
  ASSUME NEW r, NEW o
  PROVE  /\ "master" \notin r => Execute(MasterAuthFkDown, Started(V4), r, o) = Started(V3)
         /\ Execute(MasterAuthFkDown, Started(V4), r, o).ok => "master" \notin r
<1> DEFINE w  == MasterAuthKey \cup MasterIndex \cup {NewAuthId}
           e1 == Started(Rest4)
           e2 == Do(AddRequired({OldAuthId}), e1, r, o)
           e3 == Do(Add(MasterIndex), e2, r, o)
<1>1. V4 \ w = Rest4 /\ w \subseteq V4
  <2>1. NewAuthId # OldAuthId
    BY DEF NewAuthId, OldAuthId, Col, Object
  <2>2. NewAuthId \notin V3
    BY <2>1, V3Objects, Touched
  <2>3. \A x \in MasterAuthKey : x \notin V3
    BY V3Objects, Touched
  <2>4. OldAuthId \notin MasterIndex
    BY Touched
  <2> QED BY <2>2, <2>3, <2>4, Held3 DEF V4, Rest4
<1>2. Do(Drop(w), Started(V4), r, o) = e1
  <2> HIDE DEF w
  <2> QED BY <1>1, DoDrop
<1>3. Execute(MasterAuthFkDown, Started(V4), r, o) = e3
  BY <1>2, ExecuteThree DEF MasterAuthFkDown, MasterIndex, OldAuthId, NewAuthId
<1>4. CASE "master" \in r
  <2>1. ~(\A x \in {OldAuthId} : x.table \notin r)
    BY <1>4, Touched
  <2>2. ~e2.ok
    BY <2>1, FreshAuthId, DoAddRequired
  <2> QED BY <1>3, <1>4, <2>2, DoFails
<1>5. CASE "master" \notin r
  <2>1. e2 = Started(Rest4 \cup {OldAuthId})
    BY <1>5, FreshAuthId, DoAddRequired, Touched
  <2>2. NoOverlap \notin MasterIndex
    BY Touched
  <2>3. e3 = Started((Rest4 \cup {OldAuthId}) \cup MasterIndex)
    BY <2>1, <2>2, FreshAuthId, DoAdd
  <2>4. (Rest4 \cup {OldAuthId}) \cup MasterIndex = V3
    BY Held3 DEF Rest4
  <2> QED BY <1>3, <1>5, <2>3, <2>4
<1> QED BY <1>4, <1>5

\* AddBookingStatus needs an empty table of bookings;
LEMMA UpStatus ==
  ASSUME NEW r, NEW o
  PROVE  /\ "booking" \notin r => Execute(AddBookingStatusUp, Started(V4), r, o) = Started(V5)
         /\ Execute(AddBookingStatusUp, Started(V4), r, o).ok => "booking" \notin r
<1> DEFINE e == Do(AddRequired(ClientColumns), Started(V4 \cup {BookingStatus}), r, o)
<1>1. Do(Add({BookingStatus}), Started(V4), r, o) = Started(V4 \cup {BookingStatus})
  BY FreshVisitor, DoAdd, Touched
<1>2. Execute(AddBookingStatusUp, Started(V4), r, o) = e
  BY <1>1, ExecuteTwo DEF AddBookingStatusUp
<1>3. (\A x \in ClientColumns : x.table \notin r) <=> "booking" \notin r
  BY Touched DEF ClientColumns
<1>4. /\ "booking" \notin r => e = Started((V4 \cup {BookingStatus}) \cup ClientColumns)
      /\ e.ok => "booking" \notin r
  BY <1>3, FreshVisitor, DoAddRequired
<1> QED BY <1>2, <1>4 DEF V5

\* its way back needs nothing.
LEMMA DownStatus ==
  ASSUME NEW r, NEW o
  PROVE  Execute(AddBookingStatusDown, Started(V5), r, o) = Started(V4)
<1>1. V5 \ (ClientColumns \cup {BookingStatus}) = V4 /\ ClientColumns \cup {BookingStatus} \subseteq V5
  BY FreshVisitor DEF Fresh, V5
<1> QED BY <1>1, DoDrop, ExecuteOne DEF AddBookingStatusDown

\* NoOverlap needs bookings that do not overlap;
LEMMA UpNoOverlap ==
  ASSUME NEW r, NEW o
  PROVE  /\ ~o => Execute(NoOverlapUp, Started(V5), r, o) = Started(V6)
         /\ Execute(NoOverlapUp, Started(V5), r, o).ok => ~o
<1>1. Fresh({NoOverlap}, V5)
  BY V5Objects, FreshNoOverlap
<1>2. Execute(NoOverlapUp, Started(V5), r, o) = Do(Add({NoOverlap}), Started(V5), r, o)
  BY ExecuteOne DEF NoOverlapUp
<1>3. /\ ~o => Do(Add({NoOverlap}), Started(V5), r, o) = Started(V5 \cup {NoOverlap})
      /\ Do(Add({NoOverlap}), Started(V5), r, o).ok => ~o
  BY <1>1, DoAdd
<1> QED BY <1>2, <1>3 DEF V6

\* its way back needs nothing.
LEMMA DownNoOverlap ==
  ASSUME NEW r, NEW o
  PROVE  Execute(NoOverlapDown, Started(V6), r, o) = Started(V5)
<1>1. V6 \ {NoOverlap} = V5 /\ {NoOverlap} \subseteq V6
  BY V5Objects, Touched DEF V6
<1> QED BY <1>1, DoDrop, ExecuteOne DEF NoOverlapDown

\* What BookingServiceFK drops is there, what it adds is not.
LEMMA Held5 ==
  /\ OldServiceId \in V5 /\ ServiceIndex \subseteq V5 /\ NoOverlap \notin V5 /\ NoOverlap \notin V7
  /\ NewServiceId \notin V5 /\ V5 \cap ServiceKey = {}
<1>1. OldServiceId \in V5 /\ ServiceIndex \subseteq V5
  BY Held3, Touched DEF V4, V5
<1>2. NoOverlap \notin V5 /\ NoOverlap \notin V7
  BY V5Objects, V7Objects, Touched
<1>3. NewServiceId # OldServiceId
  BY DEF NewServiceId, OldServiceId, Col, Object
<1>4. NewServiceId \notin V5
  BY <1>3, V5Objects, Touched
<1>5. \A y \in ServiceKey : y \notin V5
  BY V5Objects, Touched
<1> QED BY <1>1, <1>2, <1>4, <1>5

\* BookingServiceFK needs an empty table of bookings and takes no_overlap away.
LEMMA UpService ==
  ASSUME NEW r, NEW o
  PROVE  /\ "booking" \notin r => Execute(BookingServiceFKUp, Started(V6), r, o) = Started(V7)
         /\ Execute(BookingServiceFKUp, Started(V6), r, o).ok => "booking" \notin r
<1> DEFINE w  == {NoOverlap} \cup ServiceIndex \cup {OldServiceId}
           e1 == Started(Rest7)
           e2 == Do(AddRequired({NewServiceId}), e1, r, o)
           e3 == Do(Add(ServiceIndex \cup ServiceKey), e2, r, o)
<1>1. V6 \ w = Rest7 /\ w \subseteq V6
  BY Held5 DEF V6, Rest7
<1>2. Do(Drop(w), Started(V6), r, o) = e1
  <2> HIDE DEF w
  <2> QED BY <1>1, DoDrop
<1>3. Execute(BookingServiceFKUp, Started(V6), r, o) = e3
  BY <1>2, ExecuteThree DEF BookingServiceFKUp, OldServiceId, NewServiceId
<1>4. CASE "booking" \in r
  <2>1. ~(\A x \in {NewServiceId} : x.table \notin r)
    BY <1>4, Touched
  <2>2. ~e2.ok
    BY <2>1, FreshServiceId, DoAddRequired
  <2> QED BY <1>3, <1>4, <2>2, DoFails
<1>5. CASE "booking" \notin r
  <2>1. e2 = Started(Rest7 \cup {NewServiceId})
    BY <1>5, FreshServiceId, DoAddRequired, Touched
  <2>2. NoOverlap \notin ServiceIndex \cup ServiceKey
    BY Touched
  <2>3. e3 = Started((Rest7 \cup {NewServiceId}) \cup (ServiceIndex \cup ServiceKey))
    BY <2>1, <2>2, FreshServiceId, DoAdd
  <2>4. OldServiceId \notin ServiceIndex
    BY Touched
  <2>5. (Rest7 \cup {NewServiceId}) \cup (ServiceIndex \cup ServiceKey) = V7
    BY <2>4, Held5 DEF V7, Rest7
  <2> QED BY <1>3, <1>5, <2>3, <2>5
<1> QED BY <1>4, <1>5

\* Its way back also needs an empty table, and brings no_overlap back.
LEMMA DownService ==
  ASSUME NEW r, NEW o
  PROVE  /\ "booking" \notin r /\ ~o =>
              Execute(BookingServiceFKDown, Started(V7), r, o) = Started(V6)
         /\ Execute(BookingServiceFKDown, Started(V7), r, o).ok => "booking" \notin r /\ ~o
<1> DEFINE w  == ServiceKey \cup ServiceIndex \cup {NewServiceId}
           e1 == Started(Rest7)
           e2 == Do(AddRequired({OldServiceId}), e1, r, o)
           e3 == Do(Add(ServiceIndex \cup {NoOverlap}), e2, r, o)
<1>1. OldServiceId \notin ServiceIndex
  BY Touched
<1>2. V7 \ w = Rest7 /\ w \subseteq V7
  BY <1>1, Held5 DEF V7, Rest7
<1>3. Do(Drop(w), Started(V7), r, o) = e1
  <2> HIDE DEF w
  <2> QED BY <1>2, DoDrop
<1>4. Execute(BookingServiceFKDown, Started(V7), r, o) = e3
  BY <1>3, ExecuteThree DEF BookingServiceFKDown, OldServiceId, NewServiceId
<1>5. CASE "booking" \in r
  <2>1. ~(\A x \in {OldServiceId} : x.table \notin r)
    BY <1>5, Touched
  <2>2. ~e2.ok
    BY <2>1, FreshServiceId, DoAddRequired
  <2> QED BY <1>4, <1>5, <2>2, DoFails
<1>6. CASE "booking" \notin r
  <2>1. e2 = Started(Rest7 \cup {OldServiceId})
    BY <1>6, FreshServiceId, DoAddRequired, Touched
  <2>2. /\ ~o => e3 = Started((Rest7 \cup {OldServiceId}) \cup (ServiceIndex \cup {NoOverlap}))
        /\ e3.ok => ~o
    BY <2>1, FreshServiceId, DoAdd
  <2>3. (Rest7 \cup {OldServiceId}) \cup (ServiceIndex \cup {NoOverlap}) = V6
    BY Held5 DEF V6, Rest7
  <2> QED BY <1>4, <1>6, <2>2, <2>3
<1> QED BY <1>5, <1>6

\* It cannot be executed where no_overlap was added by hand.
LEMMA DownServiceBlocked ==
  ASSUME NEW r, NEW o
  PROVE  ~Execute(BookingServiceFKDown, Started(V7 \cup {NoOverlap}), r, o).ok
<1> DEFINE w  == ServiceKey \cup ServiceIndex \cup {NewServiceId}
           e1 == Started(Rest7 \cup {NoOverlap})
           e2 == Do(AddRequired({OldServiceId}), e1, r, o)
           e3 == Do(Add(ServiceIndex \cup {NoOverlap}), e2, r, o)
<1>1. OldServiceId \notin ServiceIndex
  BY Touched
<1>2. NoOverlap \notin w
  BY Touched
<1>3. (V7 \cup {NoOverlap}) \ w = Rest7 \cup {NoOverlap} /\ w \subseteq V7 \cup {NoOverlap}
  BY <1>1, <1>2, Held5 DEF V7, Rest7
<1>4. Do(Drop(w), Started(V7 \cup {NoOverlap}), r, o) = e1
  <2> HIDE DEF w
  <2> QED BY <1>3, DoDrop
<1>5. Execute(BookingServiceFKDown, Started(V7 \cup {NoOverlap}), r, o) = e3
  BY <1>4, ExecuteThree DEF BookingServiceFKDown, OldServiceId, NewServiceId
<1>6. CASE ~e2.ok
  BY <1>5, <1>6, DoFails
<1>7. CASE e2.ok
  <2>1. Fresh({OldServiceId}, Rest7 \cup {NoOverlap})
    BY FreshServiceId, Touched, Named DEF Fresh
  <2>2. \A x \in {OldServiceId} : x.table \notin r
    BY <1>7, <2>1, DoAddRequired
  <2>3. e2 = Started((Rest7 \cup {NoOverlap}) \cup {OldServiceId})
    BY <2>1, <2>2, DoAddRequired
  <2>4. ~Fresh(ServiceIndex \cup {NoOverlap}, (Rest7 \cup {NoOverlap}) \cup {OldServiceId})
    BY DEF Fresh
  <2> QED BY <1>5, <2>3, <2>4, DoAddTwice
<1> QED BY <1>6, <1>7

\* CancellationDeadlineHours does not look at no_overlap, there or back.
LEMMA DeadlineMigration ==
  ASSUME NEW r, NEW o, NEW extra, extra \subseteq {NoOverlap}
  PROVE  /\ Execute(DeadlineHoursUp, Started(V7 \cup extra), r, o) = Started(V8 \cup extra)
         /\ Execute(DeadlineHoursDown, Started(V8 \cup extra), r, o) = Started(V7 \cup extra)
<1>1. Fresh({DeadlineHours}, V7 \cup extra)
  BY FreshLate DEF Fresh
<1>2. DeadlineHours \notin V7 \cup extra
  BY <1>1 DEF Fresh
<1>3. NoOverlap \notin {DeadlineHours}
  BY Touched
<1>4. Do(Add({DeadlineHours}), Started(V7 \cup extra), r, o)
      = Started((V7 \cup extra) \cup {DeadlineHours})
  BY <1>1, <1>3, DoAdd
<1>5. (V7 \cup extra) \cup {DeadlineHours} = V8 \cup extra
  BY DEF V8
<1>6. (V8 \cup extra) \ {DeadlineHours} = V7 \cup extra /\ {DeadlineHours} \subseteq V8 \cup extra
  BY <1>2 DEF V8
<1>7. Do(Drop({DeadlineHours}), Started(V8 \cup extra), r, o) = Started(V7 \cup extra)
  BY <1>6, DoDrop
<1> QED BY <1>4, <1>5, <1>7, ExecuteOne DEF DeadlineHoursUp, DeadlineHoursDown

\* RestoreNoOverlap makes one schema of both, over rows that do not overlap.
LEMMA RestoreMigration ==
  ASSUME NEW r, NEW o, NEW extra, extra \subseteq {NoOverlap}
  PROVE  /\ ~o => Execute(RestoreNoOverlapUp, Started(V8 \cup extra), r, o) = Started(V9)
         /\ Execute(RestoreNoOverlapUp, Started(V8 \cup extra), r, o).ok => ~o
         /\ Execute(RestoreNoOverlapDown, Started(V9), r, o) = Started(V8)
<1>1. NoOverlap \notin V8
  BY Held5, Touched DEF V8
<1>2. (V8 \cup extra) \ {NoOverlap} = V8 /\ V9 \ {NoOverlap} = V8
  BY <1>1 DEF V9
<1>3. Execute(RestoreNoOverlapDown, Started(V9), r, o) = Started(V8)
  BY <1>2, DoDropIfExists, ExecuteOne DEF RestoreNoOverlapDown
<1>4. Execute(RestoreNoOverlapUp, Started(V8 \cup extra), r, o)
      = Do(Add({NoOverlap}), Started(V8), r, o)
  BY <1>2, DoDropIfExists, ExecuteTwo DEF RestoreNoOverlapUp
<1>5. \A y \in V8 : y.kind # "exclusion"
  BY V7Objects, Touched DEF V8
<1>6. Fresh({NoOverlap}, V8)
  BY <1>5, FreshNoOverlap
<1>7. /\ ~o => Do(Add({NoOverlap}), Started(V8), r, o) = Started(V8 \cup {NoOverlap})
      /\ Do(Add({NoOverlap}), Started(V8), r, o).ok => ~o
  BY <1>6, DoAdd
<1> QED BY <1>3, <1>4, <1>7 DEF V9

\* ClientEmailOptional always succeeds, there and back.
LEMMA EmailMigration ==
  ASSUME NEW r, NEW o
  PROVE  /\ Execute(ClientEmailUp, Started(V9), r, o) = Started(V10)
         /\ Execute(ClientEmailDown, Started(V10), r, o) = Started(V9)
<1>1. NoOverlap \notin {ClientEmail}
  BY Touched
<1>2. Do(Add({ClientEmail}), Started(V9), r, o) = Started(V9 \cup {ClientEmail})
  BY <1>1, FreshLate, DoAdd
<1>3. V10 \ {ClientEmail} = V9 /\ {ClientEmail} \subseteq V10
  BY FreshLate DEF Fresh, V10
<1>4. Do(Drop({ClientEmail}), Started(V10), r, o) = Started(V9)
  BY <1>3, DoDrop
<1> QED BY <1>2, <1>4, ExecuteOne DEF ClientEmailUp, ClientEmailDown, V10

---------------------------------------------------------------------------
(* One migration, up or down, on whatever its version may look like.       *)

\* Versions by number, and what may be there in addition.
Version(n) == IF n = 0 THEN {} ELSE << V1, V2, V3, V4, V5, V6, V7, V8, V9, V10 >>[n]
ByHand(n)  == IF n \in 7 .. 8 THEN {NoOverlap} ELSE {}

\* s is a schema of version n.
Allowed(n, s) == Version(n) \subseteq s /\ s \ Version(n) \subseteq ByHand(n)

\* From s to t no column or table with rows disappears.
Keeps(s, t, r) == \A x \in s \ t : x.kind \in {"table", "column"} => x.table \notin r
\* From s to t no_overlap does not appear over overlapping rows.
Sound(s, t, o) == NoOverlap \in t => NoOverlap \in s \/ ~o

\* The definitions, number by number.
LEMMA Versions ==
  /\ Latest = 10
  /\ Version(0) = {} /\ Version(1) = V1 /\ Version(2) = V2 /\ Version(3) = V3 /\ Version(4) = V4
  /\ Version(5) = V5 /\ Version(6) = V6 /\ Version(7) = V7 /\ Version(8) = V8 /\ Version(9) = V9
  /\ Version(10) = V10
  /\ Up[1] = InitUp /\ Up[2] = AddRoleUp /\ Up[3] = Stage2SalonsUp /\ Up[4] = MasterAuthFkUp
  /\ Up[5] = AddBookingStatusUp /\ Up[6] = NoOverlapUp /\ Up[7] = BookingServiceFKUp
  /\ Up[8] = DeadlineHoursUp /\ Up[9] = RestoreNoOverlapUp /\ Up[10] = ClientEmailUp
  /\ Down[1] = InitDown /\ Down[2] = AddRoleDown /\ Down[3] = Stage2SalonsDown
  /\ Down[4] = MasterAuthFkDown /\ Down[5] = AddBookingStatusDown /\ Down[6] = NoOverlapDown
  /\ Down[7] = BookingServiceFKDown /\ Down[8] = DeadlineHoursDown
  /\ Down[9] = RestoreNoOverlapDown /\ Down[10] = ClientEmailDown
<1>1. Latest = 10
  BY DEF Latest, Up
<1>2. /\ Version(0) = {} /\ Version(1) = V1 /\ Version(2) = V2 /\ Version(3) = V3 /\ Version(4) = V4
      /\ Version(5) = V5 /\ Version(6) = V6 /\ Version(7) = V7 /\ Version(8) = V8 /\ Version(9) = V9
      /\ Version(10) = V10
  BY DEF Version
<1>3. /\ Up[1] = InitUp /\ Up[2] = AddRoleUp /\ Up[3] = Stage2SalonsUp /\ Up[4] = MasterAuthFkUp
      /\ Up[5] = AddBookingStatusUp /\ Up[6] = NoOverlapUp /\ Up[7] = BookingServiceFKUp
      /\ Up[8] = DeadlineHoursUp /\ Up[9] = RestoreNoOverlapUp /\ Up[10] = ClientEmailUp
  BY DEF Up
<1>4. /\ Down[1] = InitDown /\ Down[2] = AddRoleDown /\ Down[3] = Stage2SalonsDown
      /\ Down[4] = MasterAuthFkDown /\ Down[5] = AddBookingStatusDown /\ Down[6] = NoOverlapDown
      /\ Down[7] = BookingServiceFKDown /\ Down[8] = DeadlineHoursDown
      /\ Down[9] = RestoreNoOverlapDown /\ Down[10] = ClientEmailDown
  BY DEF Down
<1> QED BY <1>1, <1>2, <1>3, <1>4

\* A version is exact, except that 7 and 8 may have no_overlap.
LEMMA AllowedCases ==
  ASSUME NEW s
  PROVE  /\ \A n \in (0 .. 10) \ {7, 8} : Allowed(n, s) <=> s = Version(n)
         /\ \A n \in {7, 8} : Allowed(n, s)
               <=> \E extra \in SUBSET {NoOverlap} : s = Version(n) \cup extra
<1>1. \A n \in (0 .. 10) \ {7, 8} : Allowed(n, s) <=> s = Version(n)
  <2>1. \A n \in (0 .. 10) \ {7, 8} : ByHand(n) = {}
    BY DEF ByHand
  <2> QED BY <2>1 DEF Allowed
<1>2. ASSUME NEW n \in {7, 8}
      PROVE  Allowed(n, s) <=> \E extra \in SUBSET {NoOverlap} : s = Version(n) \cup extra
  <2>1. ByHand(n) = {NoOverlap}
    BY DEF ByHand
  <2>2. ASSUME Allowed(n, s) PROVE \E extra \in SUBSET {NoOverlap} : s = Version(n) \cup extra
    <3>1. s \ Version(n) \in SUBSET {NoOverlap} /\ s = Version(n) \cup (s \ Version(n))
      BY <2>1, <2>2 DEF Allowed
    <3> QED BY <3>1
  <2>3. ASSUME NEW extra \in SUBSET {NoOverlap}, s = Version(n) \cup extra PROVE Allowed(n, s)
    BY <2>1, <2>3 DEF Allowed
  <2> QED BY <2>2, <2>3
<1> QED BY <1>1, <1>2

\* A migration that succeeds makes the next version, keeps the data and does
\* not bring no_overlap over overlapping rows; without rows it succeeds.
LEMMA UpStep ==
  ASSUME NEW n \in 1 .. Latest, NEW s, Allowed(n - 1, s), NEW r, NEW o
  PROVE  LET e == Execute(Up[n], Started(s), r, o) IN
         /\ e.ok => /\ e = Started(e.schema) /\ Allowed(n, e.schema)
                 /\ Keeps(s, e.schema, r) /\ Sound(s, e.schema, o)
         /\ r = {} /\ ~o => e.ok
<1> DEFINE e == Execute(Up[n], Started(s), r, o)
           Goal == /\ e.ok => /\ e = Started(e.schema) /\ Allowed(n, e.schema)
                           /\ Keeps(s, e.schema, r) /\ Sound(s, e.schema, o)
                   /\ r = {} /\ ~o => e.ok
<1> SUFFICES Goal
  OBVIOUS
<1>14. \A m : Allowed(m, Version(m))
  BY DEF Allowed
<1>0. \A t : Started(t).ok /\ Started(t).schema = t
  BY DEF Started
<1>15. /\ n = 1 => s = Version(0)
       /\ n = 2 => s = Version(1)
       /\ n = 3 => s = Version(2)
       /\ n = 4 => s = Version(3)
       /\ n = 5 => s = Version(4)
       /\ n = 6 => s = Version(5)
       /\ n = 7 => s = Version(6)
       /\ n = 10 => s = Version(9)
  <2>1. \A m \in (0 .. 10) \ {7, 8} : n - 1 = m => s = Version(m)
    BY AllowedCases
  <2> HIDE DEF e, Goal
  <2> QED BY <2>1
<1>1. CASE n = 1
  <2>1. s = {} /\ e = Started(V1) /\ Allowed(1, V1)
    BY <1>1, <1>14, <1>15, Versions, UpEarly
  <2>2. NoOverlap \notin V1
    BY InitObjects, Touched DEF V1
  <2> QED BY <1>0, <1>1, <2>1, <2>2 DEF Keeps, Sound
<1>2. CASE n = 2
  <2>1. s = V1 /\ e = Started(V2) /\ Allowed(2, V2)
    BY <1>2, <1>14, <1>15, Versions, UpEarly
  <2>2. NoOverlap \notin V2 /\ V1 \subseteq V2
    BY V2Objects, Touched DEF V2
  <2> QED BY <1>0, <1>2, <2>1, <2>2 DEF Keeps, Sound
<1>3. CASE n = 3
  <2>1. s = V2 /\ e = Started(V3) /\ Allowed(3, V3)
    BY <1>3, <1>14, <1>15, Versions, UpEarly
  <2>2. NoOverlap \notin V3 /\ V2 \subseteq V3
    BY V3Objects, Touched DEF V3
  <2> QED BY <1>0, <1>3, <2>1, <2>2 DEF Keeps, Sound
<1>4. CASE n = 4
  <2>1. s = V3 /\ Up[n] = MasterAuthFkUp /\ Allowed(4, V4)
    BY <1>4, <1>14, <1>15, Versions
  <2>2. /\ "master" \notin r => e = Started(V4)
        /\ e.ok => "master" \notin r
    BY <2>1, UpAuthFk
  <2>3. NoOverlap \notin V4
    BY Held5 DEF V5
  <2>4. V3 \ V4 \subseteq {OldAuthId} /\ OldAuthId.table = "master"
    BY Touched DEF V4
  <2> QED BY <1>0, <1>4, <2>1, <2>2, <2>3, <2>4 DEF Keeps, Sound
<1>5. CASE n = 5
  <2>1. s = V4 /\ Up[n] = AddBookingStatusUp /\ Allowed(5, V5)
    BY <1>5, <1>14, <1>15, Versions
  <2>2. /\ "booking" \notin r => e = Started(V5)
        /\ e.ok => "booking" \notin r
    BY <2>1, UpStatus
  <2>3. NoOverlap \notin V5 /\ V4 \subseteq V5
    BY Held5 DEF V5
  <2> QED BY <1>0, <1>5, <2>1, <2>2, <2>3 DEF Keeps, Sound
<1>6. CASE n = 6
  <2>1. s = V5 /\ Up[n] = NoOverlapUp /\ Allowed(6, V6)
    BY <1>6, <1>14, <1>15, Versions
  <2>2. /\ ~o => e = Started(V6)
        /\ e.ok => ~o
    BY <2>1, UpNoOverlap
  <2>3. V5 \subseteq V6
    BY DEF V6
  <2> QED BY <1>0, <1>6, <2>1, <2>2, <2>3 DEF Keeps, Sound
<1>7. CASE n = 7
  <2>1. s = V6 /\ Up[n] = BookingServiceFKUp /\ Allowed(7, V7)
    BY <1>7, <1>14, <1>15, Versions
  <2>2. /\ "booking" \notin r => e = Started(V7)
        /\ e.ok => "booking" \notin r
    BY <2>1, UpService
  <2>3. V6 \ V7 \subseteq {OldServiceId, NoOverlap} /\ NoOverlap \notin V7
    BY Held5 DEF V6, V7
  <2>4. OldServiceId.table = "booking" /\ NoOverlap.kind = "exclusion"
    BY Touched
  <2> QED BY <1>0, <1>7, <2>1, <2>2, <2>3, <2>4 DEF Keeps, Sound
<1>8. CASE n = 8
  <2>1. PICK extra \in SUBSET {NoOverlap} : s = V7 \cup extra
    <3>1. n - 1 = 7 /\ Version(7) = V7
      BY <1>8, Versions
    <3> QED BY <3>1, AllowedCases
  <2>2. e = Started(V8 \cup extra)
    <3>1. Up[n] = DeadlineHoursUp
      BY <1>8, Versions
    <3> QED BY <2>1, <3>1, DeadlineMigration
  <2>3. Allowed(8, V8 \cup extra)
    BY <2>1, Versions, AllowedCases
  <2>4. V7 \subseteq V8 /\ NoOverlap \notin V8
    BY Held5, Touched DEF V8
  <2>5. Keeps(s, V8 \cup extra, r) /\ Sound(s, V8 \cup extra, o)
    BY <2>1, <2>4 DEF Keeps, Sound
  <2> QED BY <1>0, <1>8, <2>2, <2>3, <2>5
<1>9. CASE n = 9
  <2>1. PICK extra \in SUBSET {NoOverlap} : s = V8 \cup extra
    <3>1. n - 1 = 8 /\ Version(8) = V8
      BY <1>9, Versions
    <3> QED BY <3>1, AllowedCases
  <2>2. /\ ~o => e = Started(V9)
        /\ e.ok => ~o
    <3>1. Up[n] = RestoreNoOverlapUp
      BY <1>9, Versions
    <3> QED BY <2>1, <3>1, RestoreMigration
  <2>3. Allowed(9, V9) /\ V8 \cup extra \subseteq V9
    BY <2>1, Versions, AllowedCases DEF V9
  <2> QED BY <1>0, <1>9, <2>1, <2>2, <2>3 DEF Keeps, Sound
<1>10. CASE n = 10
  <2>1. s = V9 /\ Up[n] = ClientEmailUp /\ Allowed(10, V10)
    BY <1>10, <1>14, <1>15, Versions
  <2>2. e = Started(V10)
    BY <2>1, EmailMigration
  <2>3. V9 \subseteq V10 /\ NoOverlap \in V9
    BY DEF V9, V10
  <2> QED BY <1>0, <1>10, <2>1, <2>2, <2>3 DEF Keeps, Sound
<1>11. n \in 1 .. 10
  BY Versions
<1> HIDE DEF Goal
<1> QED BY <1>1, <1>2, <1>3, <1>4, <1>5, <1>6, <1>7, <1>8, <1>9, <1>10, <1>11

\* A migration taken back makes the version before; without rows only
\* BookingServiceFK over a constraint added by hand cannot be.
LEMMA DownStep ==
  ASSUME NEW n \in 1 .. Latest, NEW s, Allowed(n, s), NEW r, NEW o
  PROVE  LET e == Execute(Down[n], Started(s), r, o) IN
         /\ e.ok => Allowed(n - 1, e.schema) /\ Sound(s, e.schema, o)
         /\ r = {} /\ ~o /\ ~(n = 7 /\ NoOverlap \in s) => e.ok
<1> DEFINE e == Execute(Down[n], Started(s), r, o)
           Goal == /\ e.ok => Allowed(n - 1, e.schema) /\ Sound(s, e.schema, o)
                   /\ r = {} /\ ~o /\ ~(n = 7 /\ NoOverlap \in s) => e.ok
<1> SUFFICES Goal
  OBVIOUS
<1>1. \A t : Started(t).ok /\ Started(t).schema = t
  BY DEF Started
<1>2. \A m : Allowed(m, Version(m))
  BY DEF Allowed
<1>3. \A m \in (0 .. 10) \ {7, 8} : n = m => s = Version(m)
  BY AllowedCases
<1>4. /\ n = 1 => s = V1
      /\ n = 2 => s = V2
      /\ n = 3 => s = V3
      /\ n = 4 => s = V4
      /\ n = 5 => s = V5
      /\ n = 6 => s = V6
      /\ n = 9 => s = V9
      /\ n = 10 => s = V10
  <2> HIDE DEF e, Goal
  <2> QED BY <1>3, Versions
<1>5. /\ NoOverlap \notin V1 /\ NoOverlap \notin V2 /\ NoOverlap \notin V3 /\ NoOverlap \notin V4
      /\ NoOverlap \notin V5 /\ NoOverlap \notin V8
  BY InitObjects, V2Objects, V3Objects, Held5, Touched DEF V1, V5, V8
<1>6. CASE n \in {1, 2, 3}
  <2>1. /\ n = 1 => e = Started({})
        /\ n = 2 => e = Started(V1)
        /\ n = 3 => e = Started(V2)
    BY <1>4, Versions, DownEarly
  <2>2. e = Started(Version(n - 1)) /\ NoOverlap \notin Version(n - 1)
    <3>1. /\ n = 1 => n - 1 = 0
          /\ n = 2 => n - 1 = 1
          /\ n = 3 => n - 1 = 2
      OBVIOUS
    <3> HIDE DEF e, Goal
    <3> QED BY <1>5, <1>6, <2>1, <3>1, Versions
  <2> QED BY <1>1, <1>2, <1>6, <2>2 DEF Sound
<1>7. CASE n = 4
  <2>1. Down[n] = MasterAuthFkDown /\ s = V4 /\ Allowed(n - 1, V3)
    BY <1>2, <1>4, <1>7, Versions
  <2>2. /\ "master" \notin r => e = Started(V3)
        /\ e.ok => "master" \notin r
    BY <2>1, DownAuthFk
  <2> QED BY <1>1, <1>5, <2>1, <2>2 DEF Sound
<1>8. CASE n = 5
  <2>1. Down[n] = AddBookingStatusDown /\ s = V5 /\ Allowed(n - 1, V4)
    BY <1>2, <1>4, <1>8, Versions
  <2>2. e = Started(V4)
    BY <2>1, DownStatus
  <2> QED BY <1>1, <1>5, <2>1, <2>2 DEF Sound
<1>9. CASE n = 6
  <2>1. Down[n] = NoOverlapDown /\ s = V6 /\ Allowed(n - 1, V5)
    BY <1>2, <1>4, <1>9, Versions
  <2>2. e = Started(V5)
    BY <2>1, DownNoOverlap
  <2> QED BY <1>1, <1>5, <2>1, <2>2 DEF Sound
<1>10. CASE n = 7
  <2>1. PICK extra \in SUBSET {NoOverlap} : s = V7 \cup extra
    BY <1>10, Versions, AllowedCases
  <2>2. Down[n] = BookingServiceFKDown /\ Allowed(n - 1, V6)
    BY <1>2, <1>10, Versions
  <2>3. CASE NoOverlap \in s
    <3>1. s = V7 \cup {NoOverlap}
      BY <2>1, <2>3
    <3>2. ~e.ok
      BY <2>2, <3>1, DownServiceBlocked
    <3> QED BY <1>10, <2>3, <3>2
  <2>4. CASE NoOverlap \notin s
    <3>1. s = V7
      BY <2>1, <2>4
    <3>2. /\ "booking" \notin r /\ ~o => e = Started(V6)
          /\ e.ok => "booking" \notin r /\ ~o
      BY <2>2, <3>1, DownService
    <3> QED BY <1>1, <2>2, <3>2 DEF Sound
  <2> QED BY <2>3, <2>4
<1>11. CASE n = 8
  <2>1. PICK extra \in SUBSET {NoOverlap} : s = V8 \cup extra
    BY <1>11, Versions, AllowedCases
  <2>2. e = Started(V7 \cup extra)
    <3>1. Down[n] = DeadlineHoursDown
      BY <1>11, Versions
    <3> QED BY <2>1, <3>1, DeadlineMigration
  <2>3. Allowed(7, V7 \cup extra) /\ V7 \subseteq V8
    BY <2>1, Versions, AllowedCases DEF V8
  <2>4. n - 1 = 7
    BY <1>11
  <2>5. Sound(s, V7 \cup extra, o)
    BY <2>1, <2>3 DEF Sound
  <2> QED BY <1>1, <2>2, <2>3, <2>4, <2>5
<1>12. CASE n = 9
  <2>1. Down[n] = RestoreNoOverlapDown /\ s = V9 /\ n - 1 = 8 /\ Version(8) = V8
    BY <1>4, <1>12, Versions
  <2>2. e = Started(V8)
    <3> {} \subseteq {NoOverlap}
      OBVIOUS
    <3> QED BY <2>1, RestoreMigration
  <2> QED BY <1>1, <1>2, <1>5, <2>1, <2>2 DEF Sound
<1>13. CASE n = 10
  <2>1. Down[n] = ClientEmailDown /\ s = V10 /\ Allowed(n - 1, V9)
    BY <1>2, <1>4, <1>13, Versions
  <2>2. e = Started(V9) /\ V9 \subseteq V10
    BY <2>1, EmailMigration DEF V10
  <2> QED BY <1>1, <2>1, <2>2 DEF Sound
<1>14. n \in 1 .. 10
  BY Versions
<1> HIDE DEF Goal
<1> QED BY <1>6, <1>7, <1>8, <1>9, <1>10, <1>11, <1>12, <1>13, <1>14

---------------------------------------------------------------------------
(* Several pending migrations in one transaction.                          *)

\* A failed transaction stays failed, whatever follows.
LEMMA ExecuteFails ==
  ASSUME NEW statements, Len(statements) \in Nat, NEW d, ~d.ok, NEW r, NEW o
  PROVE  ~Execute(statements, d, r, o).ok
<1> DEFINE n == Len(statements)
           failed == [ok |-> FALSE, schema |-> d.schema]
           t == [i \in 0 .. n |-> IF i = 0 THEN d ELSE failed]
<1>1. t[0] = d /\ \A i \in 1 .. n : t[i] = failed
  BY 0 \in 0 .. n
<1>2. ASSUME NEW e, ~e.ok, e.schema = d.schema, NEW st
      PROVE  Do(st, e, r, o) = failed
  BY <1>2 DEF Do
<1>3. \A i \in 0 .. n : ~t[i].ok /\ t[i].schema = d.schema
  BY <1>1
<1>4. \A i \in 1 .. n : i - 1 \in 0 .. n
  OBVIOUS
<1> HIDE DEF t, failed
<1>5. \A i \in 1 .. n : t[i] = Do(statements[i], t[i - 1], r, o)
  BY <1>1, <1>2, <1>3, <1>4
<1>6. Execute(statements, t[0], r, o) = t[n]
  BY <1>5, ExecuteByTrace
<1>7. n \in 0 .. n
  OBVIOUS
<1> QED BY <1>1, <1>3, <1>6, <1>7

\* Every migration is a list of statements.
LEMMA UpLengths == \A n \in 1 .. Latest : Len(Up[n]) \in Nat
<1> SUFFICES ASSUME NEW n \in 1 .. 10 PROVE Len(Up[n]) \in Nat
  BY Versions
<1>1. \A a, b, c : Len(<<a>>) = 1 /\ Len(<<a, b>>) = 2 /\ Len(<<a, b, c>>) = 3
  OBVIOUS
<1>2. /\ Len(InitUp) = 1 /\ Len(AddRoleUp) = 1 /\ Len(Stage2SalonsUp) = 3 /\ Len(MasterAuthFkUp) = 3
      /\ Len(AddBookingStatusUp) = 2 /\ Len(NoOverlapUp) = 1 /\ Len(BookingServiceFKUp) = 3
      /\ Len(DeadlineHoursUp) = 1 /\ Len(RestoreNoOverlapUp) = 2 /\ Len(ClientEmailUp) = 1
  BY <1>1 DEF InitUp, AddRoleUp, Stage2SalonsUp, MasterAuthFkUp, AddBookingStatusUp, NoOverlapUp,
              BookingServiceFKUp, DeadlineHoursUp, RestoreNoOverlapUp, ClientEmailUp
<1>3. n \in {1, 2, 3, 4, 5, 6, 7, 8, 9, 10}
  OBVIOUS
<1> QED BY <1>2, <1>3, Versions

\* What holds for a migration holds for a run of several, by induction over
\* their number.
LEMMA PendingStep ==
  ASSUME NEW v \in 0 .. Latest, NEW w \in v .. Latest, NEW s, Allowed(v, s), NEW r, NEW o
  PROVE  LET d == Pending(v + 1, w, s, r, o) IN
         /\ d.ok => Allowed(w, d.schema) /\ Keeps(s, d.schema, r) /\ Sound(s, d.schema, o)
         /\ r = {} /\ ~o => d.ok
<1> DEFINE d(n) == Pending(v + 1, n, s, r, o)
           Good(n) == /\ d(n).ok => /\ d(n) = Started(d(n).schema) /\ Allowed(n, d(n).schema)
                                    /\ Keeps(s, d(n).schema, r) /\ Sound(s, d(n).schema, o)
                      /\ r = {} /\ ~o => d(n).ok
           S == {k \in Nat : v + k <= Latest => Good(v + k)}
<1>1. Latest = 10 /\ v \in Nat /\ v + 1 \in Nat \ {0}
  BY Versions
<1>2. \A n \in 0 .. Latest :
        d(n) = IF n < v + 1 THEN Started(s) ELSE Execute(Up[n], d(n - 1), r, o)
  BY <1>1, PendingSteps
<1> HIDE DEF d
<1>3. Good(v)
  <2>1. d(v) = Started(s)
    BY <1>1, <1>2
  <2>2. d(v).ok /\ d(v).schema = s
    BY <2>1 DEF Started
  <2> QED BY <2>1, <2>2 DEF Keeps, Sound
<1>4. ASSUME NEW n \in v .. Latest, n + 1 <= Latest, Good(n) PROVE Good(n + 1)
  <2>1. n + 1 \in 0 .. Latest /\ ~(n + 1 < v + 1) /\ (n + 1) - 1 = n /\ n + 1 \in 1 .. Latest
    BY <1>1, <1>4
  <2>2. d(n + 1) = Execute(Up[n + 1], d(n), r, o)
    BY <1>2, <2>1
  <2>3. CASE ~d(n).ok
    <3>1. ~d(n + 1).ok
      BY <2>1, <2>2, <2>3, UpLengths, ExecuteFails
    <3> QED BY <1>4, <2>3, <3>1
  <2>4. CASE d(n).ok
    <3> DEFINE m == d(n).schema
               k == n + 1
               e == Execute(Up[k], Started(m), r, o)
    <3>1. d(k) = e /\ Allowed(n, m) /\ Keeps(s, m, r) /\ Sound(s, m, o)
      BY <1>4, <2>2, <2>4
    <3>2. k \in 1 .. Latest /\ k - 1 = n
      BY <2>1
    <3> SUFFICES Good(k)
      OBVIOUS
    <3> HIDE DEF m, k
    <3>3. Allowed(k - 1, m)
      BY <3>1, <3>2
    <3>4. /\ e.ok => /\ e = Started(e.schema) /\ Allowed(k, e.schema)
                     /\ Keeps(m, e.schema, r) /\ Sound(m, e.schema, o)
          /\ r = {} /\ ~o => e.ok
      BY <3>2, <3>3, UpStep
    <3> HIDE DEF e
    <3>5. e.ok => Keeps(s, e.schema, r) /\ Sound(s, e.schema, o)
      BY <3>1, <3>4 DEF Keeps, Sound
    <3> QED BY <3>1, <3>4, <3>5
  <2> QED BY <2>3, <2>4
<1> HIDE DEF Good
<1>5. 0 \in S
  BY <1>1, <1>3
<1>6. \A k \in Nat : k \in S => k + 1 \in S
  <2> SUFFICES ASSUME NEW k \in Nat, k \in S, v + (k + 1) <= Latest PROVE Good(v + (k + 1))
    OBVIOUS
  <2>1. v + k \in v .. Latest
        /\ (v + k) + 1 <= Latest /\ v + (k + 1) = (v + k) + 1 /\ v + k <= Latest
    BY <1>1
  <2>2. Good(v + k)
    BY <2>1
  <2> QED BY <1>4, <2>1, <2>2
<1>7. w - v \in S
  <2>1. w - v \in Nat
    BY <1>1
  <2> HIDE DEF S
  <2> QED BY <1>5, <1>6, <2>1, SetInduction
<1>8. Good(w)
  <2>1. v + (w - v) = w /\ w <= Latest
    BY <1>1
  <2> QED BY <1>7, <2>1
<1> QED BY <1>8 DEF Good, d

---------------------------------------------------------------------------
(* The versions are what the migrations make of an empty database, and the *)
(* last one is what the entities declare.                                  *)

\* The ten migrations over an empty database, one by one.
LEMMA FromNothing ==
  ASSUME NEW r, r = {}, NEW o, ~o
  PROVE  \A n \in 0 .. Latest : Pending(1, n, {}, r, o) = Started(Version(n))
<1> DEFINE P(n) == Pending(1, n, {}, r, o)
<1>1. \A n \in 0 .. 10 : P(n) = IF n < 1 THEN Started({}) ELSE Execute(Up[n], P(n - 1), r, o)
  <2>1. Latest = 10
    BY Versions
  <2>2. \A n \in 0 .. Latest : P(n) = IF n < 1 THEN Started({}) ELSE Execute(Up[n], P(n - 1), r, o)
    <3>1. PICK one \in Nat \ {0} : one = 1
      OBVIOUS
    <3>2. PICK none : none = {}
      OBVIOUS
    <3>3. \A n \in 0 .. Latest :
            Pending(one, n, none, r, o)
              = IF n < one THEN Started(none)
                ELSE Execute(Up[n], Pending(one, n - 1, none, r, o), r, o)
      BY PendingSteps
    <3> QED BY <3>1, <3>2, <3>3
  <2> QED BY <2>1, <2>2
<1> HIDE DEF P
<1>2. /\ P(0) = Started({}) /\ P(1) = Execute(Up[1], P(0), r, o)
      /\ P(2) = Execute(Up[2], P(1), r, o) /\ P(3) = Execute(Up[3], P(2), r, o)
      /\ P(4) = Execute(Up[4], P(3), r, o) /\ P(5) = Execute(Up[5], P(4), r, o)
      /\ P(6) = Execute(Up[6], P(5), r, o) /\ P(7) = Execute(Up[7], P(6), r, o)
      /\ P(8) = Execute(Up[8], P(7), r, o) /\ P(9) = Execute(Up[9], P(8), r, o)
      /\ P(10) = Execute(Up[10], P(9), r, o)
  <2>1. P(0) = Started({})
    BY <1>1
  <2>2. \A m \in 0 .. 9 : P(m + 1) = Execute(Up[m + 1], P(m), r, o)
    <3>1. \A m \in 0 .. 9 : m + 1 \in 0 .. 10 /\ ~(m + 1 < 1) /\ (m + 1) - 1 = m
      OBVIOUS
    <3> QED BY <1>1, <3>1
  <2>3. /\ 0 + 1 = 1 /\ 1 + 1 = 2 /\ 2 + 1 = 3 /\ 3 + 1 = 4 /\ 4 + 1 = 5
        /\ 5 + 1 = 6 /\ 6 + 1 = 7 /\ 7 + 1 = 8 /\ 8 + 1 = 9 /\ 9 + 1 = 10
    OBVIOUS
  <2>4. {0, 1, 2, 3, 4, 5, 6, 7, 8, 9} \subseteq 0 .. 9
    OBVIOUS
  <2>5. \A m \in {0, 1, 2, 3, 4, 5, 6, 7, 8, 9} : P(m + 1) = Execute(Up[m + 1], P(m), r, o)
    BY <2>2, <2>4
  <2> QED BY <2>1, <2>3, <2>5
<1>3. P(1) = Started(V1) /\ P(2) = Started(V2) /\ P(3) = Started(V3)
  BY <1>2, Versions, UpEarly
<1>4. P(4) = Started(V4)
  BY <1>2, <1>3, Versions, UpAuthFk
<1>5. P(5) = Started(V5)
  BY <1>2, <1>4, Versions, UpStatus
<1>6. P(6) = Started(V6)
  BY <1>2, <1>5, Versions, UpNoOverlap
<1>7. P(7) = Started(V7)
  BY <1>2, <1>6, Versions, UpService
<1>8. P(8) = Started(V8)
  <2>1. PICK none : none = {} /\ none \subseteq {NoOverlap} /\ V7 \cup none = V7 /\ V8 \cup none = V8
    OBVIOUS
  <2>2. Execute(DeadlineHoursUp, Started(V7 \cup none), r, o) = Started(V8 \cup none)
    BY <2>1, DeadlineMigration
  <2> QED BY <1>2, <1>7, <2>1, <2>2, Versions
<1>9. P(9) = Started(V9)
  <2>1. PICK none : none = {} /\ none \subseteq {NoOverlap} /\ V8 \cup none = V8
    OBVIOUS
  <2>2. ~o => Execute(RestoreNoOverlapUp, Started(V8 \cup none), r, o) = Started(V9)
    BY <2>1, RestoreMigration
  <2> QED BY <1>2, <1>8, <2>1, <2>2, Versions
<1>10. P(10) = Started(V10)
  BY <1>2, <1>9, Versions, EmailMigration
<1>11. \A n \in {0, 1, 2, 3, 4, 5, 6, 7, 8, 9, 10} : P(n) = Started(Version(n))
  BY <1>2, <1>3, <1>4, <1>5, <1>6, <1>7, <1>8, <1>9, <1>10, Versions
<1>12. \A n \in 0 .. Latest : n \in {0, 1, 2, 3, 4, 5, 6, 7, 8, 9, 10}
  BY Versions
<1> QED BY <1>11, <1>12 DEF P

\* The versions are those SchemaOfVersion speaks of.
LEMMA AtVersion == \A n \in 0 .. Latest : SchemaAt[n] = Version(n)
<1>1. PICK o : o = FALSE
  OBVIOUS
<1>2. \A n \in 0 .. Latest : Pending(1, n, {}, {}, o) = Started(Version(n))
  BY <1>1, FromNothing
<1>3. \A n \in 0 .. Latest : SchemaAt[n] = Pending(1, n, {}, {}, o).schema
  BY <1>1 DEF SchemaAt
<1>4. \A t : Started(t).schema = t
  BY DEF Started
<1> QED BY <1>2, <1>3, <1>4

\* The objects of a table.
LEMMA InTable ==
  ASSUME NEW t, NEW types
  PROVE  \A x : x \in Table(t, types) <=> \/ x = Object("table", t, "none", "none", "none")
                                          \/ \E c \in DOMAIN types : x = Col(t, c, types[c])
BY DEF Table

\* The four tables that later migrations alter, as they are first created, and
\* two of them as they become.
AuthThen    == Table("auth", [email |-> "varchar", password |-> "varchar"])
BookingThen ==
    Table("booking", [service_name |-> "varchar", service_id |-> "varchar",
                      starts_at |-> "timestamptz", ends_at |-> "timestamptz", master_id |-> "uuid"])
MasterThen  ==
    Table("master", [name |-> "varchar", specialism |-> "varchar", description |-> "varchar",
                     photo |-> "varchar", work_time |-> "jsonb", auth_id |-> "varchar",
                     buisnes_id |-> "uuid"])
BuisnesThen ==
    Table("buisnes", [owner_id |-> "varchar", title |-> "varchar", address |-> "varchar",
                      timezone |-> "varchar_default_kyiv"])
BookingNow  == (BookingThen \ {OldServiceId}) \cup {NewServiceId, BookingStatus, ClientEmail}
               \cup ClientColumns
MasterNow   == (MasterThen \ {OldAuthId}) \cup {NewAuthId}

\* What the migrations made of the four tables they altered is what the
\* entities declare.
LEMMA EntityTables ==
  /\ AuthThen \cup {Role}
       = Table("auth", [email |-> "varchar", password |-> "varchar",
                        role |-> "varchar_default_master"])
  /\ BookingNow
       = Table("booking", [service_name |-> "varchar", service_id |-> "uuid",
                           starts_at |-> "timestamptz", ends_at |-> "timestamptz",
                           status |-> "varchar_default_confirmed", client_name |-> "varchar",
                           client_phone |-> "varchar", client_email |-> "varchar_null",
                           master_id |-> "uuid"])
  /\ MasterNow
       = Table("master", [name |-> "varchar", specialism |-> "varchar", description |-> "varchar",
                          photo |-> "varchar", work_time |-> "jsonb", auth_id |-> "uuid",
                          buisnes_id |-> "uuid"])
  /\ BuisnesThen \cup {DeadlineHours}
       = Table("buisnes", [owner_id |-> "varchar", title |-> "varchar", address |-> "varchar",
                           cancellationDeadlineHours |-> "int_default_3",
                           timezone |-> "varchar_default_kyiv"])
<1>1. AuthThen \cup {Role}
       = Table("auth", [email |-> "varchar", password |-> "varchar",
                        role |-> "varchar_default_master"])
  BY InTable, ColumnObject
     DEF Role, AuthThen
<1>2. BookingNow
       = Table("booking", [service_name |-> "varchar", service_id |-> "uuid",
                           starts_at |-> "timestamptz", ends_at |-> "timestamptz",
                           status |-> "varchar_default_confirmed", client_name |-> "varchar",
                           client_phone |-> "varchar", client_email |-> "varchar_null",
                           master_id |-> "uuid"])
  BY InTable, ColumnObject
     DEF BookingNow, BookingThen, OldServiceId, NewServiceId, BookingStatus, ClientEmail,
         ClientColumns, Object
<1>3. MasterNow
       = Table("master", [name |-> "varchar", specialism |-> "varchar", description |-> "varchar",
                          photo |-> "varchar", work_time |-> "jsonb", auth_id |-> "uuid",
                          buisnes_id |-> "uuid"])
  BY InTable, ColumnObject
     DEF MasterNow, MasterThen, OldAuthId, NewAuthId, Object
<1>4. BuisnesThen \cup {DeadlineHours}
       = Table("buisnes", [owner_id |-> "varchar", title |-> "varchar", address |-> "varchar",
                           cancellationDeadlineHours |-> "int_default_3",
                           timezone |-> "varchar_default_kyiv"])
  BY InTable, ColumnObject
     DEF BuisnesThen, DeadlineHours
<1> QED BY <1>1, <1>2, <1>3, <1>4

\* Version 10 is the schema of the entities, and no_overlap.
LEMMA LatestEntities == V10 = Entities \cup {NoOverlap}
<1> DEFINE tokens == Table("refresh", [user_id |-> "varchar", jwt_refresh |-> "varchar"])
                     \cup Table("reset", [user_id |-> "varchar", email |-> "varchar",
                                          change_pass_token |-> "varchar",
                                          pass_token_created_at |-> "timestamp_default_now",
                                          pass_token_expired_at |-> "timestamp"])
           services == Table("services", [service |-> "varchar", duration |-> "int",
                                          price |-> "numeric_10_2",
                                          buisnes_id |-> "uuid"])
                       \cup Table("master_services", [masterEntityId |-> "uuid",
                                                     servicesEntityId |-> "uuid"])
           email == UniqueIndex("auth", "email")
           others == email \cup tokens \cup services \cup Stage2Indexes \cup Stage2ForeignKeys
<1>1. Entities = (AuthThen \cup {Role}) \cup (BuisnesThen \cup {DeadlineHours}) \cup MasterNow
                 \cup BookingNow \cup others \cup MasterAuthKey \cup ServiceKey
  <2> DEFINE newAuth == AuthThen \cup {Role}
             newBuisnes == BuisnesThen \cup {DeadlineHours}
  <2>1. AuthEntity = newAuth \cup email
    BY EntityTables DEF AuthEntity
  <2>2. RefreshTokenEntity \cup ResetTokenEntity
        = tokens \cup Indexes("refresh", {"user_id"}) \cup Indexes("reset", {"user_id"})
    BY DEF RefreshTokenEntity, ResetTokenEntity
  <2>3. BookingEntity = BookingNow \cup Indexes("booking", {"service_id", "master_id_starts_at"})
                        \cup ForeignKey("booking", "master_id", "master", "cascade") \cup ServiceKey
    BY EntityTables DEF BookingEntity, ServiceKey
  <2>4. BuisnesEntity = newBuisnes \cup Indexes("buisnes", {"owner_id"})
    BY EntityTables DEF BuisnesEntity
  <2>5. MasterEntity \cup ServicesEntity
        = MasterNow \cup services \cup UniqueIndex("master", "auth_id")
          \cup Indexes("master", {"buisnes_id"})
          \cup Indexes("master_services", {"masterEntityId", "servicesEntityId"})
          \cup Indexes("services", {"buisnes_id"})
          \cup ForeignKey("master", "buisnes_id", "buisnes", "cascade") \cup MasterAuthKey
          \cup ForeignKey("master_services", "masterEntityId", "master", "cascade")
          \cup ForeignKey("master_services", "servicesEntityId", "services", "no_action")
          \cup ForeignKey("services", "buisnes_id", "buisnes", "cascade")
    BY EntityTables DEF MasterEntity, ServicesEntity, MasterAuthKey
  <2> HIDE DEF newAuth, newBuisnes, tokens, services, email
  <2>6. Entities = newAuth \cup newBuisnes \cup MasterNow \cup BookingNow
                   \cup others \cup MasterAuthKey \cup ServiceKey
    BY <2>1, <2>2, <2>3, <2>4, <2>5 DEF Entities, Stage2Indexes, Stage2ForeignKeys
  <2> QED BY <2>6 DEF newAuth, newBuisnes
<1>2. V3 = AuthThen \cup {Role} \cup BookingThen \cup MasterThen \cup BuisnesThen \cup others
  <2>1. V1 = AuthThen \cup email \cup tokens
    BY DEF V1, InitTables, AuthThen
  <2>2. Stage2Tables = BookingThen \cup MasterThen \cup services \cup BuisnesThen
    BY DEF Stage2Tables, BookingThen, MasterThen, BuisnesThen
  <2> HIDE DEF email, tokens, services
  <2> QED BY <2>1, <2>2 DEF V2, V3, Stage2
<1>3. OldAuthId \notin AuthThen \cup {Role} \cup BookingThen \cup BuisnesThen \cup others
  <2>1. OldAuthId \notin AuthThen /\ OldAuthId \notin BookingThen /\ OldAuthId \notin BuisnesThen
        /\ OldAuthId \notin tokens /\ OldAuthId \notin services
    BY TableObject, Touched DEF AuthThen, BookingThen, BuisnesThen, MasterThen
  <2>2. OldAuthId # Role /\ OldAuthId \notin email
    BY Touched, UniqueObject, ColumnObject DEF Role
  <2>3. OldAuthId \notin Stage2Indexes /\ OldAuthId \notin Stage2ForeignKeys
    BY Touched, Stage2IndexObjects, Stage2KeyObjects
  <2> HIDE DEF email, tokens, services
  <2> QED BY <2>1, <2>2, <2>3
<1>4. OldServiceId \notin AuthThen \cup {Role} \cup MasterThen \cup BuisnesThen \cup others
                         \cup {NewAuthId, BookingStatus} \cup MasterAuthKey \cup ClientColumns
  <2>1. OldServiceId \notin AuthThen /\ OldServiceId \notin MasterThen /\ OldServiceId \notin BuisnesThen
        /\ OldServiceId \notin tokens /\ OldServiceId \notin services
    BY TableObject, Touched DEF AuthThen, BookingThen, BuisnesThen, MasterThen
  <2>2. OldServiceId # Role /\ OldServiceId \notin email
    BY Touched, UniqueObject, ColumnObject DEF Role
  <2>3. OldServiceId \notin Stage2Indexes /\ OldServiceId \notin Stage2ForeignKeys
    BY Touched, Stage2IndexObjects, Stage2KeyObjects
  <2>4. OldServiceId \notin {NewAuthId, BookingStatus} \cup MasterAuthKey \cup ClientColumns
    BY Touched
  <2> HIDE DEF email, tokens, services
  <2> QED BY <2>1, <2>2, <2>3, <2>4
<1> HIDE DEF others
<1> QED BY <1>1, <1>2, <1>3, <1>4 DEF V4, V5, V7, V8, V9, V10, MasterNow, BookingNow

---------------------------------------------------------------------------
(* The inductive invariant and the theorems.                               *)

\* The schema is that of the version; no_overlap means what it says.
IInv ==
    /\ release \in 0 .. Latest /\ applied \in 0 .. release
    /\ overlapping \in BOOLEAN
    /\ Allowed(applied, schema)
    /\ NoOverlap \in schema => ~overlapping

\* A transaction that leads to a version keeps the invariant.
LEMMA CommitStep ==
  ASSUME IInv, NEW d, NEW v \in 0 .. release, Commit(d, v), release' = release,
         d.ok => Allowed(v, d.schema) /\ Sound(schema, d.schema, overlapping)
  PROVE  IInv'
<1>1. CASE d.ok
  <2>1. schema' = d.schema /\ applied' = v /\ overlapping' = (overlapping /\ "booking" \in rows')
    BY <1>1 DEF Commit
  <2>2. NoOverlap \in schema' => ~overlapping
    BY <1>1, <2>1 DEF IInv, Sound
  <2>3. overlapping' \in BOOLEAN /\ (overlapping' => overlapping)
    BY <2>1 DEF IInv
  <2>4. Allowed(v, d.schema)
    BY <1>1
  <2>5. Allowed(applied, schema)'
    BY <2>1, <2>4 DEF Allowed
  <2> QED BY <2>1, <2>2, <2>3, <2>5 DEF IInv
<1>2. CASE ~d.ok
  <2>1. UNCHANGED <<schema, applied, rows, overlapping>>
    BY <1>2 DEF Commit
  <2> QED BY <2>1 DEF IInv, Allowed
<1> QED BY <1>1, <1>2

\* Every step keeps the invariant.
LEMMA Invariance == IInv /\ [Next]_vars => IInv'
<1> SUFFICES ASSUME IInv, [Next]_vars PROVE IInv'
  OBVIOUS
<1>1. ASSUME NEW n \in 1 .. Latest, Release(n) PROVE IInv'
  <2>1. n \in 0 .. Latest /\ applied \in 0 .. n
    BY <1>1, Versions DEF IInv, Release
  <2> QED BY <1>1, <2>1 DEF IInv, Release, Allowed
<1>2. CASE MigrationRun
  <2> DEFINE d == Pending(applied + 1, release, schema, rows, overlapping)
  <2>1. Commit(d, release) /\ release' = release
    BY <1>2 DEF MigrationRun
  <2>2. applied \in 0 .. Latest /\ release \in applied .. Latest /\ Allowed(applied, schema)
    BY Versions DEF IInv
  <2>3. d.ok => Allowed(release, d.schema) /\ Sound(schema, d.schema, overlapping)
    BY <2>2, PendingStep
  <2>4. release \in 0 .. release
    BY Versions DEF IInv
  <2> HIDE DEF d
  <2> QED BY <2>1, <2>3, <2>4, CommitStep
<1>3. CASE MigrationRevert
  <2> DEFINE d == Execute(Down[applied], Started(schema), rows, overlapping)
  <2>1. Commit(d, applied - 1) /\ release' = release
    BY <1>3 DEF MigrationRevert
  <2>2. applied \in 1 .. Latest /\ Allowed(applied, schema) /\ applied - 1 \in 0 .. release
    BY <1>3, Versions DEF IInv, MigrationRevert
  <2>3. d.ok => Allowed(applied - 1, d.schema) /\ Sound(schema, d.schema, overlapping)
    BY <2>2, DownStep
  <2> HIDE DEF d
  <2> QED BY <2>1, <2>2, <2>3, CommitStep
<1>4. CASE AddByHand
  <2>1. ByHand(applied) = {NoOverlap}
    BY <1>4 DEF AddByHand, ByHand
  <2>2. Allowed(applied, schema \cup {NoOverlap})
    BY <2>1 DEF IInv, Allowed
  <2> QED BY <1>4, <2>2 DEF IInv, AddByHand, Allowed
<1>5. ASSUME NEW t \in TablesOf(Entities), Fill(t) \/ Empty(t) PROVE IInv'
  <2>1. UNCHANGED <<release, applied, schema>>
    BY <1>5 DEF Fill, Empty
  <2>2. overlapping' \in BOOLEAN /\ (overlapping' => overlapping)
    <3>1. overlapping \in BOOLEAN
      BY DEF IInv
    <3>2. overlapping' = overlapping \/ overlapping' = (overlapping /\ t # "booking")
      BY <1>5 DEF Fill, Empty
    <3>3. overlapping' = overlapping \/ overlapping' = FALSE
      <4>1. CASE t = "booking"
        BY <3>2, <4>1
      <4>2. CASE t # "booking"
        BY <3>1, <3>2, <4>2
      <4> QED BY <4>1, <4>2
    <3>4. CASE overlapping' = overlapping
      BY <3>1, <3>4
    <3>5. CASE overlapping' = FALSE
      BY <3>5
    <3> QED BY <3>3, <3>4, <3>5
  <2>3. Allowed(applied, schema)'
    BY <2>1 DEF IInv, Allowed
  <2> QED BY <2>1, <2>2, <2>3 DEF IInv
<1>6. CASE Overlap \/ Settle
  BY <1>6 DEF IInv, Overlap, Settle, Allowed
<1>7. CASE UNCHANGED vars
  BY <1>7 DEF IInv, vars, Allowed
<1> QED BY <1>1, <1>2, <1>3, <1>4, <1>5, <1>6, <1>7 DEF Next

\* In every reachable state the schema is that of the version, and no_overlap
\* never stands over overlapping rows.
THEOREM Invariant == Spec => []IInv
<1>1. Init => IInv
  <2> SUFFICES ASSUME Init PROVE IInv
    OBVIOUS
  <2>1. Allowed(0, {})
    BY Versions DEF Allowed
  <2>2. Allowed(applied, schema)
    BY <2>1 DEF Init
  <2>3. release \in 0 .. Latest /\ applied \in 0 .. release
    BY Versions DEF Init
  <2>4. overlapping \in BOOLEAN /\ ~overlapping
    BY DEF Init
  <2> QED BY <2>2, <2>3, <2>4 DEF IInv
<1> QED BY <1>1, Invariance, PTL DEF Spec

\* SchemaOfVersion, over every history of runs, reverts, failures and repairs
\* by hand (migrations/*.ts, up and down).
THEOREM SchemaFollowsVersion == Spec => []SchemaOfVersion
<1>1. IInv => SchemaOfVersion
  <2> SUFFICES ASSUME IInv PROVE SchemaOfVersion
    OBVIOUS
  <2>1. SchemaAt[applied] = Version(applied)
    BY AtVersion, Versions DEF IInv
  <2> QED BY <2>1 DEF IInv, SchemaOfVersion, Allowed, ByHand
<1> QED BY <1>1, Invariant, PTL

\* LatestIsSound: all migrations together make the schema of the entities, with
\* no_overlap over rows that do not overlap.
THEOREM LatestSchemaIsSound == Spec => []LatestIsSound
<1>1. IInv => LatestIsSound
  <2> SUFFICES ASSUME IInv, applied = 10 PROVE schema = Entities \cup {NoOverlap} /\ ~overlapping
    BY Versions DEF LatestIsSound
  <2>1. schema = V10
    <3>1. Allowed(10, schema)
      BY DEF IInv
    <3>2. 10 \in (0 .. 10) \ {7, 8}
      OBVIOUS
    <3>3. schema = Version(10)
      BY <3>1, <3>2, AllowedCases
    <3> QED BY <3>3, Versions
  <2> QED BY <2>1, LatestEntities DEF IInv
<1> QED BY <1>1, Invariant, PTL

\* BlockedByRowsOnly: rows are all that ever keeps a migration from being
\* applied or taken back.
THEOREM OnlyRowsBlock == Spec => []BlockedByRowsOnly
<1>1. IInv => BlockedByRowsOnly
  <2> SUFFICES ASSUME IInv PROVE BlockedByRowsOnly
    OBVIOUS
  <2>1. PICK r, o : r = {} /\ o = FALSE
    OBVIOUS
  <2>2. applied \in 0 .. Latest /\ Latest \in applied .. Latest /\ Allowed(applied, schema)
        /\ (applied > 0 => applied \in 1 .. Latest)
    BY Versions DEF IInv
  <2>3. Pending(applied + 1, Latest, schema, r, o).ok
    BY <2>1, <2>2, PendingStep
  <2>4. (applied > 0 /\ ~(applied = 7 /\ NoOverlap \in schema))
          => Execute(Down[applied], Started(schema), r, o).ok
    BY <2>1, <2>2, DownStep
  <2> QED BY <2>1, <2>3, <2>4 DEF BlockedByRowsOnly
<1> QED BY <1>1, Invariant, PTL

\* RunsKeepData: no run takes a column or a table with rows away.
THEOREM DataSurvivesRuns == Spec => RunsKeepData
<1> DEFINE A == \A o \in schema \ schema' :
                  (o.kind \in {"table", "column"} /\ o.table \in rows) => applied' < applied
<1>1. IInv /\ [Next]_vars => [A]_vars
  <2> SUFFICES ASSUME IInv, Next PROVE A
    OBVIOUS
  <2>1. CASE MigrationRun
    <3> DEFINE d == Pending(applied + 1, release, schema, rows, overlapping)
    <3>1. Commit(d, release)
      BY <2>1 DEF MigrationRun
    <3>2. applied \in 0 .. Latest /\ release \in applied .. Latest /\ Allowed(applied, schema)
      BY Versions DEF IInv
    <3>3. d.ok => Keeps(schema, d.schema, rows)
      BY <3>2, PendingStep
    <3> HIDE DEF d
    <3>4. (schema' = d.schema /\ d.ok) \/ schema' = schema
      BY <3>1 DEF Commit
    <3> QED BY <3>3, <3>4 DEF Keeps
  <2>2. CASE MigrationRevert
    <3> DEFINE d == Execute(Down[applied], Started(schema), rows, overlapping)
    <3>1. Commit(d, applied - 1)
      BY <2>2 DEF MigrationRevert
    <3> HIDE DEF d
    <3>2. applied' = applied - 1 \/ schema' = schema
      BY <3>1 DEF Commit
    <3>3. applied \in Int
      BY Versions DEF IInv
    <3> QED BY <3>2, <3>3
  <2>3. CASE ~(MigrationRun \/ MigrationRevert)
    <3>1. schema \subseteq schema'
      BY <2>3 DEF Next, Release, AddByHand, Fill, Empty, Overlap, Settle
    <3> QED BY <3>1
  <2> QED BY <2>1, <2>2, <2>3
<1> QED BY <1>1, Invariant, PTL DEF Spec, RunsKeepData
=============================================================================
