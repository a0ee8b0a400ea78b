--------------------------- MODULE EzMetadata_proofs ---------------------------
(***************************************************************************)
(* Proofs about EzMetadata, for any metadata and names.                    *)
(*                                                                         *)
(* The metadata do not change in a session, and what a function answers    *)
(* does not depend on what was loaded before, because it loads what it     *)
(* reads.  So each property is proved of a single call, for the metadata   *)
(* the session has.                                                        *)
(***************************************************************************)
EXTENDS EzMetadata, WellFoundedInduction, TLAPS

Session == metadata \in Metadatas /\ mStandardNames \in BOOLEAN

-----------------------------------------------------------------------------
(* The last one of a name.                                                 *)

LEMMA GreatestNumber ==
  ASSUME NEW n \in Nat, NEW S, S \subseteq 1 .. n, S # {}
  PROVE  Max(S) \in S
<1> DEFINE R == OpToRel(<, Nat)
           T == {n - x : x \in S}
<1>1. IsWellFoundedOn(R, Nat)
  BY NatLessThanWellFounded
<1>2. \A x, y \in Nat : y < x => <<y, x>> \in R
  BY DEF OpToRel
<1>3. T \subseteq Nat /\ T # {}
  <2>1. \A x \in S : n - x \in Nat
    OBVIOUS
  <2>2. QED
    BY <2>1
<1> HIDE DEF R
<1>4. PICK t \in T : \A u \in T : <<u, t>> \notin R
  <2> HIDE DEF T
  <2>1. QED
    BY <1>1, <1>3, WFMin
<1>5. PICK x \in S : t = n - x
  BY <1>4
<1>6. ASSUME NEW y \in S
      PROVE  x >= y
  <2>1. n - y \in T /\ n - y \in Nat /\ t \in Nat
    BY <1>3, <1>4
  <2>2. ~(n - y < t)
    BY <1>2, <1>4, <2>1
  <2>3. x \in Nat /\ y \in Nat
    OBVIOUS
  <2>4. QED
    BY <1>5, <2>1, <2>2, <2>3
<1>7. QED
  BY <1>5, <1>6 DEF Max

Named(x, name, std) == NameOf(x, std) = name /\ name # ""

LEMMA LastNamedIs ==
  ASSUME NEW list, IsList(list), NEW name, NEW std, NEW k, k = LastNamed(list, name, std)
  PROVE  /\ k # 0 => k \in DOMAIN list /\ Named(list[k], name, std)
         /\ k = 0 => \A i \in DOMAIN list : ~Named(list[i], name, std)
<1> DEFINE found == {i \in DOMAIN list : NameOf(list[i], std) = name /\ name # ""}
<1>1. Len(list) \in Nat /\ found \subseteq 1 .. Len(list)
  BY DEF IsList
<1>2. k = IF found = {} THEN 0 ELSE Max(found)
  BY DEF LastNamed
<1>3. CASE found = {}
  BY <1>2, <1>3 DEF Named
<1>4. CASE found # {}
  <2> HIDE DEF found
  <2>1. k \in found
    BY <1>1, <1>2, <1>4, GreatestNumber
  <2>2. k # 0
    BY <1>1, <2>1
  <2>3. QED
    BY <2>1, <2>2 DEF found, Named
<1>5. QED
  BY <1>3, <1>4

LEMMA Lists ==
  ASSUME Session
  PROVE  /\ IsList(metadata)
         /\ \A r \in DOMAIN metadata : IsList(metadata[r].classes)
         /\ \A p \in ResourceClassPairs :
              /\ p[1] \in DOMAIN metadata
              /\ p[2] \in DOMAIN metadata[p[1]].classes
              /\ p = <<p[1], p[2]>>
              /\ IsList(FieldsOf(p))
<1>1. ASSUME NEW p \in ResourceClassPairs
      PROVE  /\ p[1] \in DOMAIN metadata
             /\ p[2] \in DOMAIN metadata[p[1]].classes
             /\ p = <<p[1], p[2]>>
  BY DEF ResourceClassPairs
<1>2. QED
  BY <1>1, MetadataAssumption DEF Session, FieldsOf, ClassOf

(* A class that was found is one of the metadata and has the names by      *)
(* which it was looked up.                                                 *)
LEMMA getClassIs ==
  ASSUME Session, NEW rname, NEW cname, NEW pair, pair = getClass(rname, cname),
         pair # NoClass
  PROVE  /\ pair \in ResourceClassPairs
         /\ Named(ResourceOf(pair), rname, mStandardNames)
         /\ Named(ClassOf(pair), cname, mStandardNames)
<1> DEFINE r == getResource(rname)
           c == LastNamed(metadata[r].classes, cname, mStandardNames)
<1>1. r # 0 /\ c # 0 /\ pair = <<r, c>>
  BY DEF getClass
<1>2. r \in DOMAIN metadata /\ Named(metadata[r], rname, mStandardNames)
  BY <1>1, Lists, LastNamedIs DEF getResource
<1>3. IsList(metadata[r].classes)
  BY <1>2, Lists
<1>4. /\ c \in DOMAIN metadata[r].classes
      /\ Named(metadata[r].classes[c], cname, mStandardNames)
  BY <1>1, <1>3, LastNamedIs
<1> HIDE DEF r, c
<1>5. QED
  BY <1>1, <1>2, <1>4 DEF ResourceClassPairs, ResourceOf, ClassOf
(* What is found under the name of something that is there.                *)
LEMMA ResourceIsFound ==
  ASSUME Session, NEW r \in DOMAIN metadata, NEW name,
         Named(metadata[r], name, mStandardNames)
  PROVE  getResource(name) # 0
  BY Lists, LastNamedIs DEF getResource

-----------------------------------------------------------------------------
(* Calls.  The metadata stay, and the next call is answered from them.     *)

Answer(fn, table, column, ret, rows) ==
  [fn |-> fn, table |-> table, column |-> column, ret |-> ret, rows |-> rows]

LEMMA ConfigStays ==
  ASSUME UNCHANGED config
  PROVE  /\ UNCHANGED <<metadata, mStandardNames, mDisableObjects>>
         /\ UNCHANGED <<ResourceClassPairs, DataTables, ListedTables>>
         /\ \A pair : /\ UNCHANGED <<ResourceOf(pair), ClassOf(pair), FieldsOf(pair)>>
                      /\ UNCHANGED <<makeSQLDataTableName(pair), StarColumns(pair)>>
         /\ \A table : UNCHANGED <<getResourceClassPairBySQLTable(table), PairsOf(table)>>
<1>1. UNCHANGED <<metadata, mStandardNames, mDisableObjects>>
  BY DEF config
<1>2. UNCHANGED ResourceClassPairs
  BY <1>1 DEF ResourceClassPairs
<1>3. ASSUME NEW pair
      PROVE  /\ UNCHANGED <<ResourceOf(pair), ClassOf(pair), FieldsOf(pair)>>
             /\ UNCHANGED <<makeSQLDataTableName(pair), StarColumns(pair)>>
  <2>1. UNCHANGED <<ResourceOf(pair), ClassOf(pair), FieldsOf(pair)>>
    BY <1>1 DEF ResourceOf, ClassOf, FieldsOf
  <2>2. UNCHANGED makeSQLDataTableName(pair)
    BY <1>1, <2>1 DEF makeSQLDataTableName
  <2>3. UNCHANGED StarColumns(pair)
    BY <1>1, <2>1 DEF StarColumns
  <2>4. QED
    BY <2>1, <2>2, <2>3
<1>4. \A name : UNCHANGED getResource(name)
  BY <1>1 DEF getResource
<1>5. ASSUME NEW rname, NEW cname
      PROVE  UNCHANGED getClass(rname, cname)
  BY <1>1, <1>4 DEF getClass
<1>6. ASSUME NEW table
      PROVE  UNCHANGED <<getResourceClassPairBySQLTable(table), PairsOf(table)>>
  <2>1. UNCHANGED getResourceClassPairBySQLTable(table)
    BY <1>5 DEF getResourceClassPairBySQLTable
  <2>2. UNCHANGED PairsOf(table)
    BY <1>2, <2>1 DEF PairsOf
  <2>3. QED
    BY <2>1, <2>2
<1>7. UNCHANGED <<DataTables, ListedTables>>
  <2>1. UNCHANGED getSQLDataTableMetadata
    BY <1>2, <1>3 DEF getSQLDataTableMetadata
  <2>2. UNCHANGED getSQLObjectTableMetadata
    BY <1>1 DEF getSQLObjectTableMetadata, makeSQLObjectTableName
  <2>3. QED
    BY <2>1, <2>2 DEF DataTables, ListedTables
<1>8. QED
  BY <1>1, <1>2, <1>3, <1>6, <1>7
(* The names in use tell resources apart, and the classes of a resource;   *)
(* those that have no such name are not listed.  Fields have system names, *)
(* which tell them apart.                                                  *)
DistinctNames(list) ==
  \A i, j \in DOMAIN list :
    /\ NameOf(list[i], mStandardNames) = NameOf(list[j], mStandardNames)
    /\ NameOf(list[i], mStandardNames) # ""
    => i = j
DistinctClasses ==
  DistinctNames(metadata) /\ \A r \in DOMAIN metadata : DistinctNames(metadata[r].classes)
SystemNames(fields) ==
  \A i, j \in DOMAIN fields :
    fields[i].sys # "" /\ (fields[i].sys = fields[j].sys => i = j)
FieldsHaveNames == \A p \in ResourceClassPairs : SystemNames(FieldsOf(p))

FoundAgain(table) ==
  table # <<>> /\ table[1] = "data" =>
    /\ getResourceClassPairBySQLTable(table) # NoClass
    /\ makeSQLDataTableName(getResourceClassPairBySQLTable(table)) = table

AllColumns(table) == UNION {StarColumns(p) : p \in PairsOf(table)}
ColumnsOf(rows) == {row.column : row \in rows}

Selectable(l) ==
  /\ l.fn = "SQLTables" => \A row \in l.rows : FoundAgain(row.table)
  /\ l.fn = "SQLColumns" =>
       /\ \A row \in l.rows :
            row.column \in StarColumns(getResourceClassPairBySQLTable(row.table))
       /\ l.ret = "SUCCESS" /\ l.table \in DataTables /\ l.column = "" =>
            ColumnsOf(l.rows) = AllColumns(l.table)

KeyNames(table) ==
  LET pair == getResourceClassPairBySQLTable(table)
      keys == IF pair = NoClass THEN {}
              ELSE {k \in DOMAIN FieldsOf(pair) :
                      FieldsOf(pair)[k].sys = ResourceOf(pair).key}
  IN  {NameOf(FieldsOf(pair)[k], mStandardNames) : k \in keys}

KeyIsRight(l) ==
  (\/ l.fn = "SQLPrimaryKeys" /\ l.ret = "SUCCESS"
   \/ l.fn = "SQLSpecialColumns" /\ l.column = "best") =>
    ColumnsOf(l.rows) = KeyNames(l.table)

LEMMA PropertiesOfTheCall ==
  /\ ListedIsSelectable <=> Selectable(last)
  /\ KeyOfTheClass <=> KeyIsRight(last)
<1>1. ListedIsSelectable <=> Selectable(last)
  BY DEF ListedIsSelectable, Selectable, FoundAgain, ColumnsOf, AllColumns
<1>2. KeyOfTheClass <=> KeyIsRight(last)
  BY DEF KeyOfTheClass, KeyIsRight, KeyNames, ColumnsOf
<1>3. QED
  BY <1>1, <1>2

LEMMA NextCall ==
  ASSUME UNCHANGED config
  PROVE  /\ Session => Session'
         /\ Selectable(last') => Selectable(last)'
         /\ KeyIsRight(last') => KeyIsRight(last)'
<1>1. Session => Session'
  BY ConfigStays DEF Session
<1>2. Selectable(last') => Selectable(last)'
  <2>1. \A table : FoundAgain(table) => FoundAgain(table)'
    BY ConfigStays DEF FoundAgain
  <2>2. \A table : UNCHANGED AllColumns(table)
    BY ConfigStays DEF AllColumns
  <2>3. \A table : UNCHANGED StarColumns(getResourceClassPairBySQLTable(table))
    BY ConfigStays
  <2>4. UNCHANGED DataTables
    BY ConfigStays
  <2>5. QED
    BY <2>1, <2>2, <2>3, <2>4 DEF Selectable, ColumnsOf
<1>3. KeyIsRight(last') => KeyIsRight(last)'
  <2>1. \A table : UNCHANGED KeyNames(table)
    BY ConfigStays DEF KeyNames
  <2>2. QED
    BY <2>1 DEF KeyIsRight, ColumnsOf
<1>4. QED
  BY <1>1, <1>2, <1>3
-----------------------------------------------------------------------------
(* Tables and their classes.                                               *)

LEMMA PartsOf ==
  /\ \A a, b, c : Part(<<a, b, c>>, 2) = b /\ Part(<<a, b, c>>, 3) = c
  /\ \A a : Part(<<a>>, 2) = "" /\ Part(<<a>>, 3) = ""
  BY DEF Part

LEMMA TripleIs ==
  ASSUME NEW table, NEW a, NEW b, NEW c, table = <<a, b, c>>
  PROVE  /\ table[1] = a /\ Len(table) = 3 /\ table # <<>>
         /\ Part(table, 2) = b /\ Part(table, 3) = c
<1>1. table[1] = a /\ Len(table) = 3 /\ table # <<>>
  OBVIOUS
<1>2. Part(table, 2) = b
  BY DEF Part
<1>3. Part(table, 3) = c
  BY DEF Part
<1>4. QED
  BY <1>1, <1>2, <1>3

LEMMA WordIs ==
  ASSUME NEW table, NEW a, table = <<a>>
  PROVE  ~(Len(table) > 1) /\ Part(table, 3) = ""
<1>1. ~(Len(table) > 1)
  OBVIOUS
<1>2. Part(table, 3) = ""
  BY DEF Part
<1>3. QED
  BY <1>1, <1>2

(* The data tables that are listed, by the names of their classes.         *)
LEMMA DataTableIs ==
  ASSUME NEW table \in DataTables
  PROVE  \E b, c : table = <<"data", b, c>>
<1>1. PICK row \in getSQLDataTableMetadata : table = row.table
  BY DEF DataTables
<1>2. PICK p : /\ makeSQLDataTableName(p) # <<>>
               /\ row = Row(makeSQLDataTableName(p), "")
  BY DEF getSQLDataTableMetadata
<1>3. table = <<"data", NameOf(ResourceOf(p), mStandardNames),
                NameOf(ClassOf(p), mStandardNames)>>
  BY <1>1, <1>2 DEF Row, makeSQLDataTableName
<1>4. QED
  BY <1>3

(* A name that is tried has three parts, unless it stands for all, is a    *)
(* pattern, or is a single word.                                           *)
LEMMA TableShapes ==
  ASSUME NEW table \in Tables \cup {<<>>}
  PROVE  \/ AllOr(table) = <<>>
         \/ IsPattern(AllOr(table))
         \/ \E a : AllOr(table) = <<a>>
         \/ \E a, b, c : AllOr(table) = <<a, b, c>> /\ table = AllOr(table)
<1>1. CASE table \in {<<>>, <<"%">>}
  BY <1>1 DEF AllOr
<1>2. CASE table = <<"data", "%">>
  <2>1. AllOr(table) = <<"data", "%">>
    BY <1>2 DEF AllOr
  <2>2. QED
    BY <2>1 DEF IsPattern, Range
<1>3. CASE \E a : table = <<a>>
  BY <1>3 DEF AllOr
<1>4. CASE \E a, b, c : table = <<a, b, c>>
  BY <1>4 DEF AllOr
<1>5. ASSUME table \in DataTables
      PROVE  \E a, b, c : table = <<a, b, c>>
  BY <1>5, DataTableIs
<1>6. ASSUME table \in {row.table : row \in getSQLObjectTableMetadata}
      PROVE  table = <<>> \/ \E a, b, c : table = <<a, b, c>>
  <2>1. PICK r, type : table = makeSQLObjectTableName(r, type)
    <3>1. PICK row \in getSQLObjectTableMetadata : table = row.table
      BY <1>6
    <3>2. PICK type \in {"location", "binary"} :
            row \in {Row(makeSQLObjectTableName(r, type), "") : r \in DOMAIN metadata}
      BY DEF getSQLObjectTableMetadata
    <3>3. PICK r \in DOMAIN metadata : row = Row(makeSQLObjectTableName(r, type), "")
      BY <3>2
    <3>4. QED
      BY <3>1, <3>3 DEF Row
  <2>2. table = <<>> \/ table = <<"object", type, metadata[r].sys>>
    BY <2>1 DEF makeSQLObjectTableName
  <2>3. QED
    BY <2>2
<1>7. table \in LookupTables \cup ClassTables("data") => \E a, b, c : table = <<a, b, c>>
  BY DEF LookupTables, ClassTables
<1>8. QED
  BY <1>1, <1>2, <1>3, <1>4, <1>5, <1>6, <1>7 DEF Tables, ListedTables

(* A table whose class was found is the one the class is listed as.        *)
LEMMA FoundClassIsListed ==
  ASSUME Session, NEW a, NEW b, NEW c,
         getResourceClassPairBySQLTable(<<a, b, c>>) # NoClass
  PROVE  /\ getResourceClassPairBySQLTable(<<a, b, c>>) \in ResourceClassPairs
         /\ makeSQLDataTableName(getResourceClassPairBySQLTable(<<a, b, c>>))
              = <<"data", b, c>>
<1> DEFINE pair == getResourceClassPairBySQLTable(<<a, b, c>>)
<1>1. pair = getClass(b, c)
  BY PartsOf DEF getResourceClassPairBySQLTable
<1> HIDE DEF pair
<1>2. /\ pair \in ResourceClassPairs
      /\ Named(ResourceOf(pair), b, mStandardNames)
      /\ Named(ClassOf(pair), c, mStandardNames)
  BY <1>1, getClassIs DEF pair
<1>3. QED
  BY <1>2 DEF makeSQLDataTableName, Named, pair

(* And a class that is listed is found, if its names are its own.          *)
LEMMA ListedClassIsFound ==
  ASSUME Session, DistinctClasses, NEW p \in ResourceClassPairs,
         makeSQLDataTableName(p) # <<>>
  PROVE  /\ getResourceClassPairBySQLTable(makeSQLDataTableName(p)) = p
         /\ p # NoClass
<1> DEFINE b == NameOf(ResourceOf(p), mStandardNames)
           c == NameOf(ClassOf(p), mStandardNames)
           r == getResource(b)
           k == LastNamed(metadata[r].classes, c, mStandardNames)
<1>1. b # "" /\ c # "" /\ makeSQLDataTableName(p) = <<"data", b, c>>
  BY DEF makeSQLDataTableName
<1>2. /\ p[1] \in DOMAIN metadata /\ p[2] \in DOMAIN metadata[p[1]].classes
      /\ p = <<p[1], p[2]>> /\ mStandardNames \in BOOLEAN
      /\ IsList(metadata) /\ IsList(metadata[p[1]].classes)
  BY Lists DEF Session
<1>3. r = p[1]
  <2>1. Named(metadata[p[1]], b, mStandardNames)
    BY <1>1 DEF Named, ResourceOf
  <2>2. r # 0 /\ r \in DOMAIN metadata /\ Named(metadata[r], b, mStandardNames)
    <3> HIDE DEF b
    <3>1. r # 0
      BY <1>2, <2>1, ResourceIsFound
    <3>2. QED
      BY <1>2, <3>1, LastNamedIs DEF getResource
  <2> HIDE DEF b, r
  <2>3. QED
    BY <1>2, <2>1, <2>2 DEF DistinctClasses, DistinctNames, Named
<1>4. k = p[2]
  <2>1. Named(metadata[p[1]].classes[p[2]], c, mStandardNames)
    BY <1>1 DEF Named, ClassOf
  <2> HIDE DEF b, c, r
  <2>2. k # 0 /\ k \in DOMAIN metadata[p[1]].classes
        /\ Named(metadata[p[1]].classes[k], c, mStandardNames)
    BY <1>2, <1>3, <2>1, LastNamedIs
  <2> HIDE DEF k
  <2>3. DistinctNames(metadata[p[1]].classes)
    BY <1>2 DEF DistinctClasses
  <2>4. QED
    BY <1>2, <2>1, <2>2, <2>3 DEF DistinctNames, Named
<1>5. p[1] # 0 /\ p[2] # 0
  BY <1>2 DEF IsList
<1>6. getClass(b, c) = <<p[1], p[2]>>
  <2> HIDE DEF b, c
  <2>1. QED
    BY <1>3, <1>4, <1>5 DEF getClass
<1> HIDE DEF b, c
<1>7. getResourceClassPairBySQLTable(<<"data", b, c>>) = p
  BY <1>2, <1>6, PartsOf DEF getResourceClassPairBySQLTable
<1>8. p # NoClass
  BY <1>2, <1>5 DEF NoClass
<1>9. QED
  BY <1>1, <1>7, <1>8
-----------------------------------------------------------------------------
(* Calls.                                                                  *)

CallIsRight ==
  /\ UNCHANGED config
  /\ DistinctClasses /\ FieldsHaveNames => Selectable(last')
  /\ FieldsHaveNames => KeyIsRight(last')

LEMMA OtherCall ==
  ASSUME ~crashed, NEW fn, NEW table, NEW column, NEW ret, NEW rows,
         fn \notin {"SQLTables", "SQLColumns", "SQLPrimaryKeys", "SQLSpecialColumns"},
         Answered(fn, table, column, ret, rows), UNCHANGED <<config, crashed>>
  PROVE  CallIsRight
<1>1. last'.fn = fn /\ ~crashed'
  BY DEF Answered
<1>2. QED
  BY <1>1 DEF CallIsRight, Selectable, KeyIsRight

LEMMA TablesAnswer ==
  ASSUME ~crashed, NEW table, NEW ret, NEW rows, Plain("SQLTables", table, "", ret, rows),
         DistinctClasses => \A row \in rows : FoundAgain(row.table)
  PROVE  CallIsRight
<1>1. /\ last' = Answer("SQLTables", table, "", ret, rows)
      /\ ~crashed' /\ UNCHANGED config
  BY DEF Plain, Answered, Answer
<1>2. last'.fn = "SQLTables" /\ last'.rows = rows
  BY <1>1 DEF Answer
<1>3. QED
  BY <1>1, <1>2 DEF CallIsRight, Selectable, KeyIsRight

LEMMA EmptyAnswer ==
  ASSUME ~crashed, NEW table, NEW ret, Plain("SQLTables", table, "", ret, {})
  PROVE  CallIsRight
<1> DEFINE rows == {}
<1>1. /\ Plain("SQLTables", table, "", ret, rows)
      /\ \A row \in rows : FoundAgain(row.table)
  OBVIOUS
<1> HIDE DEF rows
<1>2. QED
  BY <1>1, TablesAnswer

LEMMA DataTablesAreFound ==
  ASSUME Session, DistinctClasses, NEW row \in getSQLDataTableMetadata
  PROVE  FoundAgain(row.table)
<1>1. PICK p \in ResourceClassPairs :
        makeSQLDataTableName(p) # <<>> /\ row = Row(makeSQLDataTableName(p), "")
  BY DEF getSQLDataTableMetadata
<1>2. row.table = makeSQLDataTableName(p)
  BY <1>1 DEF Row
<1>3. QED
  BY <1>1, <1>2, ListedClassIsFound DEF FoundAgain

LEMMA ObjectTablesAreOthers ==
  ASSUME NEW row \in getSQLObjectTableMetadata
  PROVE  FoundAgain(row.table)
<1>1. PICK type \in {"location", "binary"} :
        row \in {Row(makeSQLObjectTableName(r, type), "") : r \in DOMAIN metadata}
  BY DEF getSQLObjectTableMetadata
<1>2. PICK r \in DOMAIN metadata : row = Row(makeSQLObjectTableName(r, type), "")
  BY <1>1
<1>3. row.table = <<>> \/ row.table = <<"object", type, metadata[r].sys>>
  BY <1>2 DEF Row, makeSQLObjectTableName
<1>4. QED
  BY <1>3 DEF FoundAgain

LEMMA ObjectTableStep ==
  ASSUME Session, ~crashed, NEW table, table # <<>>,
         ~(table[1] = "data" /\ Len(table) > 1), NEW a, NEW b, NEW c,
         table = <<a>> \/ table = <<a, b, c>>, ObjectTable(table)
  PROVE  CallIsRight
<1>1. CASE Part(table, 3) = ""
  <2>1. Plain("SQLTables", table, "", "SUCCESS", {})
    BY <1>1 DEF ObjectTable
  <2>2. QED
    BY <2>1, EmptyAnswer
<1>2. CASE Part(table, 3) # ""
  <2>1. table = <<a, b, c>> /\ a # "data"
    <3>1. table # <<a>>
      BY <1>2, PartsOf
    <3>2. table = <<a, b, c>>
      BY <3>1
    <3>3. table[1] = a /\ Len(table) = 3
      BY <3>2
    <3>4. QED
      BY <3>2, <3>3
  <2>2. CASE getResource(Part(table, 3)) = 0
    <3>1. /\ last' = Answer("SQLTables", table, "", "ERROR", {})
          /\ UNCHANGED config
      BY <1>2, <2>2 DEF ObjectTable, Crash, Answered, Answer
    <3>2. last'.fn = "SQLTables" /\ last'.rows = {}
      BY <3>1 DEF Answer
    <3>3. QED
      BY <3>1, <3>2 DEF CallIsRight, Selectable, KeyIsRight
  <2>3. CASE getResource(Part(table, 3)) # 0
    <3>1. Plain("SQLTables", table, "", "SUCCESS", {Row(table, "")})
      BY <1>2, <2>3 DEF ObjectTable
    <3>2. FoundAgain(table)
      BY <2>1 DEF FoundAgain
    <3>3. Row(table, "").table = table
      BY DEF Row
    <3>4. QED
      BY <3>1, <3>2, <3>3, TablesAnswer
  <2>4. QED
    BY <2>2, <2>3
<1>3. QED
  BY <1>1, <1>2

LEMMA SQLTablesStep ==
  ASSUME Session, ~crashed, NEW catalog, NEW schema, NEW name \in Tables \cup {<<>>},
         NEW type, SQLTables(catalog, schema, name, type)
  PROVE  CallIsRight
<1> DEFINE table == AllOr(name)
<1>1. \/ \E ret : Plain("SQLTables", table, "", ret, {})
      \/ Plain("SQLTables", table, "", "SUCCESS", {Row(<<>>, "")})
      \/ Plain("SQLTables", table, "", "SUCCESS",
               getSQLDataTableMetadata
                 \cup IF mDisableObjects THEN {} ELSE getSQLObjectTableMetadata)
      \/ /\ ~IsPattern(table) /\ table # <<>>
         /\ table[1] = "data" /\ Len(table) > 1
         /\ Plain("SQLTables", table, "", "SUCCESS", DataTable(table))
      \/ /\ ~IsPattern(table) /\ table # <<>>
         /\ ~(table[1] = "data" /\ Len(table) > 1)
         /\ ObjectTable(table)
  BY Zenon DEF SQLTables
<1>2. \/ table = <<>> \/ IsPattern(table)
      \/ \E a : table = <<a>>
      \/ \E a, b, c : table = <<a, b, c>>
  BY TableShapes
<1> HIDE DEF table
<1>3. ASSUME NEW ret, Plain("SQLTables", table, "", ret, {})
      PROVE  CallIsRight
  BY <1>3, EmptyAnswer
<1>4. CASE Plain("SQLTables", table, "", "SUCCESS", {Row(<<>>, "")})
  <2>1. FoundAgain(Row(<<>>, "").table)
    BY DEF FoundAgain, Row
  <2>2. QED
    BY <1>4, <2>1, TablesAnswer
<1>5. CASE Plain("SQLTables", table, "", "SUCCESS",
                 getSQLDataTableMetadata
                   \cup IF mDisableObjects THEN {} ELSE getSQLObjectTableMetadata)
  BY <1>5, DataTablesAreFound, ObjectTablesAreOthers, TablesAnswer
<1>6. CASE /\ ~IsPattern(table) /\ table # <<>>
           /\ table[1] = "data" /\ Len(table) > 1
           /\ Plain("SQLTables", table, "", "SUCCESS", DataTable(table))
  <2>1. PICK a, b, c : table = <<a, b, c>>
    <3>1. \A a : table # <<a>>
      BY <1>6, WordIs, Zenon
    <3>2. QED
      BY <1>6, <1>2, <3>1
  <2>2. ASSUME NEW row \in DataTable(table)
        PROVE  FoundAgain(row.table)
    <3>1. getResourceClassPairBySQLTable(table) # NoClass /\ row = Row(table, "")
      BY DEF DataTable
    <3>2. row.table = table
      BY <3>1 DEF Row
    <3>3. table[1] = a /\ a = "data"
      BY <1>6, <2>1
    <3>4. makeSQLDataTableName(getResourceClassPairBySQLTable(table)) = table
      BY <2>1, <3>1, <3>3, FoundClassIsListed
    <3>5. QED
      BY <3>1, <3>2, <3>4 DEF FoundAgain
  <2>3. QED
    BY <1>6, <2>2, TablesAnswer
<1>7. CASE /\ ~IsPattern(table) /\ table # <<>>
           /\ ~(table[1] = "data" /\ Len(table) > 1)
           /\ ObjectTable(table)
  <2>1. PICK a, b, c : table = <<a>> \/ table = <<a, b, c>>
    BY <1>7, <1>2
  <2>2. QED
    BY <1>7, <2>1, ObjectTableStep
<1>8. QED
  BY <1>1, <1>3, <1>4, <1>5, <1>6, <1>7
(* A field that has a name of the kind is found under it.                  *)
LEMMA FieldIsFound ==
  ASSUME Session, NEW p \in ResourceClassPairs, NEW name \in StarColumns(p),
         NEW loaded, p \in loaded
  PROVE  getTable(p, name, mStandardNames, loaded) # 0
<1>1. PICK k \in DOMAIN FieldsOf(p) : Named(FieldsOf(p)[k], name, mStandardNames)
  BY DEF StarColumns, Named
<1>2. IsList(FieldsOf(p))
  BY Lists
<1>3. LastNamed(FieldsOf(p), name, mStandardNames) # 0
  BY <1>1, <1>2, LastNamedIs
<1>4. QED
  BY <1>3 DEF getTable

LEMMA PairsOfIs ==
  ASSUME Session, NEW table
  PROVE  /\ PairsOf(table) \subseteq ResourceClassPairs
         /\ table \in DataTables => \A p \in PairsOf(table) : makeSQLDataTableName(p) # <<>>
<1> DEFINE pair == getResourceClassPairBySQLTable(table)
<1>1. pair # NoClass => pair \in ResourceClassPairs
  BY getClassIs DEF getResourceClassPairBySQLTable
<1>2. PairsOf(table) \subseteq ResourceClassPairs
  BY <1>1 DEF PairsOf
<1>3. ASSUME table \in DataTables, NEW p \in PairsOf(table)
      PROVE  makeSQLDataTableName(p) # <<>>
  <2>1. PICK b, c : table = <<"data", b, c>>
    BY <1>3, DataTableIs
  <2>2. table # <<>>
    BY <2>1, TripleIs, Zenon
  <2>3. p = pair /\ pair # NoClass
    BY <2>2 DEF PairsOf
  <2>4. makeSQLDataTableName(pair) = <<"data", b, c>>
    BY <2>1, <2>3, FoundClassIsListed
  <2>5. QED
    BY <2>3, <2>4
<1>4. QED
  BY <1>2, <1>3

LEMMA processColumnIs ==
  ASSUME Session, FieldsHaveNames, NEW p \in ResourceClassPairs,
         makeSQLDataTableName(p) # <<>>, NEW k \in DOMAIN FieldsOf(p)
  PROVE  LET name == NameOf(FieldsOf(p)[k], mStandardNames)
         IN  processColumn(p, k) = IF name = "" THEN {}
                                   ELSE {Row(makeSQLDataTableName(p), name)}
<1>1. SystemNames(FieldsOf(p))
  BY DEF FieldsHaveNames
<1>2. FieldsOf(p)[k].sys # ""
  BY <1>1 DEF SystemNames
<1>3. ~mStandardNames => NameOf(FieldsOf(p)[k], mStandardNames) # ""
  BY <1>2 DEF NameOf
<1>4. QED
  BY <1>3 DEF processColumn

LEMMA SQLColumnsStep ==
  ASSUME Session, ~crashed, NEW name, NEW columnName, SQLColumns(name, columnName)
  PROVE  CallIsRight
<1> DEFINE table == AllOr(name)
           column == IF columnName = "%" THEN "" ELSE columnName
           pairs == PairsOf(table)
           loaded == UNION {AfterInit(p) : p \in pairs} \cup inited
           found(p) == getTable(p, column, mStandardNames, loaded)
           listed == {q \in pairs : makeSQLDataTableName(q) # <<>>}
           rowsOf(p) == IF column = ""
                        THEN UNION {processColumn(p, k) : k \in DOMAIN FieldsOf(p)}
                        ELSE processColumn(p, found(p))
           rows == UNION {rowsOf(p) : p \in listed}
<1>1. \/ Plain("SQLColumns", table, column, "ERROR", {})
      \/ /\ column # "" /\ \E p \in pairs : found(p) = 0
         /\ Crash("SQLColumns", table, column)
      \/ /\ column # "" => \A p \in listed : found(p) # 0
         /\ Answered("SQLColumns", table, column, "SUCCESS", rows)
         /\ UNCHANGED <<config, crashed>>
  BY DEF SQLColumns
<1>2. pairs \subseteq ResourceClassPairs /\ pairs \subseteq loaded
  <2>1. \A p : p \in AfterInit(p)
    BY DEF AfterInit
  <2> HIDE DEF table
  <2>2. pairs \subseteq ResourceClassPairs
    BY PairsOfIs
  <2> HIDE DEF pairs
  <2>3. QED
    BY <2>1, <2>2
<1>3. CASE Plain("SQLColumns", table, column, "ERROR", {})
  <2>1. /\ last' = Answer("SQLColumns", table, column, "ERROR", {})
        /\ ~crashed' /\ UNCHANGED config
    BY <1>3 DEF Plain, Answered, Answer
  <2>2. last'.fn = "SQLColumns" /\ last'.rows = {} /\ last'.ret = "ERROR"
    BY <2>1 DEF Answer
  <2>3. QED
    BY <2>1, <2>2 DEF CallIsRight, Selectable, KeyIsRight
<1>4. CASE /\ column # "" /\ \E p \in pairs : found(p) = 0
           /\ Crash("SQLColumns", table, column)
  <2>1. /\ last' = Answer("SQLColumns", table, column, "ERROR", {})
        /\ UNCHANGED config
    BY <1>4 DEF Crash, Answered, Answer
  <2>2. last'.fn = "SQLColumns" /\ last'.rows = {} /\ last'.ret = "ERROR"
    BY <2>1 DEF Answer
  <2>3. QED
    BY <2>1, <2>2 DEF CallIsRight, Selectable, KeyIsRight
<1>5. CASE /\ column # "" => \A p \in listed : found(p) # 0
           /\ Answered("SQLColumns", table, column, "SUCCESS", rows)
           /\ UNCHANGED <<config, crashed>>
  <2>1. /\ last' = Answer("SQLColumns", table, column, "SUCCESS", rows)
        /\ ~crashed' /\ UNCHANGED config
    BY <1>5 DEF Answered, Answer
  <2> HIDE DEF table, column
  <2>2. /\ last'.fn = "SQLColumns" /\ last'.rows = rows
        /\ last'.table = table /\ last'.column = column
    <3> HIDE DEF rows
    <3>1. QED
      BY <2>1 DEF Answer
  <2>3. ASSUME DistinctClasses, FieldsHaveNames
        PROVE  Selectable(last')
    <3>1. ASSUME NEW row \in rows
          PROVE  \E p \in pairs :
                   /\ row.table = makeSQLDataTableName(p) /\ row.table # <<>>
                   /\ row.column \in StarColumns(p)
      <4>1. PICK p \in listed : row \in rowsOf(p)
        OBVIOUS
      <4>2. p \in ResourceClassPairs /\ makeSQLDataTableName(p) # <<>> /\ p \in pairs
        BY <1>2
      <4>3. PICK k \in DOMAIN FieldsOf(p) : row \in processColumn(p, k)
        <5>1. CASE column = ""
          BY <4>1, <5>1
        <5>2. CASE column # ""
          <6>1. found(p) # 0 /\ row \in processColumn(p, found(p))
            BY <1>5, <4>1, <5>2
          <6>2. IsList(FieldsOf(p)) /\ p \in loaded
            BY <1>2, <4>2, Lists
          <6>3. found(p) = LastNamed(FieldsOf(p), column, mStandardNames)
            BY <6>2 DEF getTable
          <6>4. found(p) \in DOMAIN FieldsOf(p)
            BY <6>1, <6>2, <6>3, LastNamedIs
          <6>5. QED
            BY <6>1, <6>4
        <5>3. QED
          BY <5>1, <5>2
      <4> DEFINE title == NameOf(FieldsOf(p)[k], mStandardNames)
      <4>4. title # "" /\ row = Row(makeSQLDataTableName(p), title)
        BY <2>3, <4>2, <4>3, processColumnIs
      <4>5. title \in StarColumns(p)
        BY <4>4 DEF StarColumns
      <4> HIDE DEF title
      <4>6. row.table = makeSQLDataTableName(p) /\ row.column = title
        BY <4>4 DEF Row
      <4>7. QED
        BY <4>2, <4>5, <4>6
    <3>2. ASSUME NEW row \in rows
          PROVE  row.column \in StarColumns(getResourceClassPairBySQLTable(row.table))
      <4> HIDE DEF rows
      <4>1. PICK p \in pairs : /\ row.table = makeSQLDataTableName(p) /\ row.table # <<>>
                               /\ row.column \in StarColumns(p)
        BY <3>1
      <4>2. getResourceClassPairBySQLTable(makeSQLDataTableName(p)) = p
        BY <1>2, <2>3, <4>1, ListedClassIsFound
      <4>3. QED
        BY <4>1, <4>2
    <3>3. ASSUME table \in DataTables, column = ""
          PROVE  ColumnsOf(rows) = AllColumns(table)
      <4>1. ASSUME NEW c \in ColumnsOf(rows)
            PROVE  c \in AllColumns(table)
        <5>1. PICK row \in rows : c = row.column
          BY DEF ColumnsOf
        <5>2. QED
          BY <3>1, <5>1 DEF AllColumns
      <4>2. ASSUME NEW c \in AllColumns(table)
            PROVE  c \in ColumnsOf(rows)
        <5>1. PICK p \in pairs : c \in StarColumns(p)
          BY DEF AllColumns
        <5>2. PICK k \in DOMAIN FieldsOf(p) :
                c = NameOf(FieldsOf(p)[k], mStandardNames) /\ c # ""
          BY <5>1 DEF StarColumns
        <5>3. p \in ResourceClassPairs /\ makeSQLDataTableName(p) # <<>>
          BY <1>2, <3>3, PairsOfIs
        <5>4. Row(makeSQLDataTableName(p), c) \in processColumn(p, k)
          BY <2>3, <5>2, <5>3, processColumnIs
        <5>5. Row(makeSQLDataTableName(p), c) \in rows
          <6>1. p \in listed
            BY <5>3
          <6>2. Row(makeSQLDataTableName(p), c) \in rowsOf(p)
            BY <3>3, <5>2, <5>4
          <6> HIDE DEF rowsOf, listed
          <6>3. QED
            BY <6>1, <6>2
        <5>6. Row(makeSQLDataTableName(p), c).column = c
          BY DEF Row
        <5>7. QED
          BY <5>5, <5>6 DEF ColumnsOf
      <4>3. QED
        BY <4>1, <4>2
    <3> HIDE DEF rows
    <3>4. QED
      BY <2>2, <3>2, <3>3 DEF Selectable
  <2> HIDE DEF rows
  <2>4. QED
    BY <2>1, <2>2, <2>3 DEF CallIsRight, KeyIsRight
<1>6. QED
  BY <1>1, <1>3, <1>4, <1>5
-----------------------------------------------------------------------------
(* Keys.                                                                   *)

(* The key field of a class, which is loaded, is found by its system name. *)
LEMMA KeyRowsAre ==
  ASSUME Session, FieldsHaveNames, NEW table
  PROVE  ColumnsOf(KeyRows(table, LoadedFor(table))) = KeyNames(table)
<1> DEFINE pair == getResourceClassPairBySQLTable(table)
           key == ResourceOf(pair).key
           k == getTable(pair, key, FALSE, LoadedFor(table))
           keys == {i \in DOMAIN FieldsOf(pair) : FieldsOf(pair)[i].sys = key}
           NameAt(i) == NameOf(FieldsOf(pair)[i], mStandardNames)
<1>1. CASE pair = NoClass
  <2>1. KeyRows(table, LoadedFor(table)) = {}
    BY <1>1 DEF KeyRows
  <2>2. KeyNames(table) = {}
    BY <1>1 DEF KeyNames
  <2>3. QED
    BY <2>1, <2>2 DEF ColumnsOf
<1>2. CASE pair # NoClass
  <2>1. pair \in ResourceClassPairs
    BY <1>2, getClassIs DEF getResourceClassPairBySQLTable
  <2>2. IsList(FieldsOf(pair)) /\ SystemNames(FieldsOf(pair))
    BY <2>1, Lists DEF FieldsHaveNames
  <2>3. pair \in LoadedFor(table)
    BY <1>2 DEF LoadedFor, AfterInit
  <2>4. k = LastNamed(FieldsOf(pair), key, FALSE)
    BY <2>3 DEF getTable
  <2>5. KeyRows(table, LoadedFor(table)) = IF k = 0 THEN {} ELSE {Row(table, NameAt(k))}
    BY <1>2 DEF KeyRows
  <2>6. KeyNames(table) = {NameAt(i) : i \in keys}
    BY <1>2 DEF KeyNames
  <2> HIDE DEF pair, key, k, NameAt
  <2>7. /\ k # 0 => k \in keys
        /\ k = 0 => \A i \in DOMAIN FieldsOf(pair) : ~Named(FieldsOf(pair)[i], key, FALSE)
    <3>1. /\ k # 0 => k \in DOMAIN FieldsOf(pair) /\ Named(FieldsOf(pair)[k], key, FALSE)
          /\ k = 0 => \A i \in DOMAIN FieldsOf(pair) : ~Named(FieldsOf(pair)[i], key, FALSE)
      BY <2>2, <2>4, LastNamedIs
    <3>2. QED
      BY <3>1 DEF Named, NameOf
  <2>8. \A i, j \in keys : i = j
    BY <2>2 DEF SystemNames
  <2>9. CASE k = 0
    <3>1. keys = {}
      BY <2>2, <2>7, <2>9 DEF Named, NameOf, SystemNames
    <3>2. QED
      BY <2>5, <2>6, <2>9, <3>1 DEF ColumnsOf
  <2>10. CASE k # 0
    <3>1. keys = {k}
      BY <2>7, <2>8, <2>10
    <3>2. KeyNames(table) = {NameAt(k)}
      BY <2>6, <3>1
    <3>3. Row(table, NameAt(k)).column = NameAt(k)
      BY DEF Row
    <3>4. ColumnsOf({Row(table, NameAt(k))}) = {NameAt(k)}
      BY <3>3 DEF ColumnsOf
    <3>5. QED
      BY <2>5, <2>10, <3>2, <3>4
  <2>11. QED
    BY <2>9, <2>10
<1>3. QED
  BY <1>1, <1>2

LEMMA SQLPrimaryKeysStep ==
  ASSUME Session, ~crashed, NEW catalog, NEW table, SQLPrimaryKeys(catalog, table)
  PROVE  CallIsRight
<1> DEFINE rows == KeyRows(table, LoadedFor(table))
<1>1. CASE catalog # ""
  <2>1. /\ last' = Answer("SQLPrimaryKeys", table, catalog, "ERROR", {})
        /\ ~crashed' /\ UNCHANGED config
    BY <1>1 DEF SQLPrimaryKeys, Plain, Answered, Answer
  <2>2. last'.fn = "SQLPrimaryKeys" /\ last'.ret = "ERROR"
    BY <2>1 DEF Answer
  <2>3. QED
    BY <2>1, <2>2 DEF CallIsRight, Selectable, KeyIsRight
<1>2. CASE catalog = ""
  <2>1. /\ last' = Answer("SQLPrimaryKeys", table, "", "SUCCESS", rows)
        /\ ~crashed' /\ UNCHANGED config
    BY <1>2 DEF SQLPrimaryKeys, Answered, Answer
  <2> HIDE DEF rows
  <2>2. /\ last'.fn = "SQLPrimaryKeys" /\ last'.table = table /\ last'.rows = rows
    BY <2>1 DEF Answer
  <2>3. FieldsHaveNames => ColumnsOf(rows) = KeyNames(table)
    BY KeyRowsAre DEF rows
  <2>4. QED
    BY <2>1, <2>2, <2>3 DEF CallIsRight, Selectable, KeyIsRight
<1>3. QED
  BY <1>1, <1>2

LEMMA SQLSpecialColumnsStep ==
  ASSUME Session, ~crashed, NEW best, NEW table, SQLSpecialColumns(table, best)
  PROVE  CallIsRight
<1> DEFINE rows == KeyRows(table, LoadedFor(table))
<1>1. CASE ~best
  <2>1. /\ last' = Answer("SQLSpecialColumns", table, "", "SUCCESS", {})
        /\ ~crashed' /\ UNCHANGED config
    BY <1>1 DEF SQLSpecialColumns, Plain, Answered, Answer
  <2>2. last'.fn = "SQLSpecialColumns" /\ last'.column = ""
    BY <2>1 DEF Answer
  <2>3. QED
    BY <2>1, <2>2 DEF CallIsRight, Selectable, KeyIsRight
<1>2. CASE best
  <2>1. /\ last' = Answer("SQLSpecialColumns", table, "best", "SUCCESS", rows)
        /\ ~crashed' /\ UNCHANGED config
    BY <1>2 DEF SQLSpecialColumns, Answered, Answer
  <2> HIDE DEF rows
  <2>2. last'.fn = "SQLSpecialColumns" /\ last'.table = table /\ last'.rows = rows
    BY <2>1 DEF Answer
  <2>3. FieldsHaveNames => ColumnsOf(rows) = KeyNames(table)
    BY KeyRowsAre DEF rows
  <2>4. QED
    BY <2>1, <2>2, <2>3 DEF CallIsRight, Selectable, KeyIsRight
<1>3. QED
  BY <1>1, <1>2

-----------------------------------------------------------------------------
(* Queries.                                                                *)

LEMMA QueryStep ==
  ASSUME Session, ~crashed, NEW table,
         \/ SQLStatistics(table) \/ SelectCount(table) \/ SelectLookupColumns(table)
         \/ \E field : SelectData(table, field)
  PROVE  CallIsRight
<1>1. CASE SQLStatistics(table)
  BY <1>1, OtherCall DEF SQLStatistics, Plain
<1>2. CASE SelectCount(table)
  BY <1>2, OtherCall DEF SelectCount, Plain
<1>3. CASE SelectLookupColumns(table)
  <2> DEFINE pair == getClass(Part(table, 2), Part(table, 3))
  <2>1. CASE pair = NoClass
    BY <1>3, <2>1, OtherCall DEF SelectLookupColumns, Plain
  <2>2. CASE pair # NoClass
    <3>1. PICK rows : Answered("SelectLookupColumns", table, "", "SUCCESS", rows)
                        /\ UNCHANGED <<config, crashed>>
      BY <1>3, <2>2, Zenon DEF SelectLookupColumns
    <3>2. QED
      BY <3>1, OtherCall
  <2>3. QED
    BY <2>1, <2>2
<1>4. ASSUME NEW field, SelectData(table, field)
      PROVE  CallIsRight
  <2> DEFINE pair == getClass(Part(table, 2), Part(table, 3))
  <2>1. CASE pair = NoClass
    BY <1>4, <2>1, OtherCall DEF SelectData, Plain
  <2>2. CASE pair # NoClass
    <3>1. PICK ret, rows : Answered("SelectData", table, field, ret, rows)
                             /\ UNCHANGED <<config, crashed>>
      BY <1>4, <2>2, Zenon DEF SelectData
    <3>2. QED
      BY <3>1, OtherCall
  <2>3. QED
    BY <2>1, <2>2
<1>5. QED
  BY <1>1, <1>2, <1>3, <1>4

(* A query of a lookup answers, or crashes.                                *)
LEMMA SelectLookupStep ==
  ASSUME Session, ~crashed, NEW table, SelectLookup(table)
  PROVE  CallIsRight
<1> DEFINE r == getResource(Part(table, 2))
<1>1. CASE r = 0
  <2>1. /\ last' = Answer("SelectLookup", table, "", "ERROR", {}) /\ UNCHANGED config
    BY <1>1 DEF SelectLookup, Crash, Answered, Answer
  <2>2. last'.fn = "SelectLookup"
    BY <2>1 DEF Answer
  <2>3. QED
    BY <2>1, <2>2 DEF CallIsRight, Selectable, KeyIsRight
<1>2. CASE r # 0
  <2>1. \E ret : Plain("SelectLookup", table, "", ret, {})
    BY <1>2, Zenon DEF SelectLookup
  <2>2. QED
    BY <2>1, OtherCall DEF Plain
<1>3. QED
  BY <1>1, <1>2

-----------------------------------------------------------------------------
(* Every call.                                                             *)

LEMMA EveryCall ==
  ASSUME Session, ViewNext
  PROVE  CallIsRight
<1>1. ~crashed
  BY DEF ViewNext
<1>2. ASSUME NEW catalog, NEW schema, NEW type, SQLTables(catalog, schema, <<>>, type)
      PROVE  CallIsRight
  BY <1>1, <1>2, SQLTablesStep
<1>3. ASSUME NEW table \in Tables,
             \/ SQLTables("", "", table, "TABLE")
             \/ \E catalog \in {"", LoginURL} : SQLPrimaryKeys(catalog, table)
             \/ SQLStatistics(table)
             \/ \E best \in BOOLEAN : SQLSpecialColumns(table, best)
             \/ \E column \in FieldNames : SQLColumns(table, column)
      PROVE  CallIsRight
  BY <1>1, <1>3, SQLTablesStep, SQLPrimaryKeysStep, QueryStep, SQLSpecialColumnsStep,
     SQLColumnsStep
<1>4. ASSUME NEW table,
             \/ SelectCount(table)
             \/ \E field \in FieldNames \ {"%", "like%"} : SelectData(table, field)
             \/ SelectLookupColumns(table)
      PROVE  CallIsRight
  BY <1>1, <1>4, QueryStep
<1>5. ASSUME NEW table \in LookupTables, SelectLookup(table)
      PROVE  CallIsRight
  BY <1>1, <1>5, SelectLookupStep
<1>6. QED
  BY <1>2, <1>3, <1>4, <1>5 DEF ViewNext

LEMMA Initially ==
  ViewInit => Session /\ ListedIsSelectable /\ KeyOfTheClass
<1> SUFFICES ASSUME ViewInit
             PROVE  Session /\ ListedIsSelectable /\ KeyOfTheClass
  OBVIOUS
<1>1. Session /\ last.fn = "none"
  BY DEF ViewInit, Session, NoCall
<1>2. QED
  BY <1>1 DEF ListedIsSelectable, KeyOfTheClass

LEMMA SessionStays == ViewSpec => []Session
<1>1. Session /\ [ViewNext]_viewVars => Session'
  <2>1. ASSUME Session, UNCHANGED viewVars
        PROVE  Session'
    BY <2>1 DEF Session, viewVars, config
  <2>2. QED
    BY <2>1, EveryCall, NextCall DEF CallIsRight
<1>2. QED
  BY <1>1, Initially, PTL DEF ViewSpec

LEMMA NamesStay ==
  ASSUME UNCHANGED config
  PROVE  (DistinctClasses' => DistinctClasses) /\ (FieldsHaveNames' => FieldsHaveNames)
<1>1. DistinctClasses' => DistinctClasses
  BY ConfigStays DEF DistinctClasses, DistinctNames
<1>2. ASSUME FieldsHaveNames', NEW p \in ResourceClassPairs
      PROVE  SystemNames(FieldsOf(p))
  <2>1. FieldsOf(p)' = FieldsOf(p) /\ ResourceClassPairs' = ResourceClassPairs
    BY ConfigStays
  <2>2. SystemNames(FieldsOf(p)')
    BY <1>2, <2>1 DEF FieldsHaveNames, SystemNames
  <2>3. QED
    BY <2>1, <2>2
<1>3. QED
  BY <1>1, <1>2 DEF FieldsHaveNames

LEMMA RightCallsHold ==
  ASSUME CallIsRight
  PROVE  /\ (DistinctClasses /\ FieldsHaveNames => ListedIsSelectable)'
         /\ (FieldsHaveNames => KeyOfTheClass)'
<1>1. /\ Selectable(last)' => ListedIsSelectable'
      /\ KeyIsRight(last)' => KeyOfTheClass'
  BY PropertiesOfTheCall, PTL
<1>2. (DistinctClasses' => DistinctClasses) /\ (FieldsHaveNames' => FieldsHaveNames)
  BY NamesStay DEF CallIsRight
<1>3. QED
  BY <1>1, <1>2, NextCall DEF CallIsRight

(* As long as nothing is called, the state functions of the metadata and   *)
(* of the last call keep their values.                                     *)
LEMMA Stuttering ==
  ASSUME UNCHANGED viewVars
  PROVE  /\ ListedIsSelectable => ListedIsSelectable'
         /\ KeyOfTheClass => KeyOfTheClass'
         /\ DistinctClasses' => DistinctClasses
         /\ FieldsHaveNames' => FieldsHaveNames
<1>1. UNCHANGED config /\ UNCHANGED last
  BY DEF viewVars
<1>2. /\ Selectable(last)' => ListedIsSelectable'
      /\ KeyIsRight(last)' => KeyOfTheClass'
  BY PropertiesOfTheCall, PTL
<1>3. QED
  BY <1>1, <1>2, NamesStay, NextCall, PropertiesOfTheCall

(* If the names in use tell resources and classes apart and every field    *)
(* has a system name of its own, what SQLTables and SQLColumns list is     *)
(* found again, and is complete, whatever names are missing.               *)
THEOREM ListedNamesCanBeSelected ==
  ViewSpec => [](DistinctClasses /\ FieldsHaveNames => ListedIsSelectable)
<1>1. Session /\ (DistinctClasses /\ FieldsHaveNames => ListedIsSelectable)
        /\ [ViewNext]_viewVars => (DistinctClasses /\ FieldsHaveNames => ListedIsSelectable)'
  BY EveryCall, RightCallsHold, Stuttering
<1>2. QED
  BY <1>1, Initially, SessionStays, PTL DEF ViewSpec

(* If every field has a system name of its own, the primary key of a table *)
(* is the key field of its resource, in every class that has it and        *)
(* whatever was loaded before.  Resources and classes may share names.     *)
THEOREM KeysAreOfTheClass == ViewSpec => [](FieldsHaveNames => KeyOfTheClass)
<1>1. Session /\ (FieldsHaveNames => KeyOfTheClass) /\ [ViewNext]_viewVars
        => (FieldsHaveNames => KeyOfTheClass)'
  BY EveryCall, RightCallsHold, Stuttering
<1>2. QED
  BY <1>1, Initially, SessionStays, PTL DEF ViewSpec

================================================================================
