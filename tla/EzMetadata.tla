------------------------------ MODULE EzMetadata -------------------------------
(***************************************************************************)
(* The view of a server's metadata (MetadataView) and the functions that   *)
(* answer from it: the catalog functions and the columns of queries.       *)
(*                                                                         *)
(* The metadata are a list of resources, each with a list of classes, each *)
(* with a list of fields (which the RETS metadata call tables).  All have  *)
(* a system name and perhaps a standard name; the data source says which   *)
(* of the two the application uses.  Fields are loaded class by class when *)
(* they are needed, and kept.  A table name is the list of its parts       *)
(* between colons; "" is the empty name.                                   *)
(***************************************************************************)
EXTENDS Integers, Sequences, FiniteSets, FiniteSetsExt, SequencesExt

CONSTANTS
  Metadatas,    \* the metadata a server may have
  Names,        \* names an application may try that are not in them
  LoginURL      \* the URL of the session, the only catalog

(* Lists of resources, classes and fields may be empty.                    *)
IsList(list) == Len(list) \in Nat /\ DOMAIN list = 1 .. Len(list)

ASSUME MetadataAssumption ==
  \A m \in Metadatas :
    /\ IsList(m)
    /\ \A r \in DOMAIN m :
         /\ IsList(m[r].classes)
         /\ \A c \in DOMAIN m[r].classes : IsList(m[r].classes[c].fields)

VARIABLES
  metadata,         \* of the server, as of the login
  mStandardNames,   \* whether the application uses standard names
  mDisableObjects,  \* DisableGetObjectMetadata of the data source
  inited,           \* the classes whose fields are loaded
  last,             \* the last call: function, arguments, return code, rows
  crashed           \* a null pointer of the view was used

config == <<metadata, mStandardNames, mDisableObjects>>
viewVars == <<config, inited, last, crashed>>

NoCall == [fn |-> "none", table |-> <<>>, column |-> "", ret |-> "SUCCESS",
           rows |-> {}]

ViewInit ==
  /\ metadata \in Metadatas
  /\ mStandardNames \in BOOLEAN
  /\ mDisableObjects \in BOOLEAN
  /\ inited = {}
  /\ last = NoCall
  /\ crashed = FALSE

-----------------------------------------------------------------------------
(* The maps of the view.  A later entry of the same name replaces an       *)
(* earlier one; an empty name has no entry.  0 is not found.               *)

NameOf(x, std) == IF std THEN x.std ELSE x.sys

LastNamed(list, name, std) ==
  LET found == {i \in DOMAIN list : NameOf(list[i], std) = name /\ name # ""}
  IN  IF found = {} THEN 0 ELSE Max(found)

(* A class: its place in the list of resources and in that resource.       *)
NoClass == <<0, 0>>
ResourceClassPairs ==
  UNION {{<<r, c>> : c \in DOMAIN metadata[r].classes} : r \in DOMAIN metadata}
ResourceOf(pair) == metadata[pair[1]]
ClassOf(pair) == metadata[pair[1]].classes[pair[2]]
FieldsOf(pair) == ClassOf(pair).fields

getResource(name) == LastNamed(metadata, name, mStandardNames)

getClass(rname, cname) ==
  LET r == getResource(rname)
      c == IF r = 0 THEN 0
           ELSE LastNamed(metadata[r].classes, cname, mStandardNames)
  IN  IF c = 0 THEN NoClass ELSE <<r, c>>

(* Faulty: nothing is loaded.                                              *)
FaultyAfterInit(pair) == inited

(* The classes that are loaded once the fields of this one were asked for. *)
AfterInit(pair) == inited \cup {pair}

getTable(pair, name, std, loaded) ==
  IF pair \notin loaded THEN 0 ELSE LastNamed(FieldsOf(pair), name, std)

(* The resource and the class of a table: the second and the third part of *)
(* its name, whatever the first is.                                        *)
Part(table, n) == IF n \in DOMAIN table THEN table[n] ELSE ""
getResourceClassPairBySQLTable(table) == getClass(Part(table, 2), Part(table, 3))

(* The name of a data table, <<>> if the resource or the class has none.   *)
makeSQLDataTableName(pair) ==
  LET resName == NameOf(ResourceOf(pair), mStandardNames)
      className == NameOf(ClassOf(pair), mStandardNames)
  IN  IF resName = "" \/ className = "" THEN <<>>
      ELSE <<"data", resName, className>>

(* Object tables always go by the system name.                             *)
makeSQLObjectTableName(r, type) ==
  IF metadata[r].sys = "" THEN <<>> ELSE <<"object", type, metadata[r].sys>>

IsLookup(field) == field.lookup # ""

-----------------------------------------------------------------------------
(* Answers.                                                                *)

Answered(fn, table, column, ret, rows) ==
  last' = [fn |-> fn, table |-> table, column |-> column, ret |-> ret, rows |-> rows]

(* The call uses a null pointer.                                           *)
Crash(fn, table, column) ==
  /\ crashed' = TRUE
  /\ Answered(fn, table, column, "ERROR", {})
  /\ UNCHANGED <<config, inited>>

(* An answer for which nothing had to be loaded.                           *)
Plain(fn, table, column, ret, rows) ==
  /\ Answered(fn, table, column, ret, rows)
  /\ UNCHANGED <<config, inited, crashed>>

(* "%" stands for all, like no name at all.                                *)
AllOr(table) == IF table = <<"%">> THEN <<>> ELSE table
IsPattern(table) == "%" \in Range(table)

Row(table, column) == [table |-> table, column |-> column]

-----------------------------------------------------------------------------
(* SQLTables.                                                              *)

getSQLDataTableMetadata ==
  {Row(makeSQLDataTableName(p), "") :
     p \in {q \in ResourceClassPairs : makeSQLDataTableName(q) # <<>>}}

getSQLObjectTableMetadata ==
  UNION {{Row(makeSQLObjectTableName(r, type), "") : r \in DOMAIN metadata} :
           type \in {"location", "binary"}}

(* One data table by its name.                                             *)
DataTable(table) ==
  IF getResourceClassPairBySQLTable(table) = NoClass THEN {} ELSE {Row(table, "")}

(* Any other table is taken for an object table: its third part is looked  *)
(* up as a resource, and the result is used without a check.               *)
ObjectTable(table) ==
  IF Part(table, 3) = "" THEN Plain("SQLTables", table, "", "SUCCESS", {})
  ELSE IF getResource(Part(table, 3)) = 0 THEN Crash("SQLTables", table, "")
  ELSE Plain("SQLTables", table, "", "SUCCESS", {Row(table, "")})

(* The special lists (all catalogs, all schemas: one row without names;    *)
(* all table types: TABLE), then what there is none of, then the tables.   *)
SQLTables(catalog, schema, name, type) ==
  LET table == AllOr(name)
      Empty == Plain("SQLTables", table, "", "SUCCESS", {})
      special == table = <<>> /\ {catalog, schema} = {"%", ""}
      types == table = <<>> /\ catalog = "" /\ schema = "" /\ type = "%"
  IN  IF special \/ types
      THEN Plain("SQLTables", table, "", "SUCCESS", {Row(<<>>, "")})
      ELSE IF type \notin {"", "TABLE"} THEN Empty
      ELSE IF catalog \notin {"", LoginURL} \/ schema # "" THEN Empty
      ELSE IF IsPattern(table)
      THEN Plain("SQLTables", table, "", "ERROR", {})
      ELSE IF table = <<>>
      THEN Plain("SQLTables", table, "", "SUCCESS",
                 getSQLDataTableMetadata
                   \cup IF mDisableObjects THEN {} ELSE getSQLObjectTableMetadata)
      ELSE IF table[1] = "data" /\ Len(table) > 1
      THEN Plain("SQLTables", table, "", "SUCCESS", DataTable(table))
      ELSE ObjectTable(table)

-----------------------------------------------------------------------------
(* SQLColumns.                                                             *)

(* Faulty: the columns go by their system names.                           *)
FaultyProcessColumn(pair, k) ==
  LET table == makeSQLDataTableName(pair)
      column == FieldsOf(pair)[k].sys
  IN  IF table = <<>> THEN {} ELSE {Row(table, column)}

(* The row of a field: none if table or column has no standard name.       *)
processColumn(pair, k) ==
  LET table == makeSQLDataTableName(pair)
      column == NameOf(FieldsOf(pair)[k], mStandardNames)
  IN  IF table = <<>> \/ (mStandardNames /\ column = "") THEN {}
      ELSE {Row(table, column)}

(* The classes a table name is about: all, one, or none.                   *)
PairsOf(table) ==
  IF table = <<>> THEN ResourceClassPairs
  ELSE IF table[1] = "data" /\ Len(table) > 1
          /\ getResourceClassPairBySQLTable(table) # NoClass
  THEN {getResourceClassPairBySQLTable(table)} ELSE {}

(* All columns, class by class; or the one of that name in each class,     *)
(* where a class without it is a null pointer.                             *)
SQLColumns(name, columnName) ==
  LET table == AllOr(name)
      column == IF columnName = "%" THEN "" ELSE columnName
      pairs == PairsOf(table)
      loaded == UNION {AfterInit(p) : p \in pairs} \cup inited
      lacking(p) == getTable(p, column, mStandardNames, loaded) = 0
                      /\ makeSQLDataTableName(p) # <<>>
      rowsOf(p) == IF column = "" THEN UNION {processColumn(p, k) : k \in DOMAIN FieldsOf(p)}
                   ELSE processColumn(p, getTable(p, column, mStandardNames, loaded))
  IN  IF IsPattern(table) \/ column = "like%"
      THEN Plain("SQLColumns", table, column, "ERROR", {})
      ELSE IF column # "" /\ \E p \in pairs : lacking(p)
      THEN Crash("SQLColumns", table, column)
      ELSE /\ inited' = loaded
           /\ Answered("SQLColumns", table, column, "SUCCESS",
                       UNION {rowsOf(p) :
                                p \in {q \in pairs : makeSQLDataTableName(q) # <<>>}})
           /\ UNCHANGED <<config, crashed>>

-----------------------------------------------------------------------------
(* Keys.                                                                   *)

(* The key field of a table's resource, which goes by its system name, in  *)
(* the table's class; its name as the application uses names.              *)
KeyRows(table, loaded) ==
  LET pair == getResourceClassPairBySQLTable(table)
      k == IF pair = NoClass THEN 0
           ELSE getTable(pair, ResourceOf(pair).key, FALSE, loaded)
  IN  IF k = 0 THEN {} ELSE {Row(table, NameOf(FieldsOf(pair)[k], mStandardNames))}

LoadedFor(table) ==
  LET pair == getResourceClassPairBySQLTable(table)
  IN  IF pair = NoClass THEN inited ELSE AfterInit(pair)

(* There are no catalogs in the tables' names, also not the one SQLTables  *)
(* accepts.                                                                *)
SQLPrimaryKeys(catalog, table) ==
  IF catalog # "" THEN Plain("SQLPrimaryKeys", table, catalog, "ERROR", {})
  ELSE /\ inited' = LoadedFor(table)
       /\ Answered("SQLPrimaryKeys", table, "", "SUCCESS",
                   KeyRows(table, LoadedFor(table)))
       /\ UNCHANGED <<config, crashed>>

(* Only the best identifier of the current row, nulls allowed, is known.   *)
SQLSpecialColumns(table, best) ==
  IF ~best THEN Plain("SQLSpecialColumns", table, "", "SUCCESS", {})
  ELSE /\ inited' = LoadedFor(table)
       /\ Answered("SQLSpecialColumns", table, "best", "SUCCESS",
                   KeyRows(table, LoadedFor(table)))
       /\ UNCHANGED <<config, crashed>>

SQLStatistics(table) == Plain("SQLStatistics", table, "", "SUCCESS", {})

-----------------------------------------------------------------------------
(* The columns of queries.                                                 *)

(* The columns of SELECT * from a class: the fields that have a name.      *)
StarColumns(pair) ==
  {NameOf(FieldsOf(pair)[k], mStandardNames) : k \in DOMAIN FieldsOf(pair)} \ {""}

(* data:resource:class; an unknown class or field is an error.             *)
SelectData(table, field) ==
  LET pair == getClass(Part(table, 2), Part(table, 3))
      loaded == AfterInit(pair)
  IN  IF pair = NoClass THEN Plain("SelectData", table, field, "ERROR", {})
      ELSE /\ inited' = loaded
           /\ IF field # "" /\ getTable(pair, field, mStandardNames, loaded) = 0
              THEN Answered("SelectData", table, field, "ERROR", {})
              ELSE Answered("SelectData", table, field, "SUCCESS",
                            {Row(table, c) : c \in
                               IF field = "" THEN StarColumns(pair) ELSE {field}})
           /\ UNCHANGED <<config, crashed>>

(* count( * ) needs the class only.                                        *)
SelectCount(table) ==
  LET pair == getClass(Part(table, 2), Part(table, 3))
  IN  Plain("SelectCount", table, "", IF pair = NoClass THEN "ERROR" ELSE "SUCCESS", {})

(* lookup:resource:name.  The resource is used without a check; a lookup   *)
(* the resource does not have is an error.                                 *)
SelectLookup(table) ==
  LET r == getResource(Part(table, 2))
  IN  IF r = 0 THEN Crash("SelectLookup", table, "")
      ELSE Plain("SelectLookup", table, "",
                 IF Part(table, 3) \in metadata[r].lookups THEN "SUCCESS" ELSE "ERROR",
                 {})

(* lookupcolumns:resource:class, the fields that are lookups.              *)
SelectLookupColumns(table) ==
  LET pair == getClass(Part(table, 2), Part(table, 3))
      lookups == {k \in DOMAIN FieldsOf(pair) : IsLookup(FieldsOf(pair)[k])}
  IN  IF pair = NoClass THEN Plain("SelectLookupColumns", table, "", "ERROR", {})
      ELSE /\ inited' = AfterInit(pair)
           /\ Answered("SelectLookupColumns", table, "", "SUCCESS",
                       {Row(table, NameOf(FieldsOf(pair)[k], mStandardNames)) :
                          k \in lookups})
           /\ UNCHANGED <<config, crashed>>

-----------------------------------------------------------------------------
(* What an application asks for: names the driver has listed, names made   *)
(* as the documentation says, and others.                                  *)
DataTables == {row.table : row \in getSQLDataTableMetadata}
ListedTables == DataTables \cup {row.table : row \in getSQLObjectTableMetadata}
ResourceNames == {NameOf(metadata[r], mStandardNames) : r \in DOMAIN metadata} \cup Names
LookupTables ==
  {<<"lookup", r, l>> : r \in ResourceNames,
                        l \in UNION {metadata[r].lookups : r \in DOMAIN metadata} \cup Names}
ClassNames == {NameOf(ClassOf(p), mStandardNames) : p \in ResourceClassPairs} \cup Names
ClassTables(prefix) == {<<prefix, r, c>> : r \in ResourceNames, c \in ClassNames}
Tables == ListedTables \cup LookupTables \cup ClassTables("data")
            \cup {<<>>, <<"%">>, <<"data", "%">>} \cup {<<n>> : n \in Names}
FieldNames ==
  UNION {StarColumns(p) : p \in ResourceClassPairs} \cup Names \cup {"", "%", "like%"}

ViewNext ==
  /\ ~crashed
  /\ \/ \E catalog \in {"", "%", LoginURL}, schema \in {"", "%"},
           type \in {"", "%", "TABLE", "VIEW"} :
          SQLTables(catalog, schema, <<>>, type)
     \/ \E table \in Tables :
          \/ SQLTables("", "", table, "TABLE")
          \/ \E catalog \in {"", LoginURL} : SQLPrimaryKeys(catalog, table)
          \/ SQLStatistics(table)
          \/ \E best \in BOOLEAN : SQLSpecialColumns(table, best)
          \/ \E column \in FieldNames : SQLColumns(table, column)
     \/ \E table \in ClassTables("data") :
          \/ SelectCount(table)
          \/ \E field \in FieldNames \ {"%", "like%"} : SelectData(table, field)
     \/ \E table \in LookupTables : SelectLookup(table)
     \/ \E table \in ClassTables("lookupcolumns") : SelectLookupColumns(table)

ViewSpec == ViewInit /\ [][ViewNext]_viewVars

-----------------------------------------------------------------------------
(* Properties.                                                             *)

(* What is listed can be asked for.  A data table that SQLTables lists is  *)
(* found again by its name, and is then the class it was listed for.       *)
(* Every column SQLColumns lists can be selected from the table it is      *)
(* listed with, and for a table without a column name it lists all columns *)
(* SELECT * has.                                                           *)
ListedIsSelectable ==
  /\ last.fn = "SQLTables" =>
       \A row \in last.rows :
         row.table # <<>> /\ row.table[1] = "data" =>
           LET pair == getResourceClassPairBySQLTable(row.table)
           IN  pair # NoClass /\ makeSQLDataTableName(pair) = row.table
  /\ last.fn = "SQLColumns" =>
       /\ \A row \in last.rows :
            row.column \in StarColumns(getResourceClassPairBySQLTable(row.table))
       /\ last.ret = "SUCCESS" /\ last.table \in DataTables /\ last.column = "" =>
            LET pair == PairsOf(last.table)
            IN  {row.column : row \in last.rows} = UNION {StarColumns(p) : p \in pair}

(* A table whose class has the key field of its resource has that field as *)
(* its primary key and best row identifier, by whatever calls the fields   *)
(* of the class were loaded, or not, before.                               *)
KeyOfTheClass ==
  (\/ last.fn = "SQLPrimaryKeys" /\ last.ret = "SUCCESS"
   \/ last.fn = "SQLSpecialColumns" /\ last.column = "best") =>
    LET pair == getResourceClassPairBySQLTable(last.table)
        keys == IF pair = NoClass THEN {}
                ELSE {k \in DOMAIN FieldsOf(pair) :
                        FieldsOf(pair)[k].sys = ResourceOf(pair).key}
    IN  {row.column : row \in last.rows}
          = {NameOf(FieldsOf(pair)[k], mStandardNames) : k \in keys}

(* A table name that is not in the metadata is an error or has no rows; it *)
(* is not the end of the application (NEWS:395, NEWS:439).  The driver     *)
(* looks up the resource of an object table or of a lookup and uses what   *)
(* it finds, without asking whether it found one; under standard names     *)
(* this happens with object tables it has listed itself, by system names.  *)
TableNamesDoNotCrash == last.fn \in {"SQLTables", "SelectLookup"} => ~crashed

================================================================================
