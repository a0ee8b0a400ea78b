-------------------------------- MODULE EzTypes --------------------------------
(***************************************************************************)
(* What an application is told of the type and the size of a column, by    *)
(* SQLColumns, SQLSpecialColumns, SQLDescribeCol and SQLColAttribute, and  *)
(* of the types there are, by SQLGetTypeInfo.  Five places compute the     *)
(* same facts, most of them with code of their own.  They change nothing:  *)
(* each is the answer it gives for the column of EzColumn.                 *)
(***************************************************************************)
EXTENDS EzColumn

(* An answer has the items it tells; "-" and -1 are not told.              *)
Told == [type |-> "-", name |-> "-", size |-> -1, buffer |-> -1, precision |-> -1,
         sqlType |-> "-"]

-----------------------------------------------------------------------------
(* A row of SQLColumns: everything from a column made for it.  The verbose *)
(* type is told for dates and times only, and not for timestamps: the      *)
(* type is compared with the length of one, 19.                            *)
RowOfSQLColumns ==
  [Told EXCEPT
    !.type = getDataType,
    !.name = getOdbcTypeName(factory, getDataType),
    !.size = getMaximumLength,
    !.buffer = IF getDataType \in {"VARCHAR", "CHAR"} THEN getMaximumLength
               ELSE getOdbcTypeLength(factory, getDataType),
    !.precision = getPrecision,
    !.sqlType = IF getDataType \in {"DATE", "TIME"} THEN "DATETIME" ELSE getDataType]

(* The key of a table, straight from its field.                            *)
RowOfSQLSpecialColumns ==
  LET type == getPreferedOdbcType(factory, field.type)
  IN  [Told EXCEPT
        !.type = type,
        !.name = getOdbcTypeName(factory, type),
        !.size = field.length,
        !.buffer = IF type \in {"VARCHAR", "CHAR"} THEN field.length
                   ELSE getOdbcTypeLength(factory, type),
        !.precision = IF type \in {"DECIMAL", "DOUBLE", "TIMESTAMP"}
                      THEN getPrecision ELSE -1]

(* Faulty: a lookup is described with the type of its field.               *)
FaultySQLDescribeCol ==
  [Told EXCEPT !.type = getPreferedOdbcType(factory, field.type), !.size = getColumnSize,
               !.precision = getDecimalDigits]

(* The digits it tells are those of the metadata, of any type.             *)
SQLDescribeCol ==
  [Told EXCEPT !.type = getDataType, !.size = getColumnSize, !.precision = getDecimalDigits]

Attributes == {"TYPE", "CONCISE_TYPE", "TYPE_NAME", "DISPLAY_SIZE", "LENGTH",
               "OCTET_LENGTH", "PRECISION"}

(* One item of a column.                                                   *)
SQLColAttribute(item) ==
  LET type == getDataType
  IN  CASE item \in {"TYPE", "CONCISE_TYPE"} -> [Told EXCEPT !.type = type]
        [] item = "TYPE_NAME" -> [Told EXCEPT !.name = getOdbcTypeName(factory, type)]
        [] item = "DISPLAY_SIZE" -> [Told EXCEPT !.size = getMaximumLength]
        [] item = "LENGTH" ->
             [Told EXCEPT !.buffer = IF type \in {"VARCHAR", "CHAR", "LONGVARBINARY"}
                                     THEN getMaximumLength
                                     ELSE getOdbcTypeLength(factory, type)]
        [] item = "OCTET_LENGTH" ->
             [Told EXCEPT !.buffer = IF type \in {"DATE", "TIME"}
                                     THEN getOdbcTypeLength(factory, type)
                                     ELSE getMaximumLength]
        [] item = "PRECISION" ->
             [Told EXCEPT !.precision =
                IF type \in {"DECIMAL", "DOUBLE", "TIMESTAMP"} THEN getPrecision ELSE 0]

-----------------------------------------------------------------------------
ListedTypes ==
  {"BIT", "TINYINT", "BIGINT", "CHAR", "DECIMAL", "INTEGER", "SMALLINT", "DOUBLE",
   "VARCHAR", "DATE", "TIME", "TIMESTAMP"}

(* A row of SQLGetTypeInfo, from the native translator.                    *)
getSQLGetTypeInfoRow(type) ==
  [type |-> type, name |-> getOdbcTypeName(PlainTranslator, type),
   size |-> IF type \in {"CHAR", "VARCHAR"} THEN 16384
            ELSE getOdbcTypeLength(PlainTranslator, type),
   sqlType |-> IF type \in {"DATE", "TIME", "TIMESTAMP"} THEN "DATETIME" ELSE type]

(* All types, or one; a type there is not is a warning and no rows.        *)
SQLGetTypeInfo(type) ==
  LET types == {t \in ListedTypes : type \in {t, "ALL_TYPES"}}
  IN  [rows |-> {getSQLGetTypeInfoRow(t) : t \in types},
       ret |-> IF types = {} THEN "SUCCESS_WITH_INFO" ELSE "SUCCESS"]

-----------------------------------------------------------------------------
(* Properties: what is told of every column there can be.                  *)

(* The key of its table is described by SQLSpecialColumns as well; that a  *)
(* lookup is text is unknown there.                                        *)
Descriptions ==
  {RowOfSQLColumns, SQLDescribeCol} \cup {SQLColAttribute(item) : item \in Attributes}
    \cup IF IsLookupColumn THEN {} ELSE {RowOfSQLSpecialColumns}

AgreeOn(values, untold) == Cardinality(values \ {untold}) <= 1

Agree ==
  /\ AgreeOn({a.type : a \in Descriptions}, "-")
  /\ AgreeOn({a.name : a \in Descriptions}, "-")

(* Where the digits after the point are the same.                          *)
AgreeOnDigits ==
  /\ ~(IsLookupColumn /\ field.type \in {"DECIMAL", "DATE_TIME"})
       => AgreeOn({a.precision : a \in Descriptions \ {SQLDescribeCol}}, -1)
  /\ SQLDescribeCol.precision = RowOfSQLColumns.precision
       <=> \/ getPreferedOdbcType(factory, field.type) = "DECIMAL"
           \/ field.precision = IF getPreferedOdbcType(factory, field.type) = "TIMESTAMP"
                                THEN 3 ELSE 0

Listed ==
  \A type \in {"ALL_TYPES", RowOfSQLColumns.type} :
    /\ SQLGetTypeInfo(type).ret = "SUCCESS"
    /\ \E row \in SQLGetTypeInfo(type).rows :
         row.type = RowOfSQLColumns.type /\ row.name = RowOfSQLColumns.name

(* The longest text of a column, as the RETS specification has them.       *)
LongestText ==
  CASE Decoded -> 128
    [] ~Decoded /\ field.type = "BOOLEAN" -> 1
    [] ~Decoded /\ field.type = "DATE" -> 10
    [] ~Decoded /\ field.type = "TIME" -> 12
    [] ~Decoded /\ field.type = "DATE_TIME" -> 19
    [] OTHER -> field.length

(* All functions tell the same type and type name of a column, whichever   *)
(* an application asks, under every combination of settings; it is a type  *)
(* SQLGetTypeInfo lists, by the same name; and texts fit into the size     *)
(* SQLColumns and SQL_DESC_DISPLAY_SIZE tell.  (Two do not: timestamps     *)
(* with milliseconds that are delivered as text, and lists of twenty of    *)
(* the longest lookup values with the commas between.)                     *)
(* The functions do NOT all tell the same digits after the point.  Those   *)
(* that decide by the type agree with each other, but for a lookup whose   *)
(* field is a decimal or a timestamp: SQLColumns tells the digits of the   *)
(* field, SQLColAttribute those of a text.  SQLDescribeCol gives the       *)
(* precision of the metadata for columns of any type, and that is what     *)
(* SQLColumns tells exactly if the column is converted to a decimal, or    *)
(* the metadata happen to say 3 for a timestamp and 0 for all else.        *)
DescriptionsAgree ==
  /\ Agree
  /\ AgreeOnDigits
  /\ Listed
  /\ \A a \in {RowOfSQLColumns, SQLColAttribute("DISPLAY_SIZE")} : a.size >= LongestText

================================================================================
