------------------------------- MODULE EzColumn --------------------------------
(***************************************************************************)
(* A column of a result set: the type and the sizes it is described with   *)
(* (Column, RetsColumn) and the translator of its values (DataTranslator), *)
(* which depend on the field of the RETS metadata behind it and on three   *)
(* settings of the data source.  EzTypes describes columns, EzTranslate    *)
(* converts their values.                                                  *)
(*                                                                         *)
(* ODBC types are strings, named without SQL_.  The C types that have the  *)
(* number of an SQL type (SQL_C_CHAR is SQL_CHAR) go by the SQL type's.    *)
(***************************************************************************)
EXTENDS Integers, FiniteSets

CONSTANTS
  Fields,     \* [type, interp, length, precision, separator] of the metadata
  Settings    \* the three settings below: a set of triples of Booleans

RetsType == {"BOOLEAN", "DATE", "DATE_TIME", "TIME", "TINY", "SMALL", "INT",
             "LONG", "DECIMAL", "CHARACTER"}

(* What fits into a SQLSMALLINT.                                           *)
Digits == 0 .. 32767

(* The metadata of a server can be of any field; lengths and precisions    *)
(* are what it says.                                                       *)
ASSUME FieldsAssumption ==
  Fields \subseteq [type : RetsType, interp : {"NONE", "LOOKUP", "LOOKUP_MULTI"},
                    length : Int, precision : Digits, separator : BOOLEAN]

VARIABLES
  mIgnoreMetadataType,
  mTreatDecimalAsString,
  mUseCompactFormat,
  field       \* the field of the RETS metadata the column is made from

columnVars ==
  <<mIgnoreMetadataType, mTreatDecimalAsString, mUseCompactFormat, field>>

ColumnInit ==
  /\ \E s \in Settings :
       /\ mIgnoreMetadataType = s[1]
       /\ mTreatDecimalAsString = s[2]
       /\ mUseCompactFormat = s[3]
  /\ field \in Fields

-----------------------------------------------------------------------------
(* The ODBC headers.                                                       *)
SQL_DATE_LEN == 10
SQL_TIME_LEN == 8
SQL_TIMESTAMP_LEN == 19
SQL_TYPE_TIME == 92

BinaryTypes == {"BINARY", "VARBINARY", "LONGVARBINARY"}

-----------------------------------------------------------------------------
(* Translators: "native", "nativeString" with decimals as strings, and     *)
(* "char" for a data source whose types are not to be trusted.             *)

(* Without a statement, for what does not come out of the server's data.   *)
PlainTranslator == "native"

factory ==
  IF mIgnoreMetadataType THEN "char"
  ELSE IF mTreatDecimalAsString THEN "nativeString" ELSE "native"

(* The types each has a worker for.  The one for characters takes whatever *)
(* is not binary.                                                          *)
NativeWorkers ==
  {"BIT", "DATE", "TIMESTAMP", "TIME", "TINYINT", "C_STINYINT", "SMALLINT",
   "C_SSHORT", "INTEGER", "C_SLONG", "BIGINT", "C_SBIGINT", "VARCHAR", "CHAR",
   "DOUBLE", "NUMERIC", "C_ULONG", "C_USHORT"} \cup BinaryTypes

Workers(dt) == IF dt = "nativeString" THEN NativeWorkers
               ELSE NativeWorkers \cup {"DECIMAL"}

HasWorker(dt, type) == dt = "char" \/ type \in Workers(dt)

Rets2Odbc ==
  [BOOLEAN |-> "BIT", DATE |-> "DATE", DATE_TIME |-> "TIMESTAMP", TIME |-> "TIME",
   TINY |-> "TINYINT", SMALL |-> "SMALLINT", INT |-> "INTEGER", LONG |-> "BIGINT",
   DECIMAL |-> "DECIMAL", CHARACTER |-> "VARCHAR"]

getPreferedOdbcType(dt, type) ==
  IF dt = "char" \/ (dt = "nativeString" /\ type = "DECIMAL") THEN "VARCHAR"
  ELSE Rets2Odbc[type]

(* Names and lengths are those of the worker.                              *)
NativeName(type) ==
  CASE type = "BIT" -> "BOOLEAN"
    [] type = "TIMESTAMP" -> "DATE_TIME"
    [] type \in {"TINYINT", "C_STINYINT"} -> "TINY"
    [] type \in {"SMALLINT", "C_SSHORT"} -> "SMALL"
    [] type \in {"INTEGER", "C_SLONG"} -> "INT"
    [] type \in {"BIGINT", "C_SBIGINT"} -> "LONG"
    [] type \in {"VARCHAR", "CHAR"} -> "CHARACTER"
    [] type \in BinaryTypes -> "LONG VARBINARY"
    [] type = "C_ULONG" -> "ULONG"
    [] type = "C_USHORT" -> "USHORT"
    [] OTHER -> type

getOdbcTypeName(dt, type) ==
  IF dt = "char" THEN IF type \in BinaryTypes THEN "LONG VARBINARY" ELSE "CHARACTER"
  ELSE IF type \in Workers(dt) THEN NativeName(type) ELSE "VARCHAR"

(* Numbers take the bytes of their C type; a decimal is one character.     *)
NativeLength(type) ==
  CASE type \in {"BIT", "TINYINT", "C_STINYINT", "DECIMAL"} -> 1
    [] type \in {"SMALLINT", "C_SSHORT", "C_USHORT"} -> 2
    [] type \in {"INTEGER", "C_SLONG", "C_ULONG"} -> 4
    [] type \in {"BIGINT", "C_SBIGINT", "DOUBLE"} -> 8
    [] type = "NUMERIC" -> 19
    [] type = "DATE" -> SQL_DATE_LEN
    [] type = "TIMESTAMP" -> SQL_TIMESTAMP_LEN
    [] type = "TIME" -> SQL_TIME_LEN
    [] OTHER -> -1

getOdbcTypeLength(dt, type) ==
  IF dt # "char" /\ type \in Workers(dt) THEN NativeLength(type) ELSE -1

-----------------------------------------------------------------------------
(* The column.                                                             *)

IsLookupColumn == field.interp # "NONE"

(* The application gets the long values of lookups.                        *)
Decoded == IsLookupColumn /\ ~mUseCompactFormat

(* A lookup is text, whatever the type of its field.                       *)
getDataType ==
  IF IsLookupColumn THEN "VARCHAR" ELSE getPreferedOdbcType(factory, field.type)

(* What the column is converted to: by default its RETS type.              *)
getBestSqlType(target) ==
  IF target = "C_DEFAULT" THEN getPreferedOdbcType(factory, field.type)
  ELSE target

(* A long value and a NUL, or twenty long values.                          *)
lookupSizeHelper == IF field.interp = "LOOKUP" THEN 129 ELSE 2561

(* For a time, the number of the type is returned for its length.          *)
columnSizeHelper(type, length) ==
  CASE type = "TIMESTAMP" -> SQL_TIMESTAMP_LEN
    [] type = "DATE" -> SQL_DATE_LEN
    [] type = "TIME" -> SQL_TYPE_TIME
    [] OTHER -> length

getColumnSize ==
  IF Decoded THEN lookupSizeHelper
  ELSE columnSizeHelper(getPreferedOdbcType(factory, field.type), field.length)

(* Lengths the servers get wrong are known; others they do not give are    *)
(* replaced.                                                               *)
getMaximumLength ==
  CASE Decoded -> lookupSizeHelper
    [] ~Decoded /\ field.type = "BOOLEAN" -> 5
    [] ~Decoded /\ field.type = "DATE" -> 10
    [] ~Decoded /\ field.type = "DATE_TIME" -> 19
    [] ~Decoded /\ field.type = "TIME" -> 12
    [] OTHER -> IF field.length # 0 THEN field.length
                ELSE IF field.type = "CHARACTER" THEN 640 ELSE 32

(* The digits after the point: those of the metadata for a decimal (or a   *)
(* double, which no field is), milliseconds for a timestamp.               *)
getPrecision ==
  CASE getPreferedOdbcType(factory, field.type) = "TIMESTAMP" -> 3
    [] getPreferedOdbcType(factory, field.type) \in {"DECIMAL", "DOUBLE"} -> field.precision
    [] OTHER -> 0

(* And those of the metadata, whatever the type.                           *)
getDecimalDigits == field.precision

================================================================================
