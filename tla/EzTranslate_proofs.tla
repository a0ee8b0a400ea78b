-------------------------- MODULE EzTranslate_proofs --------------------------
(***************************************************************************)
(* Proofs about EzTranslate and EzTypes, for any fields, texts and types   *)
(* an application asks for, and bytes of any number of values.             *)
(*                                                                         *)
(* The properties of EzTranslate are about the last call.  What a call     *)
(* converts is told by four facts of setData, the lemmas Delivered,        *)
(* NullsSayNothing, MissingIsNull and RightArrives, each by the worker     *)
(* that converts; the theorems follow by the calls.                        *)
(***************************************************************************)
EXTENDS EzTranslate, EzTypes, FiniteSetTheorems, TLAPS

(* The field is one of the metadata and the data are a text.               *)
Known == field \in Fields /\ data \in Text

-----------------------------------------------------------------------------
(* The column.                                                             *)

(* The types of columns.                                                   *)
OdbcTypes == {"BIT", "DATE", "TIMESTAMP", "TIME", "TINYINT", "SMALLINT", "INTEGER",
              "BIGINT", "DECIMAL", "VARCHAR"}

LEMMA FieldTypes ==
  ASSUME field \in Fields
  PROVE  /\ field.type \in RetsType
         /\ field.length \in Int
         /\ field.precision \in Int
         /\ field.interp \in {"NONE", "LOOKUP", "LOOKUP_MULTI"}
         /\ field.separator \in BOOLEAN
<1>1. Digits \subseteq Int
  BY DEF Digits
<1> QED
  BY <1>1, FieldsAssumption

LEMMA Factories == factory \in {"char", "nativeString", "native"}
BY DEF factory

LEMMA OdbcTypeOf ==
  ASSUME NEW dt, NEW type \in RetsType
  PROVE  Rets2Odbc[type] \in OdbcTypes /\ getPreferedOdbcType(dt, type) \in OdbcTypes
BY DEF RetsType, Rets2Odbc, OdbcTypes, getPreferedOdbcType

LEMMA DataTypes ==
  ASSUME field \in Fields
  PROVE  getDataType \in OdbcTypes
BY FieldTypes, OdbcTypeOf DEF getDataType, OdbcTypes

-----------------------------------------------------------------------------
(* What is told of a column.                                               *)

LEMMA OneValue ==
  ASSUME NEW values, NEW untold, NEW told, values \subseteq {untold, told}
  PROVE  AgreeOn(values, untold)
<1>1. IsFiniteSet({told}) /\ Cardinality({told}) = 1
  BY FS_Singleton
<1>2. values \ {untold} \subseteq {told}
  OBVIOUS
<1>3. Cardinality(values \ {untold}) <= Cardinality({told})
      /\ Cardinality(values \ {untold}) \in Nat
  BY <1>1, <1>2, FS_Subset, FS_CardinalityType
<1> QED
  BY <1>1, <1>3 DEF AgreeOn

(* The precision the attribute of a column tells.                          *)
TextPrecision ==
  IF getDataType \in {"DECIMAL", "DOUBLE", "TIMESTAMP"} THEN getPrecision ELSE 0

LEMMA Attribute ==
  ASSUME NEW item \in Attributes
  PROVE  /\ SQLColAttribute(item).type \in {"-", getDataType}
         /\ SQLColAttribute(item).name \in {"-", getOdbcTypeName(factory, getDataType)}
         /\ SQLColAttribute(item).precision \in {-1, TextPrecision}
         /\ item = "DISPLAY_SIZE" => SQLColAttribute(item).size = getMaximumLength
<1> DEFINE type == getDataType
           precision == TextPrecision
           name == getOdbcTypeName(factory, getDataType)
           size == getMaximumLength
           buffer1 == IF type \in {"VARCHAR", "CHAR", "LONGVARBINARY"}
                      THEN getMaximumLength ELSE getOdbcTypeLength(factory, type)
           buffer2 == IF type \in {"DATE", "TIME"}
                      THEN getOdbcTypeLength(factory, type) ELSE getMaximumLength
<1>1. SQLColAttribute(item) =
        CASE item \in {"TYPE", "CONCISE_TYPE"} -> [Told EXCEPT !.type = type]
          [] item = "TYPE_NAME" -> [Told EXCEPT !.name = name]
          [] item = "DISPLAY_SIZE" -> [Told EXCEPT !.size = size]
          [] item = "LENGTH" -> [Told EXCEPT !.buffer = buffer1]
          [] item = "OCTET_LENGTH" -> [Told EXCEPT !.buffer = buffer2]
          [] item = "PRECISION" -> [Told EXCEPT !.precision = precision]
  BY Zenon DEF SQLColAttribute, TextPrecision
<1> HIDE DEF type, precision, name, size, buffer1, buffer2
<1>2. /\ SQLColAttribute(item).type \in {"-", type}
      /\ SQLColAttribute(item).name \in {"-", name}
      /\ SQLColAttribute(item).precision \in {-1, precision}
      /\ item = "DISPLAY_SIZE" => SQLColAttribute(item).size = size
  BY <1>1 DEF Attributes, Told
<1> QED
  BY <1>2, Zenon DEF type, precision, name, size

LEMMA ColumnsRow ==
  /\ RowOfSQLColumns.type = getDataType
  /\ RowOfSQLColumns.name = getOdbcTypeName(factory, getDataType)
  /\ RowOfSQLColumns.precision = getPrecision
  /\ RowOfSQLColumns.size = getMaximumLength
BY DEF RowOfSQLColumns, Told

LEMMA DescribedColumn ==
  /\ SQLDescribeCol.type = getDataType
  /\ SQLDescribeCol.name = "-"
  /\ SQLDescribeCol.precision = field.precision
BY DEF SQLDescribeCol, getDecimalDigits, Told

LEMMA KeyRow ==
  ASSUME ~IsLookupColumn
  PROVE  /\ RowOfSQLSpecialColumns.type = getDataType
         /\ RowOfSQLSpecialColumns.name = getOdbcTypeName(factory, getDataType)
         /\ RowOfSQLSpecialColumns.precision \in {-1, TextPrecision}
BY DEF RowOfSQLSpecialColumns, getDataType, TextPrecision, Told

(* An answer is that of one of the functions.                              *)
LEMMA EachDescription ==
  ASSUME NEW a \in Descriptions
  PROVE  \/ a = RowOfSQLColumns
         \/ a = SQLDescribeCol
         \/ \E item \in Attributes : a = SQLColAttribute(item)
         \/ ~IsLookupColumn /\ a = RowOfSQLSpecialColumns
<1> DEFINE key == IF IsLookupColumn THEN {} ELSE {RowOfSQLSpecialColumns}
<1>1. a \in {RowOfSQLColumns, SQLDescribeCol} \/ a \in {SQLColAttribute(item) : item \in Attributes}
      \/ a \in key
  BY Zenon DEF Descriptions
<1>2. a \in key => ~IsLookupColumn /\ a = RowOfSQLSpecialColumns
  BY Zenon
<1> HIDE DEF key
<1> QED
  BY <1>1, <1>2, Zenon

LEMMA Precisions ==
  ASSUME field \in Fields, ~(IsLookupColumn /\ field.type \in {"DECIMAL", "DATE_TIME"})
  PROVE  TextPrecision = getPrecision
<1>1. field.type \in RetsType
  BY FieldTypes
<1>2. CASE IsLookupColumn
  <2>1. getPreferedOdbcType(factory, field.type) \notin {"DECIMAL", "DOUBLE", "TIMESTAMP"}
    BY <1>1, <1>2 DEF RetsType, Rets2Odbc, getPreferedOdbcType
  <2>2. getPrecision = 0
    BY <2>1 DEF getPrecision
  <2> QED
    BY <1>2, <2>2 DEF TextPrecision
<1>3. CASE ~IsLookupColumn
  BY <1>3 DEF TextPrecision, getDataType, getPrecision
<1> QED
  BY <1>2, <1>3

LEMMA AllAgree ==
  ASSUME field \in Fields
  PROVE  Agree
<1> DEFINE type == getDataType
           name == getOdbcTypeName(factory, getDataType)
<1>1. \A a \in Descriptions : a.type \in {"-", type} /\ a.name \in {"-", name}
  <2> TAKE a \in Descriptions
  <2>1. CASE \E item \in Attributes : a = SQLColAttribute(item)
    BY <2>1, Attribute, Zenon
  <2>2. CASE a = RowOfSQLColumns
    BY <2>2, ColumnsRow, Zenon
  <2>3. CASE a = SQLDescribeCol
    BY <2>3, DescribedColumn, Zenon
  <2>4. CASE ~IsLookupColumn /\ a = RowOfSQLSpecialColumns
    BY <2>4, KeyRow, Zenon
  <2> QED
    BY <2>1, <2>2, <2>3, <2>4, EachDescription, Zenon
<1> HIDE DEF type, name
<1>2. {a.type : a \in Descriptions} \subseteq {"-", type}
  BY <1>1, Zenon
<1>3. {a.name : a \in Descriptions} \subseteq {"-", name}
  BY <1>1, Zenon
<1> QED
  BY <1>2, <1>3, OneValue, Zenon DEF Agree

(* The digits but those of SQLDescribeCol are decided by the type.         *)
LEMMA DigitsByType ==
  ASSUME field \in Fields, ~(IsLookupColumn /\ field.type \in {"DECIMAL", "DATE_TIME"}),
         NEW a \in Descriptions, a # SQLDescribeCol
  PROVE  a.precision \in {-1, getPrecision}
<1>0. TextPrecision = getPrecision
  BY Precisions, Zenon
<1>1. CASE \E item \in Attributes : a = SQLColAttribute(item)
  BY <1>0, <1>1, Attribute, Zenon
<1>2. CASE a = RowOfSQLColumns
  BY <1>2, ColumnsRow, Zenon
<1>3. CASE ~IsLookupColumn /\ a = RowOfSQLSpecialColumns
  BY <1>0, <1>3, KeyRow, Zenon
<1> QED
  BY <1>1, <1>2, <1>3, EachDescription, Zenon

LEMMA DigitsAgree ==
  ASSUME field \in Fields
  PROVE  AgreeOnDigits
<1> DEFINE others == Descriptions \ {SQLDescribeCol}
           prefered == getPreferedOdbcType(factory, field.type)
<1>1. ASSUME ~(IsLookupColumn /\ field.type \in {"DECIMAL", "DATE_TIME"})
      PROVE  AgreeOn({a.precision : a \in others}, -1)
  <2>1. \A a \in others : a.precision \in {-1, getPrecision}
    BY <1>1, DigitsByType, Zenon
  <2> HIDE DEF others
  <2>2. {a.precision : a \in others} \subseteq {-1, getPrecision}
    BY <2>1, Zenon
  <2> QED
    BY <2>2, OneValue, Zenon
<1>2. prefered # "DOUBLE"
  BY FieldTypes, OdbcTypeOf DEF OdbcTypes
<1>3. getPrecision = CASE prefered = "TIMESTAMP" -> 3
                       [] prefered \in {"DECIMAL", "DOUBLE"} -> field.precision
                       [] OTHER -> 0
  BY Zenon DEF getPrecision
<1>4. field.precision \in Int
  BY FieldTypes, Zenon
<1> HIDE DEF prefered
<1>5. field.precision = getPrecision
        <=> \/ prefered = "DECIMAL"
            \/ field.precision = IF prefered = "TIMESTAMP" THEN 3 ELSE 0
  BY <1>2, <1>3, <1>4
<1> QED
  BY <1>1, <1>5, ColumnsRow, DescribedColumn, Zenon DEF AgreeOnDigits, prefered

(* A type is listed by the name its columns have: without a translator for *)
(* decimals no column is one.                                              *)
LEMMA SameName ==
  ASSUME field \in Fields
  PROVE  getOdbcTypeName(PlainTranslator, getDataType)
           = getOdbcTypeName(factory, getDataType)
<1>1. getDataType \in OdbcTypes /\ (factory = "char" => getDataType = "VARCHAR")
      /\ (factory = "nativeString" => getDataType # "DECIMAL")
  BY FieldTypes, DataTypes
    DEF getDataType, getPreferedOdbcType, Rets2Odbc, RetsType, OdbcTypes
<1>2. getDataType \in Workers("native") /\ getDataType \notin BinaryTypes
  BY <1>1 DEF OdbcTypes, Workers, NativeWorkers, BinaryTypes
<1>3. CASE factory = "char"
  BY <1>1, <1>2, <1>3 DEF PlainTranslator, getOdbcTypeName, NativeName, BinaryTypes
<1>4. CASE factory = "nativeString"
  <2>1. getDataType \in Workers("nativeString")
    BY <1>1, <1>2, <1>4 DEF Workers
  <2> QED
    BY <1>2, <1>4, <2>1 DEF PlainTranslator, getOdbcTypeName
<1>5. CASE factory = "native"
  BY <1>5 DEF PlainTranslator
<1> QED
  BY <1>3, <1>4, <1>5, Factories

LEMMA AllListed ==
  ASSUME field \in Fields
  PROVE  Listed
<1>1. RowOfSQLColumns.type \in ListedTypes
  BY DataTypes, ColumnsRow DEF OdbcTypes, ListedTypes
<1>2. SUFFICES ASSUME NEW type \in {"ALL_TYPES", RowOfSQLColumns.type}
               PROVE  /\ SQLGetTypeInfo(type).ret = "SUCCESS"
                      /\ \E row \in SQLGetTypeInfo(type).rows :
                           row.type = RowOfSQLColumns.type /\ row.name = RowOfSQLColumns.name
  BY Zenon DEF Listed
<1> DEFINE types == {t \in ListedTypes : type \in {t, "ALL_TYPES"}}
           rows == {getSQLGetTypeInfoRow(t) : t \in types}
           row == getSQLGetTypeInfoRow(RowOfSQLColumns.type)
<1>3. RowOfSQLColumns.type \in types
  BY <1>1, <1>2
<1>4. SQLGetTypeInfo(type).rows = rows
      /\ SQLGetTypeInfo(type).ret = IF types = {} THEN "SUCCESS_WITH_INFO" ELSE "SUCCESS"
  BY DEF SQLGetTypeInfo
<1>5. row \in rows
  BY <1>3, Zenon
<1>6. /\ row.type = RowOfSQLColumns.type
      /\ row.name = getOdbcTypeName(PlainTranslator, RowOfSQLColumns.type)
  BY DEF getSQLGetTypeInfoRow
<1>7. row.name = RowOfSQLColumns.name
  BY <1>6, ColumnsRow, SameName, Zenon
<1> HIDE DEF types, rows, row
<1>8. types # {}
  BY <1>3
<1> QED
  BY <1>4, <1>5, <1>6, <1>7, <1>8, Zenon

LEMMA TextsFit ==
  ASSUME field \in Fields
  PROVE  getMaximumLength >= LongestText
<1>1. field.type \in RetsType /\ field.length \in Int
  BY FieldTypes
<1>2. CASE Decoded
  BY <1>2 DEF LongestText, getMaximumLength, lookupSizeHelper
<1>3. CASE ~Decoded
  BY <1>1, <1>3 DEF LongestText, getMaximumLength, RetsType
<1> QED
  BY <1>2, <1>3

LEMMA ColumnsAreDescribed ==
  ASSUME field \in Fields
  PROVE  DescriptionsAgree
<1>1. SQLColAttribute("DISPLAY_SIZE").size = getMaximumLength
  BY Attribute DEF Attributes
<1> QED
  BY <1>1, AllAgree, DigitsAgree, AllListed, TextsFit, ColumnsRow, Zenon DEF DescriptionsAgree

-----------------------------------------------------------------------------
(* Texts.                                                                  *)

(* Texts with the long values of lookups.                                  *)
SeenText ==
  [form : Form \cup {"longValue"}, n : Int, clock : Nat, milli : Nat,
   padded : BOOLEAN, commas : BOOLEAN]

LEMMA SeenTexts ==
  ASSUME NEW text \in Text
  PROVE  /\ modifyData(text) \in SeenText
         /\ modifyData(text).n = text.n
         /\ IsBlank(modifyData(text)) <=> IsBlank(text)
BY DEF modifyData, lookupDecoder, Text, Form, SeenText, IsBlank

(* Without a decoder all that changes are the commas.                      *)
LEMMA SeenPlainly ==
  ASSUME NEW text \in Text, ~Decoded
  PROVE  /\ modifyData(text).form = text.form
         /\ modifyData(text).n = text.n
         /\ modifyData(text).padded = text.padded
         /\ modifyData(text).commas <=> text.commas /\ ~field.separator
BY DEF modifyData, Text

-----------------------------------------------------------------------------
(* Numbers.                                                                *)

LEMMA Products ==
  ASSUME NEW i \in Nat \ {0}, NEW j \in Nat \ {0}
  PROVE  i * j \in Nat \ {0}
OBVIOUS

LEMMA Powers ==
  ASSUME NEW k \in {1, 2, 4, 7, 8}
  PROVE  Power(k) \in Nat \ {0}
<1>1. Base \in Nat \ {0}
  BY BaseAssumption
<1>2. Square(Base) \in Nat \ {0}
  BY <1>1, Products DEF Square
<1>3. Square(Square(Base)) \in Nat \ {0}
  BY <1>2, Products DEF Square
<1>4. Square(Square(Square(Base))) \in Nat \ {0}
  BY <1>3, Products DEF Square
<1>5. Base * Square(Base) \in Nat \ {0}
  BY <1>1, <1>2, Products
<1>6. Base * Square(Base) * Square(Square(Base)) \in Nat \ {0}
  BY <1>3, <1>5, Products
<1> DEFINE p2 == Square(Base)
           p4 == Square(Square(Base))
           p7 == Base * Square(Base) * Square(Square(Base))
           p8 == Square(Square(Square(Base)))
<1>7. Power(k) = CASE k = 1 -> Base [] k = 2 -> p2 [] k = 4 -> p4 [] k = 7 -> p7 [] k = 8 -> p8
  BY Zenon DEF Power
<1> HIDE DEF p2, p4, p7, p8
<1>8. k = 1 \/ k = 2 \/ k = 4 \/ k = 7 \/ k = 8
  OBVIOUS
<1>9. p2 \in Nat \ {0} /\ p4 \in Nat \ {0} /\ p7 \in Nat \ {0} /\ p8 \in Nat \ {0}
  BY <1>2, <1>3, <1>4, <1>6, Zenon DEF p2, p4, p7, p8
<1> QED
  BY <1>1, <1>7, <1>8, <1>9

LEMMA Remainders ==
  ASSUME NEW n \in Int, NEW p \in Nat \ {0}, n >= 0, n < p
  PROVE  n % p = n
OBVIOUS

LEMMA WrapsAround ==
  ASSUME NEW n \in Int, NEW p \in Nat \ {0}, n < 0, -n < p
  PROVE  n % p = n + p
OBVIOUS

-----------------------------------------------------------------------------
(* Workers.                                                                *)

(* The values that are not delivered as they are.                          *)
IsWrapped(type, value, n) ==
  /\ type \in {"C_ULONG", "C_USHORT"} /\ n < 0
  /\ value.as = "number" /\ value.n = n + Power(Bytes(type))
LosesAByte(type, n) == type = "NUMERIC" /\ (n >= Power(7) \/ -n >= Power(7))
IsMisread(value, text) == value.as = "bit" /\ MeansFalse(text) /\ ~IsDigitZero(text)
IsOfDayZero(value, text) == value.as = "timestamp" /\ text.n = 0

(* What a conversion without exception tells: a value that is there is the *)
(* text's, and NULL is for texts that say nothing.                         *)
Truthful(o, type, text) ==
  /\ o.ind \in {"size", "NULL"}
  /\ o.ind = "size" =>
       \/ Holds(o.target, text)
       \/ IsWrapped(type, o.target, text.n)
       \/ LosesAByte(type, text.n)
       \/ IsMisread(o.target, text)
       \/ IsOfDayZero(o.target, text)
  /\ o.ind = "NULL" =>
       IsBlank(text) \/ (text.form \in {"date", "dateTime"} /\ text.n = 0)

Sound(o, type, text) ==
  /\ o.exception \in {"-", "dateTime", "cast"}
  /\ o.exception = "-" => Truthful(o, type, text)
  /\ o.exception # "-" => o.ind # "size"

LEMMA NullIsSound ==
  ASSUME NEW type, NEW text, IsBlank(text)
  PROVE  Sound(Null, type, text)
BY DEF Sound, Truthful, Null

LEMMA FailureIsSound ==
  ASSUME NEW type, NEW text
  PROVE  /\ Sound(BadCast, type, text)
         /\ Sound(NullAnd("dateTime"), type, text)
BY DEF Sound, BadCast, NullAnd, Null

LEMMA ValueIsSound ==
  ASSUME NEW type, NEW text, NEW as, NEW n, Holds([Unset EXCEPT !.as = as, !.n = n], text)
  PROVE  Sound(Stored(as, n), type, text)
<1> DEFINE value == [Unset EXCEPT !.as = as, !.n = n]
<1>1. Stored(as, n) = [target |-> value, ind |-> "size", exception |-> "-"]
  BY Zenon DEF Stored
<1>2. Holds(value, text)
  BY Zenon
<1> HIDE DEF value
<1> QED
  BY <1>1, <1>2 DEF Sound, Truthful

LEMMA BitIsSound ==
  ASSUME NEW type, NEW text \in SeenText
  PROVE  Sound(Bit(text), type, text)
<1> DEFINE n == IF IsDigitZero(text) THEN 0 ELSE 1
           value == [Unset EXCEPT !.as = "bit", !.n = n]
<1>1. IsDigitZero(text) => MeansFalse(text)
  BY DEF IsDigitZero, MeansFalse
<1>2. value.as = "bit" /\ value.n = n
  BY DEF Unset
<1>3. Stored("bit", n) = [target |-> value, ind |-> "size", exception |-> "-"]
  BY Zenon DEF Stored
<1>4. ASSUME IsDigitZero(text) \/ ~MeansFalse(text)
      PROVE  Holds(value, text)
  <2>1. n = IF MeansFalse(text) THEN 0 ELSE 1
    BY <1>1, <1>4, Zenon
  <2> HIDE DEF n, value
  <2> QED
    BY <1>2, <2>1 DEF Holds
<1> HIDE DEF n, value
<1>5. Holds(value, text) \/ IsMisread(value, text)
  BY <1>2, <1>4, Zenon DEF IsMisread
<1>6. Sound(Stored("bit", n), type, text)
  BY <1>3, <1>5 DEF Sound, Truthful
<1> QED
  BY <1>6, NullIsSound, Zenon DEF Bit, n

LEMMA DateIsSound ==
  ASSUME NEW type, NEW text \in SeenText
  PROVE  Sound(Date(text), type, text)
<1>1. text.form \in {"date", "dateTime"} /\ text.n # 0 =>
        Holds([Unset EXCEPT !.as = "date", !.n = text.n], text)
  BY DEF Holds, HasDay, Unset
<1>2. text.form \in {"date", "dateTime"} /\ text.n = 0 =>
        Sound([Stored("date", 0) EXCEPT !.ind = "NULL"], type, text)
  BY DEF Sound, Truthful, Stored
<1> QED
  BY <1>1, <1>2, NullIsSound, FailureIsSound, ValueIsSound, Zenon DEF Date

LEMMA TimestampIsSound ==
  ASSUME NEW type, NEW text \in SeenText
  PROVE  Sound(Timestamp(text), type, text)
<1> DEFINE whole == [Stored("timestamp", text.n) EXCEPT !.target.clock = text.clock,
                                                        !.target.milli = text.milli]
<1>1. /\ whole.exception = "-" /\ whole.ind = "size" /\ whole.target.as = "timestamp"
      /\ whole.target.n = text.n /\ whole.target.clock = text.clock
      /\ whole.target.milli = text.milli
  BY DEF Stored, Unset
<1> HIDE DEF whole
<1>2. ASSUME text.form = "dateTime"
      PROVE  Sound(whole, type, text)
  <2>1. Holds(whole.target, text) \/ IsOfDayZero(whole.target, text)
    BY <1>1, <1>2 DEF Holds, HasDay, HasTime, ClockOf, MilliOf, IsOfDayZero
  <2> QED
    BY <1>1, <2>1 DEF Sound, Truthful
<1>3. ASSUME text.form = "date"
      PROVE  Sound(Stored("timestamp", text.n), type, text)
  <2> DEFINE o == Stored("timestamp", text.n)
  <2>1. /\ o.exception = "-" /\ o.ind = "size" /\ o.target.as = "timestamp"
        /\ o.target.n = text.n /\ o.target.clock = 0 /\ o.target.milli = 0
    BY DEF Stored, Unset
  <2> HIDE DEF o
  <2>2. Holds(o.target, text) \/ IsOfDayZero(o.target, text)
    BY <1>3, <2>1 DEF Holds, HasDay, HasTime, ClockOf, MilliOf, IsOfDayZero
  <2>3. Sound(o, type, text)
    BY <2>1, <2>2 DEF Sound, Truthful
  <2> QED
    BY <2>3, Zenon DEF o
<1> QED
  BY <1>2, <1>3, NullIsSound, FailureIsSound, Zenon DEF Timestamp, whole

LEMMA TimeIsSound ==
  ASSUME NEW type, NEW text \in SeenText
  PROVE  Sound(Time(text), type, text)
<1> DEFINE o == [Stored("time", 0) EXCEPT !.target.clock = text.clock]
<1>1. /\ o.exception = "-" /\ o.ind = "size" /\ o.target.as = "time"
      /\ o.target.clock = text.clock
  BY DEF Stored, Unset
<1> HIDE DEF o
<1>2. text.form \in {"time", "dateTime"} => Holds(o.target, text)
  BY <1>1 DEF Holds, HasTime
<1>3. text.form \in {"time", "dateTime"} => Sound(o, type, text)
  BY <1>1, <1>2 DEF Sound, Truthful
<1> QED
  BY <1>3, NullIsSound, FailureIsSound, Zenon DEF Time, o

LEMMA NumberHolds ==
  ASSUME NEW text \in SeenText, text.form = "number"
  PROVE  Holds([Unset EXCEPT !.as = "number", !.n = text.n], text)
BY DEF Holds, Unset

LEMMA SignedIsSound ==
  ASSUME NEW type, NEW text \in SeenText, NEW k
  PROVE  Sound(Signed(text, k), type, text)
BY NumberHolds, NullIsSound, FailureIsSound, ValueIsSound, Zenon DEF Signed

(* What is not negative and fits does not wrap around.                     *)
LEMMA UnsignedIsSound ==
  ASSUME NEW type \in {"C_ULONG", "C_USHORT"}, NEW text \in SeenText
  PROVE  Sound(Unsigned(text, Bytes(type)), type, text)
<1> DEFINE k == Bytes(type)
           rest == text.n % Power(k)
<1>0. k \in {1, 2, 4, 7, 8}
  BY DEF Bytes
<1> HIDE DEF k
<1>1. /\ FitsUnsigned(text.n, k) /\ ~(text.n < 0) => rest = text.n
      /\ FitsUnsigned(text.n, k) /\ text.n < 0 => rest = text.n + Power(k)
  BY <1>0, Powers, Remainders, WrapsAround DEF FitsUnsigned, SeenText
<1> HIDE DEF rest
<1>2. ASSUME text.form = "number", FitsUnsigned(text.n, k)
      PROVE  Sound(Stored("number", rest), type, text)
  <2>1. CASE text.n < 0
    <3> DEFINE o == Stored("number", rest)
    <3>1. o.exception = "-" /\ o.ind = "size" /\ o.target.as = "number" /\ o.target.n = rest
      BY DEF Stored, Unset
    <3> HIDE DEF o
    <3>2. IsWrapped(type, o.target, text.n)
      BY <1>1, <1>2, <2>1, <3>1, Zenon DEF IsWrapped, k
    <3>3. Sound(o, type, text)
      BY <3>1, <3>2 DEF Sound, Truthful
    <3> QED
      BY <3>3, Zenon DEF o
  <2>2. CASE ~(text.n < 0)
    BY <1>1, <1>2, <2>2, NumberHolds, ValueIsSound, Zenon
  <2> QED
    BY <2>1, <2>2
<1> QED
  BY <1>2, NullIsSound, FailureIsSound, Zenon DEF Unsigned, rest, k

LEMMA DoubleIsSound ==
  ASSUME NEW type, NEW text \in SeenText
  PROVE  Sound(Double(text), type, text)
<1>1. text.form = "point" => Holds([Unset EXCEPT !.as = "tenths", !.n = text.n], text)
  BY DEF Holds, Unset
<1> QED
  BY <1>1, NumberHolds, NullIsSound, FailureIsSound, ValueIsSound, Zenon DEF Double

LEMMA DecimalIsSound ==
  ASSUME NEW type, NEW text \in SeenText
  PROVE  Sound(Decimal(text), type, text)
<1> DEFINE o == [Stored("character", 0) EXCEPT !.target.text = text]
<1>1. /\ o.exception = "-" /\ o.ind = "size" /\ o.target.as = "character"
      /\ o.target.text = text
  BY DEF Stored, Unset
<1> HIDE DEF o
<1>2. Holds(o.target, text)
  BY <1>1 DEF Holds
<1>3. Sound(o, type, text)
  BY <1>1, <1>2 DEF Sound, Truthful
<1> QED
  BY <1>3, NullIsSound, FailureIsSound, Zenon DEF Decimal, o

(* Seven bytes of a number are copied.                                     *)
LEMMA NumericIsSound ==
  ASSUME NEW text \in SeenText
  PROVE  Sound(Numeric(text), "NUMERIC", text)
<1> DEFINE abs == IF text.n < 0 THEN -text.n ELSE text.n
           copied == abs % Power(7)
           value == IF text.n < 0 THEN -copied ELSE copied
           as == IF text.form = "point" THEN "tenths" ELSE "number"
           torn == [BadCast EXCEPT !.target.as = "torn"]
<1>1. Numeric(text) =
        IF IsBlank(text) THEN Null
        ELSE IF text.form \in {"number", "point"} /\ ~text.commas /\ abs < Power(8)
        THEN Stored(as, value) ELSE torn
  BY Zenon DEF Numeric
<1>2. text.n \in Int /\ Power(7) \in Nat \ {0}
  BY Powers DEF SeenText
<1>3. ~LosesAByte("NUMERIC", text.n) => value = text.n
  <2> SUFFICES ASSUME ~LosesAByte("NUMERIC", text.n)
               PROVE  value = text.n
    OBVIOUS
  <2>1. abs \in Int /\ abs >= 0 /\ abs < Power(7)
    BY <1>2 DEF LosesAByte
  <2>2. copied = abs
    BY <1>2, <2>1, Remainders
  <2> HIDE DEF copied
  <2> QED
    BY <1>2, <2>2
<1> HIDE DEF value
<1>4. text.form \in {"number", "point"} => Holds([Unset EXCEPT !.as = as, !.n = text.n], text)
  BY DEF Holds, Unset
<1> HIDE DEF abs, as
<1>5. LosesAByte("NUMERIC", text.n) => Sound(Stored(as, value), "NUMERIC", text)
  BY DEF Sound, Truthful, Stored
<1>6. text.form \in {"number", "point"} => Sound(Stored(as, value), "NUMERIC", text)
  BY <1>3, <1>4, <1>5, ValueIsSound, Zenon
<1>7. Sound(torn, "NUMERIC", text)
  BY DEF Sound, BadCast, Unset
<1> HIDE DEF torn
<1> QED
  BY <1>1, <1>6, <1>7, NullIsSound, Zenon

LEMMA CharacterIsSound ==
  ASSUME NEW type, NEW text \in SeenText
  PROVE  Sound(Character(text), type, text)
<1> DEFINE stored == [Stored("text", 0) EXCEPT !.target.text = text]
<1>1. stored.exception = "-" /\ stored.ind = "size"
      /\ stored.target.as = "text" /\ stored.target.text = text
  BY DEF Stored, Unset
<1> HIDE DEF stored
<1>2. Holds(stored.target, text)
  BY <1>1 DEF Holds
<1>3. Sound(stored, type, text)
  BY <1>1, <1>2 DEF Sound, Truthful
<1>4. text.form = "empty" => IsBlank(text)
  BY DEF IsBlank
<1> QED
  BY <1>3, <1>4, NullIsSound, Zenon DEF Character, stored

WorkerTypes == NativeWorkers \cup {"DECIMAL"}

LEMMA WorkerIsSound ==
  ASSUME NEW type \in WorkerTypes, NEW text \in SeenText
  PROVE  Sound(Worker(type, text), type, text)
<1>1. CASE type = "BIT"
  <2>1. Worker(type, text) = Bit(text)
    BY <1>1 DEF Worker, BinaryTypes
  <2> QED
    BY <1>1, <2>1, BitIsSound, Zenon
<1>2. CASE type = "DATE"
  <2>1. Worker(type, text) = Date(text)
    BY <1>2 DEF Worker, BinaryTypes
  <2> QED
    BY <1>2, <2>1, DateIsSound, Zenon
<1>3. CASE type = "TIMESTAMP"
  <2>1. Worker(type, text) = Timestamp(text)
    BY <1>3 DEF Worker, BinaryTypes
  <2> QED
    BY <1>3, <2>1, TimestampIsSound, Zenon
<1>4. CASE type = "TIME"
  <2>1. Worker(type, text) = Time(text)
    BY <1>4 DEF Worker, BinaryTypes
  <2> QED
    BY <1>4, <2>1, TimeIsSound, Zenon
<1>5. CASE type \in {"TINYINT", "C_STINYINT", "SMALLINT", "C_SSHORT", "INTEGER", "C_SLONG",
                     "BIGINT", "C_SBIGINT"}
  <2>1. Worker(type, text) = Signed(text, Bytes(type))
    BY <1>5 DEF Worker, BinaryTypes
  <2> QED
    BY <2>1, SignedIsSound, Zenon
<1>6. CASE type \in {"C_ULONG", "C_USHORT"}
  <2>1. Worker(type, text) = Unsigned(text, Bytes(type))
    BY <1>6 DEF Worker, BinaryTypes
  <2> QED
    BY <1>6, <2>1, UnsignedIsSound, Zenon
<1>7. CASE type = "DOUBLE"
  <2>1. Worker(type, text) = Double(text)
    BY <1>7 DEF Worker, BinaryTypes
  <2> QED
    BY <1>7, <2>1, DoubleIsSound, Zenon
<1>8. CASE type = "DECIMAL"
  <2>1. Worker(type, text) = Decimal(text)
    BY <1>8 DEF Worker, BinaryTypes
  <2> QED
    BY <1>8, <2>1, DecimalIsSound, Zenon
<1>9. CASE type = "NUMERIC"
  <2>1. Worker(type, text) = Numeric(text)
    BY <1>9 DEF Worker, BinaryTypes
  <2> QED
    BY <1>9, <2>1, NumericIsSound, Zenon
<1>10. CASE type \in {"VARCHAR", "CHAR"} \cup BinaryTypes
  <2>1. Worker(type, text) = Character(text)
    BY <1>10 DEF Worker, BinaryTypes
  <2> QED
    BY <2>1, CharacterIsSound, Zenon
<1> QED
  BY <1>1, <1>2, <1>3, <1>4, <1>5, <1>6, <1>7, <1>8, <1>9, <1>10
    DEF WorkerTypes, NativeWorkers

-----------------------------------------------------------------------------
(* Conversions.                                                            *)

(* A type is known to a translator that looks for its worker.              *)
LEMMA WorkerFound ==
  ASSUME NEW type, HasWorker(factory, type), factory # "char"
  PROVE  type \in WorkerTypes
BY DEF HasWorker, Workers, WorkerTypes

(* Every conversion by a worker is sound; without one NULL is told.        *)
LEMMA ConversionIsSound ==
  ASSUME NEW text \in Text, NEW type
  PROVE  \/ setData(text, type) = Missing
         \/ Sound(setData(text, type), getBestSqlType(type), modifyData(text))
<1> DEFINE best == getBestSqlType(type)
           modified == modifyData(text)
<1>1. setData(text, type) =
        IF ~HasWorker(factory, best) THEN Missing
        ELSE IF factory = "char" THEN Character(modified)
        ELSE Worker(best, modified)
  BY Zenon DEF setData
<1>2. modified \in SeenText
  BY SeenTexts, Zenon
<1> HIDE DEF best, modified
<1>3. Sound(Character(modified), best, modified)
  BY <1>2, CharacterIsSound, Zenon
<1>4. HasWorker(factory, best) /\ factory # "char" => Sound(Worker(best, modified), best, modified)
  BY <1>2, WorkerFound, WorkerIsSound, Zenon
<1>5. \/ setData(text, type) = Missing
      \/ Sound(setData(text, type), best, modified)
  BY <1>1, <1>3, <1>4, Zenon
<1> QED
  BY <1>5, Zenon DEF best, modified

(* By default a column is not converted to an unsigned integer or NUMERIC. *)
LEMMA AskedByName ==
  ASSUME field \in Fields, NEW type,
         getBestSqlType(type) \in {"C_ULONG", "C_USHORT", "NUMERIC"}
  PROVE  getBestSqlType(type) = type
<1>1. getPreferedOdbcType(factory, field.type) \in OdbcTypes
  BY FieldTypes, OdbcTypeOf
<1> QED
  BY <1>1 DEF getBestSqlType, OdbcTypes

(* What a conversion without exception tells, by what was asked for.       *)
LEMMA Delivered ==
  ASSUME field \in Fields, NEW text \in Text, NEW type,
         setData(text, type).exception = "-"
  PROVE  Truthful(setData(text, type), type, modifyData(text))
<1> DEFINE o == setData(text, type)
           best == getBestSqlType(type)
           modified == modifyData(text)
<1>1. Missing.exception = "missing"
  BY DEF Missing, NullAnd, Null
<1>2. Truthful(o, best, modified)
  <2>1. o # Missing
    BY <1>1, Zenon
  <2>2. Sound(o, best, modified)
    BY <2>1, ConversionIsSound, Zenon
  <2> QED
    BY <2>2, Zenon DEF Sound
<1>3. best \in {"C_ULONG", "C_USHORT", "NUMERIC"} => best = type
  BY AskedByName
<1> HIDE DEF o, best, modified
<1>4. Truthful(o, type, modified)
  BY <1>2, <1>3 DEF Truthful, IsWrapped, LosesAByte
<1> QED
  BY <1>4, Zenon DEF o, modified

(* The exceptions there are, that NULL is told without a worker, and that  *)
(* none leaves a length.                                                   *)
LEMMA Exceptions ==
  ASSUME NEW text \in Text, NEW type
  PROVE  /\ setData(text, type).exception \in {"-", "missing", "dateTime", "cast"}
         /\ setData(text, type).exception = "missing" => setData(text, type).ind = "NULL"
         /\ setData(text, type).exception # "-" => setData(text, type).ind # "size"
<1> DEFINE o == setData(text, type)
<1>1. Missing.exception = "missing" /\ Missing.ind = "NULL"
  BY DEF Missing, NullAnd, Null
<1>2. o = Missing \/ (o.exception \in {"-", "dateTime", "cast"}
                       /\ (o.exception # "-" => o.ind # "size"))
  BY ConversionIsSound, Zenon DEF Sound
<1> HIDE DEF o
<1>3. o.exception \in {"-", "missing", "dateTime", "cast"}
      /\ (o.exception = "missing" => o.ind = "NULL")
      /\ (o.exception # "-" => o.ind # "size")
  BY <1>1, <1>2
<1> QED
  BY <1>3, Zenon DEF o

-----------------------------------------------------------------------------
(* Texts that are right for the field.                                     *)

Arrives(o) == o.exception = "-" /\ o.ind = "size"

LEMMA StoredArrives ==
  ASSUME NEW as, NEW n
  PROVE  Arrives(Stored(as, n))
BY DEF Arrives, Stored

LEMMA CharacterArrives ==
  ASSUME NEW text, text.form # "empty"
  PROVE  Arrives(Character(text))
BY DEF Arrives, Character, Stored

LEMMA RightIsNotEmpty ==
  ASSUME field \in Fields, NEW text, Right(text)
  PROVE  text.form # "empty"
<1>1. field.type \in RetsType
  BY FieldTypes
<1> QED
  BY <1>1 DEF Right, RetsType

(* A column is described with the type it is converted to by default.      *)
LEMMA SameType ==
  ASSUME field \in Fields, ~IsLookupColumn, NEW type \in {"C_DEFAULT", getDataType}
  PROVE  getBestSqlType(type) = getPreferedOdbcType(factory, field.type)
<1>1. getDataType = getPreferedOdbcType(factory, field.type)
  BY DEF getDataType
<1> QED
  BY <1>1, DataTypes DEF getBestSqlType, OdbcTypes

(* The types a translator prefers have a worker.                           *)
LEMMA PreferedHasWorker ==
  ASSUME NEW dt \in {"char", "nativeString", "native"}, NEW type \in RetsType
  PROVE  HasWorker(dt, getPreferedOdbcType(dt, type))
<1> DEFINE prefered == getPreferedOdbcType(dt, type)
<1>1. prefered \in OdbcTypes
  BY OdbcTypeOf
<1>2. dt = "nativeString" => prefered # "DECIMAL"
  BY DEF getPreferedOdbcType, RetsType, Rets2Odbc
<1> HIDE DEF prefered
<1>3. dt # "char" => prefered \in Workers(dt)
  BY <1>1, <1>2 DEF OdbcTypes, Workers, NativeWorkers
<1> QED
  BY <1>3 DEF HasWorker, prefered

(* What the worker of a field makes of a text that is right for it.        *)
LEMMA WorkerArrives ==
  ASSUME field \in Fields, factory # "char", ~Decoded, NEW text \in Text, Right(text)
  PROVE  Arrives(Worker(getPreferedOdbcType(factory, field.type), modifyData(text)))
<1> DEFINE best == getPreferedOdbcType(factory, field.type)
           modified == modifyData(text)
<1>1. field.type \in RetsType
  BY FieldTypes
<1>2. /\ modified.form = text.form
      /\ modified.n = text.n
      /\ modified.padded = text.padded
      /\ modified.commas <=> text.commas /\ ~field.separator
  BY SeenPlainly
<1>3. best = IF factory = "nativeString" /\ field.type = "DECIMAL" THEN "VARCHAR"
             ELSE Rets2Odbc[field.type]
  BY DEF getPreferedOdbcType
<1> SUFFICES Arrives(Worker(best, modified))
  OBVIOUS
<1> HIDE DEF best, modified
<1>4. CASE field.type = "BOOLEAN"
  <2>0. best = "BIT"
    BY <1>3, <1>4 DEF Rets2Odbc
  <2>1. Worker(best, modified) = Bit(modified)
    BY <2>0 DEF Worker, BinaryTypes
  <2>2. ~IsBlank(modified)
    BY <1>2, <1>4 DEF Right, IsBlank
  <2> QED
    BY <2>1, <2>2, StoredArrives, Zenon DEF Bit
<1>5. CASE field.type = "DATE"
  <2>0. best = "DATE"
    BY <1>3, <1>5 DEF Rets2Odbc
  <2>1. Worker(best, modified) = Date(modified)
    BY <2>0 DEF Worker, BinaryTypes
  <2>2. modified.form = "date" /\ modified.n # 0
    BY <1>2, <1>5 DEF Right, Text
  <2>3. Date(modified) = Stored("date", modified.n)
    BY <2>2 DEF Date, IsBlank
  <2> QED
    BY <2>1, <2>3, StoredArrives, Zenon
<1>6. CASE field.type = "DATE_TIME"
  <2>0. best = "TIMESTAMP"
    BY <1>3, <1>6 DEF Rets2Odbc
  <2>1. Worker(best, modified) = Timestamp(modified)
    BY <2>0 DEF Worker, BinaryTypes
  <2>2. Arrives(Timestamp(modified))
    BY <1>2, <1>6 DEF Right, Timestamp, IsBlank, Arrives, Stored
  <2> QED
    BY <2>1, <2>2, Zenon
<1>7. CASE field.type = "TIME"
  <2>0. best = "TIME"
    BY <1>3, <1>7 DEF Rets2Odbc
  <2>1. Worker(best, modified) = Time(modified)
    BY <2>0 DEF Worker, BinaryTypes
  <2>2. Arrives(Time(modified))
    BY <1>2, <1>7 DEF Right, Time, IsBlank, Arrives, Stored
  <2> QED
    BY <2>1, <2>2, Zenon
<1>8. CASE field.type \in {"TINY", "SMALL", "INT", "LONG"}
  <2>1. best = Rets2Odbc[field.type]
        /\ best \in {"TINYINT", "SMALLINT", "INTEGER", "BIGINT"}
    BY <1>3, <1>8 DEF Rets2Odbc
  <2>2. Worker(best, modified) = Signed(modified, Bytes(best))
    BY <2>1 DEF Worker, BinaryTypes
  <2>3. modified.form = "number" /\ IsPlain(modified) /\ FitsSigned(modified.n, Bytes(best))
    <3>1. text.form = "number" /\ ~text.padded /\ (text.commas => field.separator)
          /\ FitsSigned(text.n, Bytes(Rets2Odbc[field.type]))
      BY <1>8 DEF Right
    <3>2. FitsSigned(modified.n, Bytes(best))
      BY <1>2, <2>1, <3>1, Zenon
    <3>3. IsPlain(modified)
      BY <1>2, <3>1, Zenon DEF IsPlain
    <3> QED
      BY <1>2, <3>1, <3>2, <3>3, Zenon
  <2>4. Signed(modified, Bytes(best)) = Stored("number", modified.n)
    <3>1. ~IsBlank(modified)
      BY <2>3 DEF IsBlank
    <3> QED
      BY <2>3, <3>1, Zenon DEF Signed
  <2> QED
    BY <2>2, <2>4, StoredArrives, Zenon
<1>9. CASE field.type = "DECIMAL"
  <2>1. best = "VARCHAR" \/ best = "DECIMAL"
    BY <1>3, <1>9 DEF Rets2Odbc
  <2>2. modified.form = "number" /\ IsPlain(modified) /\ modified.n \in 0..9
    BY <1>2, <1>9 DEF Right, IsPlain
  <2>3. Worker(best, modified) = Character(modified) \/ Worker(best, modified) = Decimal(modified)
    BY <2>1 DEF Worker, BinaryTypes
  <2>4. Arrives(Decimal(modified))
    BY <2>2 DEF Decimal, IsBlank, IsOneCharacter, Arrives, Stored
  <2>5. modified.form # "empty"
    BY <2>2
  <2> QED
    BY <2>3, <2>4, <2>5, CharacterArrives, Zenon
<1>10. CASE field.type = "CHARACTER"
  <2>0. best = "VARCHAR"
    BY <1>3, <1>10 DEF Rets2Odbc
  <2>1. Worker(best, modified) = Character(modified)
    BY <2>0 DEF Worker, BinaryTypes
  <2>2. modified.form # "empty"
    BY <1>2, <1>10 DEF Right
  <2> QED
    BY <2>1, <2>2, CharacterArrives, Zenon
<1> QED
  BY <1>1, <1>4, <1>5, <1>6, <1>7, <1>8, <1>9, <1>10 DEF RetsType

LEMMA RightArrives ==
  ASSUME field \in Fields, NEW text \in Text, NEW type \in {"C_DEFAULT", getDataType},
         ~IsLookupColumn, Right(text)
  PROVE  Arrives(setData(text, type))
<1> DEFINE best == getBestSqlType(type)
           modified == modifyData(text)
<1>1. setData(text, type) =
        IF ~HasWorker(factory, best) THEN Missing
        ELSE IF factory = "char" THEN Character(modified)
        ELSE Worker(best, modified)
  BY Zenon DEF setData
<1>2. ~Decoded
  BY Zenon DEF Decoded
<1>3. best = getPreferedOdbcType(factory, field.type)
  BY SameType, Zenon
<1>4. HasWorker(factory, best)
  BY <1>3, FieldTypes, Factories, PreferedHasWorker, Zenon
<1>5. Arrives(Character(modified))
  <2>1. modified.form = text.form
    BY <1>2, SeenPlainly, Zenon
  <2> QED
    BY <2>1, RightIsNotEmpty, CharacterArrives, Zenon
<1>6. factory # "char" => Arrives(Worker(best, modified))
  BY <1>2, <1>3, WorkerArrives, Zenon
<1> HIDE DEF best, modified
<1> QED
  BY <1>1, <1>4, <1>5, <1>6, Zenon

-----------------------------------------------------------------------------
(* Calls.                                                                  *)

LEMMA KnownInit ==
  Init => Known
BY DEF Init, ColumnInit, Known, Empty, Text, Form

LEMMA KnownNext ==
  Known /\ [Next]_vars => Known'
<1> SUFFICES ASSUME Known, [Next]_vars
             PROVE  Known'
  OBVIOUS
<1>1. ASSUME NEW type, Bind(type)
      PROVE  Known'
  BY <1>1 DEF Bind, columnVars, Known
<1>2. ASSUME NEW text \in Texts, SQLFetch(text)
      PROVE  Known'
  <2>1. data' = text /\ field' = field
    BY <1>2, Zenon DEF SQLFetch, columnVars
  <2> QED
    BY <1>2, <2>1, TextsAssumption DEF Known
<1>3. ASSUME NEW type, SQLGetData(type)
      PROVE  Known'
  BY <1>3, Zenon DEF SQLGetData, columnVars, Known
<1>4. CASE UNCHANGED vars
  BY <1>4 DEF vars, columnVars, Known
<1> QED
  BY <1>1, <1>2, <1>3, <1>4, Zenon DEF Next

LEMMA KnownAlways ==
  Spec => []Known
BY KnownInit, KnownNext, PTL DEF Spec

(* What a call leaves: nothing, or what a conversion tells.                *)
Silent(type) ==
  type = "-" /\ target' = Unset /\ ind' = "unset" /\ ret' = "SUCCESS"

Converts(o) ==
  /\ target' = o.target
  /\ ind' = o.ind
  /\ ret' \in {"SUCCESS", "SUCCESS_WITH_INFO", "ERROR"}
  /\ ret' = "SUCCESS" => o.exception = "-"
  /\ o.exception = "-" => ret' = "SUCCESS"
  /\ ret' = "ERROR" => o.exception # "-"
  /\ ret' = "SUCCESS_WITH_INFO" => o.exception = "missing" /\ state' = "01000"

Call(type, text) ==
  /\ UNCHANGED columnVars
  /\ data' = text
  /\ asked' = type
  /\ Silent(type) \/ Converts(setData(text, type))

LEMMA FetchIsCall ==
  ASSUME field \in Fields, NEW text \in Text, SQLFetch(text)
  PROVE  Call(bound, text)
<1> DEFINE o == setData(text, bound)
           silent == [target |-> Unset, ind |-> "unset", exception |-> "-"]
           outcome == IF bound = "-" THEN silent ELSE o
           code == IF outcome.exception = "-" THEN "SUCCESS" ELSE "ERROR"
<1>1. UNCHANGED columnVars /\ data' = text /\ asked' = bound
  BY Zenon DEF SQLFetch
<1>2. target' = outcome.target /\ ind' = outcome.ind /\ ret' = code
  BY Zenon DEF SQLFetch, Answer
<1>3. CASE bound = "-"
  <2>1. outcome = silent
    BY <1>3, Zenon
  <2>2. silent.exception = "-" /\ silent.target = Unset /\ silent.ind = "unset"
    OBVIOUS
  <2>3. ret' = "SUCCESS" /\ target' = Unset /\ ind' = "unset"
    BY <1>2, <2>1, <2>2, Zenon
  <2> QED
    BY <1>1, <1>3, <2>3, Zenon DEF Call, Silent
<1>4. CASE bound # "-"
  <2>1. outcome = o
    BY <1>4, Zenon
  <2> HIDE DEF outcome, o
  <2>2. Converts(o)
    BY <1>2, <2>1 DEF Converts
  <2> QED
    BY <1>1, <2>2, Zenon DEF Call, o
<1> QED
  BY <1>3, <1>4, Zenon

LEMMA GetDataIsCall ==
  ASSUME data \in Text, NEW type, SQLGetData(type)
  PROVE  Call(type, data)
<1> DEFINE o == setData(data, type)
           e == o.exception
           record == CASE e = "-" -> "-" [] e = "missing" -> "01000"
                       [] e = "dateTime" -> "22007" [] e = "cast" -> "HY000"
<1>1. UNCHANGED columnVars /\ data' = data /\ asked' = type
  BY Zenon DEF SQLGetData
<1>2. target' = o.target /\ ind' = o.ind /\ ret' = CodeOf(e) /\ state' = record
  BY Zenon DEF SQLGetData, Answer
<1> HIDE DEF o
<1>3. Converts(o)
  BY <1>2 DEF Converts, CodeOf
<1> QED
  BY <1>1, <1>3, Zenon DEF Call, o

LEMMA EveryCall ==
  ASSUME Known, Next
  PROVE  \E type : \E text \in Text : Call(type, text)
<1>1. ASSUME NEW type, Bind(type)
      PROVE  Call("-", data)
  BY <1>1, Zenon DEF Bind, Call, Silent, columnVars
<1>2. ASSUME NEW text \in Texts, SQLFetch(text)
      PROVE  text \in Text /\ Call(bound, text)
  BY <1>2, FetchIsCall, TextsAssumption DEF Known
<1>3. ASSUME NEW type, SQLGetData(type)
      PROVE  Call(type, data)
  BY <1>3, GetDataIsCall, Zenon DEF Known
<1>4. data \in Text
  BY Zenon DEF Known
<1> QED
  BY <1>1, <1>2, <1>3, <1>4, Zenon DEF Next

(* The column and what is seen of a text stay the same.                    *)
LEMMA SameSeen ==
  ASSUME NEW type, NEW text \in Text, Call(type, text)
  PROVE  Seen(data)' = modifyData(text)
BY DEF Call, columnVars, Seen, modifyData, Decoded, IsLookupColumn, lookupDecoder, IsBlank

-----------------------------------------------------------------------------
(* The properties of EzTranslate.                                          *)

LEMMA CallIsTrue ==
  ASSUME field \in Fields, NEW type, NEW text \in Text, Call(type, text)
  PROVE  ValuesAreTrue'
<1> DEFINE o == setData(text, type)
           seen == modifyData(text)
<1>1. Seen(data)' = seen /\ data' = text /\ asked' = type /\ seen.n = text.n
  BY SameSeen, SeenTexts, Zenon DEF Call
<1>2. CASE Silent(type)
  BY <1>2 DEF Silent, ValuesAreTrue, IsValue
<1>3. CASE Converts(o)
  <2> SUFFICES ASSUME ret' # "ERROR", ind' = "size"
               PROVE  \/ Holds(target', seen)
                      \/ IsWrapped(type, target', text.n)
                      \/ LosesAByte(type, text.n)
                      \/ IsMisread(target', seen)
                      \/ IsOfDayZero(target', seen)
    BY <1>1, Zenon
      DEF ValuesAreTrue, IsValue, IsWrapped, Wrapped, LosesAByte, CutNumeric, IsMisread,
          MisreadBit, IsOfDayZero, ZeroTimestamp, Holds, MeansFalse, HasDay, HasTime,
          ClockOf, MilliOf, IsDigitZero, IsPlain, Power, Bytes
  <2>1. o.ind = "size" /\ target' = o.target
    BY <1>3, Zenon DEF Converts
  <2>2. o.exception = "-" \/ o.exception = "missing"
    BY <1>3 DEF Converts
  <2>3. o.exception = "-"
    BY <2>1, <2>2, Exceptions
  <2>4. Truthful(o, type, seen)
    BY <2>3, Delivered, Zenon
  <2> QED
    BY <1>1, <2>1, <2>4, Zenon DEF Truthful
<1> QED
  BY <1>2, <1>3, Zenon DEF Call

LEMMA CallIndicates ==
  ASSUME field \in Fields, NEW type, NEW text \in Text, Call(type, text)
  PROVE  IndicatorIsTrue'
<1> DEFINE o == setData(text, type)
           seen == modifyData(text)
<1>1. Seen(data)' = seen /\ asked' = type
  BY SameSeen, Zenon DEF Call
<1>2. CASE Silent(type)
  BY <1>1, <1>2 DEF Silent, IndicatorIsTrue
<1>3. CASE Converts(o)
  <2>1. o.exception = "-" => Truthful(o, type, seen)
    BY Delivered, Zenon
  <2>2. (o.exception = "missing" => o.ind = "NULL") /\ (o.exception # "-" => o.ind # "size")
    BY Exceptions, Zenon
  <2>3. ind' = o.ind /\ (ret' = "SUCCESS" => o.exception = "-")
        /\ (ret' = "ERROR" => o.exception # "-")
        /\ (ret' = "SUCCESS_WITH_INFO" => o.exception = "missing" /\ state' = "01000")
        /\ ret' \in {"SUCCESS", "SUCCESS_WITH_INFO", "ERROR"}
    BY <1>3, Zenon DEF Converts
  <2> HIDE DEF o, seen
  <2>4. (ret' # "ERROR" => ind' # "unset") /\ (ret' = "ERROR" => ind' # "size")
    BY <2>1, <2>2, <2>3 DEF Truthful
  <2>5. ind' = "NULL" /\ ret' = "SUCCESS"
          => IsBlank(seen) \/ (seen.form \in {"date", "dateTime"} /\ seen.n = 0)
    BY <2>1, <2>3, Zenon DEF Truthful
  <2> QED
    BY <1>1, <2>3, <2>4, <2>5, Zenon DEF IndicatorIsTrue, IsBlank
<1> QED
  BY <1>2, <1>3, Zenon DEF Call

LEMMA CallArrives ==
  ASSUME field \in Fields, NEW type, NEW text \in Text, Call(type, text)
  PROVE  GoodTextsArrive'
<1> DEFINE o == setData(text, type)
<1>1. data' = text /\ asked' = type
  BY Zenon DEF Call
<1>2. /\ IsLookupColumn' => IsLookupColumn
      /\ IsLookupColumn => IsLookupColumn'
      /\ getDataType' = getDataType
  BY DEF Call, columnVars, IsLookupColumn, getDataType, getPreferedOdbcType, factory
<1>3. Right(data)' => Right(text)
  BY <1>1 DEF Call, columnVars, Right, FitsSigned, IsPlain, Power, Bytes
<1>4. SUFFICES ASSUME ~IsLookupColumn, Right(text), type \in {"C_DEFAULT", getDataType}
               PROVE  ret' = "SUCCESS" /\ ind' = "size"
  BY <1>1, <1>2, <1>3, Zenon DEF GoodTextsArrive
<1>5. ~Silent(type)
  BY <1>4, DataTypes DEF Silent, OdbcTypes
<1>6. Converts(o)
  BY <1>5, Zenon DEF Call
<1>7. Arrives(o)
  BY <1>4, RightArrives, Zenon
<1> QED
  BY <1>6, <1>7, Zenon DEF Converts, Arrives

LEMMA FirstState ==
  Init => ValuesAreTrue /\ IndicatorIsTrue
BY DEF Init, ValuesAreTrue, IsValue, IndicatorIsTrue

LEMMA NothingArrivesAtFirst ==
  Known /\ Init => GoodTextsArrive
<1> SUFFICES ASSUME Known, Init
             PROVE  GoodTextsArrive
  OBVIOUS
<1>1. getDataType # "-"
  BY DataTypes DEF OdbcTypes, Known
<1> QED
  BY <1>1 DEF Init, GoodTextsArrive

LEMMA EveryStep ==
  Known /\ Next => ValuesAreTrue' /\ IndicatorIsTrue' /\ GoodTextsArrive'
BY EveryCall, CallIsTrue, CallIndicates, CallArrives, Zenon DEF Known

(* A stuttering step keeps them.                                           *)
LEMMA SameCall ==
  ASSUME UNCHANGED vars
  PROVE  /\ ValuesAreTrue => ValuesAreTrue'
         /\ IndicatorIsTrue => IndicatorIsTrue'
         /\ GoodTextsArrive => GoodTextsArrive'
<1>1. UNCHANGED columnVars /\ data' = data /\ asked' = asked /\ UNCHANGED appVars
  BY Zenon DEF vars
<1>2. Seen(data)' = Seen(data)
  BY <1>1
    DEF columnVars, Seen, modifyData, Decoded, IsLookupColumn, lookupDecoder, IsBlank
<1>3. target' = target /\ ind' = ind /\ ret' = ret /\ state' = state
  BY <1>1 DEF appVars
<1>4. ValuesAreTrue => ValuesAreTrue'
  BY <1>1, <1>2, <1>3, Zenon
    DEF ValuesAreTrue, IsValue, Holds, MeansFalse, HasDay, HasTime, ClockOf, MilliOf,
        Wrapped, MisreadBit, ZeroTimestamp, CutNumeric, IsDigitZero, IsPlain, Power, Bytes
<1>5. IndicatorIsTrue => IndicatorIsTrue'
  BY <1>1, <1>2, <1>3, Zenon DEF IndicatorIsTrue, IsBlank
<1>6. GoodTextsArrive => GoodTextsArrive'
  <2>1. (IsLookupColumn' <=> IsLookupColumn) /\ getDataType' = getDataType
    BY <1>1 DEF columnVars, IsLookupColumn, getDataType, getPreferedOdbcType, factory
  <2>2. Right(data)' => Right(data)
    BY <1>1 DEF columnVars, Right, FitsSigned, IsPlain, Power, Bytes
  <2> QED
    BY <1>1, <1>3, <2>1, <2>2, Zenon DEF GoodTextsArrive
<1> QED
  BY <1>4, <1>5, <1>6, Zenon

(* A value that is told to be there is the value of the current row's      *)
(* text, for every text, field, setting and type asked for: the workers    *)
(* of TranslationWorkers.cpp neither cut a number nor leave an old one,    *)
(* and get all of a timestamp.  What they get wrong is in the statement:   *)
(* it is exactly a false text other than the digit 0 as a bit, day zero as *)
(* a timestamp, and a NUMERIC of eight bytes.                              *)
THEOREM ValuesAreDelivered ==
  Spec => []ValuesAreTrue
<1>1. Known /\ ValuesAreTrue /\ [Next]_vars => ValuesAreTrue'
  BY EveryStep, SameCall, Zenon
<1> QED
  BY <1>1, FirstState, KnownAlways, PTL DEF Spec

(* The length indicator is written by every conversion that does not fail; *)
(* one that fails leaves no length; and NULL is told without an error only *)
(* for texts that say nothing, for day zero, and with a warning if there   *)
(* is no translator.                                                       *)
THEOREM IndicatorsAreDelivered ==
  Spec => []IndicatorIsTrue
<1>1. Known /\ IndicatorIsTrue /\ [Next]_vars => IndicatorIsTrue'
  BY EveryStep, SameCall, Zenon
<1> QED
  BY <1>1, FirstState, KnownAlways, PTL DEF Spec

(* What is right for its field can be fetched with the type the driver     *)
(* describes the column with and with the default type: each translator    *)
(* has a worker for every type it prefers, and the worker takes the text.  *)
THEOREM RightTextsArrive ==
  Spec => []GoodTextsArrive
<1>1. Known /\ GoodTextsArrive /\ [Next]_vars => GoodTextsArrive'
  BY EveryStep, SameCall, Zenon
<1> QED
  BY <1>1, NothingArrivesAtFirst, KnownAlways, PTL DEF Spec

(* The functions that describe a column agree with each other, with the    *)
(* list of types and with the lengths of its texts, for every field of     *)
(* every server and every combination of settings.                         *)
THEOREM ColumnsAreDescribedAlike ==
  Spec => []DescriptionsAgree
<1>1. Known => DescriptionsAgree
  BY ColumnsAreDescribed, Zenon DEF Known
<1> QED
  BY <1>1, KnownAlways, PTL

================================================================================
