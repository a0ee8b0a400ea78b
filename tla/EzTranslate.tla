------------------------------ MODULE EzTranslate ------------------------------
(***************************************************************************)
(* The conversion of a column's text into the type an application asks     *)
(* for, by SQLFetch into a bound buffer and by SQLGetData: the lookup      *)
(* decoder, the workers of TranslationWorkers.cpp, and what becomes of     *)
(* their exceptions.  Buffers are large enough; EzStream is about those    *)
(* that are not.                                                           *)
(*                                                                         *)
(* A text is a record: its form, what it stands for, and marks.            *)
(*   empty, blanks   nothing, or spaces only                               *)
(*   number          n, written as an integer; padded with spaces, or with *)
(*                   commas between the thousands                          *)
(*   point           n, written with a fraction of one digit (n = 15: 1.5) *)
(*   date            day n (day 0: 0000-00-00)                             *)
(*   time            the second `clock' of a day, and milli thousandths    *)
(*                   (none, if the text has no fraction)                   *)
(*   dateTime        both                                                  *)
(*   false           the word False                                        *)
(*   letter          one character that is no digit                        *)
(*   word            anything else                                         *)
(* A byte has Base values: integers of 1, 2, 4 and 8 bytes as wide as in   *)
(* the driver are out of TLC's reach.                                      *)
(***************************************************************************)
EXTENDS EzColumn

CONSTANTS
  Texts,      \* what a server may send
  Targets,    \* types an application may ask for
  Base

Form == {"empty", "blanks", "number", "point", "date", "dateTime", "time", "false",
         "letter", "word"}

Text == [form : Form, n : Int, clock : Nat, milli : Nat, padded : BOOLEAN, commas : BOOLEAN]

ASSUME TextsAssumption == Texts \subseteq Text
ASSUME BaseAssumption == Base \in Nat /\ Base > 1

VARIABLES
  data,       \* the text of the column in the current row
  bound,      \* the type the column is bound to, "-" if it is not
  asked,      \* the type the last call converted to, "-" if it did not
  target,     \* the application's buffer
  ind,        \* its length indicator
  ret,        \* the last return code
  state       \* and the state of the record with it

appVars == <<target, ind, ret, state>>
vars == <<columnVars, data, bound, asked, appVars>>

Empty == [form |-> "empty", n |-> 0, clock |-> 0, milli |-> 0,
          padded |-> FALSE, commas |-> FALSE]
Unset == [as |-> "unset", n |-> 0, clock |-> 0, milli |-> 0, text |-> Empty]

Init ==
  /\ ColumnInit
  /\ data = Empty
  /\ bound = "-"
  /\ asked = "-"
  /\ target = Unset
  /\ ind = "unset"
  /\ ret = "SUCCESS"
  /\ state = "-"

-----------------------------------------------------------------------------
(* Numbers.                                                                *)

Bytes(type) ==
  CASE type \in {"TINYINT", "C_STINYINT"} -> 1
    [] type \in {"SMALLINT", "C_SSHORT", "C_USHORT"} -> 2
    [] type \in {"INTEGER", "C_SLONG", "C_ULONG"} -> 4
    [] OTHER -> 8

(* The values of k bytes.                                                  *)
Square(i) == i * i
Power(k) ==
  CASE k = 1 -> Base
    [] k = 2 -> Square(Base)
    [] k = 4 -> Square(Square(Base))
    [] k = 7 -> Base * Square(Base) * Square(Square(Base))
    [] k = 8 -> Square(Square(Square(Base)))
FitsSigned(n, k) == -Power(k) <= 2 * n /\ 2 * n < Power(k)
FitsUnsigned(n, k) == n < Power(k) /\ -n < Power(k)

-----------------------------------------------------------------------------
(* What a worker does: what is in the buffer afterwards, what is in the    *)
(* indicator, and the exception it leaves by, "-" if none.                 *)

Stored(as, n) ==
  [target |-> [Unset EXCEPT !.as = as, !.n = n], ind |-> "size", exception |-> "-"]

(* Faulty: the indicator is left alone.                                    *)
FaultyNull == [target |-> Unset, ind |-> "unset", exception |-> "-"]

Null == [target |-> Unset, ind |-> "NULL", exception |-> "-"]

NullAnd(exception) == [Null EXCEPT !.exception = exception]

(* bad_lexical_cast, or the bad cast of a narrow integer; nothing is told. *)
BadCast == [target |-> Unset, ind |-> "unset", exception |-> "cast"]

IsBlank(text) == text.form \in {"empty", "blanks"}

(* lexical_cast takes no spaces and no commas.                             *)
IsPlain(text) == ~text.padded /\ ~text.commas

(* Exactly "0" is false.                                                   *)
IsDigitZero(text) == text.form = "number" /\ text.n = 0 /\ IsPlain(text)

Bit(text) ==
  IF IsBlank(text) THEN Null
  ELSE Stored("bit", IF IsDigitZero(text) THEN 0 ELSE 1)

(* The date in a text.  The buffer is written before day zero is found to  *)
(* be no date.                                                             *)
Date(text) ==
  IF IsBlank(text) THEN Null
  ELSE IF text.form \notin {"date", "dateTime"} THEN NullAnd("dateTime")
  ELSE IF text.n = 0 THEN [Stored("date", 0) EXCEPT !.ind = "NULL"]
  ELSE Stored("date", text.n)

(* The time of day and the milliseconds are optional, and 0 if they are    *)
(* not there.  Day zero is a day like any other.                           *)
Timestamp(text) ==
  IF IsBlank(text) THEN Null
  ELSE IF text.form = "dateTime"
  THEN [Stored("timestamp", text.n) EXCEPT !.target.clock = text.clock,
                                           !.target.milli = text.milli]
  ELSE IF text.form = "date" THEN Stored("timestamp", text.n)
  ELSE NullAnd("dateTime")

(* Milliseconds are left out.                                              *)
Time(text) ==
  IF IsBlank(text) THEN Null
  ELSE IF text.form \notin {"time", "dateTime"} THEN NullAnd("dateTime")
  ELSE [Stored("time", 0) EXCEPT !.target.clock = text.clock]

(* Faulty: a number that is too large is cut.                              *)
FaultySigned(text, k) ==
  IF IsBlank(text) THEN Null
  ELSE IF text.form = "number" /\ IsPlain(text) THEN Stored("number", text.n % Power(k))
  ELSE BadCast

Signed(text, k) ==
  IF IsBlank(text) THEN Null
  ELSE IF text.form = "number" /\ IsPlain(text) /\ FitsSigned(text.n, k)
  THEN Stored("number", text.n)
  ELSE BadCast

(* lexical_cast to an unsigned type takes a sign and wraps around.         *)
Unsigned(text, k) ==
  IF IsBlank(text) THEN Null
  ELSE IF text.form = "number" /\ IsPlain(text) /\ FitsUnsigned(text.n, k)
  THEN Stored("number", text.n % Power(k))
  ELSE BadCast

Double(text) ==
  IF IsBlank(text) THEN Null
  ELSE IF text.form = "number" /\ IsPlain(text) THEN Stored("number", text.n)
  ELSE IF text.form = "point" /\ IsPlain(text) THEN Stored("tenths", text.n)
  ELSE BadCast

(* SQLDECIMAL is a character: a text of one is stored as it is, a digit or *)
(* not, and there is no conversion of a longer one.                        *)
IsOneCharacter(text) ==
  /\ IsPlain(text)
  /\ text.form = "letter" \/ (text.form = "number" /\ text.n \in 0..9)

Decimal(text) ==
  IF IsBlank(text) THEN Null
  ELSE IF IsOneCharacter(text) THEN [Stored("character", 0) EXCEPT !.target.text = text]
  ELSE BadCast

(* Trimmed; sign and scale apart.  Of the eight bytes of the number all    *)
(* but the last are copied.  Sign and scale are written first.             *)
Numeric(text) ==
  LET abs == IF text.n < 0 THEN -text.n ELSE text.n
      copied == abs % Power(7)
  IN  IF IsBlank(text) THEN Null
      ELSE IF text.form \in {"number", "point"} /\ ~text.commas /\ abs < Power(8)
      THEN Stored(IF text.form = "point" THEN "tenths" ELSE "number",
                  IF text.n < 0 THEN -copied ELSE copied)
      ELSE [BadCast EXCEPT !.target.as = "torn"]

(* The text itself.  Blanks are a text.                                    *)
Character(text) ==
  IF text.form = "empty" THEN Null
  ELSE [Stored("text", 0) EXCEPT !.target.text = text]

Worker(type, text) ==
  CASE type = "BIT" -> Bit(text)
    [] type = "DATE" -> Date(text)
    [] type = "TIMESTAMP" -> Timestamp(text)
    [] type = "TIME" -> Time(text)
    [] type \in {"TINYINT", "C_STINYINT"} -> Signed(text, Bytes(type))
    [] type \in {"SMALLINT", "C_SSHORT"} -> Signed(text, Bytes(type))
    [] type \in {"INTEGER", "C_SLONG"} -> Signed(text, Bytes(type))
    [] type \in {"BIGINT", "C_SBIGINT"} -> Signed(text, Bytes(type))
    [] type \in {"C_ULONG", "C_USHORT"} -> Unsigned(text, Bytes(type))
    [] type = "DOUBLE" -> Double(text)
    [] type = "DECIMAL" -> Decimal(text)
    [] type = "NUMERIC" -> Numeric(text)
    [] type \in {"VARCHAR", "CHAR"} \cup BinaryTypes -> Character(text)

-----------------------------------------------------------------------------
(* The column.                                                             *)

(* A lookup value becomes its long value, then commas are removed.  A      *)
(* value the metadata do not know stays as it is; only blank ones are      *)
(* unknown here.  Long values are words of more than one character.        *)
lookupDecoder(text) == IF IsBlank(text) THEN text ELSE [text EXCEPT !.form = "longValue"]

(* Faulty: the separators stay.                                            *)
FaultyModifyData(text) == IF Decoded THEN lookupDecoder(text) ELSE text

modifyData(text) ==
  LET decoded == IF Decoded THEN lookupDecoder(text) ELSE text
  IN  IF field.separator THEN [decoded EXCEPT !.commas = FALSE] ELSE decoded

Missing == NullAnd("missing")

(* Column::setData and DataTranslator::translate.                          *)
setData(text, type) ==
  LET best == getBestSqlType(type)
      modified == modifyData(text)
  IN  IF ~HasWorker(factory, best) THEN Missing
      ELSE IF factory = "char"
      THEN Character(modified)
      ELSE Worker(best, modified)

-----------------------------------------------------------------------------
(* Calls.  The application clears its buffers before each.                 *)

Answer(outcome, code, record) ==
  /\ target' = outcome.target
  /\ ind' = outcome.ind
  /\ ret' = code
  /\ state' = record

(* SQLBindCol; type "-" stands for SQL_UNBIND.                             *)
Bind(type) ==
  /\ bound' = type
  /\ asked' = "-"
  /\ target' = Unset
  /\ ind' = "unset"
  /\ ret' = "SUCCESS"
  /\ state' = "-"
  /\ UNCHANGED <<columnVars, data>>

(* The next row, with any text.  Every exception is an error of the fetch. *)
SQLFetch(text) ==
  LET outcome == IF bound = "-" THEN [target |-> Unset, ind |-> "unset", exception |-> "-"]
                 ELSE setData(text, bound)
      e == outcome.exception
  IN  /\ data' = text
      /\ asked' = bound
      /\ Answer(outcome, IF e = "-" THEN "SUCCESS" ELSE "ERROR",
                CASE e = "-" -> "-" [] e = "missing" -> "HY000"
                  [] e = "dateTime" -> "22007" [] e = "cast" -> "01S01")
      /\ UNCHANGED <<columnVars, bound>>

(* For SQLGetData a missing translator is a warning.                       *)
CodeOf(exception) ==
  CASE exception = "-" -> "SUCCESS"
    [] exception = "missing" -> "SUCCESS_WITH_INFO"
    [] OTHER -> "ERROR"

SQLGetData(type) ==
  LET outcome == setData(data, type)
      e == outcome.exception
  IN  /\ asked' = type
      /\ Answer(outcome, CodeOf(e),
                CASE e = "-" -> "-" [] e = "missing" -> "01000"
                  [] e = "dateTime" -> "22007" [] e = "cast" -> "HY000")
      /\ UNCHANGED <<columnVars, data, bound>>

Next ==
  \/ \E type \in Targets \cup {"-"} : Bind(type)
  \/ \E text \in Texts : SQLFetch(text)
  \/ \E type \in Targets : SQLGetData(type)

Spec == Init /\ [][Next]_vars

-----------------------------------------------------------------------------
(* What a text means, independently of the workers.                        *)

(* The text the application is to see.                                     *)
Seen(text) == modifyData(text)

(* Everything but zero and False is true.                                  *)
MeansFalse(text) ==
  (text.form \in {"number", "point"} /\ text.n = 0) \/ text.form = "false"

(* A text without a date has no day, one without a time is of midnight.    *)
HasDay(text) == text.form \in {"date", "dateTime"}
HasTime(text) == text.form \in {"time", "dateTime"}
ClockOf(text) == IF HasTime(text) THEN text.clock ELSE 0
MilliOf(text) == IF HasTime(text) THEN text.milli ELSE 0

(* Whether what a buffer holds is what the text says.  Day zero is no day. *)
Holds(value, text) ==
  CASE value.as \in {"text", "character"} -> value.text = text
    [] value.as = "date" -> HasDay(text) /\ text.n # 0 /\ value.n = text.n
    [] value.as = "timestamp" ->
         /\ HasDay(text) /\ text.n # 0 /\ value.n = text.n
         /\ value.clock = ClockOf(text) /\ value.milli = MilliOf(text)
    [] value.as = "time" -> HasTime(text) /\ value.clock = text.clock
    [] value.as = "bit" -> value.n = IF MeansFalse(text) THEN 0 ELSE 1
    [] value.as = "number" -> text.form = "number" /\ value.n = text.n
    [] value.as = "tenths" -> text.form = "point" /\ value.n = text.n
    [] OTHER -> FALSE

-----------------------------------------------------------------------------
(* Properties.                                                             *)

IsValue == ret # "ERROR" /\ ind = "size"

(* What the driver does not read as the texts of its repository say: see   *)
(* ValuesAreAsDocumented, which is violated by each of the three.          *)
MisreadBit == target.as = "bit" /\ MeansFalse(Seen(data)) /\ ~IsDigitZero(Seen(data))
ZeroTimestamp == target.as = "timestamp" /\ Seen(data).n = 0
CutNumeric == asked = "NUMERIC" /\ (data.n >= Power(7) \/ -data.n >= Power(7))

(* lexical_cast takes a sign for an unsigned integer.                      *)
Wrapped ==
  /\ asked \in {"C_ULONG", "C_USHORT"} /\ data.n < 0
  /\ target.as = "number" /\ target.n = data.n + Power(Bytes(asked))

(* A value that is told to be there is the value of this row's text, in    *)
(* whatever type it was asked for: the truth of a bit, the day of a date,  *)
(* day, time of day and milliseconds of a timestamp, all of a number.      *)
(* Nothing is cut, nothing is left from before.  A negative number as an   *)
(* unsigned integer is the one that wraps around to it.                    *)
(* Openly left out are the three that the driver gets wrong: texts that    *)
(* mean false but are not the digit 0, timestamps of day zero, and long    *)
(* NUMERICs (ValuesAreAsDocumented).                                       *)
ValuesAreTrue ==
  IsValue => Holds(target, Seen(data)) \/ Wrapped
               \/ MisreadBit \/ ZeroTimestamp \/ CutNumeric

(* A bit is 0 for a text that says so: a boolean may come as the word      *)
(* False (Column.cpp:319).  The driver compares with the text "0".         *)
BitsAreTrue == IsValue /\ target.as = "bit" => Holds(target, Seen(data))

(* Day zero is NULL, as a date and as a timestamp (NEWS:146).  The driver  *)
(* looks for it in dates only.                                             *)
ZeroDatesAreNull ==
  IsValue /\ target.as \in {"date", "timestamp"} => Seen(data).n # 0

(* All eight bytes of the number in a NUMERIC are delivered, and only      *)
(* zeros are left out (TranslationWorkers.cpp:591 and :605).  The driver   *)
(* copies seven.                                                           *)
NumericsAreWhole == IsValue /\ asked = "NUMERIC" => target.n = Seen(data).n

(* What comments and NEWS say of the values of bits, dates and NUMERICs is *)
(* true of what an application gets.  Each of the three is violated.       *)
ValuesAreAsDocumented == BitsAreTrue /\ ZeroDatesAreNull /\ NumericsAreWhole

(* The indicator is true.  Whatever is converted, by a fetch into a bound  *)
(* buffer or by SQLGetData, writes it, unless the call returns an error:   *)
(* an application that finds the indicator of the row before has been told *)
(* so.  A call that fails, which may have written half of a NUMERIC, never *)
(* leaves a length.  NULL is told without an error for texts that say      *)
(* nothing, for day zero, and with a warning if there is no translator,    *)
(* never for a value.                                                      *)
IndicatorIsTrue ==
  /\ asked # "-" /\ ret # "ERROR" => ind # "unset"
  /\ ret = "ERROR" => ind # "size"
  /\ ind = "NULL" /\ ret # "ERROR" =>
       \/ IsBlank(Seen(data))
       \/ Seen(data).form \in {"date", "dateTime"} /\ Seen(data).n = 0
       \/ ret = "SUCCESS_WITH_INFO" /\ state = "01000"

(* A text that is right for the field arrives if it is fetched with the    *)
(* type the driver itself describes the column with, or with the default   *)
(* type, whatever the settings.  (A decimal only if it is one digit or     *)
(* decimals are strings.  A decoded lookup whose field is no text has the  *)
(* type of the field by default, and does not arrive.)                     *)
Right(text) ==
  CASE field.type = "BOOLEAN" -> text.form = "number" /\ text.n \in {0, 1}
    [] field.type \in {"DATE", "DATE_TIME", "TIME"} ->
         text.form = (CASE field.type = "DATE" -> "date"
                        [] field.type = "DATE_TIME" -> "dateTime"
                        [] field.type = "TIME" -> "time") /\ text.n > 0
    [] field.type \in {"TINY", "SMALL", "INT", "LONG"} ->
         text.form = "number" /\ ~text.padded /\ (text.commas => field.separator)
           /\ FitsSigned(text.n, Bytes(Rets2Odbc[field.type]))
    [] field.type = "DECIMAL" ->
         text.form = "number" /\ IsPlain(text) /\ text.n \in 0..9
    [] field.type = "CHARACTER" -> text.form # "empty"

GoodTextsArrive ==
  ~IsLookupColumn /\ Right(data) /\ asked \in {"C_DEFAULT", getDataType}
    => ret = "SUCCESS" /\ ind = "size"

================================================================================
