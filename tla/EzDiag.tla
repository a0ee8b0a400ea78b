-------------------------------- MODULE EzDiag ---------------------------------
(***************************************************************************)
(* Diagnostics.  Every handle (AbstractHandle) keeps a list of records in  *)
(* mErrors. A method of a handle that does something starts by clearing    *)
(* the list and appends what went wrong; an exception that leaves the      *)
(* method becomes one more record, made by the entry (OdbcEntry).          *)
(* Functions that are not implemented append without clearing.             *)
(*                                                                         *)
(* One environment, one connection, one statement and one of its           *)
(* descriptors are looked at. A call is abstracted to its outcome: return  *)
(* code and SQLSTATEs appended. What the calls do besides is in the other  *)
(* modules; the connection is open or not, whatever the outcome was.       *)
(***************************************************************************)
EXTENDS Integers, Sequences, FiniteSets, OdbcText

CONSTANTS
  Handles,      \* the kinds of handles looked at, of AllHandles
  ColumnCount,  \* number of columns of the statement's result set
  Sizes,        \* lengths of texts
  Lengths,      \* lengths of buffers
  MaxRecords    \* bound: records on a handle

AllHandles == {"env", "dbc", "stmt", "desc"}

ASSUME DiagAssumption ==
  /\ Handles \subseteq AllHandles
  /\ ColumnCount \in Nat
  /\ Sizes \subseteq Nat
  /\ Lengths \subseteq Nat
  /\ MaxRecords \in Nat

VARIABLES
  mErrors,  \* per handle: the records, by SQLSTATE; Earlier if an earlier call made it
  last      \* the last call: handle, function, return code, column, text

diagVars == <<mErrors, last>>

Earlier == "earlier"

NoText == [copied |-> 0, told |-> 0, ret |-> "none", recorded |-> FALSE]
NoCall == [handle |-> "none", fn |-> "none", ret |-> "SUCCESS", column |-> 0,
           size |-> 0, text |-> NoText]

DiagInit ==
  /\ mErrors = [h \in Handles |-> <<>>]
  /\ last = NoCall

-----------------------------------------------------------------------------
(* Outcomes.                                                               *)

Good == [ret |-> "SUCCESS", adds |-> <<>>]
Exhausted == [ret |-> "NO_DATA", adds |-> <<>>]
Mute == [ret |-> "ERROR", adds |-> <<>>]
Bad(state) == [ret |-> "ERROR", adds |-> <<state>>]
Warned(state) == [ret |-> "SUCCESS_WITH_INFO", adds |-> <<state>>]

(* An exception the method let go: StmtOdbcEntry::logException and the     *)
(* like put it on the handle as HY000.                                     *)
Thrown == Bad("HY000")

(* SQLPrepare: no text, a text that does not parse, names the metadata do  *)
(* not have.                                                               *)
PrepareOutcomes == {Good, Bad("HY009"), Bad("42000"), Bad("42S02"), Thrown}

(* SQLExecute: what the query throws, sorted by its class.                 *)
ExecuteOutcomes ==
  {Good, Bad("42S02"), Bad("42S22"), Bad("42000"), Thrown}

(* SQLExecDirect gives up when SQLPrepare fails.                           *)
ExecDirectOutcomes == {o \in PrepareOutcomes : o # Good} \cup ExecuteOutcomes

(* SQLTables and SQLColumns call every exception a warning, and fail.      *)
ListOutcomes == {Good, Bad("01000")}
ColumnsOutcomes == ListOutcomes \cup {Bad("HYC00")}

(* SQLSpecialColumns, SQLPrimaryKeys and SQLStatistics take no catalog and *)
(* leave exceptions to the entry.                                          *)
CatalogOutcomes == {Good, Bad("HYC00"), Thrown}

(* A row, its end, or a value that could not be put in a bound buffer;     *)
(* the result set is asked for its next row outside of the try block.      *)
FetchOutcomes ==
  {Good, Exhausted, Bad("HY000"), Bad("22007"), Bad("01S01"), Thrown}
FetchScrollOutcomes == FetchOutcomes \cup {Bad("HY106")}

(* Attributes: taken, taken with another value, not taken.                 *)
SetAttrOutcomes == {Good, Warned("01S02"), Bad("HYC00"), Bad("HY092")}
GetAttrOutcomes == {Good, Bad("HYC00")}

(* SQLParamOptions sets two attributes, and neither can go wrong.          *)
ParamOptionsOutcomes == {Good}

(* A data source that can be reached or not; the exception of a login is   *)
(* put on the handle by login, and then SQLConnect adds its own record.    *)
LoginOutcomes ==
  {Good, Bad("08001"), [ret |-> "ERROR", adds |-> <<"08001", "08001">>], Thrown}
ConnectOutcomes == LoginOutcomes \cup {Bad("08002")}

(* SQLDriverConnect: also a data source that lacks an entry.  A login that *)
(* succeeds goes on with SQLDriverConnected.                               *)
DriverConnectOutcomes == (LoginOutcomes \ {Good}) \cup {Exhausted}

(* SQLDisconnect with statements left, or a Logout that throws.            *)
DisconnectOutcomes == {Good, Bad("HY000"), Thrown}
AllocStmtOutcomes ==
  {Good, Bad("HY013"), [ret |-> "INVALID_HANDLE", adds |-> <<"HY009">>]}
AllocConnectOutcomes == AllocStmtOutcomes
ConnectAttrOutcomes == {Good, Bad("HY092")}

(* An attribute RetsENV does not know is an error without a record.        *)
EnvAttrOutcomes == {Good, Mute}

(* A descriptor field; these methods do not clear the records.             *)
SetDescFieldOutcomes == {Good, Warned("01S02"), Bad("HY000"), Thrown}
GetDescFieldOutcomes == {Bad("HY000")}

-----------------------------------------------------------------------------
(* Entries: which function of the API gets to which method of a handle.    *)

(* The entries that check the handle and pass the arguments on.            *)
FirstStmtEntries ==
  [SQLColumns |-> ColumnsOutcomes, SQLExecDirect |-> ExecDirectOutcomes,
   SQLExecute |-> ExecuteOutcomes, SQLFetch |-> FetchOutcomes]
MiddleStmtEntries ==
  [SQLGetStmtAttr |-> GetAttrOutcomes, SQLGetTypeInfo |-> {Good, Thrown},
   SQLNumResultCols |-> {Good}, SQLPrepare |-> PrepareOutcomes,
   SQLSpecialColumns |-> CatalogOutcomes, SQLTables |-> ListOutcomes]
SetStmtEntries ==
  [SQLSetStmtOption |-> SetAttrOutcomes, SQLSetStmtAttr |-> SetAttrOutcomes]
LastStmtEntries ==
  [SQLStatistics |-> CatalogOutcomes, SQLNumParams |-> {Good},
   SQLPrimaryKeys |-> CatalogOutcomes, SQLRowCount |-> {Good},
   SQLExtendedFetch |-> FetchOutcomes, SQLFetchScroll |-> FetchScrollOutcomes,
   SQLParamOptions |-> ParamOptionsOutcomes]

DbcEntries ==
  [SQLAllocStmt |-> AllocStmtOutcomes, SQLConnect |-> ConnectOutcomes,
   SQLDisconnect |-> DisconnectOutcomes,
   SQLDriverConnect |-> DriverConnectOutcomes,
   SQLGetConnectAttr |-> ConnectAttrOutcomes]

EnvEntries ==
  [SQLAllocConnect |-> AllocConnectOutcomes, SQLGetEnvAttr |-> EnvAttrOutcomes,
   SQLSetEnvAttr |-> EnvAttrOutcomes]

DescEntries ==
  [SQLSetDescField |-> SetDescFieldOutcomes,
   SQLGetDescField |-> GetDescFieldOutcomes]

(* The tables of a handle, and the functions in them.                      *)
Entries ==
  [stmt |-> {FirstStmtEntries, MiddleStmtEntries, SetStmtEntries, LastStmtEntries},
   dbc |-> {DbcEntries}, env |-> {EnvEntries}, desc |-> {DescEntries}]
EntryFunctions(h) == UNION {DOMAIN table : table \in Entries[h]}

(* The functions of NotImplemented.cpp that leave a record.                *)
StmtNotImplemented ==
  {"SQLBindParameter", "SQLBulkOperations", "SQLCloseCursor",
   "SQLColumnPrivileges", "SQLDescribeParam", "SQLForeignKeys"}
CursorsNotImplemented ==
  {"SQLGetCursorName", "SQLParamData", "SQLProcedureColumns", "SQLProcedures",
   "SQLPutData"}
MoreNotImplemented ==
  {"SQLSetCursorName", "SQLSetParam", "SQLSetPos", "SQLSetScrollOptions",
   "SQLTablePrivileges"}
NotImplemented ==
  [stmt |-> StmtNotImplemented \cup CursorsNotImplemented
              \cup MoreNotImplemented \cup {"SQLEndTran"},
   dbc |-> {"SQLGetConnectOption", "SQLNativeSql", "SQLEndTran"},
   env |-> {"SQLTransact", "SQLEndTran"},
   desc |-> {"SQLCopyDesc", "SQLSetDescRec"}]

(* The functions that do nothing, successfully.                            *)
Pretended == [stmt |-> {"SQLCancel"},
              dbc |-> {"SQLSetConnectAttr", "SQLSetConnectOption"},
              env |-> {}, desc |-> {}]

-----------------------------------------------------------------------------
(* Calls.                                                                  *)

(* The call fn on h: the records of the handles in cleared go, those of    *)
(* the outcome o are put behind what h still has.                          *)
Respond(h, fn, cleared, o, column, size, text) ==
  LET kept(g) == IF g \in cleared THEN <<>>
                 ELSE [i \in DOMAIN mErrors[g] |-> Earlier]
  IN  /\ h \in Handles
      /\ Len(kept(h)) + Len(o.adds) <= MaxRecords
      /\ mErrors' = [g \in Handles |-> kept(g) \o IF g = h THEN o.adds ELSE <<>>]
      /\ last' = [handle |-> h, fn |-> fn, ret |-> o.ret, column |-> column,
                  size |-> size, text |-> text]

(* A call without column or text.                                          *)
Done(h, fn, cleared, o) == Respond(h, fn, cleared, o, 0, 0, NoText)

(* Faulty: mErrors.clear() forgotten.                                      *)
FaultyClearedBy(h) == {}

(* What a method of the handle clears first; descriptors' methods do not.  *)
ClearedBy(h) == {h} \ {"desc"}

(* Faulty: an error the entry catches is not put on the handle.            *)
FaultyEntryCall(h) ==
  \E table \in Entries[h] : \E fn \in DOMAIN table : \E o \in table[fn] :
    Done(h, fn, ClearedBy(h), IF o = Thrown THEN Mute ELSE o)

(* A function whose entry calls the method of the handle.                  *)
EntryCall(h) ==
  \E table \in Entries[h] : \E fn \in DOMAIN table : \E o \in table[fn] :
    Done(h, fn, ClearedBy(h), o)

(* A null handle: assertPrecondition throws, and there is no handle to put *)
(* a record on.                                                            *)
NullHandle(h) ==
  \E fn \in EntryFunctions(h) :
    Done(h, fn, {}, [ret |-> "INVALID_HANDLE", adds |-> <<>>])

(* A function that is not implemented: the record goes behind those that   *)
(* are there.                                                              *)
NotImplementedCall(h) == \E fn \in NotImplemented[h] : Done(h, fn, {}, Thrown)

(* SQLSetConnectAttr, SQLCancel: success, and the records stay.            *)
PretendedCall(h) == \E fn \in Pretended[h] : Done(h, fn, {}, Good)

(* SQLMoreResults is answered by its entry.                                *)
SQLMoreResults == Done("stmt", "SQLMoreResults", {}, Exhausted)

(* The statement is not dropped: RetsDBC::SQLFreeStmt clears the records   *)
(* of the connection, not those of the statement.                          *)
SQLFreeStmt ==
  LET freed == [ret |-> "SUCCESS", adds |-> <<>>]
  IN  Done("stmt", "SQLFreeStmt", {"dbc"}, freed)

(* The connection is in use: the records of the environment are cleared,   *)
(* and no record says why it cannot be freed.                              *)
SQLFreeConnect == Done("dbc", "SQLFreeConnect", {"env"}, Mute)

(* An environment with a connection.                                       *)
SQLFreeEnv == Done("env", "SQLFreeEnv", {}, Mute)

-----------------------------------------------------------------------------
(* Columns.                                                                *)

(* The guard of SQLBindCol, SQLDescribeCol, SQLColAttribute and SQLGetData.*)
BadColumn(n) == n < 1 /\ n > ColumnCount

InRange(n) == n \in 1 .. ColumnCount

(* The guard is never true; what comes of a column that is not there is    *)
(* left to the exception.                                                  *)
NoSuchColumn(n, excepted) == IF BadColumn(n) THEN Bad("07009") ELSE excepted

ColumnOutcome(fn, n, o) == Respond("stmt", fn, {"stmt"}, o, n, 0, NoText)

(* A column that is not there is vector::at's exception; a null buffer is  *)
(* refused without a record.                                               *)
BindColCall(n, null) ==
  ColumnOutcome("SQLBindCol", n,
    IF BadColumn(n) THEN Bad("07009")
    ELSE IF null THEN Mute
    ELSE IF InRange(n) THEN Good ELSE Thrown)

(* The name of the column, cut to the buffer.                              *)
DescribeColCall(n, size, length) ==
  \/ /\ ~InRange(n)
     /\ ColumnOutcome("SQLDescribeCol", n, NoSuchColumn(n, Thrown))
  \/ /\ InRange(n)
     /\ Respond("stmt", "SQLDescribeCol", {"stmt"}, Good, n, size,
                SilentText(size, length, FALSE))

(* A number, an attribute that is not known, a name, or the name of the    *)
(* type; no query, no result set.                                          *)
ColAttributeCall(n, size, length) ==
  \/ ColumnOutcome("SQLColAttribute", n, Bad("07005"))
  \/ /\ ~InRange(n)
     /\ ColumnOutcome("SQLColAttribute", n, NoSuchColumn(n, Thrown))
  \/ /\ InRange(n)
     /\ \E o \in {Good, Bad("HYC00")} : ColumnOutcome("SQLColAttribute", n, o)
  \/ /\ InRange(n)
     /\ \E text \in {SetString(size, length, FALSE),
                     TypeName(size, length, FALSE)} :
          Respond("stmt", "SQLColAttribute", {"stmt"},
                  [ret |-> text.ret,
                   adds |-> IF text.recorded THEN <<"01004">> ELSE <<>>],
                  n, size, text)

(* Here the exception of a column that is not there is caught, with all    *)
(* others.                                                                 *)
GetDataCall(n) ==
  \/ /\ ~InRange(n)
     /\ ColumnOutcome("SQLGetData", n, NoSuchColumn(n, Bad("HY000")))
  \/ /\ InRange(n)
     /\ \E o \in {Good, Exhausted, Warned("01004"), Warned("01000"),
                  Bad("22007"), Bad("HY000")} :
          ColumnOutcome("SQLGetData", n, o)

ColumnCall ==
  \E n \in 0 .. ColumnCount + 1 :
    \/ \E null \in BOOLEAN : BindColCall(n, null)
    \/ GetDataCall(n)
    \/ \E size \in Sizes, length \in Lengths :
         DescribeColCall(n, size, length) \/ ColAttributeCall(n, size, length)

(* The connection handle gives out a text; one that is cut is recorded.    *)
TextOfDbc(fn, size, text) ==
  Respond("dbc", fn, {"dbc"},
          [ret |-> text.ret, adds |-> IF text.recorded THEN <<"01004">> ELSE <<>>],
          0, size, text)

(* SQLGetInfo: a number or a string, or an information it does not know,   *)
(* which is an error without a record.                                     *)
SQLGetInfo ==
  \/ Done("dbc", "SQLGetInfo", {"dbc"}, Good)
  \/ Done("dbc", "SQLGetInfo", {"dbc"}, Mute)
  \/ \E size \in Sizes, length \in Lengths :
       TextOfDbc("SQLGetInfo", size, SetString(size, length, FALSE))

(* The end of SQLDriverConnect after a login: the completed connection     *)
(* string, for which there may be no buffer.                               *)
SQLDriverConnected ==
  \E size \in Sizes, length \in Lengths, null \in BOOLEAN :
    TextOfDbc("SQLDriverConnect", size, OutConnectionString(size, length, null))

-----------------------------------------------------------------------------
(* Reading the records.                                                    *)

(* What SQLGetDiagRec returns for record n and a message of this size.     *)
DiagRec(h, n, size, length) ==
  IF n <= 0 \/ length < 0 THEN [ret |-> "ERROR", text |-> NoText]
  ELSE IF n > Len(mErrors[h]) THEN [ret |-> "NO_DATA", text |-> NoText]
  ELSE LET text == MessageText(size, length, FALSE)
       IN  [ret |-> text.ret, text |-> text]

(* Faulty: reading a record removes it, as SQLError would.                 *)
FaultySQLGetDiagRec(h) ==
  \E size \in Sizes, length \in Lengths :
    /\ h \in Handles
    /\ LET got == DiagRec(h, 1, size, length)
       IN  Respond(h, "SQLGetDiagRec", {h}, [ret |-> got.ret, adds |-> <<>>], 1,
                   IF got.text = NoText THEN 0 ELSE size, got.text)

SQLGetDiagRec(h) ==
  \E n \in 0 .. MaxRecords + 1, size \in Sizes, length \in Lengths \cup {-1} :
    /\ h \in Handles
    /\ LET got == DiagRec(h, n, size, length)
       IN  Respond(h, "SQLGetDiagRec", {}, [ret |-> got.ret, adds |-> <<>>],
                   n, IF got.text = NoText THEN 0 ELSE size, got.text)

(* The first record; then all are removed.                                 *)
SQLError(h) ==
  \E size \in Sizes, length \in Lengths \cup {-1} :
    /\ h \in Handles
    /\ LET got == DiagRec(h, 1, size, length)
       IN  Respond(h, "SQLError", IF got.ret = "ERROR" THEN {} ELSE {h},
                   [ret |-> got.ret, adds |-> <<>>], 1,
                   IF got.text = NoText THEN 0 ELSE size, got.text)

(* Fields, by the sign of their identifiers and what they need; one or two *)
(* of each sort.                                                           *)
NegativeFields == {"CURSOR_ROW_COUNT", "ROW_NUMBER"}
StatementFields == {"CURSOR_ROW_COUNT", "DYNAMIC_FUNCTION"}
TextFields == {"MESSAGE_TEXT", "SERVER_NAME"}
DiagFields == NegativeFields \cup StatementFields \cup TextFields
                \cup {"NUMBER", "ROW_COUNT"}

(* A negative record number is an exception of numeric_cast.               *)
DiagFieldResult(h, n, field) ==
  IF n < 0 THEN "ERROR"
  ELSE IF n > Len(mErrors[h]) THEN "NO_DATA"
  ELSE IF n = 0 /\ field \notin NegativeFields THEN "ERROR"
  ELSE IF field = "ROW_COUNT" \/ (field \in StatementFields /\ h # "stmt")
       THEN "ERROR" ELSE "SUCCESS"

SQLGetDiagField(h) ==
  \E n \in -1 .. MaxRecords + 1, field \in DiagFields :
    /\ h \in Handles
    /\ LET o == [ret |-> DiagFieldResult(h, n, field), adds |-> <<>>]
       IN  IF o.ret = "SUCCESS" /\ field \in TextFields
           THEN \E size \in Sizes, length \in Lengths :
                  Respond(h, "SQLGetDiagField", {}, o, n, size,
                          SilentText(size, length, FALSE))
           ELSE Respond(h, "SQLGetDiagField", {}, o, n, 0, NoText)

DiagNext ==
  \/ \E h \in Handles :
       \/ EntryCall(h) \/ NullHandle(h) \/ NotImplementedCall(h)
       \/ PretendedCall(h) \/ SQLGetDiagRec(h) \/ SQLGetDiagField(h)
       \/ SQLError(h)
  \/ SQLMoreResults \/ SQLFreeStmt \/ SQLFreeConnect \/ SQLFreeEnv
  \/ ColumnCall \/ SQLGetInfo \/ SQLDriverConnected

DiagSpec == DiagInit /\ [][DiagNext]_diagVars

-----------------------------------------------------------------------------
(* Properties.                                                             *)

Reading == {"SQLGetDiagRec", "SQLGetDiagField", "SQLError"}

(* The functions that may fail without saying why.                         *)
MayBeMute == Reading \cup {"SQLBindCol", "SQLGetInfo", "SQLFreeConnect",
                           "SQLFreeEnv", "SQLGetEnvAttr", "SQLSetEnvAttr"}

(* The functions that clear the records of the handle they are called on.  *)
Clearing == EntryFunctions("stmt") \cup EntryFunctions("dbc") \cup EntryFunctions("env")
              \cup {"SQLBindCol", "SQLDescribeCol", "SQLColAttribute",
                    "SQLGetData", "SQLGetInfo"}

Records == mErrors[last.handle]

(* A call that fails, or succeeds with information, leaves a record of     *)
(* its own, the last of the handle; exceptions included.                   *)
FailureIsExplained ==
  last.ret \in {"ERROR", "SUCCESS_WITH_INFO"} /\ last.fn \notin MayBeMute =>
    Records # <<>> /\ Records[Len(Records)] # Earlier

(* An application that reads record 1 after a call reads about that call,  *)
(* not about an older one: all records of the handle are of the call.      *)
(* After a success there is nothing to read, except for the 01004 of a     *)
(* type name whose return code SQLColAttribute drops.                      *)
RecordsAreOfTheLastCall ==
  last.fn \in Clearing /\ last.ret # "INVALID_HANDLE" =>
    /\ \A i \in DOMAIN Records : Records[i] # Earlier
    /\ last.ret \in {"SUCCESS", "NO_DATA"} =>
         Records = <<>> \/ (last.fn = "SQLColAttribute" /\ last.text.copied < last.size)

(* Records disappear when the next function of the same handle clears      *)
(* them, when a statement or a connection below it is freed, or because    *)
(* SQLError removes all of them after returning the first: reading records *)
(* one by one, or calling what is not implemented, loses none.             *)
LostRecords ==
  [][\A h \in Handles : Len(mErrors'[h]) < Len(mErrors[h]) =>
       \/ last'.handle = h /\ last'.fn \in Clearing \cup {"SQLError"}
       \/ h = "dbc" /\ last'.fn = "SQLFreeStmt"
       \/ h = "env" /\ last'.fn = "SQLFreeConnect"]_diagVars

(* A text that a function called complete is complete, except that a       *)
(* message whose size is the buffer's lacks its last character; the        *)
(* functions that never report a cut are left out.  A cut string of        *)
(* SQLGetInfo, SQLColAttribute or SQLDriverConnect has a record and its    *)
(* full length, whatever the return code.                                  *)
CutTextIsTold ==
  /\ last.ret = "SUCCESS" /\ last.text # NoText /\ ~last.text.recorded
       /\ last.fn \notin {"SQLGetDiagField", "SQLDescribeCol"} =>
         last.text.copied + 1 >= last.size
  /\ last.fn \in {"SQLGetInfo", "SQLColAttribute", "SQLDriverConnect"}
       /\ last.text.copied < last.size =>
       /\ Records # <<>> /\ Records[1] = "01004"
       /\ last.text.told = last.size

================================================================================
