----------------------------- MODULE EzDiag_proofs -----------------------------
(***************************************************************************)
(* Proofs about EzDiag, for any texts, buffers, columns and any number of  *)
(* records.                                                                *)
(*                                                                         *)
(* All properties speak of the last call, so what is needed of the state   *)
(* before it is only that the records are lists.  A call is Proper if its  *)
(* outcome, what it clears and the text it returns fit together; a proper  *)
(* call has all four properties, and every action is a proper call.        *)
(***************************************************************************)
EXTENDS EzDiag, SequenceTheorems, TLAPS

SqlState ==
  {"01000", "01004", "01S01", "01S02", "07005", "07009", "08001", "08002",
   "22007", "42000", "42S02", "42S22", "HY000", "HY009", "HY013", "HY092",
   "HY106", "HYC00"}
ReturnCode == {"SUCCESS", "SUCCESS_WITH_INFO", "NO_DATA", "ERROR", "INVALID_HANDLE"}

TypeOK == mErrors \in [Handles -> Seq(SqlState \cup {Earlier})]

Outcome == [ret: ReturnCode, adds: Seq(SqlState)]

Succeeded == {"SUCCESS", "NO_DATA"}
Failed == {"ERROR", "SUCCESS_WITH_INFO"}

(* What LostRecords says of one handle whose records become fewer.         *)
MayLose(g, h, fn) ==
  \/ h = g /\ fn \in Clearing \cup {"SQLError"}
  \/ g = "dbc" /\ fn = "SQLFreeStmt"
  \/ g = "env" /\ fn = "SQLFreeConnect"

ProperOutcome(h, fn, cleared, o) ==
  /\ o \in Outcome
  /\ o.ret \in Failed /\ fn \notin MayBeMute => o.adds # <<>>
  /\ fn \in Clearing /\ o.ret # "INVALID_HANDLE" => h \in cleared
  /\ \A g \in cleared : MayLose(g, h, fn)

(* A text that is cut has a record, or the return code, or the function is *)
(* one that does not tell.                                                 *)
ProperText(h, fn, cleared, o, size, text) ==
  /\ o.ret \in Succeeded /\ fn \in Clearing =>
       o.adds = <<>> \/ (fn = "SQLColAttribute" /\ text.copied < size)
  /\ o.ret = "SUCCESS" /\ text # NoText /\ ~text.recorded
       /\ fn \notin {"SQLGetDiagField", "SQLDescribeCol"} => text.copied + 1 >= size
  /\ fn \in {"SQLGetInfo", "SQLColAttribute", "SQLDriverConnect"} /\ text.copied < size =>
       h \in cleared /\ o.adds = <<"01004">> /\ text.told = size

NoneLost ==
  \A h \in Handles : Len(mErrors'[h]) < Len(mErrors[h]) =>
    \/ last'.handle = h /\ last'.fn \in Clearing \cup {"SQLError"}
    \/ h = "dbc" /\ last'.fn = "SQLFreeStmt"
    \/ h = "env" /\ last'.fn = "SQLFreeConnect"

-----------------------------------------------------------------------------
(* Outcomes.                                                               *)

(* What a call of the entries' tables may end with.                        *)
Explaining ==
  {o \in Outcome : /\ o.ret \in Failed => o.adds # <<>>
                   /\ o.ret \in Succeeded => o.adds = <<>>}

LEMMA SimpleOutcomes ==
  /\ {Good, Exhausted, Thrown} \subseteq Explaining
  /\ Mute \in Outcome
  BY DEF Outcome, ReturnCode, SqlState, Explaining, Succeeded, Failed,
         Good, Exhausted, Mute, Thrown, Bad

LEMMA StateOutcomes ==
  ASSUME NEW state \in SqlState
  PROVE  /\ {Bad(state), Warned(state)} \subseteq Explaining
         /\ [ret |-> "INVALID_HANDLE", adds |-> <<state>>] \in Explaining
         /\ [ret |-> "ERROR", adds |-> <<state, state>>] \in Explaining
  BY DEF Outcome, ReturnCode, Explaining, Succeeded, Failed, Bad, Warned

LEMMA StmtOutcomes ==
  ASSUME NEW table \in Entries.stmt, NEW fn \in DOMAIN table, NEW o \in table[fn]
  PROVE  o \in Explaining /\ fn \in Clearing
<1>1. /\ PrepareOutcomes \subseteq Explaining
      /\ ExecuteOutcomes \subseteq Explaining
      /\ ListOutcomes \subseteq Explaining
      /\ CatalogOutcomes \subseteq Explaining
      /\ FetchOutcomes \subseteq Explaining
      /\ SetAttrOutcomes \subseteq Explaining
      /\ GetAttrOutcomes \subseteq Explaining
      /\ ParamOptionsOutcomes \subseteq Explaining
  BY SimpleOutcomes, StateOutcomes
     DEF PrepareOutcomes, ExecuteOutcomes, ListOutcomes, CatalogOutcomes,
         FetchOutcomes, SetAttrOutcomes, GetAttrOutcomes, ParamOptionsOutcomes, SqlState
<1>2. /\ ExecDirectOutcomes \subseteq Explaining
      /\ ColumnsOutcomes \subseteq Explaining
      /\ FetchScrollOutcomes \subseteq Explaining
  BY <1>1, SimpleOutcomes, StateOutcomes
     DEF ExecDirectOutcomes, ColumnsOutcomes, FetchScrollOutcomes, SqlState
<1>3. fn \in Clearing
  BY DEF Clearing, EntryFunctions
<1>4. o \in Explaining
  <2>1. CASE table = FirstStmtEntries
    BY <1>1, <1>2, <2>1 DEF FirstStmtEntries
  <2>2. CASE table = MiddleStmtEntries
    BY <1>1, <1>2, <2>2, SimpleOutcomes DEF MiddleStmtEntries
  <2>3. CASE table = SetStmtEntries
    BY <1>1, <2>3 DEF SetStmtEntries
  <2>4. CASE table = LastStmtEntries
    BY <1>1, <1>2, <2>4, SimpleOutcomes DEF LastStmtEntries
  <2>5. QED
    BY <2>1, <2>2, <2>3, <2>4 DEF Entries
<1>5. QED
  BY <1>3, <1>4

LEMMA DbcOutcomes ==
  ASSUME NEW table \in Entries.dbc, NEW fn \in DOMAIN table, NEW o \in table[fn]
  PROVE  o \in Explaining /\ fn \in Clearing
<1>1. /\ ConnectOutcomes \subseteq Explaining
      /\ DriverConnectOutcomes \subseteq Explaining
      /\ DisconnectOutcomes \subseteq Explaining
      /\ AllocStmtOutcomes \subseteq Explaining
      /\ ConnectAttrOutcomes \subseteq Explaining
  BY SimpleOutcomes, StateOutcomes
     DEF LoginOutcomes, ConnectOutcomes, DriverConnectOutcomes, DisconnectOutcomes,
         AllocStmtOutcomes, ConnectAttrOutcomes, SqlState
<1>2. fn \in Clearing
  BY DEF Clearing, EntryFunctions
<1>3. o \in Explaining
  BY <1>1 DEF Entries, DbcEntries
<1>4. QED
  BY <1>2, <1>3

(* The environment's attributes may fail without a record.                 *)
LEMMA EnvOutcomes ==
  ASSUME NEW table \in Entries.env, NEW fn \in DOMAIN table, NEW o \in table[fn]
  PROVE  /\ o \in Explaining \/ (o = Mute /\ fn \in MayBeMute)
         /\ fn \in Clearing
<1>1. fn \in Clearing
  BY DEF Clearing, EntryFunctions
<1>2. AllocConnectOutcomes \subseteq Explaining
  BY SimpleOutcomes, StateOutcomes
     DEF AllocConnectOutcomes, AllocStmtOutcomes, SqlState
<1>3. table = EnvEntries
  BY DEF Entries
<1>4. CASE fn = "SQLAllocConnect"
  BY <1>1, <1>2, <1>3, <1>4 DEF EnvEntries
<1>5. CASE fn # "SQLAllocConnect"
  <2>1. fn \in {"SQLGetEnvAttr", "SQLSetEnvAttr"} /\ table[fn] = EnvAttrOutcomes
    BY <1>3, <1>5 DEF EnvEntries
  <2>2. QED
    BY <1>1, <2>1, SimpleOutcomes DEF EnvAttrOutcomes, MayBeMute
<1>6. QED
  BY <1>4, <1>5

LEMMA DescOutcomes ==
  ASSUME NEW table \in Entries.desc, NEW fn \in DOMAIN table, NEW o \in table[fn]
  PROVE  o \in Explaining
<1>1. /\ SetDescFieldOutcomes \subseteq Explaining
      /\ GetDescFieldOutcomes \subseteq Explaining
  BY SimpleOutcomes, StateOutcomes
     DEF SetDescFieldOutcomes, GetDescFieldOutcomes, SqlState
<1>2. QED
  BY <1>1 DEF Entries, DescEntries

(* The functions by name.                                                  *)
LEMMA ClearingFunctions ==
  /\ Clearing =
       {"SQLColumns", "SQLExecDirect", "SQLExecute", "SQLFetch", "SQLGetStmtAttr",
        "SQLGetTypeInfo", "SQLNumResultCols", "SQLPrepare", "SQLSpecialColumns",
        "SQLTables", "SQLSetStmtOption", "SQLSetStmtAttr", "SQLStatistics",
        "SQLNumParams", "SQLPrimaryKeys", "SQLRowCount", "SQLExtendedFetch",
        "SQLFetchScroll", "SQLParamOptions", "SQLAllocStmt", "SQLConnect",
        "SQLDisconnect", "SQLDriverConnect", "SQLGetConnectAttr",
        "SQLAllocConnect", "SQLGetEnvAttr", "SQLSetEnvAttr", "SQLBindCol",
        "SQLDescribeCol", "SQLColAttribute", "SQLGetData", "SQLGetInfo"}
  /\ EntryFunctions("desc") = {"SQLSetDescField", "SQLGetDescField"}
<1>1. EntryFunctions("stmt") =
        {"SQLColumns", "SQLExecDirect", "SQLExecute", "SQLFetch", "SQLGetStmtAttr",
         "SQLGetTypeInfo", "SQLNumResultCols", "SQLPrepare", "SQLSpecialColumns",
         "SQLTables", "SQLSetStmtOption", "SQLSetStmtAttr", "SQLStatistics",
         "SQLNumParams", "SQLPrimaryKeys", "SQLRowCount", "SQLExtendedFetch",
         "SQLFetchScroll", "SQLParamOptions"}
  <2>1. EntryFunctions("stmt") =
          DOMAIN FirstStmtEntries \cup DOMAIN MiddleStmtEntries
            \cup DOMAIN SetStmtEntries \cup DOMAIN LastStmtEntries
    BY DEF EntryFunctions, Entries
  <2>2. QED
    BY <2>1 DEF FirstStmtEntries, MiddleStmtEntries, SetStmtEntries, LastStmtEntries
<1>2. /\ EntryFunctions("dbc") =
           {"SQLAllocStmt", "SQLConnect", "SQLDisconnect", "SQLDriverConnect",
            "SQLGetConnectAttr"}
      /\ EntryFunctions("env") = {"SQLAllocConnect", "SQLGetEnvAttr", "SQLSetEnvAttr"}
      /\ EntryFunctions("desc") = {"SQLSetDescField", "SQLGetDescField"}
  BY DEF EntryFunctions, Entries, DbcEntries, EnvEntries, DescEntries
<1>3. QED
  BY <1>1, <1>2 DEF Clearing

-----------------------------------------------------------------------------
(* A call.                                                                 *)

LEMMA RespondRecords ==
  ASSUME TypeOK, NEW h, NEW fn, NEW cleared, NEW o \in Outcome,
         NEW column, NEW size, NEW text, Respond(h, fn, cleared, o, column, size, text)
  PROVE  /\ h \in Handles /\ TypeOK'
         /\ last' = [handle |-> h, fn |-> fn, ret |-> o.ret, column |-> column,
                     size |-> size, text |-> text]
         /\ h \in cleared => mErrors'[h] = o.adds
         /\ o.adds # <<>> => /\ mErrors'[h] # <<>>
                            /\ mErrors'[h][Len(mErrors'[h])] \in SqlState
         /\ \A g \in Handles \ cleared : Len(mErrors'[g]) >= Len(mErrors[g])
<1> DEFINE Record == SqlState \cup {Earlier}
           Kept(g) == IF g \in cleared THEN <<>>
                      ELSE [i \in DOMAIN mErrors[g] |-> Earlier]
           Added(g) == IF g = h THEN o.adds ELSE <<>>
<1>1. /\ h \in Handles
      /\ mErrors' = [g \in Handles |-> Kept(g) \o Added(g)]
      /\ last' = [handle |-> h, fn |-> fn, ret |-> o.ret, column |-> column,
                  size |-> size, text |-> text]
  BY DEF Respond
<1>2. o.adds \in Seq(SqlState) /\ o.adds \in Seq(Record)
  BY DEF Outcome
<1>3. ASSUME NEW g \in Handles
      PROVE  /\ Kept(g) \in Seq(Record) /\ Added(g) \in Seq(Record)
             /\ g \notin cleared => Len(Kept(g)) = Len(mErrors[g])
             /\ Len(mErrors[g]) \in Nat
             /\ g \in cleared => Kept(g) = <<>>
  <2>1. mErrors[g] \in Seq(Record)
    BY DEF TypeOK
  <2>2. [i \in DOMAIN mErrors[g] |-> Earlier] \in Seq(Record)
    BY <2>1
  <2>3. Len([i \in DOMAIN mErrors[g] |-> Earlier]) = Len(mErrors[g])
    BY <2>1
  <2>4. QED
    BY <1>2, <2>1, <2>2, <2>3
<1> HIDE DEF Record, Kept, Added
<1>4. ASSUME NEW g \in Handles
      PROVE  /\ mErrors'[g] = Kept(g) \o Added(g)
             /\ mErrors'[g] \in Seq(Record)
             /\ Len(mErrors'[g]) = Len(Kept(g)) + Len(Added(g))
  BY <1>1, <1>3
<1>5. TypeOK'
  BY <1>1, <1>4 DEF TypeOK, Record
<1>6. ASSUME h \in cleared
      PROVE  mErrors'[h] = o.adds
  <2>1. Kept(h) = <<>> /\ Added(h) = o.adds
    BY <1>1, <1>3, <1>6 DEF Added
  <2>2. QED
    BY <1>1, <1>2, <1>4, <2>1
<1>7. ASSUME o.adds # <<>>
      PROVE  /\ mErrors'[h] # <<>>
             /\ mErrors'[h][Len(mErrors'[h])] \in SqlState
  <2>1. Added(h) = o.adds /\ Len(o.adds) \in Nat /\ Len(o.adds) > 0
    BY <1>2, <1>7 DEF Added
  <2>2. o.adds[Len(o.adds)] \in SqlState
    BY <1>2, <2>1
  <2>3. (Kept(h) \o o.adds)[Len(Kept(h)) + Len(o.adds)] = o.adds[Len(o.adds)]
    BY <1>1, <1>2, <1>3, <2>1
  <2>4. QED
    BY <1>1, <1>3, <1>4, <2>1, <2>2, <2>3
<1>8. ASSUME NEW g \in Handles \ cleared
      PROVE  Len(mErrors'[g]) >= Len(mErrors[g])
  BY <1>3, <1>4
<1>9. QED
  BY <1>1, <1>5, <1>6, <1>7, <1>8

Explained == FailureIsExplained /\ RecordsAreOfTheLastCall /\ CutTextIsTold

LEMMA ProperCall ==
  ASSUME TypeOK, NEW h, NEW fn, NEW cleared, NEW o, NEW column, NEW size, NEW text,
         ProperOutcome(h, fn, cleared, o), ProperText(h, fn, cleared, o, size, text),
         Respond(h, fn, cleared, o, column, size, text)
  PROVE  TypeOK' /\ Explained' /\ NoneLost
<1>1. o \in Outcome
  BY DEF ProperOutcome
<1>2. /\ h \in Handles /\ TypeOK'
      /\ last' = [handle |-> h, fn |-> fn, ret |-> o.ret, column |-> column,
                  size |-> size, text |-> text]
      /\ h \in cleared => mErrors'[h] = o.adds
      /\ o.adds # <<>> => /\ mErrors'[h] # <<>>
                         /\ mErrors'[h][Len(mErrors'[h])] \in SqlState
      /\ \A g \in Handles \ cleared : Len(mErrors'[g]) >= Len(mErrors[g])
  BY <1>1, RespondRecords
<1>3. Earlier \notin SqlState
  BY DEF Earlier, SqlState
<1>4. FailureIsExplained'
  BY <1>2, <1>3 DEF FailureIsExplained, Records, ProperOutcome, Failed
<1>5. RecordsAreOfTheLastCall'
  <2>1. ASSUME fn \in Clearing, o.ret # "INVALID_HANDLE"
        PROVE  /\ mErrors'[h] = o.adds
               /\ \A i \in DOMAIN o.adds : o.adds[i] # Earlier
               /\ o.ret \in Succeeded =>
                    o.adds = <<>> \/ (fn = "SQLColAttribute" /\ text.copied < size)
    <3>1. o.adds \in Seq(SqlState)
      BY <1>1 DEF Outcome
    <3>2. \A i \in DOMAIN o.adds : o.adds[i] \in SqlState
      BY <3>1
    <3>3. QED
      BY <1>2, <1>3, <2>1, <3>2 DEF ProperOutcome, ProperText
  <2>2. QED
    BY <1>2, <2>1 DEF RecordsAreOfTheLastCall, Records, Succeeded
<1>6. CutTextIsTold'
  <2>1. ASSUME fn \in {"SQLGetInfo", "SQLColAttribute", "SQLDriverConnect"},
               text.copied < size
        PROVE  /\ mErrors'[h] # <<>> /\ mErrors'[h][1] = "01004"
               /\ text.told = size
    <3>1. h \in cleared /\ o.adds = <<"01004">> /\ text.told = size
      BY <2>1 DEF ProperText
    <3>2. mErrors'[h] = <<"01004">>
      BY <1>2, <3>1
    <3>3. QED
      BY <3>1, <3>2
  <2>2. QED
    BY <1>2, <2>1 DEF CutTextIsTold, Records, ProperText, Succeeded
<1>7. NoneLost
  BY <1>2 DEF NoneLost, ProperOutcome, MayLose
<1>8. QED
  BY <1>2, <1>4, <1>5, <1>6, <1>7 DEF Explained
(* A call without column or text is proper if its outcome explains itself, *)
(* or the function does not clear, or may fail without a record.           *)
LEMMA ProperDone ==
  ASSUME TypeOK, NEW h, NEW fn, NEW cleared, NEW o, NEW column,
         ProperOutcome(h, fn, cleared, o),
         o.ret \in Succeeded /\ fn \in Clearing => o.adds = <<>>,
         Respond(h, fn, cleared, o, column, 0, NoText)
  PROVE  TypeOK' /\ Explained' /\ NoneLost
<1>1. NoText.copied = 0
  BY DEF NoText
<1>2. ProperText(h, fn, cleared, o, 0, NoText)
  BY <1>1 DEF ProperText
<1>3. QED
  BY <1>2, ProperCall

(* The answers of a function that clears nothing.                          *)
LEMMA ProperRead ==
  ASSUME TypeOK, NEW h, NEW fn, fn \notin Clearing, NEW o \in Outcome, NEW column,
         o.ret \in Failed /\ fn \notin MayBeMute => o.adds # <<>>,
         Respond(h, fn, {}, o, column, 0, NoText)
  PROVE  TypeOK' /\ Explained' /\ NoneLost
<1>1. ProperOutcome(h, fn, {}, o)
  BY DEF ProperOutcome
<1>2. QED
  BY <1>1, ProperDone

LEMMA EntryCallStep ==
  ASSUME TypeOK, NEW h \in AllHandles, EntryCall(h)
  PROVE  TypeOK' /\ Explained' /\ NoneLost
<1>1. PICK table \in Entries[h] : \E fn \in DOMAIN table : \E o \in table[fn] :
        Done(h, fn, ClearedBy(h), o)
  BY DEF EntryCall
<1>2. PICK fn \in DOMAIN table : \E o \in table[fn] : Done(h, fn, ClearedBy(h), o)
  BY <1>1
<1>3. PICK o \in table[fn] : Respond(h, fn, ClearedBy(h), o, 0, 0, NoText)
  BY <1>2 DEF Done
<1>4. CASE h # "desc"
  <2>1. ClearedBy(h) = {h}
    BY <1>4 DEF ClearedBy
  <2>2. /\ o \in Explaining \/ (o = Mute /\ fn \in MayBeMute)
        /\ fn \in Clearing
    <3>1. CASE h = "stmt"
      BY <3>1, StmtOutcomes
    <3>2. CASE h = "dbc"
      BY <3>2, DbcOutcomes
    <3>3. CASE h = "env"
      BY <3>3, EnvOutcomes
    <3>4. QED
      BY <1>4, <3>1, <3>2, <3>3 DEF AllHandles
  <2>3. /\ o \in Outcome
        /\ o.ret \in Failed /\ fn \notin MayBeMute => o.adds # <<>>
        /\ o.ret \in Succeeded => o.adds = <<>>
    BY <2>2, SimpleOutcomes DEF Explaining, Mute, Succeeded
  <2>4. ProperOutcome(h, fn, ClearedBy(h), o)
    BY <2>1, <2>2, <2>3 DEF ProperOutcome, MayLose
  <2>5. QED
    BY <1>3, <2>3, <2>4, ProperDone
<1>5. CASE h = "desc"
  <2>1. ClearedBy(h) = {} /\ o \in Explaining
    BY <1>5, DescOutcomes DEF ClearedBy
  <2>2. fn \in EntryFunctions("desc")
    BY <1>5 DEF EntryFunctions
  <2>3. fn \notin Clearing
    BY <2>2, ClearingFunctions
  <2>4. QED
    BY <1>3, <2>1, <2>3, ProperRead DEF Explaining
<1>6. QED
  BY <1>4, <1>5

LEMMA NullHandleStep ==
  ASSUME TypeOK, NEW h \in AllHandles, NullHandle(h)
  PROVE  TypeOK' /\ Explained' /\ NoneLost
<1> DEFINE o == [ret |-> "INVALID_HANDLE", adds |-> <<>>]
<1>1. PICK fn \in EntryFunctions(h) : Respond(h, fn, {}, o, 0, 0, NoText)
  BY DEF NullHandle, Done
<1>2. o \in Outcome /\ o.ret = "INVALID_HANDLE" /\ o.ret \notin Failed \cup Succeeded
  BY DEF Outcome, ReturnCode, Failed, Succeeded
<1> HIDE DEF o
<1>3. ProperOutcome(h, fn, {}, o)
  BY <1>2 DEF ProperOutcome
<1>4. QED
  BY <1>1, <1>2, <1>3, ProperDone

LEMMA NotImplementedCallStep ==
  ASSUME TypeOK, NEW h \in AllHandles, NotImplementedCall(h)
  PROVE  TypeOK' /\ Explained' /\ NoneLost
<1>1. PICK fn \in NotImplemented[h] : Respond(h, fn, {}, Thrown, 0, 0, NoText)
  BY DEF NotImplementedCall, Done
<1>2. NotImplemented[h] =
        CASE h = "stmt" -> StmtNotImplemented \cup CursorsNotImplemented
                             \cup MoreNotImplemented \cup {"SQLEndTran"}
          [] h = "dbc" -> {"SQLGetConnectOption", "SQLNativeSql", "SQLEndTran"}
          [] h = "env" -> {"SQLTransact", "SQLEndTran"}
          [] h = "desc" -> {"SQLCopyDesc", "SQLSetDescRec"}
  BY DEF NotImplemented, AllHandles
<1>3. fn \notin Clearing
  BY <1>1, <1>2, ClearingFunctions
     DEF AllHandles, StmtNotImplemented, CursorsNotImplemented, MoreNotImplemented
<1>4. Thrown \in Outcome /\ Thrown.adds # <<>>
  BY SimpleOutcomes DEF Explaining, Thrown, Bad
<1>5. QED
  BY <1>1, <1>3, <1>4, ProperRead

LEMMA PretendedCallStep ==
  ASSUME TypeOK, NEW h \in AllHandles, PretendedCall(h)
  PROVE  TypeOK' /\ Explained' /\ NoneLost
<1>1. PICK fn \in Pretended[h] : Respond(h, fn, {}, Good, 0, 0, NoText)
  BY DEF PretendedCall, Done
<1>2. fn \notin Clearing
  BY ClearingFunctions DEF Pretended, AllHandles
<1>3. Good \in Outcome /\ Good.ret \notin Failed
  BY SimpleOutcomes DEF Explaining, Good, Failed
<1>4. QED
  BY <1>1, <1>2, <1>3, ProperRead
-----------------------------------------------------------------------------
(* Texts.                                                                  *)

(* What is copied is the text, or the buffer less its last character.      *)
LEMMA CopyStringIs ==
  ASSUME NEW size \in Nat, NEW length \in Nat
  PROVE  /\ CopyString(size, length) \in 0 .. size
         /\ size < length => CopyString(size, length) = size
         /\ size <= length => CopyString(size, length) + 1 >= size
  BY DEF CopyString

(* Of a text that is recorded when it is cut the application knows all it  *)
(* needs.                                                                  *)
CutRecorded(text, size) ==
  /\ text.copied \in Nat
  /\ text.recorded <=> text.copied < size
  /\ text.recorded => text.told = size

(* The return code says so.                                                *)
Honest(text) ==
  /\ text.ret \in {"SUCCESS", "SUCCESS_WITH_INFO"}
  /\ text.recorded <=> text.ret = "SUCCESS_WITH_INFO"

LEMMA RecordedTexts ==
  ASSUME NEW size \in Nat, NEW length \in Nat, NEW null \in BOOLEAN
  PROVE  /\ CutRecorded(SetString(size, length, null), size)
         /\ Honest(SetString(size, length, null))
         /\ CutRecorded(TypeName(size, length, null), size)
         /\ TypeName(size, length, null).ret = "SUCCESS"
         /\ CutRecorded(OutConnectionString(size, length, null), size)
         /\ Honest(OutConnectionString(size, length, null))
<1> DEFINE copied == IF null THEN 0 ELSE CopyString(size, length)
           cut == size > copied
           code == IF cut THEN "SUCCESS_WITH_INFO" ELSE "SUCCESS"
<1>1. copied \in 0 .. size
  BY CopyStringIs
<1>2. /\ cut \in BOOLEAN /\ (cut <=> copied < size)
      /\ code \in {"SUCCESS", "SUCCESS_WITH_INFO"}
      /\ cut <=> code = "SUCCESS_WITH_INFO"
  <2> HIDE DEF copied
  <2>1. QED
    BY <1>1
<1>3. SetString(size, length, null) =
        [copied |-> copied, told |-> size, ret |-> code, recorded |-> cut]
  BY DEF SetString
<1>4. OutConnectionString(size, length, null) =
        [copied |-> copied, told |-> IF cut THEN size ELSE copied,
         ret |-> code, recorded |-> cut]
  BY DEF OutConnectionString
<1> HIDE DEF copied, cut, code
<1>5. TypeName(size, length, null) =
        [copied |-> copied, told |-> size, ret |-> "SUCCESS", recorded |-> cut]
  BY <1>3 DEF TypeName
<1>6. /\ CutRecorded(SetString(size, length, null), size)
      /\ Honest(SetString(size, length, null))
  BY <1>1, <1>2, <1>3 DEF CutRecorded, Honest
<1>7. /\ CutRecorded(TypeName(size, length, null), size)
      /\ TypeName(size, length, null).ret = "SUCCESS"
  BY <1>1, <1>2, <1>5 DEF CutRecorded
<1>8. /\ CutRecorded(OutConnectionString(size, length, null), size)
      /\ Honest(OutConnectionString(size, length, null))
  BY <1>1, <1>2, <1>4 DEF CutRecorded, Honest
<1>9. QED
  BY <1>6, <1>7, <1>8

(* A call that records the text it cuts is proper; the type name's return  *)
(* code is the exception RecordsAreOfTheLastCall makes.                    *)
RecordedOutcome(text) ==
  [ret |-> text.ret, adds |-> IF text.recorded THEN <<"01004">> ELSE <<>>]

LEMMA ProperRecordedText ==
  ASSUME TypeOK, NEW h, NEW fn \in Clearing, NEW column, NEW size \in Nat, NEW text,
         CutRecorded(text, size),
         Honest(text) \/ (fn = "SQLColAttribute" /\ text.ret = "SUCCESS"),
         Respond(h, fn, {h}, RecordedOutcome(text), column, size, text)
  PROVE  TypeOK' /\ Explained' /\ NoneLost
<1> DEFINE o == RecordedOutcome(text)
<1>1. /\ o.ret = text.ret /\ o.adds \in Seq(SqlState) /\ o \in Outcome
      /\ text.recorded => o.adds = <<"01004">> /\ o.adds # <<>>
      /\ ~text.recorded => o.adds = <<>>
  <2>1. text.ret \in ReturnCode
    BY DEF Honest, ReturnCode
  <2>2. CASE text.recorded
    <3>1. o = [ret |-> text.ret, adds |-> <<"01004">>]
      BY <2>2 DEF RecordedOutcome
    <3>2. <<"01004">> \in Seq(SqlState)
      BY DEF SqlState
    <3>3. QED
      BY <2>1, <2>2, <3>1, <3>2 DEF Outcome
  <2>3. CASE ~text.recorded
    <3>1. o = [ret |-> text.ret, adds |-> <<>>]
      BY <2>3 DEF RecordedOutcome
    <3>2. QED
      BY <2>1, <2>3, <3>1 DEF Outcome
  <2>4. QED
    BY <2>2, <2>3
<1> HIDE DEF o
<1>2. /\ text.recorded <=> text.copied < size
      /\ text.copied \in Nat /\ (text.recorded => text.told = size)
  BY DEF CutRecorded
<1>3. ProperOutcome(h, fn, {h}, o)
  BY <1>1 DEF ProperOutcome, MayLose, Failed, Honest
<1>4. ProperText(h, fn, {h}, o, size, text)
  BY <1>1, <1>2 DEF ProperText, Succeeded, Honest
<1>5. QED
  BY <1>3, <1>4, ProperCall DEF o

LEMMA SQLGetInfoStep ==
  ASSUME TypeOK, SQLGetInfo
  PROVE  TypeOK' /\ Explained' /\ NoneLost
<1>1. "SQLGetInfo" \in Clearing /\ "SQLGetInfo" \in MayBeMute
  BY DEF Clearing, MayBeMute
<1>2. ASSUME NEW o \in {Good, Mute}, Done("dbc", "SQLGetInfo", {"dbc"}, o)
      PROVE  TypeOK' /\ Explained' /\ NoneLost
  <2>1. o \in Outcome /\ o.adds = <<>>
    BY SimpleOutcomes DEF Explaining, Good, Mute
  <2>2. ProperOutcome("dbc", "SQLGetInfo", {"dbc"}, o)
    BY <1>1, <2>1 DEF ProperOutcome, MayLose
  <2>3. QED
    BY <1>2, <2>1, <2>2, ProperDone DEF Done
<1>3. ASSUME NEW size \in Sizes, NEW length \in Lengths,
             TextOfDbc("SQLGetInfo", size, SetString(size, length, FALSE))
      PROVE  TypeOK' /\ Explained' /\ NoneLost
  <2> DEFINE text == SetString(size, length, FALSE)
  <2>1. size \in Nat /\ length \in Nat
    BY DiagAssumption
  <2>2. CutRecorded(text, size) /\ Honest(text)
    BY <2>1, RecordedTexts
  <2>3. Respond("dbc", "SQLGetInfo", {"dbc"}, RecordedOutcome(text), 0, size, text)
    BY <1>3 DEF TextOfDbc, RecordedOutcome
  <2> HIDE DEF text
  <2>4. QED
    BY <1>1, <2>1, <2>2, <2>3, ProperRecordedText
<1>4. QED
  BY <1>2, <1>3 DEF SQLGetInfo

LEMMA SQLDriverConnectedStep ==
  ASSUME TypeOK, SQLDriverConnected
  PROVE  TypeOK' /\ Explained' /\ NoneLost
<1>1. PICK size \in Sizes, length \in Lengths, null \in BOOLEAN :
        TextOfDbc("SQLDriverConnect", size, OutConnectionString(size, length, null))
  BY DEF SQLDriverConnected
<1> DEFINE text == OutConnectionString(size, length, null)
<1>2. size \in Nat /\ length \in Nat
  BY DiagAssumption
<1>3. CutRecorded(text, size) /\ Honest(text)
  BY <1>2, RecordedTexts
<1>4. Respond("dbc", "SQLDriverConnect", {"dbc"}, RecordedOutcome(text), 0, size, text)
  BY <1>1 DEF TextOfDbc, RecordedOutcome
<1>5. "SQLDriverConnect" \in Clearing
  BY ClearingFunctions
<1> HIDE DEF text
<1>6. QED
  BY <1>2, <1>3, <1>4, <1>5, ProperRecordedText

-----------------------------------------------------------------------------
(* Columns.                                                                *)

LEMMA ProperColumn ==
  ASSUME TypeOK, NEW fn \in Clearing, NEW n, NEW o \in Outcome,
         o \in Explaining \/ (o = Mute /\ fn \in MayBeMute),
         ColumnOutcome(fn, n, o)
  PROVE  TypeOK' /\ Explained' /\ NoneLost
<1>1. /\ o.ret \in Failed /\ fn \notin MayBeMute => o.adds # <<>>
      /\ o.ret \in Succeeded => o.adds = <<>>
  BY DEF Explaining, Mute, Succeeded
<1>2. ProperOutcome("stmt", fn, {"stmt"}, o)
  BY <1>1 DEF ProperOutcome, MayLose
<1>3. QED
  BY <1>1, <1>2, ProperDone DEF ColumnOutcome

LEMMA ColumnOutcomes ==
  /\ {Good, Exhausted, Thrown} \subseteq Explaining
  /\ {Bad("07005"), Bad("07009"), Bad("HYC00"), Bad("HY000"), Bad("22007"),
      Warned("01004"), Warned("01000")} \subseteq Explaining
  /\ Explaining \subseteq Outcome
<1>1. {"07005", "07009", "HYC00", "HY000", "22007", "01004", "01000"} \subseteq SqlState
  BY DEF SqlState
<1>2. QED
  BY <1>1, SimpleOutcomes, StateOutcomes DEF Explaining

LEMMA SQLBindColStep ==
  ASSUME TypeOK, NEW n \in Int, NEW null \in BOOLEAN, BindColCall(n, null)
  PROVE  TypeOK' /\ Explained' /\ NoneLost
<1>1. "SQLBindCol" \in Clearing /\ "SQLBindCol" \in MayBeMute
  BY ClearingFunctions DEF MayBeMute
<1>2. PICK o \in {Bad("07009"), Mute, Good, Thrown} :
        ColumnOutcome("SQLBindCol", n, o)
  BY DEF BindColCall
<1>3. QED
  BY <1>1, <1>2, ColumnOutcomes, SimpleOutcomes, ProperColumn

LEMMA SQLGetDataStep ==
  ASSUME TypeOK, NEW n \in Int, GetDataCall(n)
  PROVE  TypeOK' /\ Explained' /\ NoneLost
<1>1. "SQLGetData" \in Clearing
  BY ClearingFunctions
<1>2. PICK o \in {Bad("07009"), Good, Exhausted, Warned("01004"), Warned("01000"),
                  Bad("22007"), Bad("HY000")} :
        ColumnOutcome("SQLGetData", n, o)
  BY DEF GetDataCall, NoSuchColumn
<1>3. QED
  BY <1>1, <1>2, ColumnOutcomes, ProperColumn

LEMMA SQLDescribeColStep ==
  ASSUME TypeOK, NEW n \in Int, NEW size \in Sizes, NEW length \in Lengths,
         DescribeColCall(n, size, length)
  PROVE  TypeOK' /\ Explained' /\ NoneLost
<1>1. "SQLDescribeCol" \in Clearing
  BY ClearingFunctions
<1>2. CASE ~InRange(n)
  <2>1. PICK o \in {Bad("07009"), Thrown} : ColumnOutcome("SQLDescribeCol", n, o)
    BY <1>2 DEF DescribeColCall, NoSuchColumn
  <2>2. QED
    BY <1>1, <2>1, ColumnOutcomes, ProperColumn
<1>3. CASE InRange(n)
  <2> DEFINE text == SilentText(size, length, FALSE)
  <2>1. Respond("stmt", "SQLDescribeCol", {"stmt"}, Good, n, size, text)
    BY <1>3 DEF DescribeColCall
  <2>2. Good \in Outcome /\ Good.adds = <<>> /\ Good.ret = "SUCCESS"
    BY ColumnOutcomes DEF Good
  <2> HIDE DEF text
  <2>3. ProperOutcome("stmt", "SQLDescribeCol", {"stmt"}, Good)
    BY <1>1, <2>2 DEF ProperOutcome, MayLose, Failed
  <2>4. ProperText("stmt", "SQLDescribeCol", {"stmt"}, Good, size, text)
    BY <2>2 DEF ProperText
  <2>5. QED
    BY <2>1, <2>3, <2>4, ProperCall
<1>4. QED
  BY <1>2, <1>3

LEMMA SQLColAttributeStep ==
  ASSUME TypeOK, NEW n \in Int, NEW size \in Sizes, NEW length \in Lengths,
         ColAttributeCall(n, size, length)
  PROVE  TypeOK' /\ Explained' /\ NoneLost
<1>1. "SQLColAttribute" \in Clearing
  BY ClearingFunctions
<1>2. ASSUME NEW o \in {Bad("07005"), Bad("07009"), Thrown, Good, Bad("HYC00")},
             ColumnOutcome("SQLColAttribute", n, o)
      PROVE  TypeOK' /\ Explained' /\ NoneLost
  BY <1>1, <1>2, ColumnOutcomes, ProperColumn
<1>3. ASSUME NEW text \in {SetString(size, length, FALSE), TypeName(size, length, FALSE)},
             Respond("stmt", "SQLColAttribute", {"stmt"}, RecordedOutcome(text),
                     n, size, text)
      PROVE  TypeOK' /\ Explained' /\ NoneLost
  <2>1. size \in Nat /\ length \in Nat
    BY DiagAssumption
  <2>2. /\ CutRecorded(text, size)
        /\ Honest(text) \/ text.ret = "SUCCESS"
    BY <2>1, RecordedTexts
  <2>3. QED
    BY <1>1, <1>3, <2>1, <2>2, ProperRecordedText
<1>4. QED
  BY <1>2, <1>3 DEF ColAttributeCall, NoSuchColumn, RecordedOutcome

LEMMA ColumnCallStep ==
  ASSUME TypeOK, ColumnCall
  PROVE  TypeOK' /\ Explained' /\ NoneLost
<1>1. PICK n \in 0 .. ColumnCount + 1 :
        \/ \E null \in BOOLEAN : BindColCall(n, null)
        \/ GetDataCall(n)
        \/ \E size \in Sizes, length \in Lengths :
             DescribeColCall(n, size, length) \/ ColAttributeCall(n, size, length)
  BY DEF ColumnCall
<1>2. n \in Int
  BY DiagAssumption
<1>3. QED
  BY <1>1, <1>2, SQLBindColStep, SQLGetDataStep, SQLDescribeColStep, SQLColAttributeStep
-----------------------------------------------------------------------------
(* Reading the records.                                                    *)

LEMMA ReadingFunctions ==
  /\ Reading \cap Clearing = {} /\ Reading \subseteq MayBeMute
  /\ Reading \cap {"SQLGetInfo", "SQLColAttribute", "SQLDriverConnect"} = {}
  BY ClearingFunctions DEF Reading, MayBeMute

(* A message that is said to be complete lacks at most one character.      *)
LEMMA DiagRecIs ==
  ASSUME NEW h, NEW n, NEW size \in Nat, NEW length \in Nat \cup {-1}
  PROVE  LET got == DiagRec(h, n, size, length)
         IN  /\ got.ret \in ReturnCode
             /\ got.text = NoText \/ (got.ret = "SUCCESS" => got.text.copied + 1 >= size)
<1> DEFINE text == MessageText(size, length, FALSE)
<1>1. CASE n <= 0 \/ length < 0
  BY <1>1 DEF DiagRec, ReturnCode
<1>2. CASE ~(n <= 0 \/ length < 0) /\ n > Len(mErrors[h])
  BY <1>2 DEF DiagRec, ReturnCode
<1>3. CASE ~(n <= 0 \/ length < 0) /\ ~(n > Len(mErrors[h]))
  <2>1. DiagRec(h, n, size, length) = [ret |-> text.ret, text |-> text]
    BY <1>3 DEF DiagRec
  <2>2. length \in Nat
    BY <1>3
  <2>3. /\ text.ret = IF size > length THEN "SUCCESS_WITH_INFO" ELSE "SUCCESS"
        /\ text.copied = CopyString(size, length)
    BY DEF MessageText
  <2> HIDE DEF text
  <2>4. text.ret = "SUCCESS" => text.copied + 1 >= size
    <3>1. size <= length => CopyString(size, length) + 1 >= size
      BY <2>2, CopyStringIs
    <3>2. text.ret = "SUCCESS" => size <= length
      BY <2>2, <2>3
    <3>3. QED
      BY <2>3, <3>1, <3>2
  <2>5. text.ret \in ReturnCode
    BY <2>3 DEF ReturnCode
  <2>6. QED
    BY <2>1, <2>4, <2>5
<1>4. QED
  BY <1>1, <1>2, <1>3

LEMMA ProperReading ==
  ASSUME TypeOK, NEW h, NEW fn \in Reading, NEW cleared,
         cleared = {} \/ (fn = "SQLError" /\ cleared = {h}), NEW ret \in ReturnCode,
         NEW n, NEW size, NEW text,
         \/ text = NoText
         \/ ret = "SUCCESS" => text.copied + 1 >= size
         \/ fn = "SQLGetDiagField",
         Respond(h, fn, cleared, [ret |-> ret, adds |-> <<>>], n, size, text)
  PROVE  TypeOK' /\ Explained' /\ NoneLost
<1> DEFINE o == [ret |-> ret, adds |-> <<>>]
<1>1. o \in Outcome /\ o.ret = ret /\ o.adds = <<>>
  BY DEF Outcome
<1> HIDE DEF o
<1>2. /\ fn \notin Clearing /\ fn \in MayBeMute
      /\ fn \notin {"SQLGetInfo", "SQLColAttribute", "SQLDriverConnect"}
  BY ReadingFunctions
<1>3. ProperOutcome(h, fn, cleared, o)
  BY <1>1, <1>2 DEF ProperOutcome, MayLose
<1>4. ProperText(h, fn, cleared, o, size, text)
  BY <1>1, <1>2 DEF ProperText
<1>5. QED
  BY <1>3, <1>4, ProperCall DEF o

LEMMA SQLGetDiagRecStep ==
  ASSUME TypeOK, NEW h, SQLGetDiagRec(h)
  PROVE  TypeOK' /\ Explained' /\ NoneLost
<1>1. PICK n \in 0 .. MaxRecords + 1, size \in Sizes, length \in Lengths \cup {-1} :
        LET got == DiagRec(h, n, size, length)
        IN  Respond(h, "SQLGetDiagRec", {}, [ret |-> got.ret, adds |-> <<>>],
                    n, IF got.text = NoText THEN 0 ELSE size, got.text)
  BY DEF SQLGetDiagRec
<1> DEFINE got == DiagRec(h, n, size, length)
           told == IF got.text = NoText THEN 0 ELSE size
<1>2. size \in Nat /\ length \in Nat \cup {-1}
  BY DiagAssumption
<1>3. /\ got.ret \in ReturnCode
      /\ got.text = NoText \/ (got.ret = "SUCCESS" => got.text.copied + 1 >= told)
  BY <1>2, DiagRecIs
<1>4. Respond(h, "SQLGetDiagRec", {}, [ret |-> got.ret, adds |-> <<>>], n, told, got.text)
  BY <1>1
<1>5. "SQLGetDiagRec" \in Reading
  BY DEF Reading
<1> HIDE DEF got, told
<1>6. QED
  BY <1>3, <1>4, <1>5, ProperReading

LEMMA SQLErrorStep ==
  ASSUME TypeOK, NEW h, SQLError(h)
  PROVE  TypeOK' /\ Explained' /\ NoneLost
<1>1. PICK size \in Sizes, length \in Lengths \cup {-1} :
        LET got == DiagRec(h, 1, size, length)
        IN  Respond(h, "SQLError", IF got.ret = "ERROR" THEN {} ELSE {h},
                    [ret |-> got.ret, adds |-> <<>>], 1,
                    IF got.text = NoText THEN 0 ELSE size, got.text)
  BY DEF SQLError
<1> DEFINE got == DiagRec(h, 1, size, length)
           told == IF got.text = NoText THEN 0 ELSE size
           cleared == IF got.ret = "ERROR" THEN {} ELSE {h}
<1>2. size \in Nat /\ length \in Nat \cup {-1}
  BY DiagAssumption
<1>3. /\ got.ret \in ReturnCode
      /\ got.text = NoText \/ (got.ret = "SUCCESS" => got.text.copied + 1 >= told)
  BY <1>2, DiagRecIs
<1>4. Respond(h, "SQLError", cleared, [ret |-> got.ret, adds |-> <<>>], 1, told, got.text)
  BY <1>1
<1>5. "SQLError" \in Reading /\ cleared \in {{}, {h}}
  BY DEF Reading
<1> HIDE DEF got, told, cleared
<1>6. QED
  BY <1>3, <1>4, <1>5, ProperReading

LEMMA SQLGetDiagFieldStep ==
  ASSUME TypeOK, NEW h, SQLGetDiagField(h)
  PROVE  TypeOK' /\ Explained' /\ NoneLost
<1>1. PICK n \in -1 .. MaxRecords + 1, field \in DiagFields :
        LET o == [ret |-> DiagFieldResult(h, n, field), adds |-> <<>>]
        IN  IF o.ret = "SUCCESS" /\ field \in TextFields
            THEN \E size \in Sizes, length \in Lengths :
                   Respond(h, "SQLGetDiagField", {}, o, n, size,
                           SilentText(size, length, FALSE))
            ELSE Respond(h, "SQLGetDiagField", {}, o, n, 0, NoText)
  BY DEF SQLGetDiagField
<1>2. DiagFieldResult(h, n, field) \in ReturnCode
  BY DEF DiagFieldResult, ReturnCode
<1>3. PICK size, text :
        Respond(h, "SQLGetDiagField", {},
                [ret |-> DiagFieldResult(h, n, field), adds |-> <<>>], n, size, text)
  BY <1>1
<1>4. "SQLGetDiagField" \in Reading
  BY DEF Reading
<1>5. QED
  BY <1>2, <1>3, <1>4, ProperReading

-----------------------------------------------------------------------------
(* Handles that are freed, or not, and SQLMoreResults.                     *)

LEMMA PlainCallStep ==
  ASSUME TypeOK, SQLMoreResults \/ SQLFreeStmt \/ SQLFreeConnect \/ SQLFreeEnv
  PROVE  TypeOK' /\ Explained' /\ NoneLost
<1>1. /\ Good \in Outcome /\ Good.ret = "SUCCESS" /\ Good.adds = <<>>
      /\ Exhausted \in Outcome /\ Exhausted.ret = "NO_DATA"
      /\ Mute \in Outcome
  BY SimpleOutcomes DEF Explaining, Good, Exhausted
<1>2. /\ {"SQLMoreResults", "SQLFreeStmt", "SQLFreeConnect", "SQLFreeEnv"}
           \cap Clearing = {}
      /\ {"SQLFreeConnect", "SQLFreeEnv"} \subseteq MayBeMute
  BY ClearingFunctions DEF MayBeMute
<1>3. CASE SQLMoreResults
  <2>1. Respond("stmt", "SQLMoreResults", {}, Exhausted, 0, 0, NoText)
    BY <1>3 DEF SQLMoreResults, Done
  <2>2. QED
    BY <1>1, <1>2, <2>1, ProperRead DEF Failed
<1>4. CASE SQLFreeStmt
  <2>1. Respond("stmt", "SQLFreeStmt", {"dbc"}, Good, 0, 0, NoText)
    BY <1>4 DEF SQLFreeStmt, Done, Good
  <2>2. ProperOutcome("stmt", "SQLFreeStmt", {"dbc"}, Good)
    BY <1>1, <1>2 DEF ProperOutcome, MayLose, Failed
  <2>3. QED
    BY <1>1, <2>1, <2>2, ProperDone
<1>5. CASE SQLFreeConnect
  <2>1. Respond("dbc", "SQLFreeConnect", {"env"}, Mute, 0, 0, NoText)
    BY <1>5 DEF SQLFreeConnect, Done
  <2>2. ProperOutcome("dbc", "SQLFreeConnect", {"env"}, Mute)
    BY <1>1, <1>2 DEF ProperOutcome, MayLose
  <2>3. QED
    BY <1>2, <2>1, <2>2, ProperDone
<1>6. CASE SQLFreeEnv
  <2>1. Respond("env", "SQLFreeEnv", {}, Mute, 0, 0, NoText)
    BY <1>6 DEF SQLFreeEnv, Done
  <2>2. QED
    BY <1>1, <1>2, <2>1, ProperRead
<1>7. QED
  BY <1>3, <1>4, <1>5, <1>6

-----------------------------------------------------------------------------
(* Every call.                                                             *)

LEMMA Initially == DiagInit => TypeOK /\ Explained
<1> SUFFICES ASSUME DiagInit
             PROVE  TypeOK /\ Explained
  OBVIOUS
<1>1. mErrors = [h \in Handles |-> <<>>] /\ last = NoCall
  BY DEF DiagInit
<1>2. /\ last.ret = "SUCCESS" /\ last.fn = "none" /\ last.text = NoText
  BY <1>1 DEF NoCall
<1>3. "none" \notin Clearing
  BY ClearingFunctions
<1>4. TypeOK
  BY <1>1 DEF TypeOK
<1>5. QED
  BY <1>2, <1>3, <1>4
     DEF Explained, FailureIsExplained, RecordsAreOfTheLastCall, CutTextIsTold

LEMMA EveryCall ==
  ASSUME TypeOK, DiagNext
  PROVE  TypeOK' /\ Explained' /\ NoneLost
<1>1. ASSUME NEW h \in Handles,
             \/ EntryCall(h) \/ NullHandle(h) \/ NotImplementedCall(h)
             \/ PretendedCall(h) \/ SQLGetDiagRec(h) \/ SQLGetDiagField(h)
             \/ SQLError(h)
      PROVE  TypeOK' /\ Explained' /\ NoneLost
  <2>1. h \in AllHandles
    BY DiagAssumption
  <2>2. QED
    BY <1>1, <2>1, EntryCallStep, NullHandleStep, NotImplementedCallStep,
       PretendedCallStep, SQLGetDiagRecStep, SQLGetDiagFieldStep, SQLErrorStep
<1>2. CASE SQLMoreResults \/ SQLFreeStmt \/ SQLFreeConnect \/ SQLFreeEnv
  BY <1>2, PlainCallStep
<1>3. CASE ColumnCall
  BY <1>3, ColumnCallStep
<1>4. CASE SQLGetInfo
  BY <1>4, SQLGetInfoStep
<1>5. CASE SQLDriverConnected
  BY <1>5, SQLDriverConnectedStep
<1>6. QED
  BY <1>1, <1>2, <1>3, <1>4, <1>5 DEF DiagNext

LEMMA Invariance == DiagSpec => [](TypeOK /\ Explained)
<1>1. TypeOK /\ Explained /\ [DiagNext]_diagVars => (TypeOK /\ Explained)'
  <2>1. ASSUME TypeOK, Explained, UNCHANGED diagVars
        PROVE  (TypeOK /\ Explained)'
    BY <2>1 DEF TypeOK, Explained, diagVars, FailureIsExplained, RecordsAreOfTheLastCall,
                CutTextIsTold, Records
  <2>2. QED
    BY <2>1, EveryCall
<1>2. QED
  BY <1>1, Initially, PTL DEF DiagSpec

(* The records of every handle are SQLSTATEs of the driver's errors: what  *)
(* addError is given, in any sequence of calls.                            *)
THEOREM RecordsHaveSqlStates == DiagSpec => []TypeOK
  BY Invariance, PTL

(* No entry, method or helper lets a call fail, or succeed with            *)
(* information, without a record of its own, but for those that the        *)
(* property names; an exception becomes HY000 in OdbcEntry.                *)
THEOREM FailuresAreExplained == DiagSpec => []FailureIsExplained
<1>1. Explained => FailureIsExplained
  BY DEF Explained
<1>2. QED
  BY <1>1, Invariance, PTL

(* After any call that clears, SQLGetDiagRec reads records of that call    *)
(* only, however many calls that do not clear were made before.            *)
THEOREM RecordsAreFresh == DiagSpec => []RecordsAreOfTheLastCall
<1>1. Explained => RecordsAreOfTheLastCall
  BY DEF Explained
<1>2. QED
  BY <1>1, Invariance, PTL

(* copyString and the helpers around it: for texts and buffers of any      *)
(* length, what is cut is told as the property says.                       *)
THEOREM CutTextsAreTold == DiagSpec => []CutTextIsTold
<1>1. Explained => CutTextIsTold
  BY DEF Explained
<1>2. QED
  BY <1>1, Invariance, PTL

(* mErrors.clear() is the only way to lose a record, and only these        *)
(* functions call it.                                                      *)
THEOREM RecordsAreKept == DiagSpec => LostRecords
<1>1. TypeOK /\ [DiagNext]_diagVars => [NoneLost]_diagVars
  BY EveryCall
<1>2. QED
  BY <1>1, RecordsHaveSqlStates, PTL DEF DiagSpec, LostRecords, NoneLost

================================================================================
