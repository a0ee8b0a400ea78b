----------------------------- MODULE EzDescriptors -----------------------------
(***************************************************************************)
(* Statement attributes and descriptors: what an application sets on a     *)
(* statement, on its descriptors and on its columns, and where a row that  *)
(* is fetched then goes.                                                   *)
(*                                                                         *)
(* The application row descriptor (ard) has the array size and the bind    *)
(* offset, the implementation row descriptor (ird) the places for the      *)
(* number of rows and for the row's status; bindings are kept in the       *)
(* columns of the query's result set.  An address is a number, 0 the null  *)
(* pointer.  The bind offset pointer leads to a variable of the            *)
(* application, offset; a descriptor's data pointer to a number that stays.*)
(***************************************************************************)
EXTENDS Integers, FiniteSets

CONSTANTS
  Column,      \* the columns, 1 .. n
  Target,      \* Target[c]: the buffer the application has for c
  Indicator,   \* Indicator[c]: its place for the length, or 0
  Offset,      \* offsets the application uses, not 0
  ArraySize,   \* sizes of arrays it asks for
  MaxRows      \* bound: rows of an answer

ASSUME DescriptorAssumption ==
  /\ Column \subseteq Nat /\ Column = 1 .. Cardinality(Column)
  /\ Target \in [Column -> Nat \ {0}]
  /\ Indicator \in [Column -> Nat]
  /\ Offset \subseteq Nat \ {0}
  /\ ArraySize \subseteq Nat
  /\ MaxRows \in Nat

VARIABLES
  ard,       \* mArraySize, mBindOffsetPtr (set or not), mDescDataPtrs
  ird,       \* mRowsProcessedPtr and mArrayStatusPtr, set or not
  offset,    \* the application's bind offset
  bound,     \* the bound columns, as the result set has them
  given,     \* the application's view: for which query it gave a buffer
  query,     \* no query yet, one before its rows, or one on a row
  rows,      \* rows left
  app,       \* what the last call told: rows and status, by function
  writes,    \* what the last call wrote: per column, value and indicator
  lastCall,  \* the last call: function, return code
  ran,       \* the statement had a query once
  crashed    \* a null result set was used

settings == <<ard, ird>>
bindings == <<bound, given, query, ran, crashed>>
vars == <<settings, offset, bindings, rows, app, writes, lastCall>>

Null == 0
None == [value |-> Null, indicator |-> Null]
NoWrites == [c \in Column |-> None]

(* A statement's descriptors: one row, no offset, no places.               *)
InitArd == [mArraySize |-> 1, mBindOffsetPtr |-> FALSE,
            mDescDataPtrs |-> [c \in Column |-> Null]]

InitIrd == [mRowsProcessedPtr |-> FALSE, mArrayStatusPtr |-> FALSE]

Untold == [rows |-> -1, status |-> "unset", pcrow |-> -1, rgfRowStatus |-> -1]

Init ==
  /\ ard = InitArd
  /\ ird = InitIrd
  /\ offset = 0
  /\ bound = {}
  /\ given = [c \in Column |-> "no"]
  /\ query = "none"
  /\ rows = 0
  /\ app = Untold
  /\ writes = NoWrites
  /\ lastCall = [fn |-> "none", ret |-> "SUCCESS"]
  /\ ran = FALSE
  /\ crashed = FALSE

Returns(fn, ret) ==
  /\ lastCall' = [fn |-> fn, ret |-> ret]
  /\ writes' = NoWrites
  /\ app' = Untold

-----------------------------------------------------------------------------
(* Attributes.                                                             *)

(* Attributes that cannot be changed (query timeout, cursor type, ...):    *)
(* another value is option value changed, and nothing is stored; and those *)
(* the driver does not have.                                               *)
SetFixedAttr ==
  /\ \E ret \in {"SUCCESS", "SUCCESS_WITH_INFO", "ERROR"} :
       Returns("SQLSetStmtAttr", ret)
  /\ UNCHANGED <<settings, offset, bindings, rows>>

(* The row array size (and the rowset size) is compared, not stored.       *)
SetRowArraySize(v) ==
  /\ Returns("SQLSetStmtAttr",
             IF v = ard.mArraySize THEN "SUCCESS" ELSE "SUCCESS_WITH_INFO")
  /\ UNCHANGED <<settings, offset, bindings, rows>>

(* SQL_ATTR_PARAMSET_SIZE, by itself or through SQLParamOptions, is stored *)
(* as the array size of the ard.                                           *)
SetParamsetSize(fn, v) ==
  /\ Returns(fn, "SUCCESS")
  /\ ard' = [ard EXCEPT !.mArraySize = v]
  /\ UNCHANGED <<ird, offset, bindings, rows>>

(* Pointers: the bind offset, the number of rows, the row status.          *)
SetPointerAttr ==
  /\ Returns("SQLSetStmtAttr", "SUCCESS")
  /\ \E set \in BOOLEAN :
       \/ /\ ard' = [ard EXCEPT !.mBindOffsetPtr = set]
          /\ UNCHANGED ird
       \/ /\ ird' = [ird EXCEPT !.mRowsProcessedPtr = set]
          /\ UNCHANGED ard
       \/ /\ ird' = [ird EXCEPT !.mArrayStatusPtr = set]
          /\ UNCHANGED ard
  /\ UNCHANGED <<offset, bindings, rows>>

(* The application changes the offset its pointer leads to.                *)
MoveOffset ==
  /\ offset' \in Offset \cup {0}
  /\ UNCHANGED <<settings, bindings, rows, app, writes, lastCall>>

(* SQLSetDescField: SQL_DESC_DATA_PTR of the ard is kept per record; other *)
(* fields are accepted, changed or refused, and leave nothing.             *)
SQLSetDescField ==
  /\ \/ /\ \E c \in Column, o \in Offset \cup {Null} :
             ard' = [ard EXCEPT !.mDescDataPtrs[c] = o]
        /\ Returns("SQLSetDescField", "SUCCESS")
     \/ /\ \E ret \in {"SUCCESS", "SUCCESS_WITH_INFO", "ERROR"} :
             Returns("SQLSetDescField", ret)
        /\ UNCHANGED ard
  /\ UNCHANGED <<ird, offset, bindings, rows>>

-----------------------------------------------------------------------------
(* Queries and bindings.                                                   *)

(* What the application gave for a query before is not given for this one. *)
Age == [c \in Column |-> IF given[c] = "now" THEN "before" ELSE given[c]]

(* Faulty: the columns of the new result set inherit the bindings.         *)
FaultyNewQuery ==
  /\ query' = "ready"
  /\ ran' = TRUE
  /\ given' = Age
  /\ rows' \in 0 .. MaxRows
  /\ Returns("SQLExecDirect", "SUCCESS")
  /\ UNCHANGED <<settings, offset, bound, crashed>>

(* A new query has a new result set, with columns that are not bound; the  *)
(* descriptors belong to the statement and stay.                           *)
NewQuery ==
  /\ query' = "ready"
  /\ ran' = TRUE
  /\ bound' = {}
  /\ given' = Age
  /\ rows' \in 0 .. MaxRows
  /\ Returns("SQLExecDirect", "SUCCESS")
  /\ UNCHANGED <<settings, offset, crashed>>

(* Faulty: the statement goes back to the null query it began with.        *)
FaultyCloseCursor ==
  /\ query' = "none"
  /\ Returns("SQLFreeStmt", "SUCCESS")
  /\ UNCHANGED <<settings, offset, bound, given, ran, rows, crashed>>

(* SQLFreeStmt(SQL_CLOSE) and SQL_RESET_PARAMS leave everything as it is.  *)
CloseCursor ==
  /\ Returns("SQLFreeStmt", "SUCCESS")
  /\ UNCHANGED <<settings, offset, bindings, rows>>

(* A null result set is dereferenced: the process is lost.                 *)
Crash(fn) ==
  /\ crashed' = TRUE
  /\ Returns(fn, "ERROR")
  /\ UNCHANGED <<settings, offset, bound, given, query, ran, rows>>

(* A buffer for column c.  A null buffer is refused, and a column that was *)
(* bound stays bound to the buffer it has.                                 *)
SQLBindCol(c) ==
  IF query = "none" THEN Crash("SQLBindCol")
  ELSE /\ \/ /\ bound' = bound \cup {c}
             /\ given' = [given EXCEPT ![c] = "now"]
             /\ Returns("SQLBindCol", "SUCCESS")
          \/ /\ Returns("SQLBindCol", "ERROR")
             /\ UNCHANGED <<bound, given>>
       /\ UNCHANGED <<settings, offset, query, ran, rows, crashed>>

(* The columns that are bound after ResultSet::unbindColumns.              *)
UnbindColumns == {}

(* SQLFreeStmt(SQL_UNBIND).                                                *)
Unbind ==
  IF query = "none" THEN Crash("SQLFreeStmt")
  ELSE /\ bound' = UnbindColumns
       /\ given' = [c \in Column |-> "no"]
       /\ Returns("SQLFreeStmt", "SUCCESS")
       /\ UNCHANGED <<settings, offset, query, ran, rows, crashed>>

-----------------------------------------------------------------------------
(* Rows.                                                                   *)

(* An address moved by a pointer to an offset; a null address moves too.   *)
Adjust(set, by, address) == IF set THEN address + by ELSE address

(* Faulty: the bind offset applies to SQLGetData as well.                  *)
FaultyPlace(c, fetching, address) ==
  LET p == Adjust(ard.mBindOffsetPtr, offset, address)
  IN  Adjust(ard.mDescDataPtrs[c] # Null, ard.mDescDataPtrs[c], p)

(* Column::setData: the bind offset applies to a fetch only, the data      *)
(* pointer of the descriptor to SQLGetData as well.                        *)
Place(c, fetching, address) ==
  LET p == Adjust(fetching /\ ard.mBindOffsetPtr, offset, address)
  IN  Adjust(ard.mDescDataPtrs[c] # Null, ard.mDescDataPtrs[c], p)

(* What setData writes for column c; the indicator only if there is one.   *)
Written(c, fetching) ==
  [value |-> Place(c, fetching, Target[c]),
   indicator |-> Place(c, fetching, Indicator[c])]

(* What it writes when the value cannot be converted: nothing, or the      *)
(* indicator alone, which says NULL before the worker throws.              *)
Refused(c, fetching, indicated) ==
  IF indicated THEN [value |-> Null, indicator |-> Place(c, fetching, Indicator[c])]
  ELSE None

(* The status of the row, where the application has a place for it.        *)
RowStatus(failing, status) ==
  IF ~ird.mArrayStatusPtr THEN status
  ELSE IF failing = 0 THEN "ROW_SUCCESS" ELSE "ROW_ERROR"

(* RetsSTMT::SQLFetch with a row: its bound columns from left to right, up *)
(* to failing, whose value cannot be converted (0: none).                  *)
Fetched(fn, failing, told) ==
  /\ rows > 0
  /\ lastCall' = [fn |-> fn, ret |-> IF failing = 0 THEN "SUCCESS" ELSE "ERROR"]
  /\ \E indicated \in BOOLEAN :
       writes' = [c \in Column |->
                    IF c \in bound /\ (failing = 0 \/ c < failing) THEN Written(c, TRUE)
                    ELSE IF c = failing THEN Refused(c, TRUE, indicated)
                    ELSE None]
  /\ app' = [told EXCEPT
               !.rows = IF ird.mRowsProcessedPtr /\ failing = 0 THEN 1 ELSE @,
               !.status = RowStatus(failing, @)]
  /\ rows' = rows - 1
  /\ query' = "onrow"
  /\ UNCHANGED <<settings, offset, bound, given, ran, crashed>>

(* No row: neither the number of rows nor the status is touched.           *)
NotFetched(fn, told) ==
  /\ rows = 0
  /\ query' = "ready"
  /\ lastCall' = [fn |-> fn, ret |-> "NO_DATA"]
  /\ writes' = NoWrites
  /\ app' = told
  /\ UNCHANGED <<settings, offset, bound, given, ran, rows, crashed>>

(* SQLFetch, and SQLFetchScroll for the next row.                          *)
SQLFetch(fn) ==
  /\ query # "none"
  /\ \/ NotFetched(fn, Untold)
     \/ \E failing \in bound \cup {0} : Fetched(fn, failing, Untold)

(* SQLFetchScroll for any other row.                                       *)
SQLFetchScrollElsewhere ==
  /\ query # "none"
  /\ Returns("SQLFetchScrollElsewhere", "ERROR")
  /\ UNCHANGED <<settings, offset, bindings, rows>>

(* A return code in the 16 bits of a row status.                           *)
AsRowStatus(ret) ==
  CASE ret = "SUCCESS" -> 0 [] ret = "NO_DATA" -> 100
    [] ret = "ERROR" -> (-1) % (2 ^ 16)

(* SQLExtendedFetch fetches one row and tells the number of rows and the   *)
(* status in places of its own, from SQLFetch's return code.               *)
ToldByExtendedFetch(ret) ==
  [Untold EXCEPT !.pcrow = IF ret # "ERROR" THEN 1 ELSE 0,
              !.rgfRowStatus = AsRowStatus(ret)]

SQLExtendedFetch ==
  /\ query # "none"
  /\ \/ NotFetched("SQLExtendedFetch", ToldByExtendedFetch("NO_DATA"))
     \/ Fetched("SQLExtendedFetch", 0, ToldByExtendedFetch("SUCCESS"))
     \/ \E c \in bound :
          Fetched("SQLExtendedFetch", c, ToldByExtendedFetch("ERROR"))

(* SQLGetData of one column, into a buffer of the call.                    *)
SQLGetData(c) ==
  /\ query = "onrow"
  /\ app' = Untold
  /\ \E ret \in {"SUCCESS", "ERROR"}, indicated \in BOOLEAN :
       /\ lastCall' = [fn |-> "SQLGetData", ret |-> ret]
       /\ writes' = [NoWrites EXCEPT ![c] = IF ret = "SUCCESS" THEN Written(c, FALSE)
                                           ELSE Refused(c, FALSE, indicated)]
  /\ UNCHANGED <<settings, offset, bindings, rows>>

Next ==
  /\ ~crashed
  /\ \/ SetFixedAttr
     \/ \E v \in ArraySize :
          \/ SetRowArraySize(v)
          \/ SetParamsetSize("SQLSetStmtAttr", v)
          \/ SetParamsetSize("SQLParamOptions", v)
     \/ SetPointerAttr \/ MoveOffset \/ SQLSetDescField
     \/ NewQuery \/ CloseCursor \/ Unbind
     \/ \E c \in Column : SQLBindCol(c) \/ SQLGetData(c)
     \/ SQLFetch("SQLFetch") \/ SQLFetch("SQLFetchScroll")
     \/ SQLFetchScrollElsewhere \/ SQLExtendedFetch

Spec == Init /\ [][Next]_vars

-----------------------------------------------------------------------------
(* Properties.                                                             *)

IsFetch == lastCall.fn \in {"SQLFetch", "SQLFetchScroll", "SQLExtendedFetch"}

(* A fetch writes only into buffers the application gave for this query    *)
(* and has not taken back: not into those of the query before, which it    *)
(* may use for something else, and not into those it unbound.  After a     *)
(* fetch that succeeds, into all of them; after one that fails, not into   *)
(* that of the value that failed, whose indicator alone may be touched;    *)
(* and the status of the row, if there is a place for it, is that of its   *)
(* return code.                                                            *)
BuffersOfThisQuery ==
  IsFetch /\ lastCall.ret # "NO_DATA" =>
    LET touched == {c \in Column : writes[c] # None}
        written == {c \in Column : writes[c].value # Null}
        mine == {c \in Column : given[c] = "now"}
    IN  /\ touched \subseteq mine
        /\ lastCall.ret = "SUCCESS" <=> written = mine
        /\ ird.mArrayStatusPtr => (app.status = "ROW_ERROR" <=> lastCall.ret = "ERROR")

(* The null result set of a fresh statement is met before the first query  *)
(* only: closing cursors and unbinding never bring it back.                *)
OnlyFreshStatementsCrash == crashed => ~ran

(* Where no data pointer of a descriptor is set, a fetch that writes puts  *)
(* everything at the offset the application's variable has at that moment, *)
(* however often pointer and variable changed since the column was bound,  *)
(* and SQLGetData at the place it was called with.                         *)
OffsetOfTheMoment ==
  [][\A c \in Column : writes'[c] # None /\ ard.mDescDataPtrs[c] = Null =>
       \/ UNCHANGED writes
       \/ LET by == IF lastCall'.fn # "SQLGetData" /\ ard.mBindOffsetPtr
                    THEN offset ELSE 0
          IN  /\ writes'[c].value \in {Null, Target[c] + by}
              /\ writes'[c].indicator = Indicator[c] + by]_vars

================================================================================
