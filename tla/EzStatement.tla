------------------------------ MODULE EzStatement ------------------------------
(***************************************************************************)
(* A statement (RetsSTMT): its query, the result set of that query, and    *)
(* the columns bound to buffers of the application.                        *)
(*                                                                         *)
(* A query owns one result set, made when the query is prepared and used   *)
(* by all its executions.  There are three kinds: an OnDemandResultSet     *)
(* walks the search results librets streams, an OnDemandObjectResultSet    *)
(* the objects of a multipart answer, and a BulkResultSet rows that were   *)
(* added to it.                                                            *)
(*                                                                         *)
(* The connection is open and the calls come through a driver manager,     *)
(* whose view of the statement is cursor and prepared.  SQL_CLOSE does     *)
(* nothing in the driver: only the manager knows that a cursor is closed.  *)
(***************************************************************************)
EXTENDS Integers, Sequences

CONSTANTS
  Text,           \* the SQL statements an application may give
  Type,           \* Type[t]: what t compiles to, if it compiles
  NoCriterion,    \* the statements that need a WHERE clause and lack it
  Nil,            \* no query, no row
  Columns,        \* number of columns of every result set
  MaxRows,        \* bound: items in an answer; size of a bulk answer
  MaxExecutions   \* bound: executions of any query

(* SQLTables, SQLColumns and their like make a bulk query without a text.  *)
Catalog == "catalog"

QueryType == {"data", "object", "bulk"}

ASSUME StatementAssumption ==
  /\ Nil \notin Text
  /\ Catalog \notin Text
  /\ Type \in [Text -> QueryType]
  /\ NoCriterion \subseteq {t \in Text : Type[t] # "object"}
  /\ Columns \in Nat
  /\ MaxRows \in Nat
  /\ MaxExecutions \in Nat

VARIABLES
  mQuery,       \* the text of the query; Nil has no result set
  resultSet,    \* its result set
  bound,        \* the columns bound in it
  buffer,       \* what the application's buffers hold, by column
  cursor,       \* manager: "closed", "open", or "on row"
  prepared,     \* manager: SQLExecute is allowed
  asked,        \* application: the text it last gave
  executions,   \* number of executions so far
  answer,       \* what the server sent for the last one
  fetched,      \* application: rows fetched of it
  promised      \* application: the columns the last fetch gave it

columnVars == <<bound, buffer, promised>>
callerVars == <<cursor, prepared, asked, executions, answer, fetched>>
vars == <<mQuery, resultSet, columnVars, callerVars>>

(* An item is known by its execution and its place in the answer.  Among   *)
(* objects there are some that stand for an error, and some, with reply    *)
(* code 20403, for nothing.                                                *)
ItemKind == {"row", "none", "error"}

Item == [of : 1..MaxExecutions, at : 1..MaxRows, is : ItemKind]

(* rows      BulkResultSet::mResults, or the answer librets walks          *)
(* gotFirst  BulkResultSet::mGotFirst                                      *)
(* iterator  BulkResultSet::mResultIterator                                *)
(* consumed  on demand: how many items librets has handed out              *)
(* row       on demand: the row getData reads                              *)
ResultSet == [rows : Seq(Item), gotFirst : BOOLEAN, iterator : Nat,
              consumed : Nat, row : Item \cup {Nil}]

NewResultSet == [rows |-> <<>>, gotFirst |-> FALSE, iterator |-> 1,
                 consumed |-> 0, row |-> Nil]

IsBulk == mQuery \in Text => Type[mQuery] = "bulk"

(* The row that result set rs of the query is on.                          *)
RowOf(rs) == IF IsBulk THEN rs.rows[rs.iterator] ELSE rs.row

TypeOK ==
  /\ mQuery \in Text \cup {Catalog, Nil}
  /\ resultSet \in ResultSet
  /\ resultSet.consumed <= Len(resultSet.rows)
  /\ bound \subseteq 1..Columns
  /\ buffer \in [1..Columns -> Item \cup {Nil}]
  /\ cursor \in {"closed", "open", "on row"}
  /\ prepared \in BOOLEAN
  /\ asked \in Text \cup {Catalog, Nil}
  /\ executions \in 0..MaxExecutions
  /\ answer \in Seq(Item)
  /\ fetched \in Nat
  /\ promised \subseteq 1..Columns

Init ==
  /\ mQuery = Nil
  /\ resultSet = NewResultSet
  /\ bound = {}
  /\ buffer = [c \in 1..Columns |-> Nil]
  /\ cursor = "closed"
  /\ prepared = FALSE
  /\ asked = Nil
  /\ executions = 0
  /\ answer = <<>>
  /\ fetched = 0
  /\ promised = {}

-----------------------------------------------------------------------------
(* A new query brings a result set of its own, without bound columns.      *)
NewQuery(q) ==
  /\ mQuery' = q
  /\ bound' = {}
  /\ promised' = {}
  /\ UNCHANGED buffer

(* createSqlQuery throws: the old query stays.                             *)
SameQuery ==
  /\ promised' = {}
  /\ UNCHANGED <<mQuery, bound, buffer>>

(* The caller's view after a call with a text that opened no cursor, and   *)
(* after one that opened a cursor on answer a.                             *)
NoCursor(text, ready) ==
  /\ cursor' = "closed"
  /\ asked' = text
  /\ prepared' = ready
  /\ UNCHANGED <<executions, answer, fetched>>

Opens(text, ready, a) ==
  /\ cursor' = "open"
  /\ asked' = text
  /\ prepared' = ready
  /\ executions' = executions + 1
  /\ answer' = a
  /\ fetched' = 0

(* A driver manager that sees SQLPrepare fail takes the statement for one  *)
(* that was never prepared.                                                *)
SQLPrepare(t) ==
  /\ cursor = "closed"
  /\ \/ NewQuery(t) /\ resultSet' = NewResultSet /\ NoCursor(t, TRUE)
     \/ SameQuery /\ UNCHANGED resultSet /\ NoCursor(t, FALSE)

-----------------------------------------------------------------------------
(* The answers a statement can get.  A bulk statement has as many rows at  *)
(* each execution: one for a count, for a lookup table those of the        *)
(* lookup, which is metadata.                                              *)
KindsOf(t) == IF t \in Text /\ Type[t] = "object" THEN ItemKind ELSE {"row"}

Sizes(t) == IF t \in Text /\ Type[t] = "bulk" THEN {MaxRows} ELSE 0..MaxRows

Answers(t) ==
  IF t \in NoCriterion THEN {<<>>}
  ELSE UNION {
    {[i \in 1..n |-> [of |-> executions + 1, at |-> i, is |-> kinds[i]]] :
       kinds \in [1..n -> KindsOf(t)]} : n \in Sizes(t)}

(* Faulty: librets is left where it was.                                   *)
FaultyWithAnswer(t, rs, a) == [rs EXCEPT !.rows = a, !.row = Nil]

(* The result set rs of t after an execution: a search and GetObject point *)
(* it to the new answer; bulk rows are added to those it has, and the      *)
(* iterator, but not gotFirst, put back to the beginning.  A statement     *)
(* without its WHERE clause is not sent, and nothing done to its result    *)
(* set ("Returning empty result set").                                     *)
WithAnswer(t, rs, a) ==
  CASE t \in NoCriterion -> rs
    [] t \notin NoCriterion /\ Type[t] = "bulk" ->
         [rs EXCEPT !.rows = @ \o a, !.iterator = 1]
    [] t \notin NoCriterion /\ Type[t] # "bulk" ->
         [rs EXCEPT !.rows = a, !.consumed = 0, !.row = Nil]

(* An execution that throws, in the search or before it, leaves the result *)
(* set of the execution before in place.                                   *)
SQLExecute ==
  /\ cursor = "closed"
  /\ prepared
  /\ \/ /\ executions < MaxExecutions
        /\ \E a \in Answers(mQuery) :
             /\ resultSet' = WithAnswer(mQuery, resultSet, a)
             /\ Opens(asked, TRUE, a)
     \/ UNCHANGED resultSet /\ NoCursor(asked, TRUE)
  /\ SameQuery

(* Faulty: SQLExecDirect goes on when SQLPrepare has failed.               *)
FaultySQLExecDirect(t) ==
  /\ cursor = "closed"
  /\ mQuery \in Text
  /\ executions < MaxExecutions
  /\ \E a \in Answers(mQuery) :
       /\ resultSet' = WithAnswer(mQuery, resultSet, a)
       /\ Opens(t, FALSE, a)
  /\ SameQuery

(* SQLPrepare, and SQLExecute if that was a success.                       *)
SQLExecDirect(t) ==
  /\ cursor = "closed"
  /\ \/ SameQuery /\ UNCHANGED resultSet /\ NoCursor(t, FALSE)
     \/ NewQuery(t) /\ resultSet' = NewResultSet /\ NoCursor(t, FALSE)
     \/ /\ executions < MaxExecutions
        /\ NewQuery(t)
        /\ \E a \in Answers(t) :
             /\ resultSet' = WithAnswer(t, NewResultSet, a)
             /\ Opens(t, FALSE, a)

(* A catalog function refuses its arguments before it touches the query;   *)
(* or throws with the query already replaced, before or after it has made  *)
(* a result set; or fills the new result set and returns.                  *)
CatalogFunction ==
  /\ cursor = "closed"
  /\ \/ SameQuery /\ UNCHANGED resultSet /\ NoCursor(Catalog, FALSE)
     \/ /\ \E q \in {Catalog, Nil} : NewQuery(q)
        /\ resultSet' = NewResultSet
        /\ NoCursor(Catalog, FALSE)
     \/ /\ executions < MaxExecutions
        /\ NewQuery(Catalog)
        /\ \E a \in Answers(Catalog) :
             /\ resultSet' = [NewResultSet EXCEPT !.rows = a]
             /\ Opens(Catalog, FALSE, a)

(* SQLFreeStmt with SQL_CLOSE.                                             *)
CloseCursor ==
  /\ cursor # "closed"
  /\ cursor' = "closed"
  /\ promised' = {}
  /\ UNCHANGED <<mQuery, resultSet, bound, buffer>>
  /\ UNCHANGED <<prepared, asked, executions, answer, fetched>>

-----------------------------------------------------------------------------
(***************************************************************************)
(* Bound columns.  A statement whose query has no result set (a fresh one) *)
(* must not be asked: the driver follows a null pointer there.             *)
(***************************************************************************)
SQLBindCol(c) ==
  /\ mQuery # Nil
  /\ bound' = bound \cup {c}
  /\ buffer' = [buffer EXCEPT ![c] = Nil]
  /\ promised' = promised \ {c}
  /\ UNCHANGED <<mQuery, resultSet, callerVars>>

(* SQLFreeStmt with SQL_UNBIND.                                            *)
UnbindColumns ==
  /\ mQuery # Nil
  /\ bound' = {}
  /\ promised' = {}
  /\ UNCHANGED <<mQuery, resultSet, buffer, callerVars>>

-----------------------------------------------------------------------------
(***************************************************************************)
(* SQLFetch, and SQLExtendedFetch and SQLFetchScroll, which call it.       *)
(***************************************************************************)

(* BulkResultSet::isEmpty and hasNext.                                     *)
(* Faulty: the end is forgotten.                                           *)
FaultyBulkHasNext(rs) == rs.rows # <<>>

BulkHasNext(rs) ==
  /\ rs.rows # <<>>
  /\ rs.gotFirst => rs.iterator < Len(rs.rows)

BulkNext(rs) ==
  IF rs.gotFirst THEN [rs EXCEPT !.iterator = @ + 1]
                 ELSE [rs EXCEPT !.gotFirst = TRUE]

(* The first item librets has not handed out, past those that stand for    *)
(* nothing (hasNext calls itself for them); one past the last if none.     *)
NextItem(rs) ==
  CHOOSE i \in rs.consumed + 1 .. Len(rs.rows) + 1 :
    /\ i <= Len(rs.rows) => rs.rows[i].is # "none"
    /\ \A j \in rs.consumed + 1 .. i - 1 : rs.rows[j].is = "none"

HasRow ==
  IF IsBulk THEN BulkHasNext(resultSet)
  ELSE /\ NextItem(resultSet) <= Len(resultSet.rows)
       /\ resultSet.rows[NextItem(resultSet)].is = "row"

(* Faulty: mObjectResponseMap, or the row of librets, is not filled again. *)
FaultyNextRow ==
  IF IsBulk THEN BulkNext(resultSet)
  ELSE [resultSet EXCEPT !.consumed = NextItem(resultSet)]

(* The result set moved to its next row.                                   *)
NextRow ==
  IF IsBulk THEN BulkNext(resultSet)
  ELSE [resultSet EXCEPT !.consumed = NextItem(resultSet),
                         !.row = resultSet.rows[NextItem(resultSet)]]

(* Faulty: the bound columns are filled from the row before.               *)
FaultyFill(rs, stop) ==
  buffer' = [c \in 1..Columns |->
               IF c \in bound /\ c < stop THEN RowOf(resultSet) ELSE buffer[c]]

(* processNextRow fills the bound columns from the first to the last one   *)
(* before column stop.                                                     *)
Fill(rs, stop) ==
  buffer' = [c \in 1..Columns |->
               IF c \in bound /\ c < stop THEN RowOf(rs) ELSE buffer[c]]

FetchRow ==
  /\ cursor # "closed"
  /\ HasRow
  /\ resultSet' = NextRow
  /\ Fill(NextRow, Columns + 1)
  /\ promised' = bound
  /\ cursor' = "on row"
  /\ fetched' = fetched + 1
  /\ UNCHANGED <<mQuery, bound, prepared, asked, executions, answer>>

(* The value of a bound column does not convert: the row is not taken      *)
(* back, and the columns before it are filled.                             *)
FetchUnconvertible ==
  /\ cursor # "closed"
  /\ HasRow
  /\ resultSet' = NextRow
  /\ \E c \in bound : Fill(NextRow, c)
  /\ promised' = {}
  /\ UNCHANGED <<mQuery, bound, callerVars>>

(* An object with an error code: hasNext throws, the object is used up.    *)
FetchObjectError ==
  /\ cursor # "closed"
  /\ ~IsBulk
  /\ NextItem(resultSet) <= Len(resultSet.rows)
  /\ resultSet.rows[NextItem(resultSet)].is = "error"
  /\ resultSet' = [resultSet EXCEPT !.consumed = NextItem(resultSet)]
  /\ promised' = {}
  /\ UNCHANGED <<mQuery, bound, buffer, callerVars>>

(* librets throws for want of the next item, and has not handed it out.    *)
FetchThrows ==
  /\ cursor # "closed"
  /\ ~IsBulk
  /\ promised' = {}
  /\ UNCHANGED <<mQuery, resultSet, bound, buffer, callerVars>>

FetchNoData ==
  /\ cursor # "closed"
  /\ ~HasRow
  /\ \/ IsBulk /\ UNCHANGED resultSet
     \/ /\ ~IsBulk
        /\ NextItem(resultSet) > Len(resultSet.rows)
        /\ resultSet' = [resultSet EXCEPT !.consumed = Len(resultSet.rows)]
  /\ cursor' = "open"
  /\ promised' = {}
  /\ UNCHANGED <<mQuery, bound, buffer, prepared, asked, executions>>
  /\ UNCHANGED <<answer, fetched>>

SQLFetch ==
  \/ FetchRow
  \/ FetchUnconvertible
  \/ FetchObjectError
  \/ FetchThrows
  \/ FetchNoData

-----------------------------------------------------------------------------
Next ==
  \/ \E t \in Text : SQLPrepare(t)
  \/ \E t \in Text : SQLExecDirect(t)
  \/ SQLExecute
  \/ CatalogFunction
  \/ CloseCursor
  \/ \E c \in 1..Columns : SQLBindCol(c)
  \/ UnbindColumns
  \/ SQLFetch

Spec == Init /\ [][Next]_vars

-----------------------------------------------------------------------------
(***************************************************************************)
(* Properties.                                                             *)
(***************************************************************************)

(* The rows an application gets are an answer to the text it gave last:    *)
(* never those of an older query, which a failed SQLPrepare leaves in the  *)
(* statement.                                                              *)
AnswersTheText == cursor # "closed" => mQuery = asked

(* What SQLFetch has put into the bound columns is the row SQLGetData      *)
(* reads, all of it, however bindings, failed conversions and executions   *)
(* came in between.                                                        *)
BuffersHoldTheRow ==
  \A c \in promised : cursor = "on row" /\ buffer[c] = RowOf(resultSet)

(* The iterator of a bulk result set can be followed whenever hasNext or   *)
(* getData follow it, although rows are added behind it.                   *)
IteratorInResults ==
  /\ resultSet.gotFirst => resultSet.iterator <= Len(resultSet.rows)
  /\ cursor = "on row" /\ IsBulk => resultSet.gotFirst

(* A lookup table enumerates the values of the lookup: an execution gives  *)
(* no more rows than there are.                                            *)
NoExtraRows == cursor # "closed" => fetched <= Len(answer)

(* The statement as a ForwardCursor, unless its text compiles to a bulk    *)
(* query, whose rows pile up (NoExtraRows): that cursor stays closed.      *)
Delivers == mQuery \in Text => Type[mQuery] # "bulk"

PassedOf(rs) ==
  IF ~IsBulk THEN rs.consumed
  ELSE IF rs.gotFirst THEN rs.iterator ELSE 0

IsOpen == cursor # "closed" /\ Delivers

OpenAnswer == IF IsOpen THEN answer ELSE <<>>

OpenPassed == IF IsOpen THEN PassedOf(resultSet) ELSE 0

OpenFetched == IF IsOpen THEN fetched ELSE 0

Current == IF IsOpen /\ cursor = "on row" THEN RowOf(resultSet) ELSE Nil

StandsForRow(item) == item.is = "row"

StandsForNothing(item) == item.is = "none"

Cursor ==
  INSTANCE ForwardCursor
    WITH Items <- Item,
         None <- Nil,
         IsRow <- StandsForRow,
         IsVoid <- StandsForNothing,
         answer <- OpenAnswer,
         passed <- OpenPassed,
         current <- Current,
         fetched <- OpenFetched

(* Searches, objects and catalog functions: a statement delivers the rows  *)
(* of its last execution, of no other, in order, each once and none        *)
(* skipped, and ends when there is nothing left, also after executions     *)
(* that failed and cursors that were closed half way.                      *)
DeliversTheAnswer == Cursor!Spec

=============================================================================
