# A TLA+ model of the ezRETS ODBC driver

ezRETS lets an ODBC application query a RETS server (real-estate listings) in
SQL.  The driver library keeps a tree of handles, logs in to the server through
librets, compiles SQL to DMQL, and hands the rows and binary objects of the
answer to the application, at once or piece by piece.

The driver has no threads, timers or persistent state of its own.  What makes
it hard is that an ODBC application calls it in any order it likes, on several
handles in turns, that the server may refuse, fail, or answer only half at
every call, and that much state (the session pointer, the query, the result
set, the stream position) outlives the call that set it.  The models are about
these sequences of calls.

## The system

| Part | State | Operations | Works with |
|---|---|---|---|
| Environment, `RetsENV` | list of connections, log file, attributes | allocate, free, attributes | owns `RetsDBC` |
| Connection, `RetsDBC` | `mEnv`, `mStatements`, `mRetsSessionPtr`, `mMetadataViewPtr`, `mDataSource` | SQLConnect, SQLDriverConnect, SQLDisconnect, SQLAllocStmt, SQLFreeStmt, SQLGetInfo | DataSource, librets session, owns `RetsSTMT` |
| Statement, `RetsSTMT` | `mQuery`, `mDataStreamInfo`, four descriptors | prepare, execute, catalog functions, bind, fetch, SQLGetData, attributes | Query, ResultSet, its connection |
| Query and its subclasses | the compiled query, one result set, the librets request and answer | `prepareResultSet`, `execute` | MetadataView, librets session |
| ResultSet and its subclasses | columns with their bindings, rows or the librets cursor | `hasNext`, `processNextRow`, `getData`, `addRow` | Column, DataTranslator |
| Column, DataTranslator, TranslationWorkers | a column's binding | `setData`, `translate` | DataStreamInfo |
| AbstractHandle | `mErrors`, the diagnostic records | SQLError, SQLGetDiagRec, SQLGetDiagField | every handle |
| Descriptors | offsets, pointers, array sizes | SQLSetDescField, SQLSetStmtAttr | Column, SQLFetch |
| MetadataView | none (a view of librets' metadata) | tables, columns, lookups by name | the queries |
| DataSource | the settings of a connection | odbc.ini, connection string, `CreateRetsSession`, `RetsLogin` | RetsDBC, the setup library |
| Setup library | none | ConfigDSN: add, configure, remove | DataSource |
| Entry points, `OdbcEntry` | none | C function to method; exceptions to return codes and records | every handle |

What makes each part correct:

- *Handles and sessions.* No handle outlives its parent.  A connection has a
  session exactly when the caller was told so, although a login can fail
  after the session is there and a logout can fail before it is gone.
  A statement never follows a pointer into a session that is gone.
- *Statements and result sets.* The rows an application sees are those of the
  last execution of the statement it gave last, in order, none lost or
  repeated; bound buffers and SQLGetData show the same row.
- *Streaming.* The pieces of a long value, put together, are the value.
- *Diagnostics.* A call that fails says why, an application that reads a record
  reads about the call it made, and a text that was cut is said to be cut.
- *Descriptors.* Offsets and array sizes apply to the buffers they are for, and
  a fetch writes into no others.
- *Values.* What is in a buffer is what the server's text says, what the driver
  describes is what it can convert, and NULL is told only of what is empty.
- *MetadataView.* The names the catalog functions list are those a query
  can be written with.
- *DataSource, setup.* A connection uses the settings of the data source it
  names; configuring a data source does not lose one without a word.

`PROJECT.json` lists under "hazards" the places in the code where this can go
wrong, with the properties that cover them.

## The modules

| Module | What it is |
|---|---|
| `EzHandles` | environments, connections, statements, the session and the metadata view |
| `OdbcConnection` | abstract: the ODBC connection states C1, C2, C4, C5 |
| `EzTeardown` | `EzHandles` with an application that closes down, for liveness |
| `EzHandles_proofs` | theorems about `EzHandles` |
| `EzStatement` | one statement: its query, result set and bound columns |
| `EzStatement_proofs` | theorems about `EzStatement` |
| `ForwardCursor` | abstract: a forward-only cursor over one answer |
| `EzStream` | SQLGetData in pieces |
| `OrderedDelivery` | abstract: a value received from its first byte to its last |
| `EzStream_proofs` | theorems about `EzStream` |
| `EzDiag`, `OdbcText` | the records of the handles, the outcome of every entry point, texts in short buffers |
| `EzDescriptors` | statement attributes, descriptor fields, bindings, and where a row is written |
| `EzMetadata` | `MetadataView`, the catalog functions and the columns of queries |
| `EzColumn` | a column: type, sizes, translator |
| `EzTypes` | what five functions tell of a column, and the list of types |
| `EzTranslate` | the conversion of a text to every C type |
| `EzSettings` | the settings of a data source as values, and `DataSource`'s functions on them |
| `EzDataSource` | a connection handle and its settings through connects and disconnects |
| `EzSetup` | ConfigDSN, its dialog, and the section it writes |
| `EzDiag_proofs`, `EzDescriptors_proofs`, `EzMetadata_proofs` | theorems about these three |
| `EzTranslate_proofs` | theorems about `EzTranslate` and `EzTypes` |
| `EzSettings_proofs` | theorems about `EzSetup`, `EzDataSource` and the operators of `EzSettings` |
| `MC...` | small instances for TLC |

`EzTeardown` extends `EzHandles`, `EzDiag` uses `OdbcText`, `EzTranslate` and
`EzTypes` are two uses of `EzColumn`, `EzDataSource` and `EzSetup` two of
`EzSettings`: what the setup library writes is read by the very operator with
which the driver reads it.

### EzHandles

A step is one ODBC call.  The tree variables are the lists and back pointers of
the C++ objects.  `mRetsSessionPtr` and `mMetadataViewPtr` hold the identity of
a librets session; `origin` is the session whose metadata a prepared query
points into with raw `MetadataTable` pointers; `serverSessions` are the
sessions the server has.  `told` is the state of the connection as an ODBC
driver manager derives it from return codes.  With `Managed = TRUE` the manager
filters the calls by it; with `FALSE` the application calls the driver
directly.  `crashed` records that a call followed a pointer that its connection
has lost.

`login` has its three outcomes as in the code: granted with its metadata read,
refused (`RetsLogin` returns false, nothing is touched), and an exception (the
catch block resets session and view), in which the server may or may not have
granted the session.  `SQLDisconnect` first looks for a session, then for
statements, then calls Logout, which may throw past the two resets.  A
statement is here only what it needs from its connection; its query kind is
one of "null", "typeinfo", "catalog", "sql".

Not in the model: the log file of the environment, memory running out, and
connection strings longer than a `SQLSMALLINT` counts.  Attributes of
environments and connections change nothing; they are calls of `EzDiag`.

### EzStatement

`mQuery` is the text of the current query, `resultSet` its result set as a
record that holds the fields of all three classes: `rows`, `gotFirst` and
`iterator` are `BulkResultSet`'s, `rows`, `consumed` and `row` stand for the
librets cursor of the other two.  An item of an answer is known by its
execution and its place, so that a row of an earlier execution is told from one
of this.  `cursor` and `prepared` are the manager's statement states (S1 to
S6): SQL_CLOSE changes only them, the driver does nothing.

A new query makes a new result set and thereby drops the bindings.  A failed
SQLPrepare keeps the old query.  A failed execution keeps the old rows.
Bulk rows are added, never removed.  Object answers contain items with an error
(`hasNext` throws) and with reply code 20403 (`hasNext` calls itself).  A fetch
whose bound values do not convert has moved the cursor and filled the columns
before the failing one.

SQLBindCol and SQL_UNBIND on a statement whose query has no result set (a fresh
one, or one after a catalog function that threw) follow a null pointer in the
code; the model does not take that step.

Rows of the count and lookup queries that a prepared statement executes again
are the subject of the run `statement_lookup`.  In the refinement a statement
whose text compiles to such a query is a closed cursor (`Delivers`, `IsOpen`);
`DeliversTheAnswer` says of all others, in any mixture with these, that they
implement `ForwardCursor`.

### EzStream

`stream` is `mDataStreamInfo`.  A byte is its place `<<row, column, index>>`.
`taken` is what an application puts together from the lengths and codes it is
given.  `SQLGetData(c)` turns the stream to column c if it was elsewhere,
answers SQL_NO_DATA if the column was read to its end, and otherwise calls the
translator: characters and binary data advance the stream (`GetPiece`), NULL
and fixed-length values do not touch it (`GetWhole`).  An exception before the
copy leaves it alone, too (`GetThrows`): a type without translator gives a
warning, a value that does not convert an error.  A column number out of range
ends in the exception of `vector::at`, after the stream has turned to that
number.

### EzDiag and OdbcText

`mErrors` is the list of records of each handle, by SQLSTATE; a record an older
call left is `Earlier`.  Every function of the API is there with the outcomes
its code has: `Entries` has those that get to a method of the handle (which
clears the list first, except for descriptors), then those that append without
clearing (`NotImplementedCall`), those that pretend success, and the entries
with a null handle, which have no handle to put a record on.  An exception that
leaves a method is the outcome `Thrown`, made by the entry.  What a call does
besides is in the other modules; here the order of calls and outcomes is free.

`SQLGetDiagRec`, `SQLGetDiagField` and `SQLError` read the records.  `OdbcText`
has what happens to a text in a buffer, for each of the helpers that copy one:
they differ in the length they tell, in the return code, and in whether they
leave a record.

### EzDescriptors

`ard` and `ird` are the fields of the application row and implementation row
descriptor that are stored, `bound` the columns bound in the result set, and
`given` what the application thinks it has bound, for which query.  `writes` is
what the last call put where: an address is the buffer's, moved by the bind
offset (read at the moment of the fetch) and the descriptor's data pointer, as
`Column::setData` adds them.  A fetch fails at any bound column, whose indicator
may have been written before the worker throws.
`SQLExtendedFetch` tells rows and status in places of its own.  SQLBindCol and
SQL_UNBIND on a statement that never had a query end in `crashed`.

### EzMetadata

A server has resources, classes and fields with a system name and perhaps a
standard name.  `inited` are the classes whose fields were loaded: the view
loads them when they are first needed.  Each function of the view that leaves
a null pointer when a name is unknown, and each caller that uses it without a
check, is modelled as that: such a call ends in `crashed`.

### EzColumn, EzTypes, EzTranslate

`EzColumn` has the choice of a translator by the settings of the data source,
the types each has a worker for, and the sizes of columns.  `EzTypes` has the
five places that describe a column.  `EzTranslate` has a column of the current
row: a text is its form (number, date, time, False, a single character,
word, ...), the number or the day it stands for, and for times the time of day
and the milliseconds; a worker stores, tells NULL, or throws one of three
exceptions, in the order of its code, so that what was written before a throw is
kept.  SQLFetch and
SQLGetData turn the exceptions into different return codes.  `Base` is the
number of values of a byte: 4 instead of 256 makes the edges of the integer
types small enough for TLC to hit them.

### EzSettings, EzDataSource, EzSetup

A data source is a record of texts and flags by the name of their entry.
`MergeFromIni`, `SetFromOdbcConnectionString`, `GetConnectionString` and
`CreateRetsSession` are operators on it.  The loop over the tokens of a
connection string assigns each key's value as it comes to it, so that the last
one of a key counts: `ValueIn` says just that.  `GetConnectionString` is the
concatenation of what each entry appends, in the order of the code.  `EzDataSource` is one connection
handle, used again and again: `ds` is `mDataSource`, which is never reset, and
`session` what the open session was created with.  An argument of SQLConnect
that is a null pointer leaves what the section says, an empty one clears it.

`EzSetup` runs ConfigDSN from the dialog to the last entry written; each
installer call is a step of its own and may fail, which leaves what the steps
before did.  `window` holds the controls, `edited` the data source of the
dialog, to which the test button transfers the controls as well.

## The runs

| Run | Question | Bounds |
|---|---|---|
| `handles_managed` | behind a driver manager: `ManagerAgrees`, `StatementsAreServed`, `NeverCrashes`, `ReleasedByLogout`, and that the driver implements `OdbcConnection` (`OdbcStates`) | 1 environment, 2 connections, 3 statements, 3 sessions |
| `handles_direct` | without a manager: `NoOrphans`, `ViewOfSession`, and that everything can be freed from every state (`EverythingIsFreed`) | 2 environments, 2 connections, 2 statements, 2 sessions |
| `statement` | `AnswersTheText`, `BuffersHoldTheRow`, `IteratorInResults`, and that the statement implements `ForwardCursor` (`DeliversTheAnswer`) | 4 statements of all kinds, 2 columns, 3 rows, 2 executions |
| `statement_lookup` | violation: see below | 1 lookup statement, 2 values, 3 executions |
| `stream` | `InOrder`, `OffsetInValue`, `SuccessIsComplete`, that SQLGetData implements `OrderedDelivery` (`DeliversInOrder`), and `ColumnIsFinished` | 2 rows and columns, lengths 3, 2, 2, 0, buffers up to 3 |
| `stream_text` | violation: see below | the same |
| `calls` | of records: `FailureIsExplained`, `RecordsAreOfTheLastCall`, `CutTextIsTold`, `LostRecords` | one handle of each kind, 2 sizes of buffers, 2 lengths of texts, 2 records |
| | of descriptors: `BuffersOfThisQuery`, `OnlyFreshStatementsCrash`, `OffsetOfTheMoment` | 2 columns, one without an indicator, 1 offset, answers of 0 and 1 row |
| `catalog` | of names: `ListedIsSelectable`, `KeyOfTheClass` | 2 servers, of 2 and 1 resources, in standard and in system names |
| | of values: `ValuesAreTrue`, `IndicatorIsTrue`, `GoodTextsArrive`, `DescriptionsAgree` | every RETS type as a text, lookups of three of them, 3 settings, 8 C types, 18 texts, bytes of 4 values |
| `settings` | of sections: `SectionsOfOneWriting`, `DriverReadsTheDialog`, `LossIsTold` | 2 names, 6 edits of the dialog, 2 calls, 1 failing call |
| | of a connection: `RoundTrip`, `FirstUseIsOfItsOwn` | 2 data sources, 6 connection strings, 9 files, 3 kinds of arguments |
| `metadata_names`, `translate_documented`, `datasource_flags` | violations: see below | as `catalog` and `settings`, with texts for the second |

The runs `calls` and `catalog` check two components each, which share no variable:
one moves while the other stands at its beginning, so that the states of the two
add up instead of multiplying.  The two of `settings` share ODBC.INI; a handle is
used and freed before the first call of ConfigDSN.

Why these are enough.

- *Handles.* Two connections of an environment are what is needed for one to
  disturb the other; a session in use, one lost at the server, and one being
  opened need three sessions; a freed session object becomes available again,
  so the number of logins in a behaviour is not bounded.  Handles and sessions
  are only compared, which makes their permutation a symmetry; the run with a
  liveness property has none.
- *Statements.* Two executions tell the rows of this one from those of the one
  before; three items allow an error or an absent object before, between and
  after rows.
- *Streams.* Buffers of 0 and 1 byte hold nothing of a text, 2 and 3 bytes take
  a value in several pieces, exactly, and with room to spare; two rows with a
  longer value first show an offset that was kept.
- *Records.* What matters of a text is whether it ends before, at, or behind the
  end of the buffer: a buffer of no and of two characters, texts of one and two.
  Two records are what a call has to leave to lose one; no method adds more
  than two.
- *Descriptors.* A column with an indicator and one without; offset 0 and another;
  a row is written or there is none.  More rows repeat this.
- *Metadata.* The first server has a lookup, a lookup of another resource, a
  resource and a class without a standard name, and two classes that share a
  field; the second has none of the names of the first, which is what a name
  kept from one connection to the next would show.
- *Conversions.* The texts have one of each form a worker tells apart, and
  numbers inside and outside of every width that Base 4 leaves.
- *Settings.* A section that is complete, one that lacks a password, a flag the
  defaults reverse, a value with the separator in it and one that is too long;
  strings that name a data source, that do not, and that give a key twice.
- *Setup.* The second call meets what the first, or its failure, left.

`CHECK_DEADLOCK FALSE` stands where behaviours end: a null pointer followed
(`EzHandles`, `EzDescriptors`, `EzMetadata`), the bound on executions
(`EzStatement`) and on calls (`EzSetup`), and an application that has freed
everything (`EzTeardown`).

Five runs show where the code disagrees with what the repository says about it:

- `stream_text`: the comment at `TranslationWorkers.cpp:376` says the text is
  null terminated; the last piece is so only at the end of the buffer.
- `statement_lookup`: `doc/SQL_Reference.html:213` says that lookup tables
  enumerate the values of a lookup; a statement that is executed twice gives
  them twice, as `BulkResultSet` is never emptied.
- `metadata_names`: `NEWS:395` says that invalid table names return an error now,
  and `NEWS:439` that a table that does not exist no longer crashes; a table
  of objects or of a lookup whose resource is not known, also an object table
  listed under a standard name, follows a null pointer (`MetadataView.cpp:474`,
  `:548`).
- `translate_documented` joins what is said of three kinds of values, and stops at
  the first it meets; reducing its texts to `MCBooleans`, `MCDates` or `MCNumbers`
  shows each.  The comment at `Column.cpp:319` says that a Boolean's text may be
  False; as a bit, only the text 0 is not 1 (`TranslationWorkers.cpp:68`).
  `NEWS:146` says that dates reported as 0000-00-00 are taken for NULL; as a
  timestamp they are a value (`:166`).  The comments at `:591` and `:605` say that
  8 bytes of a NUMERIC are kept; `:608` copies seven.
- `datasource_flags`: the comment at `RetsDBC.cpp:190` says that the registry is
  read for what is missing; a flag of the connection string is overwritten
  by the section of its data source, or by the default (`:192`).

One more disagrees and has no run: the tooltip at `SetupDialog.cpp:189` calls the
name of a data source unique, but adding one by the name of another, or renaming
one to it, begins that one's section anew without a word (`Setup.cpp:140`).

The passing properties of the same modules are stated beside these: `ValuesAreTrue`
excludes the three kinds of values by name, `RoundTrip` compares what counts in
the end, and `LossIsTold` is about all data sources but the one under the name
that was written.

Other places where the code does not do what one would expect are modelled as
they are, and the properties are stated so that they hold with them.  They have
no run of their own, as we found no text of the repository that says otherwise:

- SQLBindCol of a column that does not exist answers HY000 from the exception,
  as the check before it never fires (`RetsSTMT.cpp:90`).
- SQL_ATTR_PARAMSET_SIZE is stored as the size of the row array
  (`RetsSTMT.cpp:665`).
- SQLColumns with the name of a column that a class does not have follows a null
  pointer (`ColumnMetadataQuery.cpp:212`).
- SQLColumns of a lookup table lists a column with an empty name
  (`EzLookupColumnsQuery.cpp:72`).
- Date-times described as text, LOOKUP_MULTI without its commas, and the size 0
  of SQLDescribeCol (`Column.cpp:330`, `:439`, `:268`).
- SQLDescribeCol tells the precision of the metadata as the digits of a column of
  any type (`RetsSTMT.cpp:146`, `Column.cpp:275`), where SQLColumns and
  SQLColAttribute go by the type.
- Of a lookup whose field is decimal or a date-time, SQLColumns tells the
  field's precision and SQLColAttribute that of a text, none (`Column.cpp:377`).
- The fraction of a timestamp is stored in thousandths of a second, where ODBC has
  billionths (`TranslationWorkers.cpp:178`); a DECIMAL is a single character
  (`:334`); a negative number wraps around for an unsigned type (`:650`).
- A conversion that throws leaves the indicator of the row before, or writes NULL
  first (`DataTranslator.cpp:144`).
- A decoded lookup of a field that is not text is converted by the field's type
  (`Column.cpp:288`).
- A handle that is connected to a second data source keeps what the first gave
  it (`RetsDBC.cpp:109`), and the HTTP log of the first session stays open
  (`:661`).

## Fairness

The driver does nothing by itself; every step is a call.  Fairness is therefore
an assumption about the application, and each liveness property says what the
driver lets a persistent application achieve.

- `EzTeardown`: once the application closes down it calls each freeing function
  again and again while the handle exists (weak fairness), and a Logout that is
  repeated is answered some day (strong fairness on SQLDisconnect: it is not
  enabled while statements are open).  No fairness is assumed of `Quit`'s
  moment except that it comes.
- `EzStream`: the application goes on with a column it has begun, with room for
  at least one byte (weak fairness of `Continue`).  With no room at all the
  driver makes no progress, and does not claim to.

## The proofs

`EzHandles_proofs` proves, for any sets of handles and sessions:

- `TypeCorrect`, `NoHandleIsOrphaned`, `ViewIsOfSession` whoever calls;
- for a managed driver `ReturnCodesAreTrue`, `StatementsKeepTheirSession`,
  `NoLostPointer`, `SessionsAreLoggedOut`, and `ImplementsOdbcStates`, that
  every step maps to a step or a stutter of `OdbcConnection`.

The inductive invariant is the conjunction of the type invariant, `NoOrphans`
and `ViewOfSession`, and for the managed driver also `ManagerAgrees`,
`StatementsAreServed`, `NeverCrashes` and that freed statements hold no query.
`NoOrphans` alone is not inductive without the type invariant, and
`StatementsAreServed` needs all the rest: that SQLDisconnect sees every
statement (the lists agree with the back pointers), that a statement is only
allocated where there is a session (what the manager was told is true), and
that a view is of the session held.  The only assumptions are that `Nil` is no
handle or session and that `Managed` is a Boolean.

`EzStream_proofs` proves for any table of lengths and any buffer size
`StreamTypeCorrect`, `PiecesAreInOrder`, `OffsetStaysInValue`,
`SuccessMeansComplete` and `ImplementsDelivery`.  The invariant adds to the
properties how the stream's status, its offset and the bytes taken hang
together, column by column: a status of NO_MORE_DATA means that the offset is
the length, NO_DATA_RETRIEVED that it is 0.

`EzStatement_proofs` proves for any texts, answers, columns and number of
executions `StatementTypeCorrect`, `RowsAnswerTheText`, `BuffersShowTheRow` and
`IteratorStaysInResults`.  The invariant says what a result set must be for its
query (`Usable`): a bulk iterator that was followed is in the results and
otherwise at their start, an on-demand result set has handed out no more than
there is.  `AnswersTheText` needs that a prepared statement holds the text it
was given, for SQLExecute takes no text.  That hasNext finds an item past those
with reply code 20403, or the end, is a lemma about the least of a set of
numbers (`NextItemExists`).  `ImplementsForwardCursor` adds to the invariant
that the result set holds the answer of the open execution.  It is about every
text: one that compiles to a bulk query maps to a cursor that stays closed, for
such a query repeats its rows (the run `statement_lookup`).

The assumptions on the constants are that `Nil` and `Catalog` are no texts,
that each text compiles to one kind of query, and that only queries that search
can lack a WHERE clause.

`EzDescriptors_proofs` proves for any columns, buffers, offsets and answers
`FetchesFillTheirBuffers`, `NullResultSetIsFresh` and `OffsetIsOfTheMoment`.
The invariant is that the columns of the result set are bound exactly where the
application gave a buffer for this query, and that there is a query once one
ran.  That what is written is not null needs that buffers have addresses and
that offsets only move them up.

`EzDiag_proofs` proves for any texts, buffers and order of calls on all four
handles `RecordsHaveSqlStates`, `FailuresAreExplained`, `RecordsAreFresh`,
`CutTextsAreTold` and `RecordsAreKept`.  The work is a lemma for each group of
functions, that every outcome in its table is one the properties allow with
the records it adds; a call is then right whatever the records were before it.
All these properties speak of the last call, so that the invariant need only
say that the records are lists of SQLSTATEs.

`EzMetadata_proofs` proves for any metadata, settings and names tried:

- `ListedNamesCanBeSelected`, if the names in use tell resources, and the
  classes of a resource, apart, and every field has a system name of its own;
- `KeysAreOfTheClass`, if every field has a system name of its own.

These two conditions are in the theorems' statements and not assumed.  RETS asks
them of system names.  Of standard names it does not ask that they are
distinct: if two classes of a resource share one, the view finds the last of
them under the name both are listed with, and the property is about servers
where that does not happen.  Standard names of fields may repeat or be missing.
Which classes are loaded does not matter: every call loads those it needs.
That a name is found again is a lemma about the last of a list with a name.

`EzTranslate_proofs` proves for any fields, lookups, texts, settings and number
of values of a byte `ValuesAreDelivered`, `IndicatorsAreDelivered`,
`RightTextsArrive` and `ColumnsAreDescribedAlike`.  Each worker has a lemma:
what it stores is what the text says, to the millisecond for times, and it takes
every text of its form that fits.  Not said is what `translate_documented` refutes:
the bit of the word False, day zero as a timestamp, and a NUMERIC that needs its
eighth byte.  A call that does not fail has written the indicator, NULL only for
what is NULL or with a warning; one that fails never leaves a length in it.  The
invariant is that the field and the text are such as the server can send
(`Known`); the three properties of calls hold after every call, whatever was in
the buffer before.  That the columns are described alike is a lemma without any
state: it goes through the translators type by type, and says for the digits
after the point when SQLDescribeCol tells the same as the others.

`EzSettings_proofs` proves, about `EzSetup` and for any data sources, edits, and
numbers of calls and failures:

- `SectionIsOfOneWriting`, which needs that while entries are written the
  section was created with the dialog's data source, which nothing changes any
  more;
- `NothingIsLostSilently`, which needs, phase by phase, how the sections compare
  with those at the beginning of the call: all but those the call is about are
  as they were, whatever is in them, and the removed one is missing before the
  new one is there; and only a call that comes to the last entry returns TRUE.
  Of a data source whose name was taken nothing is said;
- `DialogReachesTheDriver`.  The invariant follows the settings on their way:
  the data source of the dialog is what the controls meant when it was confirmed
  (`Confirmed`), the entries up to the one that is next are in the section
  (`Written`, where an empty text counts as written, since the section was
  created empty), and after the last one the section is complete.  That all
  fields are entries, that the step to the next entry that is not empty skips
  none (`LeastNumber`), and that a complete section is read as it was written
  (`SectionIsReadBack`) are its lemmas.

About `EzDataSource`, and for any sections, connection strings and histories of
the handle:

- `ConnectionStringsAreRead`.  Of the state it needs that the session is that of
  the settings, and that the settings are merged with the section of their data
  source (`IsMerged`): a flag is the section's, and where a text is empty, so is
  the section's.  The rest is about `GetConnectionString` alone: what is read of
  a string to which an entry is appended is the entry's value for its key and
  what was read before for every other (`LastTokenIsRead`, `EntryIsRead`), which
  after all entries (`ConnectionStringIsRead`) gives back everything that is
  written; what is not written is the default, or does not count
  (`SameSettingsSameSession`).
- `FirstSessionIsOfItsOwn`, which needs that a handle that was never used has no
  settings, session or log, and that a connection string is never empty, by
  which the property tells the two ways to connect apart.

The assumptions are that ODBC.INI is a table of texts, that every data source
has a name, that a connection string is a sequence of keys with values, and that
an edit changes fields the dialog has, flags to flags and names to names.

No operator of these modules is recursive: the loops over tokens, entries and
edits are stated by what they leave, and the runs check the same definitions.

Model-checked only: the two liveness properties, `EverythingIsFreed` and
`ColumnIsFinished` (fairness is out of the prover's reach).  Every other property
of a run that passes is a theorem.

## Not modelled

- librets, the RETS server, the SQL compiler, the ODBC installer and the driver
  manager are external: they are modelled by what the driver sees of them.
- The layout of the setup dialog, the logger, the installer program, tools and
  examples have no state that outlives a call, or only write text.
- SQLGetInfo and SQLGetFunctions are constant tables; how a text of theirs is
  handed out and what the call returns is in `EzDiag`.
- The mode of ConfigDSN that reads its settings from the attributes instead of
  a dialog (built for iODBC).
- Two calls at a time on one handle: the driver has no locks, and ODBC leaves
  it to the driver manager to keep such calls apart.

## The plan

Done: every module has its run and its theorems.  Left:

1. A composition of `EzHandles` and `EzStatement`: statements of two
   connections in turns, with failed executions and disconnects.
2. ConfigDSN for iODBC; a driver that reads a section while the setup library
   has written half of it.
3. The constant tables of SQLGetInfo against what the modules say the driver
   can do.
