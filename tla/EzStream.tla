------------------------------- MODULE EzStream -------------------------------
(***************************************************************************)
(* SQLGetData: an application reads the columns of a fetched row in pieces *)
(* as large as its buffer, and the statement keeps in mDataStreamInfo how  *)
(* far it is.                                                              *)
(*                                                                         *)
(* There is one DataStreamInfo for all columns and all rows of a           *)
(* statement.  It is reset when another column is asked for and when a row *)
(* is fetched, and nowhere else: SQLPrepare, SQLExecute and a fetch that   *)
(* finds no row leave it as it is.                                         *)
(*                                                                         *)
(* A byte is its place <<row, column, index>>, so that a byte of another   *)
(* value, or one left over in the buffer, is told from the right one.      *)
(***************************************************************************)
EXTENDS Integers, Sequences

CONSTANTS
  Rows,       \* number of rows of the result set
  Columns,    \* number of its columns
  Length,     \* Length[r][c]: bytes in column c of row r; 0 is NULL
  Capacity    \* size of the application's buffer

ASSUME StreamAssumption ==
  /\ Rows \in Nat
  /\ Columns \in Nat
  /\ Length \in [1..Rows -> [1..Columns -> Nat]]
  /\ Capacity \in Nat

VARIABLES
  row,            \* result set: the current row, 0 before the first
  positioned,     \* caller: the last fetch returned a row
  stream,         \* RetsSTMT::mDataStreamInfo
  target,         \* the application's buffer
  reading,        \* application: the column it is putting together
  taken,          \* application: the bytes of it received so far
  last            \* what the last SQLGetData returned

streamVars == <<row, positioned, stream>>
vars == <<row, positioned, stream, target, reading, taken, last>>

(* DataStreamInfo::FileStatus                                              *)
Status == {"NO_DATA_RETRIEVED", "HAS_MORE_DATA", "NO_MORE_DATA"}

(* The translators, by what they do to the stream: characters and binary   *)
(* data advance it; "fixed" stands for those of a fixed length, which      *)
(* leave it alone; "none" is a type without a translator.                  *)
TargetType == {"char", "binary", "fixed", "none"}

ReturnCode == {"SQL_SUCCESS", "SQL_SUCCESS_WITH_INFO", "SQL_NO_DATA",
               "SQL_ERROR"}

Nul == <<0, 0, 0>>       \* the terminating character
Junk == <<0, 0, 1>>      \* what the buffer held before the first call

Byte == {Nul, Junk} \cup (1..Rows) \X (1..Columns) \X (Nat \ {0})

Fresh(c) == [column |-> c, status |-> "NO_DATA_RETRIEVED", offset |-> 0]

Idle == [rc |-> "SQL_SUCCESS", type |-> "none", room |-> 0, ind |-> -1]

TypeOK ==
  /\ row \in 0..Rows
  /\ positioned \in BOOLEAN
  /\ positioned => row > 0
  /\ stream \in [column : 0..Columns + 1, status : Status, offset : Nat]
  /\ target \in [1..Capacity -> Byte]
  /\ reading \in 0..Columns + 1
  /\ taken \in Seq(Byte)
  /\ last \in [rc : ReturnCode, type : TargetType, room : 0..Capacity,
               ind : Int]

Init ==
  /\ row = 0
  /\ positioned = FALSE
  /\ stream = Fresh(0)
  /\ target = [i \in 1..Capacity |-> Junk]
  /\ reading = 0
  /\ taken = <<>>
  /\ last = Idle

-----------------------------------------------------------------------------
(* SQLExecute opens the cursor again; the stream is left as it is.         *)
SQLExecute ==
  /\ row' = 0
  /\ positioned' = FALSE
  /\ reading' = 0
  /\ taken' = <<>>
  /\ last' = Idle
  /\ UNCHANGED <<stream, target>>

FaultySQLFetch ==
  /\ row < Rows
  /\ row' = row + 1
  /\ positioned' = TRUE
  /\ UNCHANGED stream
  /\ reading' = 0
  /\ taken' = <<>>
  /\ last' = Idle
  /\ UNCHANGED target

(* The stream is reset before the row is processed: also when a bound      *)
(* column cannot be converted and the fetch returns SQL_ERROR, for the     *)
(* cursor has moved then, too.                                             *)
SQLFetch ==
  /\ row < Rows
  /\ row' = row + 1
  /\ positioned' = TRUE
  /\ stream' = Fresh(0)
  /\ reading' = 0
  /\ taken' = <<>>
  /\ last' = Idle
  /\ UNCHANGED target

(* No row is left: SQL_NO_DATA, before the stream is reset.                *)
SQLFetchNoData ==
  /\ row = Rows
  /\ positioned' = FALSE
  /\ reading' = 0
  /\ taken' = <<>>
  /\ last' = Idle
  /\ UNCHANGED <<row, stream, target>>

(* hasNext throws, outside the try block and before the reset: an object   *)
(* with an error code, which leaves the row before it in place.            *)
SQLFetchThrows ==
  /\ row < Rows
  /\ last' = Idle
  /\ UNCHANGED <<streamVars, target, reading, taken>>

-----------------------------------------------------------------------------
(***************************************************************************)
(* SQLGetData(c, t, len).  The caller is positioned on a row: a driver     *)
(* manager refuses the call otherwise.                                     *)
(***************************************************************************)

(* The stream a call works on.                                             *)
FaultyStreamFor(c) == stream

StreamFor(c) == IF stream.column # c THEN Fresh(c) ELSE stream

(* The bytes a piece can take: the character translator keeps one for the  *)
(* terminating character.                                                  *)
FaultyRoom(t, len) == IF len > 1 THEN len - 2 ELSE 0

Room(t, len) == IF t = "char" /\ len > 0 THEN len - 1 ELSE len

(* The first n bytes of column c of row r.                                 *)
First(r, c, n) == [i \in 1..n |-> <<r, c, i>>]

(* data.copy(target, room, offset), and for characters a NUL in the last   *)
(* place of the buffer.                                                    *)
Copy(s, c, t, len, n) ==
  target' = [i \in 1..Capacity |->
               IF i <= n THEN <<row, c, s.offset + i>>
               ELSE IF t = "char" /\ i = len /\ len > 1 THEN Nul
               ELSE target[i]]

(* Bytes the application believes to be in its buffer: all of a complete   *)
(* answer, a full buffer of a truncated one.                               *)
Believed(rc, room, ind) == IF rc = "SQL_SUCCESS" THEN ind ELSE room

FaultyRewind(s, n, size) ==
  [s EXCEPT !.offset = @ - n,
            !.status = IF s.offset - n >= size
                       THEN "NO_MORE_DATA" ELSE "HAS_MORE_DATA"]

(* streamInfo after a piece of n bytes of a value of the given size.       *)
Advance(s, n, size) ==
  [s EXCEPT !.offset = @ + n,
            !.status = IF s.offset + n >= size
                       THEN "NO_MORE_DATA" ELSE "HAS_MORE_DATA"]

(* The length reported: what remained before this piece.                   *)
Indicator(s, n, size) == size - s.offset

CodeFor(s) == IF s.status = "HAS_MORE_DATA"
              THEN "SQL_SUCCESS_WITH_INFO" ELSE "SQL_SUCCESS"

(* What the application had of this column before the call.                *)
TakenOf(c) == IF reading = c THEN taken ELSE <<>>

(* A call on column c that copies nothing and leaves the stream at s.      *)
NoPiece(c, s, rc, t) ==
  /\ stream' = s
  /\ reading' = c
  /\ taken' = TakenOf(c)
  /\ last' = [rc |-> rc, type |-> t, room |-> 0, ind |-> -1]
  /\ UNCHANGED <<row, positioned, target>>

(* The column was read to its end before.                                  *)
FaultyGetNoData(c) ==
  /\ positioned
  /\ StreamFor(c).status = "HAS_MORE_DATA"
  /\ NoPiece(c, StreamFor(c), "SQL_NO_DATA", "none")

GetNoData(c) ==
  /\ positioned
  /\ StreamFor(c).status = "NO_MORE_DATA"
  /\ NoPiece(c, StreamFor(c), "SQL_NO_DATA", "none")

(* A column number out of range is not refused by the check at the top,    *)
(* which no number fails, but by the exception of vector::at: the stream   *)
(* has turned to that number by then.                                      *)
GetBadColumn(c) ==
  /\ positioned
  /\ c \notin 1..Columns
  /\ NoPiece(c, StreamFor(c), "SQL_ERROR", "none")

(* Pieces: the character and binary translators on a value that is not     *)
(* empty.                                                                  *)
GetPiece(c, t, len) ==
  LET s    == StreamFor(c)
      size == Length[row][c]
      room == Room(t, len)
      rest == size - s.offset
      n    == IF room <= rest THEN room ELSE rest
      s2   == Advance(s, n, size)
      ind  == Indicator(s, n, size)
  IN /\ positioned
     /\ s.status # "NO_MORE_DATA"
     /\ size > 0
     /\ stream' = s2
     /\ Copy(s, c, t, len, n)
     /\ reading' = c
     /\ taken' = TakenOf(c)
                   \o SubSeq(target', 1, Believed(CodeFor(s2), room, ind))
     /\ last' = [rc |-> CodeFor(s2), type |-> t, room |-> room, ind |-> ind]
     /\ UNCHANGED <<row, positioned>>

(* NULL, and the translators of fixed-length types: the whole value at     *)
(* once and nothing done to the stream, whose old status still makes the   *)
(* return code.                                                            *)
GetWhole(c, t) ==
  LET s == StreamFor(c)
  IN /\ positioned
     /\ s.status # "NO_MORE_DATA"
     /\ t = "fixed" \/ (t \in {"char", "binary"} /\ Length[row][c] = 0)
     /\ NoPiece(c, s, CodeFor(s), "fixed")

(* An exception before anything was copied.  MissingTranslatorException    *)
(* becomes a warning without a value; a value that does not convert, or a  *)
(* lookup that cannot be decoded, an error.                                *)
GetThrows(c) ==
  /\ positioned
  /\ StreamFor(c).status # "NO_MORE_DATA"
  /\ \E rc \in {"SQL_SUCCESS_WITH_INFO", "SQL_ERROR"} :
       NoPiece(c, StreamFor(c), rc, "none")

SQLGetData(c) ==
  \/ GetNoData(c)
  \/ GetThrows(c)
  \/ \E len \in 0..Capacity, t \in {"char", "binary"} : GetPiece(c, t, len)
  \/ \E t \in TargetType : GetWhole(c, t)

-----------------------------------------------------------------------------
Next ==
  \/ SQLExecute
  \/ SQLFetch
  \/ SQLFetchNoData
  \/ SQLFetchThrows
  \/ \E c \in 1..Columns : SQLGetData(c)
  \/ \E c \in {0, Columns + 1} : GetBadColumn(c)

Spec == Init /\ [][Next]_vars

(* An application that goes on with a column it has begun, with room for a *)
(* byte and its terminating character, until it has all of it.             *)
Continue ==
  /\ stream.column \in 1..Columns
  /\ reading = stream.column
  /\ \E len \in 2..Capacity, t \in {"char", "binary"} :
       GetPiece(stream.column, t, len)

FairSpec == Spec /\ WF_vars(Continue)

-----------------------------------------------------------------------------
(***************************************************************************)
(* Properties.                                                             *)
(***************************************************************************)

(* What the application puts together from the lengths and return codes it *)
(* is given is the beginning of the very value it asked for, in order and  *)
(* without a gap, and the stream is exactly that far: a fetch, another     *)
(* column or a failed call in between never makes a piece of one value     *)
(* follow a piece of another.                                              *)
InOrder ==
  /\ positioned /\ reading \in 1..Columns =>
       taken = First(row, reading, stream.offset)
  /\ positioned => reading = stream.column

(* string::copy throws when it is asked to start past the end; the stream  *)
(* never is, whatever lengths the rows before had.                         *)
OffsetInValue ==
  positioned /\ stream.column \in 1..Columns =>
    /\ stream.offset <= Length[row][stream.column]
    /\ stream.status = "HAS_MORE_DATA" =>
         stream.offset < Length[row][stream.column]

(* A text or binary answer with SQL_SUCCESS, and SQL_NO_DATA, mean that    *)
(* the application now has all of the value: nothing is lost at the end.   *)
SuccessIsComplete ==
  \/ last.rc = "SQL_NO_DATA"
  \/ last.rc = "SQL_SUCCESS" /\ last.type \in {"char", "binary"}
  => taken = First(row, reading, Length[row][reading])

(* A column once begun is read to its end, unless the application turns    *)
(* elsewhere: every piece with room in it moves the stream on.             *)
ColumnIsFinished ==
  \A c \in 1..Columns :
    (positioned /\ stream.column = c /\ stream.status = "HAS_MORE_DATA")
      ~> (stream.column # c \/ stream.status = "NO_MORE_DATA" \/ ~positioned)

(* "Take one off the targetlen so we can null terminate": text handed to   *)
(* the application ends in a NUL where the text ends.                      *)
TextIsTerminated ==
  last.type = "char" /\ last.room > 0 =>
    target[(IF last.rc = "SQL_SUCCESS" THEN last.ind ELSE last.room) + 1] = Nul

(* The value the application reads, in the terms of OrderedDelivery.       *)
OnColumn == positioned /\ reading \in 1..Columns

ReadValue == IF OnColumn THEN <<row, reading>> ELSE <<0, 0>>

IsComplete == OnColumn /\ stream.status = "NO_MORE_DATA"

Delivery ==
  INSTANCE OrderedDelivery
    WITH Value <- (1..Rows) \X (1..Columns),
         None <- <<0, 0>>,
         Size <- [v \in (1..Rows) \X (1..Columns) |-> Length[v[1]][v[2]]],
         value <- ReadValue,
         held <- Len(taken),
         complete <- IsComplete

(* Column by column, the driver implements the delivery of one value after *)
(* the other: from its first byte, without a gap or a repeat, and complete *)
(* exactly when the stream says so.                                        *)
DeliversInOrder == Delivery!Spec

=============================================================================
