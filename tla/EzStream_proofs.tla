---------------------------- MODULE EzStream_proofs ----------------------------
(***************************************************************************)
(* Proofs about EzStream, for every shape of result set and every buffer.  *)
(*                                                                         *)
(* The invariant says, for a caller that is positioned on a row, that the  *)
(* stream is about the column the application is reading, that what the    *)
(* application has is the prefix of the value the stream counts, and what  *)
(* each status means for that count.                                       *)
(***************************************************************************)
EXTENDS EzStream, SequenceTheorems, TLAPS

StatusInv ==
  /\ stream.offset <= Length[row][stream.column]
  /\ stream.status = "NO_DATA_RETRIEVED" => stream.offset = 0
  /\ stream.status = "HAS_MORE_DATA" =>
       stream.offset < Length[row][stream.column]
  /\ stream.status = "NO_MORE_DATA" =>
       stream.offset = Length[row][stream.column]

StreamInv ==
  /\ positioned => reading = stream.column
  /\ positioned /\ stream.column \in 1..Columns =>
       StatusInv /\ taken = First(row, stream.column, stream.offset)
  /\ ~positioned \/ stream.column \notin 1..Columns => taken = <<>>

Inv == TypeOK /\ StreamInv /\ SuccessIsComplete

LEMMA SizeIsNat ==
  ASSUME NEW r \in 1..Rows, NEW c \in 1..Columns
  PROVE  Length[r][c] \in Nat
BY StreamAssumption

LEMMA PrefixIsSeq ==
  ASSUME NEW r \in 1..Rows, NEW c \in 1..Columns, NEW n \in Nat
  PROVE  /\ First(r, c, n) \in Seq(Byte)
         /\ Len(First(r, c, n)) = n
<1>1. First(r, c, n) \in [1..n -> Byte]
  BY DEF First, Byte
<1>2. QED
  BY <1>1

(* A prefix followed by the n bytes behind it is the longer prefix.        *)
LEMMA PrefixExtends ==
  ASSUME NEW r \in 1..Rows, NEW c \in 1..Columns, NEW o \in Nat, NEW n \in Nat,
         NEW b, \A i \in 1..n : b[i] = <<r, c, o + i>>
  PROVE  First(r, c, o) \o SubSeq(b, 1, n) = First(r, c, o + n)
<1> DEFINE p == First(r, c, o)
           q == SubSeq(b, 1, n)
           w == First(r, c, o + n)
<1>1. p \in Seq(Byte) /\ Len(p) = o
  BY PrefixIsSeq
<1>2. w \in Seq(Byte) /\ Len(w) = o + n
  BY PrefixIsSeq
<1>3. /\ q \in Seq(Byte) /\ Len(q) = n
      /\ \A i \in 1..n : q[i] = b[i]
  <2>1. \A i \in 1..n : b[i] \in Byte
    BY DEF Byte
  <2> HIDE DEF q
  <2>2. /\ SubSeq(b, 1, n) \in Seq(Byte)
        /\ Len(SubSeq(b, 1, n)) = IF 1 <= n THEN n - 1 + 1 ELSE 0
        /\ \A i \in 1..(n - 1 + 1) : SubSeq(b, 1, n)[i] = b[1 + i - 1]
    <3>1. 1 \in Int /\ n \in Int
      OBVIOUS
    <3>2. QED
      BY <2>1, <3>1, SubSeqProperties
  <2>3. QED
    BY <2>2 DEF q
<1>4. /\ \A i \in 1..o : p[i] = <<r, c, i>>
      /\ \A i \in 1..(o + n) : w[i] = <<r, c, i>>
  BY DEF First
<1> HIDE DEF p, q, w
<1>5. /\ p \o q \in Seq(Byte)
      /\ Len(p \o q) = o + n
      /\ \A i \in 1..(o + n) :
           (p \o q)[i] = IF i <= o THEN p[i] ELSE q[i - o]
  BY <1>1, <1>3, ConcatProperties
<1>6. \A i \in 1..(o + n) : (p \o q)[i] = w[i]
  <2> SUFFICES ASSUME NEW i \in 1..(o + n)
               PROVE  (p \o q)[i] = w[i]
    OBVIOUS
  <2>1. CASE i <= o
    <3>1. i \in 1..o
      BY <2>1
    <3>2. (p \o q)[i] = p[i]
      BY <2>1, <1>5
    <3>3. QED
      BY <1>4, <3>1, <3>2, Zenon
  <2>2. CASE i > o
    <3>1. i - o \in 1..n /\ o + (i - o) = i
      BY <2>2
    <3>2. (p \o q)[i] = q[i - o]
      BY <2>2, <1>5
    <3>3. q[i - o] = <<r, c, o + (i - o)>>
      BY <3>1, <1>3, Zenon
    <3>4. QED
      BY <1>4, <3>1, <3>2, <3>3, Zenon
  <2>3. i <= o \/ i > o
    OBVIOUS
  <2>4. QED
    BY <2>1, <2>2, <2>3, Zenon
<1>7. p \o q = w
  <2>1. Len(p \o q) = Len(w)
    BY <1>2, <1>5
  <2>2. \A i \in 1..Len(p \o q) : (p \o q)[i] = w[i]
    BY <1>5, <1>6
  <2>3. QED
    BY <1>2, <1>5, <2>1, <2>2, SeqEqual, Zenon
<1>8. QED
  BY <1>7 DEF p, q, w

LEMMA PrefixEmpty ==
  ASSUME NEW r \in 1..Rows, NEW c \in 1..Columns
  PROVE  First(r, c, 0) = <<>>
<1>1. First(r, c, 0) \in Seq(Byte) /\ Len(First(r, c, 0)) = 0
  BY PrefixIsSeq
<1>2. <<>> \in Seq(Byte) /\ Len(<<>>) = 0
  OBVIOUS
<1>3. QED
  BY <1>1, <1>2, SeqEqual

(* The stream a call on column c works on, kept or reset, is about c, and  *)
(* the application has the prefix it counts.                               *)
LEMMA StreamForColumn ==
  ASSUME Inv, positioned, NEW c \in 1..Columns
  PROVE  /\ StreamFor(c) \in [column : {c}, status : Status, offset : Nat]
         /\ StreamFor(c).offset <= Length[row][c]
         /\ StreamFor(c).status = "NO_DATA_RETRIEVED" =>
              StreamFor(c).offset = 0
         /\ StreamFor(c).status = "HAS_MORE_DATA" =>
              StreamFor(c).offset < Length[row][c]
         /\ StreamFor(c).status = "NO_MORE_DATA" =>
              StreamFor(c).offset = Length[row][c]
         /\ TakenOf(c) = First(row, c, StreamFor(c).offset)
<1>1. row \in 1..Rows
  BY DEF Inv, TypeOK
<1>2. CASE stream.column = c
  <2>1. StreamFor(c) = stream /\ TakenOf(c) = taken
    BY <1>2 DEF Inv, StreamInv, StreamFor, TakenOf
  <2>2. StatusInv /\ taken = First(row, c, stream.offset)
    BY <1>2 DEF Inv, StreamInv
  <2>3. stream \in [column : {c}, status : Status, offset : Nat]
    BY <1>2 DEF Inv, TypeOK
  <2>4. QED
    BY <1>2, <2>1, <2>2, <2>3 DEF StatusInv
<1>3. CASE stream.column # c
  <2>1. StreamFor(c) = Fresh(c) /\ TakenOf(c) = <<>>
    BY <1>3 DEF Inv, StreamInv, StreamFor, TakenOf
  <2>2. First(row, c, 0) = <<>>
    BY <1>1, PrefixEmpty
  <2>3. QED
    BY <1>1, <2>1, <2>2, SizeIsNat DEF Fresh, Status
<1>4. QED
  BY <1>2, <1>3

(* What a positioned caller finds after a call that leaves the stream at s *)
(* and the application with the prefix s counts.                           *)
LEMMA ColumnStep ==
  ASSUME Inv, positioned, NEW c \in 1..Columns, NEW s,
         s \in [column : {c}, status : Status, offset : Nat],
         s.offset <= Length[row][c],
         s.status = "NO_DATA_RETRIEVED" => s.offset = 0,
         s.status = "HAS_MORE_DATA" => s.offset < Length[row][c],
         s.status = "NO_MORE_DATA" => s.offset = Length[row][c],
         stream' = s, reading' = c, taken' = First(row, c, s.offset),
         UNCHANGED <<row, positioned>>
  PROVE  StreamInv' /\ taken' \in Seq(Byte) /\ reading' \in 0..Columns + 1
         /\ stream' \in [column : 0..Columns + 1, status : Status,
                         offset : Nat]
<1>1. row \in 1..Rows
  BY DEF Inv, TypeOK
<1>2. row' = row /\ positioned' = positioned /\ s.column = c
  OBVIOUS
<1>3. StatusInv'
  BY <1>2 DEF StatusInv
<1>4. taken' = First(row', stream'.column, stream'.offset)
  BY <1>2
<1>5. StreamInv'
  BY <1>2, <1>3, <1>4 DEF StreamInv
<1>6. taken' \in Seq(Byte)
  BY <1>1, PrefixIsSeq
<1>7. c \in 0..Columns + 1
  BY StreamAssumption
<1>8. QED
  BY <1>5, <1>6, <1>7

(* Calls on a column that copy nothing.                                    *)
LEMMA NoPieceStep ==
  ASSUME Inv, positioned, NEW c \in 1..Columns, NEW rc \in ReturnCode,
         NEW t \in TargetType, NoPiece(c, StreamFor(c), rc, t),
         rc = "SQL_NO_DATA" => StreamFor(c).status = "NO_MORE_DATA",
         rc = "SQL_SUCCESS" => t \notin {"char", "binary"}
  PROVE  Inv'
<1>1. /\ StreamInv' /\ taken' \in Seq(Byte) /\ reading' \in 0..Columns + 1
      /\ stream' \in [column : 0..Columns + 1, status : Status, offset : Nat]
  BY StreamForColumn, ColumnStep DEF NoPiece
<1>2. TypeOK'
  <2>1. last' \in [rc : ReturnCode, type : TargetType, room : 0..Capacity,
                   ind : Int]
    BY StreamAssumption DEF NoPiece
  <2>2. /\ row' \in 0..Rows /\ positioned' \in BOOLEAN
        /\ positioned' => row' > 0
        /\ target' \in [1..Capacity -> Byte]
    BY DEF NoPiece, Inv, TypeOK
  <2>3. QED
    BY <1>1, <2>1, <2>2 DEF TypeOK
<1>3. SuccessIsComplete'
  <2>1. last'.rc = rc /\ last'.type = t /\ reading' = c
    BY DEF NoPiece
  <2>2. CASE rc = "SQL_NO_DATA"
    <3>1. taken' = First(row, c, Length[row][c])
      BY <2>2, StreamForColumn DEF NoPiece
    <3>2. row' = row
      BY DEF NoPiece
    <3>3. QED
      BY <2>1, <3>1, <3>2 DEF SuccessIsComplete
  <2>3. CASE rc # "SQL_NO_DATA"
    BY <2>1, <2>3 DEF SuccessIsComplete
  <2>4. QED
    BY <2>2, <2>3
<1>4. QED
  BY <1>1, <1>2, <1>3 DEF Inv

(* A piece extends the prefix by the bytes it copies, and the application  *)
(* counts exactly these: the rest of the value if it is told SQL_SUCCESS,  *)
(* a full buffer otherwise.                                                *)
LEMMA PieceStep ==
  ASSUME Inv, NEW c \in 1..Columns, NEW len \in 0..Capacity,
         NEW t \in {"char", "binary"}, GetPiece(c, t, len)
  PROVE  Inv'
<1> DEFINE s    == StreamFor(c)
           size == Length[row][c]
           room == Room(t, len)
           rest == size - s.offset
           n    == IF room <= rest THEN room ELSE rest
           s2   == Advance(s, n, size)
           ind  == Indicator(s, n, size)
<1>1. /\ positioned /\ row \in 1..Rows /\ size \in Nat
      /\ row' = row /\ positioned' = positioned
  BY SizeIsNat DEF GetPiece, Inv, TypeOK
<1>2. /\ s \in [column : {c}, status : Status, offset : Nat]
      /\ s.offset <= size
      /\ TakenOf(c) = First(row, c, s.offset)
  BY <1>1, StreamForColumn
<1>3. room \in 0..len
  BY StreamAssumption DEF Room
<1>4. n \in 0..room /\ n <= rest /\ rest \in Nat
  BY <1>1, <1>2, <1>3
<1>5. /\ s2 \in [column : {c}, status : Status, offset : Nat]
      /\ s2.offset = s.offset + n
      /\ s2.status = IF s.offset + n >= size
                     THEN "NO_MORE_DATA" ELSE "HAS_MORE_DATA"
  <2> HIDE DEF n, s, size, room
  <2>1. s.offset + n \in Nat
    BY <1>2, <1>3, <1>4
  <2>2. QED
    BY <1>2, <2>1 DEF Advance, Status, s2
<1>6. Believed(CodeFor(s2), room, ind) = n
  BY <1>1, <1>2, <1>3, <1>4, <1>5 DEF Believed, CodeFor, Indicator
<1>7. /\ stream' = s2 /\ reading' = c
      /\ Copy(s, c, t, len, n)
      /\ taken' = TakenOf(c)
                    \o SubSeq(target', 1, Believed(CodeFor(s2), room, ind))
      /\ last' = [rc |-> CodeFor(s2), type |-> t, room |-> room, ind |-> ind]
  BY DEF GetPiece
<1> HIDE DEF s, s2, room, ind
<1>8. /\ target' \in [1..Capacity -> Byte]
      /\ \A i \in 1..n : target'[i] = <<row, c, s.offset + i>>
  <2>1. target \in [1..Capacity -> Byte]
    BY DEF Inv, TypeOK
  <2>2. n \in 0..Capacity
    BY <1>3, <1>4, StreamAssumption
  <2>3. target' = [i \in 1..Capacity |->
                     IF i <= n THEN <<row, c, s.offset + i>>
                     ELSE IF t = "char" /\ i = len /\ len > 1 THEN Nul
                     ELSE target[i]]
    BY <1>7 DEF Copy
  <2>4. s.offset \in Nat
    BY <1>2
  <2> HIDE DEF n
  <2>5. \A i \in 1..n : target'[i] = <<row, c, s.offset + i>>
    BY <2>2, <2>3, StreamAssumption
  <2>6. \A i \in 1..Capacity : target'[i] \in Byte
    <3> SUFFICES ASSUME NEW i \in 1..Capacity
                 PROVE  target'[i] \in Byte
      OBVIOUS
    <3>1. <<row, c, s.offset + i>> \in Byte
      BY <1>1, <2>4 DEF Byte
    <3>2. Nul \in Byte /\ target[i] \in Byte
      BY <2>1 DEF Byte
    <3>3. QED
      BY <2>3, <3>1, <3>2
  <2>7. QED
    BY <2>3, <2>5, <2>6
<1>9. taken' = First(row, c, s2.offset)
  <2>1. taken' = First(row, c, s.offset) \o SubSeq(target', 1, n)
    BY <1>2, <1>6, <1>7
  <2>2. s.offset \in Nat /\ n \in Nat
    BY <1>2, <1>3, <1>4
  <2>3. s2.offset = s.offset + n
    BY <1>5
  <2>4. First(row, c, s.offset) \o SubSeq(target', 1, n)
          = First(row, c, s.offset + n)
    <3> DEFINE o == s.offset
               b == target'
    <3>1. /\ row \in 1..Rows /\ o \in Nat /\ n \in Nat
          /\ \A i \in 1..n : b[i] = <<row, c, o + i>>
      BY <1>1, <1>8, <2>2
    <3> HIDE DEF n, o, b
    <3>2. First(row, c, o) \o SubSeq(b, 1, n) = First(row, c, o + n)
      BY <3>1, PrefixExtends, Zenon
    <3>3. QED
      BY <3>2 DEF o, b
  <2>5. QED
    BY <2>1, <2>3, <2>4
<1>10. /\ s2 \in [column : {c}, status : Status, offset : Nat]
       /\ s2.offset <= Length[row][c]
       /\ s2.status = "NO_DATA_RETRIEVED" => s2.offset = 0
       /\ s2.status = "HAS_MORE_DATA" => s2.offset < Length[row][c]
       /\ s2.status = "NO_MORE_DATA" => s2.offset = Length[row][c]
  BY <1>1, <1>2, <1>3, <1>4, <1>5 DEF Status
<1>11. /\ StreamInv' /\ taken' \in Seq(Byte) /\ reading' \in 0..Columns + 1
       /\ stream' \in [column : 0..Columns + 1, status : Status, offset : Nat]
  BY <1>1, <1>7, <1>9, <1>10, ColumnStep
<1>12. TypeOK'
  <2>1. last' \in [rc : ReturnCode, type : TargetType, room : 0..Capacity,
                   ind : Int]
    <3>1. CodeFor(s2) \in ReturnCode /\ ind \in Int
      BY <1>1, <1>2 DEF CodeFor, ReturnCode, Indicator, ind
    <3>2. room \in 0..Capacity /\ t \in TargetType
      BY <1>3, StreamAssumption DEF TargetType
    <3>3. QED
      BY <1>7, <3>1, <3>2
  <2>2. row' \in 0..Rows /\ positioned' \in BOOLEAN /\ (positioned' => row' > 0)
    BY <1>1 DEF Inv, TypeOK
  <2>3. QED
    BY <1>8, <1>11, <2>1, <2>2 DEF TypeOK
<1>13. SuccessIsComplete'
  <2>1. CASE last'.rc = "SQL_SUCCESS"
    <3>1. s2.status = "NO_MORE_DATA"
      BY <1>5, <1>7, <2>1 DEF CodeFor
    <3>2. taken' = First(row, c, size)
      BY <1>9, <1>10, <3>1
    <3>3. QED
      BY <1>1, <1>7, <3>2 DEF SuccessIsComplete
  <2>2. CASE last'.rc # "SQL_SUCCESS"
    BY <1>7, <2>2 DEF SuccessIsComplete, CodeFor
  <2>3. QED
    BY <2>1, <2>2
<1>14. QED
  BY <1>11, <1>12, <1>13 DEF Inv

(* SQLGetData, on a column of the result set.                              *)
LEMMA GetDataStep ==
  ASSUME Inv, NEW c \in 1..Columns, SQLGetData(c)
  PROVE  Inv'
<1>1. CASE GetNoData(c)
  <2>1. /\ positioned /\ StreamFor(c).status = "NO_MORE_DATA"
        /\ NoPiece(c, StreamFor(c), "SQL_NO_DATA", "none")
    BY <1>1 DEF GetNoData
  <2>2. "SQL_NO_DATA" \in ReturnCode /\ "none" \in TargetType
    BY DEF ReturnCode, TargetType
  <2>3. QED
    BY <2>1, <2>2, NoPieceStep
<1>2. CASE GetThrows(c)
  <2>1. /\ positioned
        /\ \/ NoPiece(c, StreamFor(c), "SQL_SUCCESS_WITH_INFO", "none")
           \/ NoPiece(c, StreamFor(c), "SQL_ERROR", "none")
    BY <1>2 DEF GetThrows
  <2>2. /\ {"SQL_SUCCESS_WITH_INFO", "SQL_ERROR"} \subseteq ReturnCode
        /\ "none" \in TargetType
    BY DEF ReturnCode, TargetType
  <2>3. QED
    BY <2>1, <2>2, NoPieceStep
<1>3. ASSUME NEW t \in TargetType, GetWhole(c, t)
      PROVE  Inv'
  <2>1. /\ positioned
        /\ NoPiece(c, StreamFor(c), CodeFor(StreamFor(c)), "fixed")
    BY <1>3 DEF GetWhole
  <2>2. /\ CodeFor(StreamFor(c)) \in ReturnCode \ {"SQL_NO_DATA"}
        /\ "fixed" \in TargetType
    BY DEF ReturnCode, TargetType, CodeFor
  <2>3. QED
    BY <2>1, <2>2, NoPieceStep
<1>4. ASSUME NEW len \in 0..Capacity, NEW t \in {"char", "binary"},
             GetPiece(c, t, len)
      PROVE  Inv'
  BY <1>4, PieceStep
<1>5. QED
  BY <1>1, <1>2, <1>3, <1>4 DEF SQLGetData

(* A column number out of range.                                           *)
LEMMA BadColumnStep ==
  ASSUME Inv, NEW c \in {0, Columns + 1}, GetBadColumn(c)
  PROVE  Inv'
<1>1. /\ c \notin 1..Columns /\ c \in 0..Columns + 1
  BY StreamAssumption
<1>2. /\ stream' \in [column : {c}, status : Status, offset : Nat]
      /\ reading' = c
      /\ taken' = TakenOf(c)
      /\ row' = row /\ positioned' = positioned /\ positioned
      /\ target' = target
      /\ last' = [rc |-> "SQL_ERROR", type |-> "none", room |-> 0, ind |-> -1]
  BY DEF GetBadColumn, NoPiece, StreamFor, Fresh, Status, Inv, TypeOK
<1>3. taken' = <<>>
  BY <1>1, <1>2 DEF TakenOf, Inv, StreamInv
<1>4. TypeOK'
  BY <1>1, <1>2, <1>3, StreamAssumption
  DEF Inv, TypeOK, ReturnCode, TargetType
<1>5. StreamInv'
  BY <1>1, <1>2, <1>3 DEF StreamInv
<1>6. SuccessIsComplete'
  BY <1>2 DEF SuccessIsComplete
<1>7. QED
  BY <1>4, <1>5, <1>6 DEF Inv

(* A call that leaves the caller without a row.                            *)
LEMMA OffRowStep ==
  ASSUME Inv, row' \in 0..Rows, positioned' = FALSE, reading' = 0,
         taken' = <<>>, last' = Idle, UNCHANGED <<stream, target>>
  PROVE  Inv'
<1>1. ~positioned' /\ positioned' \in BOOLEAN
  OBVIOUS
<1>2. TypeOK'
  BY <1>1, StreamAssumption DEF Inv, TypeOK, Idle, ReturnCode, TargetType
<1>3. StreamInv' /\ SuccessIsComplete'
  BY <1>1 DEF StreamInv, SuccessIsComplete, Idle
<1>4. QED
  BY <1>2, <1>3 DEF Inv

LEMMA StreamStep ==
  ASSUME Inv, [Next]_vars
  PROVE  Inv'
<1>1. CASE SQLExecute
  <2>1. row' \in 0..Rows
    BY <1>1, StreamAssumption DEF SQLExecute
  <2>2. QED
    BY <1>1, <2>1, OffRowStep, Zenon DEF SQLExecute
<1>2. CASE SQLFetch
  <2>1. /\ row' \in 1..Rows /\ positioned' /\ reading' = 0 /\ taken' = <<>>
        /\ stream' = [column |-> 0, status |-> "NO_DATA_RETRIEVED",
                      offset |-> 0]
        /\ last' = Idle /\ target' = target /\ positioned' = TRUE
    BY <1>2, StreamAssumption DEF SQLFetch, Fresh, Inv, TypeOK
  <2>2. stream' \in [column : 0..Columns + 1, status : Status, offset : Nat]
    BY <2>1, StreamAssumption DEF Status
  <2>3. TypeOK'
    BY <2>1, <2>2, StreamAssumption
    DEF Inv, TypeOK, Idle, ReturnCode, TargetType
  <2>4. StreamInv' /\ SuccessIsComplete'
    BY <2>1 DEF StreamInv, SuccessIsComplete, Idle
  <2>5. QED
    BY <2>3, <2>4 DEF Inv
<1>3. CASE SQLFetchNoData
  BY <1>3, OffRowStep DEF SQLFetchNoData, Inv, TypeOK
<1>4. CASE SQLFetchThrows
  <2>1. /\ row' = row /\ positioned' = positioned /\ stream' = stream
        /\ target' = target /\ reading' = reading /\ taken' = taken
        /\ last' = Idle
    BY <1>4 DEF SQLFetchThrows, streamVars
  <2>2. TypeOK'
    BY <2>1, StreamAssumption DEF Inv, TypeOK, Idle, ReturnCode, TargetType
  <2>3. StreamInv'
    BY <2>1 DEF Inv, StreamInv, StatusInv
  <2>4. SuccessIsComplete'
    BY <2>1 DEF SuccessIsComplete, Idle
  <2>5. QED
    BY <2>2, <2>3, <2>4 DEF Inv
<1>5. CASE UNCHANGED vars
  <2>1. /\ row' = row /\ positioned' = positioned /\ stream' = stream
        /\ target' = target /\ reading' = reading /\ taken' = taken
        /\ last' = last
    BY <1>5 DEF vars
  <2>2. TypeOK'
    BY <2>1 DEF Inv, TypeOK
  <2>3. StreamInv'
    BY <2>1 DEF Inv, StreamInv, StatusInv
  <2>4. SuccessIsComplete'
    BY <2>1 DEF Inv, SuccessIsComplete
  <2>5. QED
    BY <2>2, <2>3, <2>4 DEF Inv
<1>6. QED
  BY <1>1, <1>2, <1>3, <1>4, <1>5, GetDataStep, BadColumnStep DEF Next

LEMMA StreamInvariant == Spec => []Inv
<1>1. Init => Inv
  <2> SUFFICES ASSUME Init
               PROVE  Inv
    OBVIOUS
  <2>1. ~positioned /\ positioned \in BOOLEAN
    BY DEF Init
  <2>2. stream \in [column : 0..Columns + 1, status : Status, offset : Nat]
    BY StreamAssumption DEF Init, Fresh, Status
  <2>3. TypeOK
    BY <2>1, <2>2, StreamAssumption
    DEF Init, TypeOK, Idle, ReturnCode, TargetType, Byte
  <2>4. StreamInv /\ SuccessIsComplete
    BY <2>1 DEF Init, StreamInv, SuccessIsComplete, Idle
  <2>5. QED
    BY <2>3, <2>4 DEF Inv
<1>2. Inv /\ [Next]_vars => Inv'
  BY StreamStep
<1>3. QED
  BY <1>1, <1>2, PTL DEF Spec

(* The state of the stream, of the buffer and of the application is        *)
(* well-formed for every result set.                                       *)
THEOREM StreamTypeCorrect == Spec => []TypeOK
<1>1. Inv => TypeOK
  BY DEF Inv
<1>2. QED
  BY <1>1, StreamInvariant, PTL

(* Pieces arrive in order and never from two values.                       *)
THEOREM PiecesAreInOrder == Spec => []InOrder
<1>1. Inv => InOrder
  BY DEF Inv, StreamInv, InOrder
<1>2. QED
  BY <1>1, StreamInvariant, PTL

(* string::copy is never asked to start behind the end of a value.         *)
THEOREM OffsetStaysInValue == Spec => []OffsetInValue
<1>1. Inv => OffsetInValue
  BY DEF Inv, StreamInv, StatusInv, OffsetInValue
<1>2. QED
  BY <1>1, StreamInvariant, PTL

(* SQL_SUCCESS and SQL_NO_DATA mean that the application has the value.    *)
THEOREM SuccessMeansComplete == Spec => []SuccessIsComplete
<1>1. Inv => SuccessIsComplete
  BY DEF Inv
<1>2. QED
  BY <1>1, StreamInvariant, PTL

(***************************************************************************)
(* The refinement of OrderedDelivery.                                      *)
(***************************************************************************)
Size == [v \in (1..Rows) \X (1..Columns) |-> Length[v[1]][v[2]]]

OnBars ==
  /\ ReadValue = <<row, stream.column>>
  /\ ReadValue \in (1..Rows) \X (1..Columns)
  /\ Size[ReadValue] = Length[row][stream.column]
  /\ Len(taken) = stream.offset
  /\ IsComplete = (stream.status = "NO_MORE_DATA")

OffBars == ReadValue = <<0, 0>> /\ Len(taken) = 0 /\ IsComplete = FALSE

LEMMA OnAColumn ==
  ASSUME Inv, OnColumn
  PROVE  OnBars
<1>1. row \in 1..Rows /\ reading = stream.column /\ reading \in 1..Columns
  BY DEF Inv, TypeOK, StreamInv, OnColumn
<1>2. taken = First(row, stream.column, stream.offset) /\ stream.offset \in Nat
  BY <1>1 DEF Inv, TypeOK, StreamInv, OnColumn
<1>3. Len(taken) = stream.offset
  BY <1>1, <1>2, PrefixIsSeq
<1>4. ReadValue = <<row, stream.column>>
  BY <1>1 DEF ReadValue
<1>5. Size[ReadValue] = Length[row][stream.column]
  BY <1>1, <1>4 DEF Size
<1>6. QED
  BY <1>1, <1>3, <1>4, <1>5 DEF OnBars, IsComplete, OnColumn

LEMMA OffColumn ==
  ASSUME Inv, ~OnColumn
  PROVE  OffBars
<1>1. taken = <<>>
  BY DEF Inv, StreamInv, OnColumn
<1>2. QED
  BY <1>1 DEF OffBars, ReadValue, IsComplete

LEMMA BarsNow ==
  /\ Inv /\ OnColumn => OnBars
  /\ Inv /\ ~OnColumn => OffBars
  BY OnAColumn, OffColumn

LEMMA BarsNext ==
  /\ Inv' /\ OnColumn' => OnBars'
  /\ Inv' /\ ~OnColumn' => OffBars'
  BY BarsNow, PTL

(* A step to a state without a column is a step of the delivery.           *)
LEMMA LeavingSteps ==
  ASSUME Inv, Inv', ~OnColumn'
  PROVE  [Delivery!Next]_(<<ReadValue, Len(taken), IsComplete>>)
<1>1. OffBars'
  BY BarsNext
<1>2. CASE OnColumn
  <2>1. ReadValue # <<0, 0>>
    BY <1>2, BarsNow DEF OnBars
  <2>2. Delivery!TurnTo(<<0, 0>>)
    BY <1>1, <2>1 DEF OffBars, Delivery!TurnTo
  <2>3. QED
    BY <2>2 DEF Delivery!Next
<1>3. CASE ~OnColumn
  <2>1. OffBars
    BY <1>3, BarsNow
  <2>2. QED
    BY <1>1, <2>1 DEF OffBars
<1>4. QED
  BY <1>2, <1>3

(* A step that keeps the stream and what the application has stutters.     *)
LEMMA KeepingSteps ==
  ASSUME UNCHANGED <<row, positioned, stream, reading, taken>>
  PROVE  UNCHANGED <<ReadValue, Len(taken), IsComplete>>
BY DEF ReadValue, IsComplete, OnColumn

(* A step to a column: either to another value, or onwards in the same.    *)
GoesOn ==
  \/ stream' = stream
  \/ /\ stream.status # "NO_MORE_DATA"
     /\ stream'.status # "NO_DATA_RETRIEVED"
     /\ stream'.offset >= stream.offset

LEMMA ColumnSteps ==
  ASSUME Inv, Inv', OnColumn',
         OnColumn /\ ReadValue' = ReadValue => GoesOn
  PROVE  [Delivery!Next]_(<<ReadValue, Len(taken), IsComplete>>)
<1> DEFINE v == ReadValue'
           o == stream'.offset
<1>1. OnBars'
  BY BarsNext
<1>2. /\ v \in (1..Rows) \X (1..Columns) /\ Len(taken)' = o
      /\ o \in 0..Size[v] /\ Size[v] \in Nat
      /\ IsComplete' = (stream'.status = "NO_MORE_DATA")
      /\ stream'.status = "NO_DATA_RETRIEVED" => o = 0
      /\ stream'.status # "NO_DATA_RETRIEVED" => IsComplete' = (o = Size[v])
  <2>1. /\ row' \in 1..Rows /\ stream'.column \in 1..Columns
        /\ stream' \in [column : 0..Columns + 1, status : Status,
                        offset : Nat]
        /\ StatusInv'
    BY DEF Inv, TypeOK, StreamInv, OnColumn
  <2>2. Length[row'][stream'.column] \in Nat
    BY <2>1, SizeIsNat
  <2>3. Size[v] = Length[row'][stream'.column]
    BY <1>1 DEF OnBars, Size
  <2>4. /\ v \in (1..Rows) \X (1..Columns) /\ Len(taken)' = o
        /\ IsComplete' = (stream'.status = "NO_MORE_DATA")
    BY <1>1 DEF OnBars, Size
  <2>5. QED
    BY <2>1, <2>2, <2>3, <2>4 DEF StatusInv, Status
<1>3. CASE ReadValue' # ReadValue
  <2>1. CASE stream'.status = "NO_DATA_RETRIEVED"
    <3>1. Delivery!TurnTo(v)
      BY <1>2, <1>3, <2>1 DEF Delivery!TurnTo
    <3>2. QED
      BY <1>2, <3>1 DEF Delivery!Next
  <2>2. CASE stream'.status # "NO_DATA_RETRIEVED"
    <3>1. Delivery!TurnAndReceive(v, o)
      BY <1>2, <1>3, <2>2 DEF Delivery!TurnAndReceive, Size
    <3>2. QED
      BY <1>2, <3>1 DEF Delivery!Next, Size
  <2>3. QED
    BY <2>1, <2>2
<1>4. CASE ReadValue' = ReadValue
  <2>1. OnColumn /\ OnBars
    <3>1. ReadValue # <<0, 0>>
      BY <1>2, <1>4
    <3>2. QED
      BY <3>1, BarsNow DEF OffBars
  <2>2. CASE stream' = stream
    BY <1>1, <1>4, <2>1, <2>2 DEF OnBars
  <2>3. CASE stream' # stream
    <3>1. /\ stream.status # "NO_MORE_DATA"
          /\ stream'.status # "NO_DATA_RETRIEVED"
          /\ o >= stream.offset
      BY <1>4, <2>1, <2>3 DEF GoesOn
    <3>2. Len(taken) = stream.offset /\ stream.offset \in Nat /\ ~IsComplete
      BY <2>1, <3>1 DEF OnBars, Inv, TypeOK
    <3> DEFINE n == o - stream.offset
    <3>3. n \in 0..Size[v] /\ Len(taken) + n = o
      BY <1>2, <3>1, <3>2
    <3>4. Delivery!Receive(n)
      BY <1>2, <1>4, <3>1, <3>2, <3>3 DEF Delivery!Receive, Size
    <3>5. QED
      BY <1>2, <1>4, <3>3, <3>4 DEF Delivery!Next, Size
  <2>4. QED
    BY <2>2, <2>3
<1>5. QED
  BY <1>3, <1>4

LEMMA GetDataDelivers ==
  ASSUME Inv, Inv', NEW c \in 1..Columns, SQLGetData(c)
  PROVE  [Delivery!Next]_(<<ReadValue, Len(taken), IsComplete>>)
<1>1. /\ positioned /\ positioned' = positioned /\ row' = row /\ reading' = c
      /\ \/ stream' = StreamFor(c)
         \/ /\ StreamFor(c).status # "NO_MORE_DATA"
            /\ \E len \in 0..Capacity, t \in {"char", "binary"} :
                 GetPiece(c, t, len)
  BY DEF SQLGetData, GetNoData, GetThrows, GetWhole, GetPiece, NoPiece
<1>2. OnColumn'
  BY <1>1 DEF OnColumn
<1>3. ASSUME OnColumn, ReadValue' = ReadValue
      PROVE  GoesOn
  <2>1. StreamFor(c) = stream
    BY <1>1, <1>2, <1>3 DEF OnColumn, ReadValue, StreamFor, Inv, StreamInv
  <2>2. ASSUME NEW len \in 0..Capacity, NEW t \in {"char", "binary"},
               GetPiece(c, t, len)
        PROVE  GoesOn
    <3> DEFINE room == Room(t, len)
               rest == Length[row][c] - stream.offset
               n    == IF room <= rest THEN room ELSE rest
    <3>1. stream' = Advance(stream, n, Length[row][c])
      BY <2>1, <2>2 DEF GetPiece
    <3>2. n \in Nat /\ stream \in [column : 0..Columns + 1, status : Status,
                                   offset : Nat]
      <4>1. room \in Nat
        BY StreamAssumption DEF Room
      <4>2. row \in 1..Rows /\ stream.offset <= Length[row][c]
        <5>1. positioned
          BY <1>1
        <5>2. StreamFor(c).offset <= Length[row][c]
          BY <5>1, StreamForColumn
        <5>3. row \in 0..Rows /\ row > 0
          BY <5>1 DEF Inv, TypeOK
        <5>4. row \in 1..Rows
          BY <5>3, StreamAssumption
        <5>5. QED
          BY <2>1, <5>2, <5>4
      <4>3. Length[row][c] \in Nat /\ stream.offset \in Nat
        BY <4>2, SizeIsNat DEF Inv, TypeOK
      <4>4. rest \in Nat
        BY <4>2, <4>3
      <4>5. n \in Nat
        BY <4>1, <4>4
      <4>6. stream \in [column : 0..Columns + 1, status : Status,
                        offset : Nat]
        BY DEF Inv, TypeOK
      <4> HIDE DEF n
      <4>7. QED
        BY <4>5, <4>6
    <3>3. stream.status # "NO_MORE_DATA"
      BY <2>1, <2>2 DEF GetPiece
    <3> HIDE DEF n
    <3>4. /\ stream'.status # "NO_DATA_RETRIEVED"
          /\ stream'.offset = stream.offset + n
      BY <3>1, <3>2 DEF Advance
    <3>5. QED
      BY <3>2, <3>3, <3>4 DEF GoesOn
  <2>3. QED
    BY <1>1, <2>1, <2>2 DEF GoesOn
<1>4. QED
  BY <1>2, <1>3, ColumnSteps

(* SQLGetData delivers each value in order and whole.                      *)
THEOREM ImplementsDelivery == Spec => DeliversInOrder
<1>1. Init => Delivery!Init
  BY DEF Init, Delivery!Init, ReadValue, IsComplete, OnColumn
<1>2. Inv /\ Inv' /\ [Next]_vars =>
        [Delivery!Next]_(<<ReadValue, Len(taken), IsComplete>>)
  <2> SUFFICES ASSUME Inv, Inv', [Next]_vars
               PROVE  [Delivery!Next]_(<<ReadValue, Len(taken), IsComplete>>)
    OBVIOUS
  <2>1. CASE SQLExecute \/ SQLFetch \/ SQLFetchNoData
    <3>1. ~OnColumn'
      BY <2>1 DEF SQLExecute, SQLFetch, SQLFetchNoData, OnColumn
    <3>2. QED
      BY <3>1, LeavingSteps
  <2>2. CASE SQLFetchThrows \/ UNCHANGED vars
    BY <2>2, KeepingSteps DEF SQLFetchThrows, streamVars, vars
  <2>3. ASSUME NEW c \in {0, Columns + 1}, GetBadColumn(c)
        PROVE  [Delivery!Next]_(<<ReadValue, Len(taken), IsComplete>>)
    <3>1. ~OnColumn'
      BY <2>3 DEF GetBadColumn, NoPiece, OnColumn
    <3>2. QED
      BY <3>1, LeavingSteps
  <2>4. QED
    BY <2>1, <2>2, <2>3, GetDataDelivers DEF Next
<1>3. QED
  BY <1>1, <1>2, StreamInvariant, PTL
  DEF Spec, DeliversInOrder, Delivery!Spec

=============================================================================
