-------------------------- MODULE EzStatement_proofs --------------------------
(***************************************************************************)
(* Proofs about EzStatement, for any statements, answers and columns.      *)
(*                                                                         *)
(* What a result set must be for its query is one predicate, Usable, which *)
(* a new result set meets and every operation on it keeps.  The inductive  *)
(* invariant adds to it the query a prepared statement executes.           *)
(***************************************************************************)
EXTENDS EzStatement, SequenceTheorems, WellFoundedInduction, TLAPS

(* The iterator of a bulk result set starts at the first row and stays in  *)
(* the results once it was followed.                                       *)
Usable(q, rs) ==
  /\ rs \in ResultSet
  /\ rs.consumed <= Len(rs.rows)
  /\ rs.gotFirst => rs.iterator \in 1..Len(rs.rows)
  /\ ~rs.gotFirst => rs.iterator = 1
  /\ q \in Text /\ Type[q] # "bulk" => ~rs.gotFirst

QueryInv ==
  /\ cursor # "closed" \/ prepared => mQuery = asked
  /\ prepared => mQuery \in Text

RowInv ==
  /\ Usable(mQuery, resultSet)
  /\ cursor = "on row" /\ IsBulk => resultSet.gotFirst

Inv == TypeOK /\ QueryInv /\ RowInv /\ BuffersHoldTheRow

-----------------------------------------------------------------------------
(* Result sets.                                                            *)

LEMMA LeastNumber ==
  ASSUME NEW T, T \subseteq Nat, T # {}
  PROVE  \E x \in T : \A y \in T : x <= y
<1> DEFINE R == OpToRel(<, Nat)
<1>1. IsWellFoundedOn(R, Nat)
  BY NatLessThanWellFounded
<1>2. \A x, y \in Nat : y < x => <<y, x>> \in R
  BY DEF OpToRel
<1> HIDE DEF R
<1>3. PICK x \in T : \A y \in T : <<y, x>> \notin R
  BY <1>1, WFMin
<1>4. ASSUME NEW y \in T
      PROVE  ~(y < x)
  BY <1>2, <1>3, Zenon
<1>5. QED
  BY <1>4

(* Past the items that stand for nothing there is one, or the end.         *)
LEMMA NextItemExists ==
  ASSUME NEW rs \in ResultSet, rs.consumed <= Len(rs.rows)
  PROVE  /\ NextItem(rs) \in rs.consumed + 1 .. Len(rs.rows) + 1
         /\ NextItem(rs) <= Len(rs.rows) => rs.rows[NextItem(rs)].is # "none"
         /\ \A j \in rs.consumed + 1 .. NextItem(rs) - 1 :
              rs.rows[j].is = "none"
<1> DEFINE S == rs.consumed + 1 .. Len(rs.rows) + 1
           T == {i \in S : i <= Len(rs.rows) => rs.rows[i].is # "none"}
           IsNext(i) == /\ i <= Len(rs.rows) => rs.rows[i].is # "none"
                        /\ \A j \in rs.consumed + 1 .. i - 1 :
                             rs.rows[j].is = "none"
<1>1. rs.consumed \in Nat /\ Len(rs.rows) \in Nat
  BY DEF ResultSet
<1>2. Len(rs.rows) + 1 \in T /\ T \subseteq Nat
  BY <1>1
<1>3. PICK i \in T : \A y \in T : i <= y
  <2> HIDE DEF T
  <2>1. QED
    BY <1>2, LeastNumber
<1>4. ASSUME NEW j \in rs.consumed + 1 .. i - 1
      PROVE  rs.rows[j].is = "none"
  <2>1. j \in S /\ j < i /\ j <= Len(rs.rows)
    BY <1>1, <1>3
  <2>2. j \notin T
    BY <1>1, <1>3, <2>1
  <2>3. QED
    BY <2>1, <2>2
<1>5. i \in S /\ IsNext(i)
  BY <1>3, <1>4
<1>6. NextItem(rs) = CHOOSE k \in S : IsNext(k)
  BY DEF NextItem
<1> HIDE DEF S, IsNext
<1>7. NextItem(rs) \in S /\ IsNext(NextItem(rs))
  BY <1>5, <1>6
<1>8. QED
  BY <1>7 DEF S, IsNext

LEMMA AnswersAreItems ==
  ASSUME executions \in Nat, executions < MaxExecutions,
         NEW t, NEW a \in Answers(t)
  PROVE  a \in Seq(Item)
<1>1. CASE t \in NoCriterion
  BY <1>1 DEF Answers
<1>2. CASE t \notin NoCriterion
  <2>1. Sizes(t) \subseteq 0..MaxRows /\ KindsOf(t) \subseteq ItemKind
    BY StatementAssumption DEF Sizes, KindsOf, ItemKind
  <2>2. PICK n \in Sizes(t) : \E kinds \in [1..n -> KindsOf(t)] :
          a = [i \in 1..n |->
                 [of |-> executions + 1, at |-> i, is |-> kinds[i]]]
    BY <1>2 DEF Answers
  <2>3. n \in Nat /\ n <= MaxRows /\ MaxRows \in Nat /\ MaxExecutions \in Nat
    BY <2>1, StatementAssumption
  <2>7. PICK kinds \in [1..n -> KindsOf(t)] :
          a = [i \in 1..n |->
                 [of |-> executions + 1, at |-> i, is |-> kinds[i]]]
    BY <2>2
  <2>4. ASSUME NEW i \in 1..n
        PROVE  [of |-> executions + 1, at |-> i, is |-> kinds[i]] \in Item
    BY <2>1, <2>7, <2>3 DEF Item
  <2>5. a \in [1..n -> Item]
    BY <2>7, <2>4
  <2>6. QED
    BY <2>3, <2>5
<1>3. QED
  BY <1>1, <1>2

LEMMA NewIsUsable ==
  ASSUME NEW q
  PROVE  Usable(q, NewResultSet) /\ NewResultSet.gotFirst = FALSE
BY DEF Usable, NewResultSet, ResultSet

(* An execution keeps the result set usable: rows are added behind a bulk  *)
(* iterator that goes back to the first of them.                           *)
LEMMA ExecutedIsUsable ==
  ASSUME NEW t \in Text, NEW rs, Usable(t, rs), NEW a \in Seq(Item)
  PROVE  Usable(t, WithAnswer(t, rs, a))
<1>1. CASE t \in NoCriterion
  BY <1>1 DEF WithAnswer
<1>2. CASE t \notin NoCriterion /\ Type[t] = "bulk"
  <2> DEFINE new == rs.rows \o a
  <2>1. /\ rs \in ResultSet /\ rs.rows \in Seq(Item)
        /\ rs.consumed <= Len(rs.rows)
        /\ rs.gotFirst => rs.iterator \in 1..Len(rs.rows)
    BY DEF Usable, ResultSet
  <2>2. new \in Seq(Item) /\ Len(new) = Len(rs.rows) + Len(a)
    BY <2>1
  <2> HIDE DEF new
  <2>3. WithAnswer(t, rs, a) = [rs EXCEPT !.rows = new, !.iterator = 1]
    BY <1>2 DEF WithAnswer, new
  <2>4. [rs EXCEPT !.rows = new, !.iterator = 1] \in ResultSet
    BY <2>1, <2>2 DEF ResultSet
  <2>5. Len(rs.rows) \in Nat /\ Len(a) \in Nat /\ rs.consumed \in Nat
    BY <2>1 DEF ResultSet
  <2>6. ASSUME NEW w, w = WithAnswer(t, rs, a)
        PROVE  Usable(t, w)
    <3>1. /\ w \in ResultSet /\ w.rows = new /\ w.iterator = 1
          /\ w.consumed = rs.consumed /\ w.gotFirst = rs.gotFirst
      BY <2>1, <2>3, <2>4, <2>6 DEF ResultSet
    <3>2. w.gotFirst => 1 \in 1..Len(new)
      BY <2>1, <2>2, <2>5, <3>1
    <3>3. w.consumed <= Len(w.rows)
      BY <2>1, <2>2, <2>5, <3>1
    <3>4. QED
      BY <1>2, <3>1, <3>2, <3>3 DEF Usable
  <2>7. QED
    BY <2>6, Zenon
<1>3. CASE t \notin NoCriterion /\ Type[t] # "bulk"
  <2>1. WithAnswer(t, rs, a)
          = [rs EXCEPT !.rows = a, !.consumed = 0, !.row = Nil]
    BY <1>3 DEF WithAnswer
  <2>2. ASSUME NEW w, w = WithAnswer(t, rs, a)
        PROVE  Usable(t, w)
    <3>0. /\ rs \in [rows : Seq(Item), gotFirst : BOOLEAN, iterator : Nat,
                     consumed : Nat, row : Item \cup {Nil}]
          /\ w = [rs EXCEPT !.rows = a, !.consumed = 0, !.row = Nil]
      BY <2>1, <2>2 DEF Usable, ResultSet
    <3>5. /\ w.rows = a /\ w.iterator = rs.iterator /\ w.row = Nil
          /\ w.consumed = 0 /\ w.gotFirst = rs.gotFirst
      BY <3>0
    <3>6. w \in ResultSet
      BY <3>0 DEF ResultSet
    <3>1. /\ w \in ResultSet /\ w.rows = a /\ w.iterator = rs.iterator
          /\ w.consumed = 0 /\ w.gotFirst = rs.gotFirst
      BY <3>5, <3>6
    <3>2. 0 <= Len(a)
      OBVIOUS
    <3>3. QED
      BY <1>3, <3>1, <3>2 DEF Usable
  <2>3. QED
    BY <2>2, Zenon
<1>4. QED
  BY <1>1, <1>2, <1>3

(* A catalog query fills its new result set.                               *)
LEMMA CatalogIsUsable ==
  ASSUME NEW q, q \notin Text, NEW a \in Seq(Item)
  PROVE  Usable(q, [NewResultSet EXCEPT !.rows = a])
<1>1. ASSUME NEW w, w = [NewResultSet EXCEPT !.rows = a]
      PROVE  Usable(q, w)
  <2>1. /\ w \in ResultSet /\ w.rows = a /\ w.iterator = 1
        /\ w.consumed = 0 /\ w.gotFirst = FALSE
    BY <1>1 DEF NewResultSet, ResultSet
  <2>2. 0 <= Len(a)
    OBVIOUS
  <2>3. QED
    BY <2>1, <2>2 DEF Usable
<1>2. QED
  BY <1>1

LEMMA BulkNextIsUsable ==
  ASSUME NEW q, NEW rs, Usable(q, rs), BulkHasNext(rs),
         q \in Text => Type[q] = "bulk"
  PROVE  /\ Usable(q, BulkNext(rs)) /\ BulkNext(rs).gotFirst
         /\ BulkNext(rs).rows = rs.rows
         /\ BulkNext(rs).iterator =
              (IF rs.gotFirst THEN rs.iterator + 1 ELSE 1)
         /\ BulkNext(rs).iterator \in 1..Len(rs.rows)
<1>1. /\ rs \in ResultSet /\ rs.rows \in Seq(Item) /\ Len(rs.rows) \in Nat
      /\ Len(rs.rows) > 0 /\ rs.iterator \in Nat
      /\ rs.consumed <= Len(rs.rows)
  BY DEF Usable, ResultSet, BulkHasNext
<1>2. CASE rs.gotFirst
  <2>1. BulkNext(rs) = [rs EXCEPT !.iterator = @ + 1]
    BY <1>2 DEF BulkNext
  <2>2. rs.iterator + 1 \in 1..Len(rs.rows)
    BY <1>1, <1>2 DEF BulkHasNext
  <2> DEFINE w == [rs EXCEPT !.iterator = @ + 1]
  <2>3. /\ w \in ResultSet /\ w.rows = rs.rows /\ w.gotFirst
        /\ w.consumed = rs.consumed /\ w.iterator = rs.iterator + 1
    BY <1>1, <1>2 DEF ResultSet
  <2> HIDE DEF w
  <2>4. Usable(q, w)
    BY <1>1, <2>2, <2>3 DEF Usable
  <2>5. BulkNext(rs) = w
    BY <2>1 DEF w
  <2>6. QED
    BY <1>2, <2>2, <2>3, <2>4, <2>5
<1>3. CASE ~rs.gotFirst
  <2>1. BulkNext(rs) = [rs EXCEPT !.gotFirst = TRUE]
    BY <1>3 DEF BulkNext
  <2> DEFINE w == [rs EXCEPT !.gotFirst = TRUE]
  <2>2. /\ w \in ResultSet /\ w.rows = rs.rows /\ w.gotFirst
        /\ w.consumed = rs.consumed /\ w.iterator = rs.iterator
    BY <1>1 DEF ResultSet
  <2>3. rs.iterator = 1 /\ 1 \in 1..Len(rs.rows)
    BY <1>1, <1>3 DEF Usable
  <2> HIDE DEF w
  <2>4. Usable(q, w)
    BY <1>1, <2>2, <2>3 DEF Usable
  <2>5. BulkNext(rs) = w
    BY <2>1 DEF w
  <2>6. QED
    BY <1>3, <2>2, <2>3, <2>4, <2>5
<1>4. QED
  BY <1>2, <1>3

(* A result set moved to item i, from which getData reads row r, or which  *)
(* is used up.                                                             *)
LEMMA ConsumingIsUsable ==
  ASSUME NEW q, NEW rs, Usable(q, rs), NEW i \in 0..Len(rs.rows),
         NEW r \in Item \cup {Nil}
  PROVE  Usable(q, [rs EXCEPT !.consumed = i, !.row = r])
<1> DEFINE w == [rs EXCEPT !.consumed = i, !.row = r]
<1>1. Len(rs.rows) \in Nat /\ rs \in ResultSet /\ i \in Nat
  BY DEF Usable, ResultSet
<1>2. /\ w \in ResultSet /\ w.rows = rs.rows /\ w.gotFirst = rs.gotFirst
      /\ w.consumed = i /\ w.iterator = rs.iterator
  BY <1>1 DEF ResultSet
<1> HIDE DEF w
<1>3. Usable(q, w)
  BY <1>1, <1>2 DEF Usable
<1>4. QED
  BY <1>3 DEF w

LEMMA NextRowIsUsable ==
  ASSUME Usable(mQuery, resultSet), HasRow
  PROVE  /\ Usable(mQuery, NextRow)
         /\ IsBulk => NextRow.gotFirst
         /\ RowOf(NextRow) \in Item
<1>1. resultSet \in ResultSet /\ resultSet.rows \in Seq(Item)
  BY DEF Usable, ResultSet
<1>2. CASE IsBulk
  <2>1. NextRow = BulkNext(resultSet) /\ BulkHasNext(resultSet)
    BY <1>2 DEF NextRow, HasRow
  <2>2. /\ Usable(mQuery, NextRow) /\ NextRow.gotFirst
        /\ NextRow.rows = resultSet.rows
        /\ NextRow.iterator \in 1..Len(resultSet.rows)
    BY <1>2, <2>1, BulkNextIsUsable DEF IsBulk
  <2>3. RowOf(NextRow) = resultSet.rows[NextRow.iterator]
    BY <1>2, <2>2 DEF RowOf
  <2>4. QED
    BY <1>1, <2>2, <2>3
<1>3. CASE ~IsBulk
  <2> DEFINE i == NextItem(resultSet)
             r == resultSet.rows[i]
  <2>1. i <= Len(resultSet.rows)
    BY <1>3 DEF HasRow
  <2>2. i \in 0..Len(resultSet.rows) /\ i > 0
    BY <1>1, <2>1, NextItemExists DEF Usable, ResultSet
  <2>3. r \in Item
    BY <1>1, <2>2
  <2>4. NextRow = [resultSet EXCEPT !.consumed = i, !.row = r]
    BY <1>3 DEF NextRow
  <2>5. RowOf(NextRow) = r
    BY <1>1, <1>3, <2>4 DEF RowOf, ResultSet
  <2> HIDE DEF i, r
  <2>6. Usable(mQuery, NextRow)
    BY <2>2, <2>3, <2>4, ConsumingIsUsable
  <2>7. QED
    BY <1>3, <2>3, <2>5, <2>6
<1>4. QED
  BY <1>2, <1>3

-----------------------------------------------------------------------------
(* The invariant is kept.                                                  *)

CallerOK ==
  /\ cursor \in {"closed", "open", "on row"}
  /\ prepared \in BOOLEAN
  /\ asked \in Text \cup {Catalog, Nil}
  /\ executions \in 0..MaxExecutions
  /\ answer \in Seq(Item)
  /\ fetched \in Nat

ColumnOK ==
  /\ bound \subseteq 1..Columns
  /\ buffer \in [1..Columns -> Item \cup {Nil}]
  /\ promised \subseteq 1..Columns

LEMMA TypeParts ==
  ASSUME mQuery \in Text \cup {Catalog, Nil}, CallerOK, ColumnOK, QueryInv,
         RowInv, BuffersHoldTheRow
  PROVE  Inv
BY DEF Inv, TypeOK, CallerOK, ColumnOK, RowInv, Usable

LEMMA TypePartsOf ==
  ASSUME Inv
  PROVE  /\ mQuery \in Text \cup {Catalog, Nil} /\ CallerOK /\ ColumnOK
         /\ QueryInv /\ RowInv
BY DEF Inv, TypeOK, CallerOK, ColumnOK

LEMMA TypePartsNext ==
  ASSUME (mQuery \in Text \cup {Catalog, Nil})', CallerOK', ColumnOK',
         QueryInv', RowInv', BuffersHoldTheRow'
  PROVE  Inv'
BY DEF Inv, TypeOK, CallerOK, ColumnOK, RowInv, Usable

LEMMA AnswersOfExecution ==
  ASSUME Inv, executions < MaxExecutions, NEW t, NEW a \in Answers(t)
  PROVE  a \in Seq(Item)
<1>1. executions \in 0..MaxExecutions
  BY TypePartsOf DEF CallerOK
<1>2. executions \in Nat
  BY <1>1
<1>3. QED
  BY <1>2, AnswersAreItems

(* A call with a text: its query is the one to execute if it succeeded, or *)
(* it left the statement unprepared.                                       *)
LEMMA TextStep ==
  ASSUME Inv, NEW text \in Text \cup {Catalog, Nil}, NEW ready \in BOOLEAN,
         NEW q \in Text \cup {Catalog, Nil},
         NewQuery(q) \/ (SameQuery /\ q = mQuery),
         Usable(q, resultSet'),
         ready => q = text /\ q \in Text,
         \/ NoCursor(text, ready)
         \/ /\ executions < MaxExecutions
            /\ q = text
            /\ \E a \in Seq(Item) : Opens(text, ready, a)
  PROVE  Inv'
<1>1. /\ mQuery' = q /\ promised' = {} /\ bound' \subseteq bound
      /\ buffer' = buffer
  BY DEF NewQuery, SameQuery
<1>2. /\ cursor' \in {"closed", "open"} /\ asked' = text /\ prepared' = ready
      /\ cursor' # "closed" => q = text
  BY DEF NoCursor, Opens
<1>3. CallerOK'
  <2>1. CallerOK /\ MaxExecutions \in Nat
    BY TypePartsOf, StatementAssumption
  <2>2. CASE NoCursor(text, ready)
    <3>1. /\ executions' = executions /\ answer' = answer
          /\ fetched' = fetched
      BY <2>2 DEF NoCursor
    <3>2. QED
      BY <2>1, <3>1, <1>2 DEF CallerOK
  <2>3. ASSUME NEW a \in Seq(Item), Opens(text, ready, a),
               executions < MaxExecutions
        PROVE  CallerOK'
    <3>1. executions' = executions + 1 /\ answer' = a /\ fetched' = 0
      BY <2>3 DEF Opens
    <3>2. executions' \in 0..MaxExecutions
      <4>1. executions \in 0..MaxExecutions
        BY <2>1 DEF CallerOK
      <4>2. QED
        BY <2>1, <2>3, <3>1, <4>1
    <3>3. QED
      BY <3>1, <3>2, <1>2 DEF CallerOK
  <2>4. QED
    BY <2>2, <2>3
<1>4. ColumnOK'
  BY <1>1, TypePartsOf DEF ColumnOK
<1>5. QueryInv'
  BY <1>1, <1>2 DEF QueryInv
<1>6. RowInv'
  BY <1>1, <1>2 DEF RowInv
<1>7. BuffersHoldTheRow'
  BY <1>1 DEF BuffersHoldTheRow
<1>8. QED
  BY <1>1, <1>3, <1>4, <1>5, <1>6, <1>7, TypePartsNext

LEMMA PrepareStep ==
  ASSUME Inv, NEW t \in Text, SQLPrepare(t)
  PROVE  Inv'
<1>1. Usable(mQuery, resultSet) /\ mQuery \in Text \cup {Catalog, Nil}
  BY TypePartsOf DEF RowInv
<1>2. CASE NewQuery(t) /\ resultSet' = NewResultSet /\ NoCursor(t, TRUE)
  <2>1. Usable(t, resultSet')
    BY <1>2, NewIsUsable
  <2>2. QED
    BY <1>2, <2>1, TextStep
<1>3. CASE SameQuery /\ UNCHANGED resultSet /\ NoCursor(t, FALSE)
  BY <1>1, <1>3, TextStep
<1>4. QED
  BY <1>2, <1>3 DEF SQLPrepare

LEMMA ExecDirectStep ==
  ASSUME Inv, NEW t \in Text, SQLExecDirect(t)
  PROVE  Inv'
<1>1. Usable(mQuery, resultSet) /\ mQuery \in Text \cup {Catalog, Nil}
  BY TypePartsOf DEF RowInv
<1>2. CASE SameQuery /\ UNCHANGED resultSet /\ NoCursor(t, FALSE)
  BY <1>1, <1>2, TextStep
<1>3. CASE NewQuery(t) /\ resultSet' = NewResultSet /\ NoCursor(t, FALSE)
  <2>1. Usable(t, resultSet')
    BY <1>3, NewIsUsable
  <2>2. QED
    BY <1>3, <2>1, TextStep
<1>4. ASSUME executions < MaxExecutions, NewQuery(t), NEW a \in Answers(t),
             resultSet' = WithAnswer(t, NewResultSet, a),
             Opens(t, FALSE, a)
      PROVE  Inv'
  <2>1. a \in Seq(Item)
    BY <1>4, AnswersOfExecution
  <2>2. Usable(t, resultSet')
    BY <1>4, <2>1, NewIsUsable, ExecutedIsUsable
  <2>3. QED
    BY <1>4, <2>1, <2>2, TextStep
<1>5. QED
  BY <1>2, <1>3, <1>4 DEF SQLExecDirect

LEMMA ExecuteStep ==
  ASSUME Inv, SQLExecute
  PROVE  Inv'
<1>1. /\ Usable(mQuery, resultSet) /\ mQuery \in Text /\ asked = mQuery
      /\ SameQuery
  BY TypePartsOf DEF RowInv, QueryInv, SQLExecute
<1>2. CASE UNCHANGED resultSet /\ NoCursor(asked, TRUE)
  BY <1>1, <1>2, TextStep
<1>3. ASSUME executions < MaxExecutions, NEW a \in Answers(mQuery),
             resultSet' = WithAnswer(mQuery, resultSet, a),
             Opens(asked, TRUE, a)
      PROVE  Inv'
  <2>1. a \in Seq(Item)
    BY <1>3, AnswersOfExecution
  <2>2. Usable(mQuery, resultSet')
    BY <1>1, <1>3, <2>1, ExecutedIsUsable
  <2>3. QED
    BY <1>1, <1>3, <2>1, <2>2, TextStep
<1>4. QED
  BY <1>2, <1>3 DEF SQLExecute

LEMMA CatalogStep ==
  ASSUME Inv, CatalogFunction
  PROVE  Inv'
<1>1. Usable(mQuery, resultSet) /\ mQuery \in Text \cup {Catalog, Nil}
  BY TypePartsOf DEF RowInv
<1>2. CASE SameQuery /\ UNCHANGED resultSet /\ NoCursor(Catalog, FALSE)
  BY <1>1, <1>2, TextStep
<1>3. ASSUME NEW q \in {Catalog, Nil}, NewQuery(q),
             resultSet' = NewResultSet, NoCursor(Catalog, FALSE)
      PROVE  Inv'
  <2>1. Usable(q, resultSet')
    BY <1>3, NewIsUsable
  <2>2. QED
    BY <1>3, <2>1, TextStep
<1>4. ASSUME executions < MaxExecutions, NewQuery(Catalog),
             NEW a \in Answers(Catalog),
             resultSet' = [NewResultSet EXCEPT !.rows = a],
             Opens(Catalog, FALSE, a)
      PROVE  Inv'
  <2>1. a \in Seq(Item)
    BY <1>4, AnswersOfExecution
  <2>2. Usable(Catalog, resultSet')
    BY <1>4, <2>1, CatalogIsUsable, StatementAssumption
  <2>3. QED
    BY <1>4, <2>1, <2>2, TextStep
<1>5. QED
  BY <1>2, <1>3, <1>4 DEF CatalogFunction

(* A call that stays with the query.                                       *)
LEMMA SameQueryStep ==
  ASSUME Inv,
         mQuery' = mQuery, prepared' = prepared, asked' = asked,
         executions' = executions, answer' = answer, fetched' \in Nat,
         cursor' \in {"closed", "open", "on row"},
         cursor' # "closed" => cursor # "closed",
         cursor' = "on row" /\ IsBulk => resultSet'.gotFirst,
         Usable(mQuery, resultSet'), ColumnOK', BuffersHoldTheRow'
  PROVE  Inv'
<1>1. CallerOK'
  BY TypePartsOf DEF CallerOK
<1>2. QueryInv'
  BY TypePartsOf DEF QueryInv
<1>3. RowInv'
  BY DEF RowInv, IsBulk
<1>4. (mQuery \in Text \cup {Catalog, Nil})'
  BY TypePartsOf
<1>5. QED
  BY <1>1, <1>2, <1>3, <1>4, TypePartsNext

LEMMA UsableNow ==
  ASSUME Inv
  PROVE  /\ Usable(mQuery, resultSet) /\ fetched \in Nat
         /\ cursor \in {"closed", "open", "on row"}
         /\ cursor = "on row" /\ IsBulk => resultSet.gotFirst
         /\ ColumnOK /\ BuffersHoldTheRow
BY DEF Inv, TypeOK, RowInv, ColumnOK

LEMMA BoundNow ==
  ASSUME Inv
  PROVE  bound \subseteq 1..Columns
BY DEF Inv, TypeOK

LEMMA FetchedNow ==
  ASSUME Inv
  PROVE  fetched \in Nat
BY DEF Inv, TypeOK

LEMMA CloseStep ==
  ASSUME Inv, CloseCursor
  PROVE  Inv'
<1>1. /\ mQuery' = mQuery /\ resultSet' = resultSet /\ cursor' = "closed"
      /\ promised' = {} /\ bound' = bound /\ buffer' = buffer
      /\ fetched' = fetched /\ prepared' = prepared /\ asked' = asked
      /\ executions' = executions /\ answer' = answer
  BY DEF CloseCursor
<1>2. ColumnOK' /\ BuffersHoldTheRow'
  BY <1>1, UsableNow DEF ColumnOK, BuffersHoldTheRow
<1>3. QED
  BY <1>1, <1>2, UsableNow, SameQueryStep

LEMMA BindStep ==
  ASSUME Inv, NEW c \in 1..Columns, SQLBindCol(c)
  PROVE  Inv'
<1>1. /\ mQuery' = mQuery /\ resultSet' = resultSet /\ cursor' = cursor
      /\ fetched' = fetched /\ prepared' = prepared /\ asked' = asked
      /\ executions' = executions /\ answer' = answer
      /\ bound' = bound \cup {c} /\ buffer' = [buffer EXCEPT ![c] = Nil]
      /\ promised' = promised \ {c}
  BY DEF SQLBindCol, callerVars
<1>2. ColumnOK'
  BY <1>1, UsableNow DEF ColumnOK
<1>3. BuffersHoldTheRow'
  BY <1>1, UsableNow DEF ColumnOK, BuffersHoldTheRow, RowOf, IsBulk
<1>4. QED
  BY <1>1, <1>2, <1>3, UsableNow, SameQueryStep

LEMMA UnbindStep ==
  ASSUME Inv, UnbindColumns
  PROVE  Inv'
<1>1. /\ mQuery' = mQuery /\ resultSet' = resultSet /\ cursor' = cursor
      /\ fetched' = fetched /\ prepared' = prepared /\ asked' = asked
      /\ executions' = executions /\ answer' = answer
      /\ bound' = {} /\ buffer' = buffer /\ promised' = {}
  BY DEF UnbindColumns, callerVars
<1>2. ColumnOK' /\ BuffersHoldTheRow'
  BY <1>1, UsableNow DEF ColumnOK, BuffersHoldTheRow
<1>3. QED
  BY <1>1, <1>2, UsableNow, SameQueryStep

LEMMA FilledBuffers ==
  ASSUME Inv, NEW rs, RowOf(rs) \in Item, NEW stop \in Int, Fill(rs, stop)
  PROVE  /\ buffer' \in [1..Columns -> Item \cup {Nil}]
         /\ \A c \in bound : c < stop => buffer'[c] = RowOf(rs)
BY UsableNow DEF Fill, ColumnOK

LEMMA FetchRowStep ==
  ASSUME Inv, FetchRow
  PROVE  Inv'
<1>1. /\ mQuery' = mQuery /\ resultSet' = NextRow /\ cursor' = "on row"
      /\ fetched' = fetched + 1 /\ prepared' = prepared /\ asked' = asked
      /\ executions' = executions /\ answer' = answer
      /\ bound' = bound /\ promised' = bound
      /\ cursor # "closed" /\ HasRow /\ Fill(NextRow, Columns + 1)
  BY DEF FetchRow
<1>2. /\ Usable(mQuery, resultSet')
      /\ IsBulk => resultSet'.gotFirst
      /\ RowOf(NextRow) \in Item
  BY <1>1, UsableNow, NextRowIsUsable
<1>3. /\ buffer' \in [1..Columns -> Item \cup {Nil}]
      /\ \A c \in bound : c < Columns + 1 => buffer'[c] = RowOf(NextRow)
  <2>1. Columns + 1 \in Int
    BY StatementAssumption
  <2>2. QED
    BY <1>1, <1>2, <2>1, FilledBuffers
<1>4. bound \subseteq 1..Columns /\ \A c \in 1..Columns : c < Columns + 1
  BY BoundNow, StatementAssumption
<1>5. ColumnOK'
  BY <1>1, <1>3, <1>4 DEF ColumnOK
<1>6. RowOf(resultSet)' = RowOf(NextRow)
  BY <1>1 DEF RowOf, IsBulk
<1>7. BuffersHoldTheRow'
  BY <1>1, <1>3, <1>4, <1>6 DEF BuffersHoldTheRow
<1>8. fetched' \in Nat
  <2>1. fetched' = fetched + 1
    BY DEF FetchRow
  <2>2. QED
    BY <2>1, FetchedNow
<1>9. /\ cursor' \in {"closed", "open", "on row"}
      /\ cursor' # "closed" => cursor # "closed"
      /\ cursor' = "on row" /\ IsBulk => resultSet'.gotFirst
  BY <1>1, <1>2
<1>10. QED
  BY <1>1, <1>2, <1>5, <1>7, <1>8, <1>9, SameQueryStep, Zenon

LEMMA UnconvertibleStep ==
  ASSUME Inv, FetchUnconvertible
  PROVE  Inv'
<1>1. /\ mQuery' = mQuery /\ resultSet' = NextRow /\ cursor' = cursor
      /\ fetched' = fetched /\ prepared' = prepared /\ asked' = asked
      /\ executions' = executions /\ answer' = answer
      /\ bound' = bound /\ promised' = {}
      /\ HasRow /\ \E c \in bound : Fill(NextRow, c)
  BY DEF FetchUnconvertible, callerVars
<1>2. /\ Usable(mQuery, resultSet')
      /\ IsBulk => resultSet'.gotFirst
      /\ RowOf(NextRow) \in Item
  BY <1>1, UsableNow, NextRowIsUsable
<1>3. buffer' \in [1..Columns -> Item \cup {Nil}]
  <2>1. PICK c \in bound : Fill(NextRow, c)
    BY <1>1
  <2>2. c \in Int
    BY BoundNow
  <2>3. QED
    BY <1>2, <2>1, <2>2, FilledBuffers
<1>4. ColumnOK' /\ BuffersHoldTheRow'
  BY <1>1, <1>3, UsableNow DEF ColumnOK, BuffersHoldTheRow
<1>5. /\ cursor' \in {"closed", "open", "on row"} /\ fetched' \in Nat
      /\ cursor' # "closed" => cursor # "closed"
      /\ cursor' = "on row" /\ IsBulk => resultSet'.gotFirst
  <2>1. cursor' \in {"closed", "open", "on row"} /\ fetched' \in Nat
    BY <1>1, UsableNow
  <2>2. QED
    BY <1>1, <1>2, <2>1
<1>6. QED
  BY <1>1, <1>2, <1>4, <1>5, SameQueryStep, Zenon

(* An on-demand result set of which an item was used up without a row.     *)
LEMMA UsedUp ==
  ASSUME Usable(mQuery, resultSet), NEW i \in 0..Len(resultSet.rows)
  PROVE  Usable(mQuery, [resultSet EXCEPT !.consumed = i])
<1>1. resultSet \in ResultSet
  BY DEF Usable
<1>2. [resultSet EXCEPT !.consumed = i]
        = [resultSet EXCEPT !.consumed = i, !.row = resultSet.row]
  BY <1>1 DEF ResultSet
<1>3. resultSet.row \in Item \cup {Nil}
  BY <1>1 DEF ResultSet
<1>4. QED
  BY <1>2, <1>3, ConsumingIsUsable

LEMMA NoRowStep ==
  ASSUME Inv, FetchObjectError \/ FetchThrows \/ FetchNoData
  PROVE  Inv'
<1>1. /\ mQuery' = mQuery /\ cursor' \in {cursor, "open"}
      /\ cursor # "closed"
      /\ fetched' = fetched /\ prepared' = prepared /\ asked' = asked
      /\ executions' = executions /\ answer' = answer
      /\ bound' = bound /\ promised' = {} /\ buffer' = buffer
  BY DEF FetchObjectError, FetchThrows, FetchNoData, callerVars
<1>2. \/ resultSet' = resultSet
      \/ /\ ~IsBulk
         /\ \E i \in 0..Len(resultSet.rows) :
              resultSet' = [resultSet EXCEPT !.consumed = i]
  <2>1. /\ NextItem(resultSet) \in Nat /\ Len(resultSet.rows) \in Nat
    <3>1. resultSet \in ResultSet /\ resultSet.consumed <= Len(resultSet.rows)
      BY UsableNow DEF Usable
    <3>2. resultSet.consumed \in Nat /\ Len(resultSet.rows) \in Nat
      BY <3>1 DEF ResultSet
    <3>3. QED
      BY <3>1, <3>2, NextItemExists
  <2>2. CASE FetchObjectError
    BY <2>1, <2>2 DEF FetchObjectError
  <2>3. CASE FetchThrows
    BY <2>3 DEF FetchThrows
  <2>4. CASE FetchNoData
    BY <2>1, <2>4 DEF FetchNoData
  <2>5. QED
    BY <2>2, <2>3, <2>4
<1>3. Usable(mQuery, resultSet')
  BY <1>2, UsableNow, UsedUp
<1>4. ColumnOK' /\ BuffersHoldTheRow'
  BY <1>1, UsableNow DEF ColumnOK, BuffersHoldTheRow
<1>5. cursor' = "on row" /\ IsBulk => resultSet'.gotFirst
  BY <1>1, <1>2, UsableNow
<1>6. QED
  BY <1>1, <1>3, <1>4, <1>5, UsableNow, SameQueryStep

LEMMA InitInv == Init => Inv
<1> SUFFICES ASSUME Init PROVE Inv
  OBVIOUS
<1>1. CallerOK
  <2>1. /\ cursor = "closed" /\ prepared = FALSE /\ asked = Nil
        /\ executions = 0 /\ answer = <<>> /\ fetched = 0
    BY DEF Init
  <2>2. 0 \in 0..MaxExecutions /\ <<>> \in Seq(Item)
    BY StatementAssumption
  <2>3. QED
    BY <2>1, <2>2 DEF CallerOK
<1>5. ColumnOK
  BY DEF Init, ColumnOK
<1>2. RowInv
  BY NewIsUsable DEF Init, RowInv
<1>3. QueryInv /\ BuffersHoldTheRow /\ mQuery \in Text \cup {Catalog, Nil}
  BY DEF Init, QueryInv, BuffersHoldTheRow
<1>4. QED
  BY <1>1, <1>2, <1>3, <1>5, TypeParts

LEMMA StutterInv ==
  ASSUME Inv, UNCHANGED vars
  PROVE  Inv'
BY DEF vars, columnVars, callerVars, Inv, TypeOK, QueryInv, RowInv, Usable,
       BuffersHoldTheRow, RowOf, IsBulk

THEOREM StatementInvariant == Spec => []Inv
<1>1. Inv /\ [Next]_vars => Inv'
  <2> SUFFICES ASSUME Inv, [Next]_vars PROVE Inv'
    OBVIOUS
  <2>1. CASE SQLFetch
    BY <2>1, FetchRowStep, UnconvertibleStep, NoRowStep DEF SQLFetch
  <2>2. QED
    BY <2>1, PrepareStep, ExecDirectStep, ExecuteStep, CatalogStep, CloseStep,
       BindStep, UnbindStep, StutterInv
    DEF Next
<1>2. QED
  BY <1>1, InitInv, PTL DEF Spec

(* What a statement keeps has its type.                                    *)
THEOREM StatementTypeCorrect == Spec => []TypeOK
BY StatementInvariant, PTL DEF Inv

(* An open cursor is one on the rows of the text that was given last.      *)
THEOREM RowsAnswerTheText == Spec => []AnswersTheText
<1>1. Inv => AnswersTheText
  BY DEF Inv, QueryInv, AnswersTheText
<1>2. QED
  BY <1>1, StatementInvariant, PTL

(* Bound buffers show the row SQLGetData reads.                            *)
THEOREM BuffersShowTheRow == Spec => []BuffersHoldTheRow
BY StatementInvariant, PTL DEF Inv

(* The iterator of a bulk result set is never followed past its rows.      *)
THEOREM IteratorStaysInResults == Spec => []IteratorInResults
<1>1. Inv => IteratorInResults
  <2> SUFFICES ASSUME Inv PROVE IteratorInResults
    OBVIOUS
  <2>1. Usable(mQuery, resultSet) /\ resultSet \in ResultSet
    BY UsableNow DEF Usable
  <2>2. resultSet.gotFirst => resultSet.iterator <= Len(resultSet.rows)
    BY <2>1 DEF Usable, ResultSet
  <2>3. cursor = "on row" /\ IsBulk => resultSet.gotFirst
    BY UsableNow
  <2>4. QED
    BY <2>2, <2>3 DEF IteratorInResults
<1>2. QED
  BY <1>1, StatementInvariant, PTL

-----------------------------------------------------------------------------
(* The statement implements ForwardCursor.  The steps with a bulk text     *)
(* before and after them are those of a closed cursor.                     *)

(* What the result set holds is the answer; the query without its WHERE    *)
(* clause never had one; catalog functions give rows only.                 *)
CursorInv ==
  Delivers =>
    /\ mQuery \in NoCriterion => resultSet.rows = <<>>
    /\ IsOpen => resultSet.rows = answer
    /\ IsBulk => \A i \in 1..Len(resultSet.rows) :
                   resultSet.rows[i].is = "row"

CursorStep ==
  [Cursor!Next]_(<<OpenAnswer, OpenPassed, Current, OpenFetched>>)

LEMMA ExecutedRows ==
  ASSUME NEW t \in Text, Type[t] # "bulk", NEW rs, Usable(t, rs),
         t \in NoCriterion => rs.rows = <<>>,
         NEW a \in Answers(t)
  PROVE  /\ WithAnswer(t, rs, a).rows = a
         /\ WithAnswer(t, rs, a).consumed = 0
         /\ t \in NoCriterion => a = <<>>
<1>1. rs \in ResultSet /\ rs.consumed <= Len(rs.rows)
  BY DEF Usable
<1>2. CASE t \in NoCriterion
  <2>1. a = <<>> /\ WithAnswer(t, rs, a) = rs /\ rs.rows = <<>>
    BY <1>2 DEF Answers, WithAnswer
  <2>2. rs.consumed = 0
    BY <1>1, <2>1 DEF ResultSet
  <2>3. QED
    BY <2>1, <2>2
<1>3. CASE t \notin NoCriterion
  <2>1. WithAnswer(t, rs, a)
          = [rs EXCEPT !.rows = a, !.consumed = 0, !.row = Nil]
    BY <1>3 DEF WithAnswer
  <2>2. QED
    BY <1>1, <1>3, <2>1 DEF ResultSet
<1>4. QED
  BY <1>2, <1>3

LEMMA CatalogRows ==
  ASSUME NEW a \in Answers(Catalog)
  PROVE  \A i \in 1..Len(a) : a[i].is = "row"
<1>1. Catalog \notin NoCriterion
  BY StatementAssumption
<1>2. KindsOf(Catalog) = {"row"} /\ Sizes(Catalog) \subseteq Nat
  BY StatementAssumption DEF KindsOf, Sizes
<1>3. PICK n \in Sizes(Catalog) : \E kinds \in [1..n -> KindsOf(Catalog)] :
        a = [i \in 1..n |->
               [of |-> executions + 1, at |-> i, is |-> kinds[i]]]
  BY <1>1 DEF Answers
<1>4. PICK kinds \in [1..n -> {"row"}] :
        a = [i \in 1..n |->
               [of |-> executions + 1, at |-> i, is |-> kinds[i]]]
  BY <1>2, <1>3
<1>5. Len(a) = n
  BY <1>2, <1>4
<1>6. QED
  BY <1>4, <1>5

(* A call that opens a cursor.                                             *)
LEMMA OpeningStep ==
  ASSUME NEW text, NEW ready, NEW a \in Seq(Item), Opens(text, ready, a),
         resultSet'.rows = a, resultSet'.consumed = 0,
         Delivers', mQuery' \in NoCriterion => a = <<>>,
         IsBulk' => /\ ~resultSet'.gotFirst
                    /\ \A i \in 1..Len(a) : a[i].is = "row"
  PROVE  CursorInv' /\ CursorStep
<1>1. cursor' = "open" /\ answer' = a /\ fetched' = 0
  BY DEF Opens
<1>2. IsOpen' /\ OpenAnswer' = a /\ Current' = Nil /\ OpenFetched' = 0
  BY <1>1 DEF IsOpen, OpenAnswer, Current, OpenFetched
<1>3. OpenPassed' = 0
  BY <1>2 DEF OpenPassed, PassedOf
<1>4. CursorInv'
  BY <1>1 DEF CursorInv
<1>5. Cursor!Open
  BY <1>2, <1>3 DEF Cursor!Open
<1>6. QED
  BY <1>4, <1>5 DEF CursorStep, Cursor!Next

(* A call that opens none.                                                 *)
LEMMA ClosedStep ==
  ASSUME CursorInv, cursor = "closed", cursor' = "closed",
         \/ mQuery' = mQuery /\ resultSet' = resultSet
         \/ resultSet' = NewResultSet
  PROVE  CursorInv' /\ CursorStep
<1>1. ~IsOpen /\ ~IsOpen'
  BY DEF IsOpen
<1>2. CursorInv'
  <2>1. CASE mQuery' = mQuery /\ resultSet' = resultSet
    BY <1>1, <2>1 DEF CursorInv, IsBulk, Delivers
  <2>2. CASE resultSet' = NewResultSet
    <3>1. resultSet'.rows = <<>>
      BY <2>2 DEF NewResultSet
    <3>2. QED
      BY <1>1, <3>1 DEF CursorInv
  <2>3. QED
    BY <2>1, <2>2
<1>3. UNCHANGED <<OpenAnswer, OpenPassed, Current, OpenFetched>>
  BY <1>1 DEF OpenAnswer, OpenPassed, Current, OpenFetched
<1>4. QED
  BY <1>2, <1>3 DEF CursorStep

LEMMA TextCursor ==
  ASSUME Inv, CursorInv, Delivers', NEW t \in Text,
         SQLPrepare(t) \/ SQLExecDirect(t)
  PROVE  CursorInv' /\ CursorStep
<1>1. CASE \E a \in Answers(t) :
             /\ executions < MaxExecutions
             /\ NewQuery(t)
             /\ resultSet' = WithAnswer(t, NewResultSet, a)
             /\ Opens(t, FALSE, a)
  <2>1. PICK a \in Answers(t) :
             /\ executions < MaxExecutions
             /\ NewQuery(t)
             /\ resultSet' = WithAnswer(t, NewResultSet, a)
             /\ Opens(t, FALSE, a)
    BY <1>1
  <2>0. Type[t] # "bulk"
    BY <2>1 DEF NewQuery, Delivers
  <2>2. a \in Seq(Item)
    BY <2>1, AnswersOfExecution
  <2>3. NewResultSet.rows = <<>> /\ Usable(t, NewResultSet)
    BY NewIsUsable DEF NewResultSet
  <2>4. /\ resultSet'.rows = a /\ resultSet'.consumed = 0
        /\ t \in NoCriterion => a = <<>>
    BY <2>0, <2>1, <2>3, ExecutedRows
  <2>5. mQuery' = t /\ ~IsBulk'
    BY <2>0, <2>1 DEF NewQuery, IsBulk
  <2>6. QED
    BY <2>1, <2>2, <2>4, <2>5, OpeningStep
<1>2. CASE /\ cursor = "closed" /\ cursor' = "closed"
           /\ \/ mQuery' = mQuery /\ resultSet' = resultSet
              \/ resultSet' = NewResultSet
  BY <1>2, ClosedStep
<1>3. QED
  BY <1>1, <1>2 DEF SQLPrepare, SQLExecDirect, SameQuery, NoCursor

LEMMA ExecuteCursor ==
  ASSUME Inv, CursorInv, Delivers', SQLExecute
  PROVE  CursorInv' /\ CursorStep
<1>1. /\ mQuery \in Text /\ Usable(mQuery, resultSet) /\ mQuery' = mQuery
      /\ cursor = "closed"
  BY TypePartsOf DEF RowInv, QueryInv, SQLExecute, SameQuery
<1>0. Delivers /\ Type[mQuery] # "bulk"
  BY <1>1 DEF Delivers
<1>2. CASE UNCHANGED resultSet /\ NoCursor(asked, TRUE)
  BY <1>1, <1>2, ClosedStep DEF NoCursor
<1>3. ASSUME executions < MaxExecutions, NEW a \in Answers(mQuery),
             resultSet' = WithAnswer(mQuery, resultSet, a),
             Opens(asked, TRUE, a)
      PROVE  CursorInv' /\ CursorStep
  <2>1. a \in Seq(Item)
    BY <1>3, AnswersOfExecution
  <2>2. /\ resultSet'.rows = a /\ resultSet'.consumed = 0
        /\ mQuery \in NoCriterion => a = <<>>
    BY <1>0, <1>1, <1>3, ExecutedRows DEF CursorInv
  <2>3. ~IsBulk'
    BY <1>0, <1>1 DEF IsBulk
  <2>4. QED
    BY <1>1, <1>3, <2>1, <2>2, <2>3, OpeningStep
<1>4. QED
  BY <1>2, <1>3 DEF SQLExecute

LEMMA CatalogCursor ==
  ASSUME Inv, CursorInv, Delivers', CatalogFunction
  PROVE  CursorInv' /\ CursorStep
<1>1. ASSUME executions < MaxExecutions, NewQuery(Catalog),
             NEW a \in Answers(Catalog),
             resultSet' = [NewResultSet EXCEPT !.rows = a],
             Opens(Catalog, FALSE, a)
      PROVE  CursorInv' /\ CursorStep
  <2>1. a \in Seq(Item)
    BY <1>1, AnswersOfExecution
  <2>2. /\ resultSet'.rows = a /\ resultSet'.consumed = 0
        /\ resultSet'.gotFirst = FALSE
    BY <1>1 DEF NewResultSet
  <2>3. mQuery' \notin NoCriterion
    BY <1>1, StatementAssumption DEF NewQuery
  <2>4. QED
    BY <1>1, <2>1, <2>2, <2>3, CatalogRows, OpeningStep
<1>2. CASE /\ cursor = "closed" /\ cursor' = "closed"
           /\ \/ mQuery' = mQuery /\ resultSet' = resultSet
              \/ resultSet' = NewResultSet
  BY <1>2, ClosedStep
<1>3. QED
  BY <1>1, <1>2 DEF CatalogFunction, SameQuery, NoCursor

(* The row a fetch moves to is the next item of the answer.                *)
IsNextRow(i) ==
  /\ Cursor!IsNext(i)
  /\ answer[i].is = "row"
  /\ PassedOf(NextRow) = i
  /\ RowOf(NextRow) = answer[i]
  /\ NextRow.rows = resultSet.rows

LEMMA OpenCursor ==
  ASSUME Inv, CursorInv, Delivers, cursor # "closed"
  PROVE  /\ IsOpen /\ OpenAnswer = answer /\ resultSet.rows = answer
         /\ OpenPassed = PassedOf(resultSet) /\ OpenFetched = fetched
         /\ resultSet \in ResultSet /\ answer \in Seq(Item)
         /\ Len(answer) \in Nat
         /\ resultSet.consumed \in 0..Len(answer)
<1>1. IsOpen /\ OpenAnswer = answer /\ resultSet.rows = answer
  BY DEF IsOpen, OpenAnswer, CursorInv
<1>2. Usable(mQuery, resultSet)
  BY UsableNow
<1>3. resultSet \in ResultSet /\ resultSet.consumed <= Len(resultSet.rows)
  BY <1>2 DEF Usable
<1>4. answer \in Seq(Item) /\ Len(answer) \in Nat
  BY <1>1, <1>3 DEF ResultSet
<1>5. resultSet.consumed \in Nat
  BY <1>3 DEF ResultSet
<1>6. resultSet.consumed \in 0..Len(answer)
  BY <1>1, <1>3, <1>4, <1>5
<1>7. OpenPassed = PassedOf(resultSet) /\ OpenFetched = fetched
  BY <1>1 DEF OpenPassed, OpenFetched
<1>8. QED
  BY <1>1, <1>3, <1>4, <1>6, <1>7

LEMMA NextOnDemand ==
  ASSUME Inv, CursorInv, Delivers, cursor # "closed", ~IsBulk,
         NextItem(resultSet) <= Len(resultSet.rows)
  PROVE  Cursor!IsNext(NextItem(resultSet))
<1>1. /\ OpenAnswer = answer /\ resultSet.rows = answer
      /\ OpenPassed = resultSet.consumed
      /\ resultSet \in ResultSet
      /\ Len(answer) \in Nat
      /\ resultSet.consumed \in 0..Len(answer)
  BY OpenCursor DEF PassedOf
<1>2. resultSet.consumed <= Len(resultSet.rows)
  BY <1>1
<1>3. /\ NextItem(resultSet) \in
           resultSet.consumed + 1 .. Len(resultSet.rows) + 1
      /\ NextItem(resultSet) <= Len(resultSet.rows) =>
           resultSet.rows[NextItem(resultSet)].is # "none"
      /\ \A j \in resultSet.consumed + 1 .. NextItem(resultSet) - 1 :
           resultSet.rows[j].is = "none"
  BY <1>1, <1>2, NextItemExists
<1>4. NextItem(resultSet) \in OpenPassed + 1 .. Len(OpenAnswer)
  BY <1>1, <1>3
<1>5. QED
  BY <1>1, <1>3, <1>4 DEF Cursor!IsNext, StandsForNothing

LEMMA NextRowIsNext ==
  ASSUME Inv, CursorInv, Delivers, cursor # "closed", HasRow
  PROVE  \E i \in 1..Len(answer) : IsNextRow(i)
<1>1. /\ OpenAnswer = answer /\ resultSet.rows = answer
      /\ OpenPassed = PassedOf(resultSet)
      /\ resultSet \in ResultSet /\ answer \in Seq(Item)
      /\ Len(answer) \in Nat
      /\ resultSet.consumed \in 0..Len(answer)
  BY OpenCursor
<1>2. CASE IsBulk
  <2> DEFINE i == IF resultSet.gotFirst THEN resultSet.iterator + 1 ELSE 1
  <2>1. NextRow = BulkNext(resultSet) /\ BulkHasNext(resultSet)
    BY <1>2 DEF NextRow, HasRow
  <2>2. /\ NextRow.gotFirst /\ NextRow.rows = resultSet.rows
        /\ NextRow.iterator = i
        /\ NextRow.iterator \in 1..Len(resultSet.rows)
    BY <1>2, <2>1, UsableNow, BulkNextIsUsable DEF IsBulk
  <2>3. OpenPassed + 1 = i
    BY <1>1, <1>2 DEF PassedOf
  <2>4. OpenPassed \in Nat
    BY <1>1, <1>2 DEF PassedOf, ResultSet
  <2> HIDE DEF i
  <2>5. i \in 1..Len(answer) /\ answer[i].is = "row"
    BY <1>1, <1>2, <2>2 DEF CursorInv
  <2>6. Cursor!IsNext(i)
    BY <1>1, <2>3, <2>4, <2>5 DEF Cursor!IsNext, StandsForNothing
  <2>7. PassedOf(NextRow) = i /\ RowOf(NextRow) = answer[i]
    BY <1>1, <1>2, <2>2 DEF PassedOf, RowOf
  <2>8. QED
    BY <2>2, <2>5, <2>6, <2>7 DEF IsNextRow
<1>3. CASE ~IsBulk
  <2> DEFINE i == NextItem(resultSet)
  <2>1. /\ i <= Len(resultSet.rows) /\ resultSet.rows[i].is = "row"
    BY <1>3 DEF HasRow
  <2>2. Cursor!IsNext(i)
    BY <1>3, <2>1, NextOnDemand
  <2>3. i \in 1..Len(answer)
    <3>1. OpenPassed \in Nat
      BY <1>1, <1>3 DEF PassedOf
    <3>2. QED
      BY <1>1, <2>2, <3>1 DEF Cursor!IsNext
  <2>4. NextRow = [resultSet EXCEPT !.consumed = i, !.row = resultSet.rows[i]]
    BY <1>3 DEF NextRow
  <2>5. /\ NextRow.consumed = i /\ NextRow.row = resultSet.rows[i]
        /\ NextRow.rows = resultSet.rows
    BY <1>1, <2>4 DEF ResultSet
  <2>6. PassedOf(NextRow) = i /\ RowOf(NextRow) = answer[i]
    BY <1>1, <1>3, <2>5 DEF PassedOf, RowOf
  <2>7. QED
    BY <1>1, <2>1, <2>2, <2>3, <2>5, <2>6 DEF IsNextRow
<1>4. QED
  BY <1>2, <1>3

(* The row moved, with or without an error for its values.                 *)
LEMMA MovedCursor ==
  ASSUME Inv, CursorInv, Delivers, FetchRow \/ FetchUnconvertible
  PROVE  CursorInv' /\ CursorStep
<1>1. /\ mQuery' = mQuery /\ answer' = answer /\ resultSet' = NextRow
      /\ cursor # "closed" /\ HasRow
  BY DEF FetchRow, FetchUnconvertible, callerVars
<1>2. PICK i \in 1..Len(answer) : IsNextRow(i)
  BY <1>1, NextRowIsNext
<1>3. /\ IsOpen /\ OpenAnswer = answer /\ resultSet.rows = answer
      /\ OpenPassed = PassedOf(resultSet) /\ OpenFetched = fetched
  BY <1>1, OpenCursor
<1>4. cursor' # "closed" /\ IsOpen' /\ OpenAnswer' = OpenAnswer
  BY <1>1, <1>3
  DEF FetchRow, FetchUnconvertible, callerVars, IsOpen, OpenAnswer, Delivers
<1>5. /\ OpenPassed' = i
      /\ RowOf(resultSet)' = answer[i]
      /\ resultSet'.rows = resultSet.rows
  BY <1>1, <1>2, <1>4 DEF OpenPassed, PassedOf, RowOf, IsBulk, IsNextRow
<1>6. CursorInv'
  BY <1>1, <1>3, <1>5 DEF CursorInv, IsBulk
<1>7. Cursor!IsNext(i) /\ StandsForRow(OpenAnswer[i])
  BY <1>2, <1>3 DEF IsNextRow, StandsForRow
<1>8. CASE FetchRow
  <2>1. cursor' = "on row" /\ fetched' = fetched + 1
    BY <1>8 DEF FetchRow
  <2>2. Current' = OpenAnswer[i] /\ OpenFetched' = OpenFetched + 1
    BY <1>3, <1>4, <1>5, <2>1 DEF Current, OpenFetched
  <2>3. Cursor!Deliver(i)
    BY <1>4, <1>5, <1>7, <2>2 DEF Cursor!Deliver
  <2>4. QED
    BY <1>2, <1>3, <1>6, <2>3 DEF CursorStep, Cursor!Next
<1>9. CASE FetchUnconvertible
  <2>1. cursor' = cursor /\ fetched' = fetched
    BY <1>9 DEF FetchUnconvertible, callerVars
  <2>2. OpenFetched' = OpenFetched
    BY <1>3, <1>4, <2>1 DEF OpenFetched
  <2>3. Current' = Current \/ Current' = OpenAnswer[i]
    BY <1>3, <1>4, <1>5, <2>1 DEF Current
  <2>4. Cursor!Report(i)
    BY <1>4, <1>5, <1>7, <2>2, <2>3 DEF Cursor!Report
  <2>5. QED
    BY <1>2, <1>3, <1>6, <2>4 DEF CursorStep, Cursor!Next
<1>10. QED
  BY <1>8, <1>9

(* A call that leaves the result set where it is and the caller with it.   *)
LEMMA KeepingCursor ==
  ASSUME CursorInv, mQuery' = mQuery, resultSet' = resultSet,
         cursor' = cursor, answer' = answer, fetched' = fetched
  PROVE  CursorInv' /\ CursorStep
<1>1. /\ OpenAnswer' = OpenAnswer /\ OpenPassed' = OpenPassed
      /\ Current' = Current /\ OpenFetched' = OpenFetched
  BY DEF OpenAnswer, OpenPassed, Current, OpenFetched, IsOpen, PassedOf, RowOf,
         IsBulk, Delivers
<1>2. CursorInv'
  BY DEF CursorInv, IsOpen, IsBulk, Delivers
<1>3. QED
  BY <1>1, <1>2 DEF CursorStep

LEMMA ErrorCursor ==
  ASSUME Inv, CursorInv, Delivers, FetchObjectError
  PROVE  CursorInv' /\ CursorStep
<1> DEFINE i == NextItem(resultSet)
<1>1. /\ mQuery' = mQuery /\ cursor' = cursor /\ fetched' = fetched
      /\ answer' = answer /\ cursor # "closed" /\ ~IsBulk
      /\ i <= Len(resultSet.rows)
      /\ resultSet' = [resultSet EXCEPT !.consumed = i]
  BY DEF FetchObjectError, callerVars
<1>2. Cursor!IsNext(i)
  BY <1>1, NextOnDemand
<1>3. /\ IsOpen /\ OpenAnswer = answer /\ resultSet.rows = answer
      /\ OpenPassed = resultSet.consumed /\ OpenFetched = fetched
      /\ resultSet \in ResultSet
      /\ Len(answer) \in Nat
      /\ resultSet.consumed \in 0..Len(answer)
  BY <1>1, OpenCursor DEF PassedOf
<1>4. i \in 1..Len(answer)
  BY <1>2, <1>3 DEF Cursor!IsNext
<1> HIDE DEF i
<1>5. /\ resultSet'.consumed = i /\ resultSet'.rows = resultSet.rows
      /\ resultSet'.row = resultSet.row
  BY <1>1, <1>3 DEF ResultSet
<1>6. IsOpen' /\ ~IsBulk' /\ OpenAnswer' = OpenAnswer
  BY <1>1, <1>3 DEF IsOpen, IsBulk, OpenAnswer, Delivers
<1>7. /\ OpenPassed' = i /\ Current' = Current /\ OpenFetched' = OpenFetched
  BY <1>1, <1>3, <1>5, <1>6
  DEF OpenPassed, PassedOf, Current, RowOf, OpenFetched
<1>8. CursorInv'
  BY <1>1, <1>3, <1>5, <1>6 DEF CursorInv
<1>9. Cursor!Report(i)
  BY <1>2, <1>6, <1>7 DEF Cursor!Report
<1>10. QED
  BY <1>3, <1>4, <1>8, <1>9 DEF CursorStep, Cursor!Next

LEMMA NoDataCursor ==
  ASSUME Inv, CursorInv, Delivers, FetchNoData
  PROVE  CursorInv' /\ CursorStep
<1>1. /\ mQuery' = mQuery /\ cursor' = "open" /\ fetched' = fetched
      /\ answer' = answer /\ cursor # "closed" /\ ~HasRow
  BY DEF FetchNoData
<1>2. /\ IsOpen /\ OpenAnswer = answer /\ resultSet.rows = answer
      /\ OpenPassed = PassedOf(resultSet) /\ OpenFetched = fetched
      /\ resultSet \in ResultSet
      /\ Len(answer) \in Nat
      /\ resultSet.consumed \in 0..Len(answer)
  BY <1>1, OpenCursor
<1>3. /\ IsOpen' /\ OpenAnswer' = OpenAnswer /\ Current' = Nil
      /\ OpenFetched' = OpenFetched
  BY <1>1, <1>2 DEF IsOpen, OpenAnswer, Current, OpenFetched, Delivers
<1>4. /\ \A j \in OpenPassed + 1 .. Len(answer) : answer[j].is = "none"
      /\ OpenPassed' = Len(answer)
      /\ resultSet'.rows = resultSet.rows
  <2>1. CASE IsBulk
    <3>1. resultSet' = resultSet
      BY <2>1 DEF FetchNoData
    <3>2. OpenPassed = Len(answer)
      <4>1. Usable(mQuery, resultSet)
        BY UsableNow
      <4>2. CASE resultSet.gotFirst
        <5>1. resultSet.iterator \in 1..Len(answer)
          BY <1>2, <4>1, <4>2 DEF Usable
        <5>2. ~(resultSet.iterator < Len(answer))
          BY <1>1, <1>2, <2>1, <4>2, <5>1 DEF HasRow, BulkHasNext
        <5>3. OpenPassed = resultSet.iterator
          BY <1>2, <2>1, <4>2 DEF PassedOf
        <5>4. QED
          BY <1>2, <5>1, <5>2, <5>3
      <4>3. CASE ~resultSet.gotFirst
        BY <1>1, <1>2, <2>1, <4>3 DEF HasRow, BulkHasNext, PassedOf
      <4>4. QED
        BY <4>2, <4>3
    <3>3. OpenPassed' = OpenPassed
      BY <1>1, <1>2, <1>3, <3>1 DEF OpenPassed, PassedOf, IsBulk
    <3>4. QED
      BY <1>2, <3>1, <3>2, <3>3
  <2>2. CASE ~IsBulk
    <3>1. /\ NextItem(resultSet) > Len(resultSet.rows)
          /\ resultSet' = [resultSet EXCEPT !.consumed = Len(resultSet.rows)]
      BY <2>2 DEF FetchNoData
    <3>2. /\ resultSet'.consumed = Len(answer)
          /\ resultSet'.rows = resultSet.rows
      BY <1>2, <3>1 DEF ResultSet
    <3>3. OpenPassed' = Len(answer) /\ OpenPassed = resultSet.consumed
      BY <1>1, <1>2, <1>3, <2>2, <3>2 DEF OpenPassed, PassedOf, IsBulk
    <3>4. resultSet.consumed <= Len(resultSet.rows)
      BY <1>2
    <3>5. /\ NextItem(resultSet) \in
               resultSet.consumed + 1 .. Len(resultSet.rows) + 1
          /\ \A j \in resultSet.consumed + 1 .. NextItem(resultSet) - 1 :
               resultSet.rows[j].is = "none"
      BY <1>2, <3>4, NextItemExists
    <3>6. NextItem(resultSet) - 1 = Len(answer)
      BY <1>2, <3>1, <3>5
    <3>7. QED
      BY <1>2, <3>2, <3>3, <3>5, <3>6
  <2>3. QED
    BY <2>1, <2>2
<1>5. CursorInv'
  BY <1>1, <1>2, <1>4 DEF CursorInv, IsBulk
<1>6. Cursor!End
  BY <1>2, <1>3, <1>4 DEF Cursor!End, StandsForNothing
<1>7. QED
  BY <1>5, <1>6 DEF CursorStep, Cursor!Next

LEMMA CloseCursorStep ==
  ASSUME CursorInv, CloseCursor
  PROVE  CursorInv' /\ CursorStep
<1>1. /\ cursor' = "closed" /\ mQuery' = mQuery /\ resultSet' = resultSet
  BY DEF CloseCursor
<1>2. /\ OpenAnswer' = <<>> /\ OpenPassed' = 0 /\ Current' = Nil
      /\ OpenFetched' = 0
  BY <1>1 DEF OpenAnswer, OpenPassed, Current, OpenFetched, IsOpen
<1>3. CursorInv'
  BY <1>1 DEF CursorInv, IsOpen, IsBulk, Delivers
<1>4. Cursor!Close
  BY <1>2 DEF Cursor!Close
<1>5. QED
  BY <1>3, <1>4 DEF CursorStep, Cursor!Next

(* A step to a bulk text closes the cursor.                                *)
LEMMA HiddenStep ==
  ASSUME ~Delivers'
  PROVE  CursorInv' /\ CursorStep
<1>1. ~IsOpen'
  BY DEF IsOpen
<1>2. Cursor!Close
  BY <1>1 DEF Cursor!Close, OpenAnswer, OpenPassed, Current, OpenFetched
<1>3. QED
  BY <1>2 DEF CursorInv, CursorStep, Cursor!Next

LEMMA EveryStepOfCursor ==
  ASSUME Inv, CursorInv, Delivers', [Next]_vars
  PROVE  CursorInv' /\ CursorStep
<1>1. CASE SQLFetch
  <2>1. CASE FetchThrows
    BY <2>1, KeepingCursor DEF FetchThrows, callerVars
  <2>2. mQuery' = mQuery
    BY <1>1
    DEF SQLFetch, FetchRow, FetchUnconvertible, FetchObjectError, FetchThrows,
        FetchNoData
  <2>3. Delivers
    BY <2>2 DEF Delivers
  <2>4. QED
    BY <1>1, <2>1, <2>3, MovedCursor, ErrorCursor, NoDataCursor DEF SQLFetch
<1>2. CASE UNCHANGED vars
  BY <1>2, KeepingCursor DEF vars, callerVars
<1>3. ASSUME NEW c \in 1..Columns, SQLBindCol(c)
      PROVE  CursorInv' /\ CursorStep
  BY <1>3, KeepingCursor DEF SQLBindCol, callerVars
<1>4. CASE UnbindColumns
  BY <1>4, KeepingCursor DEF UnbindColumns, callerVars
<1>5. QED
  BY <1>1, <1>2, <1>3, <1>4, TextCursor, ExecuteCursor, CatalogCursor,
     CloseCursorStep
  DEF Next

(* Searches, objects and catalog functions deliver the rows of their last  *)
(* execution in order, each once and none skipped.                         *)
THEOREM ImplementsForwardCursor == Spec => DeliversTheAnswer
<1>1. Init => CursorInv /\ Cursor!Init
  BY StatementAssumption
  DEF Init, CursorInv, NewResultSet, IsOpen, IsBulk, Cursor!Init, OpenAnswer,
      OpenPassed, Current, OpenFetched
<1>2. Inv /\ CursorInv /\ [Next]_vars => CursorInv' /\ CursorStep
  BY EveryStepOfCursor, HiddenStep
<1>3. QED
  BY <1>1, <1>2, StatementInvariant, PTL
  DEF Spec, DeliversTheAnswer, Cursor!Spec, CursorStep

=============================================================================
