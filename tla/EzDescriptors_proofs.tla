-------------------------- MODULE EzDescriptors_proofs --------------------------
(***************************************************************************)
(* Proofs about EzDescriptors, for any number of columns, any buffers and  *)
(* offsets, and answers of any length.                                     *)
(*                                                                         *)
(* The invariant relates the bindings the result set has to those the      *)
(* application knows of, and the null query to whether a query ever ran.   *)
(***************************************************************************)
EXTENDS EzDescriptors, TLAPS

DescriptorType ==
  /\ ard \in [mArraySize : Nat, mBindOffsetPtr : BOOLEAN,
              mDescDataPtrs : [Column -> Nat]]
  /\ ird \in [mRowsProcessedPtr : BOOLEAN, mArrayStatusPtr : BOOLEAN]
  /\ offset \in Nat

(* The columns of the result set are bound to what the application gave    *)
(* for this query.                                                         *)
BindingsAgree ==
  /\ given \in [Column -> {"no", "now", "before"}]
  /\ bound = {c \in Column : given[c] = "now"}

(* Once a query ran there is a query, and only without one there is a      *)
(* crash.                                                                  *)
QueryStays ==
  /\ ran => query # "none"
  /\ OnlyFreshStatementsCrash

Fetching == {"SQLFetch", "SQLFetchScroll", "SQLExtendedFetch"}

Inv == DescriptorType /\ BindingsAgree /\ QueryStays /\ BuffersOfThisQuery

-----------------------------------------------------------------------------
(* Where a row goes.                                                       *)

(* A buffer of the application has an address, wherever offsets move it.   *)
LEMMA PlaceIsNotNull ==
  ASSUME DescriptorType, NEW c \in Column, NEW fetching \in BOOLEAN
  PROVE  Written(c, fetching).value # Null
<1>1. Target[c] \in Nat /\ Target[c] > 0
  BY DescriptorAssumption
<1>2. ard.mDescDataPtrs[c] \in Nat
  BY DEF DescriptorType
<1>3. Adjust(fetching /\ ard.mBindOffsetPtr, offset, Target[c]) \in Nat
      /\ Adjust(fetching /\ ard.mBindOffsetPtr, offset, Target[c]) > 0
  BY <1>1 DEF Adjust, DescriptorType
<1>4. Place(c, fetching, Target[c]) > 0
  BY <1>2, <1>3 DEF Place, Adjust
<1>5. QED
  BY <1>4 DEF Written, Null

(* A call that is no fetch and leaves the bindings alone.                  *)
LEMMA QuietStep ==
  ASSUME Inv, UNCHANGED bindings, DescriptorType', lastCall'.fn \notin Fetching
  PROVE  Inv'
BY DEF Inv, BindingsAgree, QueryStays, OnlyFreshStatementsCrash, BuffersOfThisQuery,
       IsFetch, Fetching, bindings

LEMMA ReturnsIsNoFetch ==
  ASSUME NEW fn, NEW ret, fn \notin Fetching, Returns(fn, ret)
  PROVE  lastCall'.fn \notin Fetching
BY DEF Returns

(* A row: the buffers that are written are those of this query, all of     *)
(* them unless a value fails, and the status says which.                   *)
LEMMA FetchedStep ==
  ASSUME Inv, NEW fn \in Fetching, NEW failing \in bound \cup {0}, NEW told,
         DOMAIN told = {"rows", "status", "pcrow", "rgfRowStatus"},
         query # "none", ~crashed,
         Fetched(fn, failing, told)
  PROVE  Inv'
<1>1. DescriptorType'
  BY DEF Inv, DescriptorType, Fetched, settings
<1>2. BindingsAgree'
  BY DEF Inv, BindingsAgree, Fetched
<1>3. QueryStays'
  BY DEF Inv, QueryStays, OnlyFreshStatementsCrash, Fetched
<1>4. BuffersOfThisQuery'
  <2> DEFINE mine == {c \in Column : given[c] = "now"}
             until == {c \in bound : failing = 0 \/ c < failing}
             touched == {c \in Column : writes'[c] # None}
             written == {c \in Column : writes'[c].value # Null}
  <2>1. bound = mine /\ mine \subseteq Column /\ given' = given
    BY DEF Inv, BindingsAgree, Fetched
  <2>2. written = until /\ touched \subseteq mine
    <3>1. PICK indicated \in BOOLEAN :
            \A c \in Column :
              writes'[c] = IF c \in until THEN Written(c, TRUE)
                           ELSE IF c = failing THEN Refused(c, TRUE, indicated) ELSE None
      BY DEF Fetched
    <3>2. \A c \in Column : Written(c, TRUE).value # Null
      BY PlaceIsNotNull DEF Inv
    <3>3. None.value = Null /\ \A c : Refused(c, TRUE, indicated).value = Null
      BY DEF None, Refused
    <3>4. until \subseteq mine /\ (failing # 0 => failing \in mine)
      BY <2>1
    <3>5. mine \subseteq Column
      OBVIOUS
    <3>6. 0 \notin Column
      <4>1. \A n : 0 \notin 1 .. n
        OBVIOUS
      <4>2. QED
        BY <4>1, DescriptorAssumption, Zenon
    <3> HIDE DEF until, mine
    <3>7. \A c \in Column : writes'[c].value # Null <=> c \in until
      BY <3>1, <3>2, <3>3
    <3>8. \A c \in Column : writes'[c] # None => c \in until \/ c = failing
      BY <3>1
    <3>9. QED
      BY <3>4, <3>5, <3>6, <3>7, <3>8
  <2>3. lastCall' = [fn |-> fn, ret |-> IF failing = 0 THEN "SUCCESS" ELSE "ERROR"]
    BY DEF Fetched
  <2>4. IF failing = 0 THEN until = mine ELSE until \subseteq mine /\ until # mine
    <3>1. CASE failing = 0
      BY <2>1, <3>1
    <3>2. CASE failing # 0
      <4>1. failing \in mine /\ failing \in Int
        BY <2>1, <3>2, DescriptorAssumption
      <4>2. failing \notin until
        BY <3>2, <4>1
      <4>3. QED
        BY <2>1, <3>2, <4>1, <4>2
    <3>3. QED
      BY <3>1, <3>2
  <2>5. ird'.mArrayStatusPtr => (app'.status = "ROW_ERROR" <=> failing # 0)
    <3>1. ird' = ird
      BY DEF Fetched, settings
    <3>2. app'.status = RowStatus(failing, told.status)
      BY DEF Fetched
    <3>3. QED
      BY <3>1, <3>2 DEF RowStatus
  <2> HIDE DEF mine, until, touched, written
  <2>6. {c \in Column : given'[c] = "now"} = mine
    BY <2>1 DEF mine
  <2>7. touched \subseteq mine /\ (lastCall'.ret = "SUCCESS" <=> written = mine)
    BY <2>2, <2>3, <2>4
  <2>8. QED
    BY <2>3, <2>5, <2>6, <2>7 DEF BuffersOfThisQuery, touched, written
<1>5. QED
  BY <1>1, <1>2, <1>3, <1>4 DEF Inv

LEMMA NotFetchedStep ==
  ASSUME Inv, NEW fn, NEW told, query # "none", NotFetched(fn, told)
  PROVE  Inv'
<1>1. DescriptorType'
  BY DEF Inv, DescriptorType, NotFetched, settings
<1>2. BindingsAgree' /\ QueryStays'
  BY DEF Inv, BindingsAgree, QueryStays, OnlyFreshStatementsCrash, NotFetched
<1>3. BuffersOfThisQuery'
  BY DEF BuffersOfThisQuery, NotFetched
<1>4. QED
  BY <1>1, <1>2, <1>3 DEF Inv

-----------------------------------------------------------------------------
(* Every step.                                                             *)

LEMMA InitInv ==
  Init => Inv
<1> SUFFICES ASSUME Init PROVE Inv
  OBVIOUS
<1>1. DescriptorType
  BY DEF Init, InitArd, InitIrd, Null, DescriptorType
<1>2. BindingsAgree
  BY DEF Init, BindingsAgree
<1>3. QueryStays /\ BuffersOfThisQuery
  BY DEF Init, QueryStays, OnlyFreshStatementsCrash, BuffersOfThisQuery, IsFetch
<1>4. QED
  BY <1>1, <1>2, <1>3 DEF Inv

LEMMA SettingsStep ==
  ASSUME Inv,
         \/ SetFixedAttr
         \/ \E v \in ArraySize :
              \/ SetRowArraySize(v)
              \/ SetParamsetSize("SQLSetStmtAttr", v)
              \/ SetParamsetSize("SQLParamOptions", v)
         \/ SetPointerAttr \/ SQLSetDescField \/ CloseCursor
         \/ SQLFetchScrollElsewhere
  PROVE  Inv'
<1>1. UNCHANGED bindings
  BY DEF SetFixedAttr, SetRowArraySize, SetParamsetSize, SetPointerAttr, SQLSetDescField,
         CloseCursor, SQLFetchScrollElsewhere
<1>2. lastCall'.fn \notin Fetching
  BY DEF SetFixedAttr, SetRowArraySize, SetParamsetSize, SetPointerAttr, SQLSetDescField,
         CloseCursor, SQLFetchScrollElsewhere, Returns, Fetching
<1>3. DescriptorType'
  <2> USE DEF Inv, DescriptorType, settings
  <2>1. CASE SetFixedAttr \/ CloseCursor \/ SQLFetchScrollElsewhere
    BY <2>1 DEF SetFixedAttr, CloseCursor, SQLFetchScrollElsewhere
  <2>2. CASE \E v \in ArraySize : SetRowArraySize(v)
    BY <2>2 DEF SetRowArraySize
  <2>3. CASE \E v \in ArraySize : \/ SetParamsetSize("SQLSetStmtAttr", v)
                                 \/ SetParamsetSize("SQLParamOptions", v)
    BY <2>3, DescriptorAssumption DEF SetParamsetSize
  <2>4. CASE SetPointerAttr
    BY <2>4 DEF SetPointerAttr
  <2>5. CASE SQLSetDescField
    <3>1. UNCHANGED <<ird, offset>>
      BY <2>5 DEF SQLSetDescField
    <3>2. CASE ard' = ard
      BY <3>1, <3>2
    <3>3. ASSUME NEW c \in Column, NEW o \in Offset \cup {Null},
                 ard' = [ard EXCEPT !.mDescDataPtrs[c] = o]
          PROVE  DescriptorType'
      <4>1. o \in Nat
        BY DescriptorAssumption DEF Null
      <4>2. QED
        BY <3>1, <3>3, <4>1
    <3>4. QED
      BY <2>5, <3>2, <3>3 DEF SQLSetDescField
  <2>6. QED
    BY <2>1, <2>2, <2>3, <2>4, <2>5
<1>4. QED
  BY <1>1, <1>2, <1>3, QuietStep

LEMMA MoveOffsetStep ==
  ASSUME Inv, MoveOffset
  PROVE  Inv'
<1>1. DescriptorType'
  BY DescriptorAssumption DEF Inv, DescriptorType, MoveOffset, settings
<1>2. BindingsAgree' /\ QueryStays' /\ BuffersOfThisQuery'
  BY DEF Inv, BindingsAgree, QueryStays, OnlyFreshStatementsCrash, BuffersOfThisQuery,
         IsFetch, MoveOffset, bindings, settings
<1>3. QED
  BY <1>1, <1>2 DEF Inv

(* What a query, SQLBindCol and SQL_UNBIND do to the bindings, they do to  *)
(* the columns and to what the application knows of them.                  *)
LEMMA BindingsStep ==
  ASSUME Inv, ~crashed, NewQuery \/ Unbind \/ \E c \in Column : SQLBindCol(c)
  PROVE  Inv'
<1>1. DescriptorType'
  BY DEF Inv, DescriptorType, NewQuery, Unbind, SQLBindCol, Crash, settings
<1>2. lastCall'.fn \notin Fetching
  BY DEF NewQuery, Unbind, SQLBindCol, Crash, Returns, Fetching
<1>3. BuffersOfThisQuery'
  BY <1>2 DEF BuffersOfThisQuery, IsFetch, Fetching
<1>4. BindingsAgree'
  <2> USE DEF Inv, BindingsAgree
  <2>1. CASE NewQuery
    BY <2>1 DEF NewQuery, Age
  <2>2. CASE Unbind
    BY <2>2 DEF Unbind, UnbindColumns, Crash
  <2>3. CASE \E c \in Column : SQLBindCol(c)
    <3> PICK c \in Column : SQLBindCol(c)
      BY <2>3
    <3>1. \/ UNCHANGED <<bound, given>>
          \/ bound' = bound \cup {c} /\ given' = [given EXCEPT ![c] = "now"]
      BY DEF SQLBindCol, Crash
    <3>2. QED
      BY <3>1
  <2>4. QED
    BY <2>1, <2>2, <2>3
<1>5. QueryStays'
  BY DEF Inv, QueryStays, OnlyFreshStatementsCrash, NewQuery, Unbind, SQLBindCol, Crash
<1>6. QED
  BY <1>1, <1>3, <1>4, <1>5 DEF Inv

LEMMA FetchStep ==
  ASSUME Inv, ~crashed,
         SQLFetch("SQLFetch") \/ SQLFetch("SQLFetchScroll") \/ SQLExtendedFetch
  PROVE  Inv'
<1>1. ASSUME NEW fn \in Fetching, SQLFetch(fn) PROVE Inv'
  <2>1. query # "none"
    BY <1>1 DEF SQLFetch
  <2>2. CASE NotFetched(fn, Untold)
    BY <2>1, <2>2, NotFetchedStep
  <2>3. CASE \E failing \in bound \cup {0} : Fetched(fn, failing, Untold)
    BY <2>1, <2>3, FetchedStep DEF Untold
  <2>4. QED
    BY <1>1, <2>2, <2>3 DEF SQLFetch
<1>2. CASE SQLExtendedFetch
  <2>1. query # "none"
    BY <1>2 DEF SQLExtendedFetch
  <2>2. CASE NotFetched("SQLExtendedFetch", ToldByExtendedFetch("NO_DATA"))
    BY <2>1, <2>2, NotFetchedStep
  <2>3. ASSUME NEW failing \in bound \cup {0}, NEW ret,
               Fetched("SQLExtendedFetch", failing, ToldByExtendedFetch(ret))
        PROVE  Inv'
    <3> DEFINE told == ToldByExtendedFetch(ret)
    <3>1. DOMAIN told = {"rows", "status", "pcrow", "rgfRowStatus"}
      BY DEF ToldByExtendedFetch, Untold
    <3>2. "SQLExtendedFetch" \in Fetching
      BY DEF Fetching
    <3>3. Fetched("SQLExtendedFetch", failing, told)
      BY <2>3
    <3> HIDE DEF told
    <3>4. QED
      BY <2>1, <3>1, <3>2, <3>3, FetchedStep
  <2>4. \/ NotFetched("SQLExtendedFetch", ToldByExtendedFetch("NO_DATA"))
        \/ \E failing \in bound \cup {0}, ret \in {"SUCCESS", "ERROR"} :
             Fetched("SQLExtendedFetch", failing, ToldByExtendedFetch(ret))
    BY <1>2 DEF SQLExtendedFetch
  <2>5. QED
    BY <2>2, <2>3, <2>4
<1>3. QED
  BY <1>1, <1>2 DEF Fetching

LEMMA GetDataStep ==
  ASSUME Inv, NEW c \in Column, SQLGetData(c)
  PROVE  Inv'
<1>1. UNCHANGED bindings
  BY DEF SQLGetData
<1>2. lastCall'.fn \notin Fetching
  <2>1. PICK ret \in {"SUCCESS", "ERROR"} : lastCall' = [fn |-> "SQLGetData", ret |-> ret]
    BY DEF SQLGetData
  <2>2. QED
    BY <2>1 DEF Fetching
<1>3. DescriptorType'
  BY DEF Inv, DescriptorType, SQLGetData, settings
<1>4. QED
  BY <1>1, <1>2, <1>3, QuietStep

LEMMA NextInv ==
  Inv /\ [Next]_vars => Inv'
<1> SUFFICES ASSUME Inv, [Next]_vars PROVE Inv'
  OBVIOUS
<1>1. CASE UNCHANGED vars
  BY <1>1 DEF Inv, DescriptorType, BindingsAgree, QueryStays, OnlyFreshStatementsCrash,
              BuffersOfThisQuery, IsFetch, vars, settings, bindings
<1>2. CASE Next
  BY <1>2, SettingsStep, MoveOffsetStep, BindingsStep, FetchStep, GetDataStep DEF Next
<1>3. QED
  BY <1>1, <1>2

THEOREM DescriptorInvariant == Spec => []Inv
BY InitInv, NextInv, PTL DEF Spec

(* A fetch writes into the buffers of this query, into all of them when it *)
(* succeeds, and its row status says whether it did.                       *)
THEOREM FetchesFillTheirBuffers == Spec => []BuffersOfThisQuery
<1>1. Inv => BuffersOfThisQuery
  BY DEF Inv
<1>2. QED
  BY <1>1, DescriptorInvariant, PTL

(* Once a query ran, no call meets the null result set.                    *)
THEOREM NullResultSetIsFresh == Spec => []OnlyFreshStatementsCrash
<1>1. Inv => OnlyFreshStatementsCrash
  BY DEF Inv, QueryStays
<1>2. QED
  BY <1>1, DescriptorInvariant, PTL

-----------------------------------------------------------------------------
(* Offsets.                                                                *)

(* An offset adds to an address; an address no pointer moves stays.        *)
LEMMA WrittenAtOffset ==
  ASSUME NEW c \in Column, NEW fetching \in BOOLEAN, ard.mDescDataPtrs[c] = Null, DescriptorType
  PROVE  LET by == IF fetching /\ ard.mBindOffsetPtr THEN offset ELSE 0
         IN  \A w : \/ w = Written(c, fetching)
                    \/ w # None /\ \E indicated \in BOOLEAN : w = Refused(c, fetching, indicated)
                => w.value \in {Null, Target[c] + by} /\ w.indicator = Indicator[c] + by
<1> DEFINE by == IF fetching /\ ard.mBindOffsetPtr THEN offset ELSE 0
<1>1. /\ Place(c, fetching, Target[c]) = Target[c] + by
      /\ Place(c, fetching, Indicator[c]) = Indicator[c] + by
  BY DescriptorAssumption DEF Place, Adjust, DescriptorType
<1> HIDE DEF by
<1>2. /\ Written(c, fetching).value = Target[c] + by
      /\ Written(c, fetching).indicator = Indicator[c] + by
  BY <1>1 DEF Written
<1>3. ASSUME NEW indicated \in BOOLEAN, Refused(c, fetching, indicated) # None
      PROVE  /\ Refused(c, fetching, indicated).value = Null
             /\ Refused(c, fetching, indicated).indicator = Indicator[c] + by
  BY <1>1, <1>3 DEF Refused
<1>4. QED
  BY <1>2, <1>3 DEF by

(* One step of OffsetOfTheMoment.                                          *)
AtTheOffset ==
  \A c \in Column : writes'[c] # None /\ ard.mDescDataPtrs[c] = Null =>
    \/ UNCHANGED writes
    \/ LET by == IF lastCall'.fn # "SQLGetData" /\ ard.mBindOffsetPtr THEN offset ELSE 0
       IN  /\ writes'[c].value \in {Null, Target[c] + by}
           /\ writes'[c].indicator = Indicator[c] + by

LEMMA NothingWritten ==
  ASSUME writes' = NoWrites
  PROVE  AtTheOffset
BY DEF NoWrites, AtTheOffset

LEMMA FetchWritesAtOffset ==
  ASSUME Inv, NEW fn \in Fetching, NEW failing, NEW told, Fetched(fn, failing, told)
  PROVE  AtTheOffset
<1> SUFFICES ASSUME NEW c \in Column, writes'[c] # None, ard.mDescDataPtrs[c] = Null
             PROVE  LET by == IF lastCall'.fn # "SQLGetData" /\ ard.mBindOffsetPtr
                              THEN offset ELSE 0
                    IN  /\ writes'[c].value \in {Null, Target[c] + by}
                        /\ writes'[c].indicator = Indicator[c] + by
  BY DEF AtTheOffset
<1>1. writes'[c] = Written(c, TRUE)
        \/ \E indicated \in BOOLEAN : writes'[c] = Refused(c, TRUE, indicated)
  BY DEF Fetched
<1>2. lastCall'.fn # "SQLGetData"
  BY DEF Fetched, Fetching
<1>3. QED
  BY <1>1, <1>2, WrittenAtOffset DEF Inv

LEMMA GetDataWritesInPlace ==
  ASSUME Inv, NEW d \in Column, SQLGetData(d)
  PROVE  AtTheOffset
<1> SUFFICES ASSUME NEW c \in Column, writes'[c] # None, ard.mDescDataPtrs[c] = Null
             PROVE  LET by == IF lastCall'.fn # "SQLGetData" /\ ard.mBindOffsetPtr
                              THEN offset ELSE 0
                    IN  /\ writes'[c].value \in {Null, Target[c] + by}
                        /\ writes'[c].indicator = Indicator[c] + by
  BY DEF AtTheOffset
<1>1. writes'[c] = Written(c, FALSE)
        \/ \E indicated \in BOOLEAN : writes'[c] = Refused(c, FALSE, indicated)
  BY DEF SQLGetData, NoWrites
<1>2. lastCall'.fn = "SQLGetData"
  <2>1. PICK ret \in {"SUCCESS", "ERROR"} : lastCall' = [fn |-> "SQLGetData", ret |-> ret]
    BY DEF SQLGetData
  <2>2. QED
    BY <2>1
<1>3. QED
  BY <1>1, <1>2, WrittenAtOffset DEF Inv

(* However pointer and variable changed since a column was bound, a fetch  *)
(* writes at the offset of the moment, and SQLGetData at none.             *)
THEOREM OffsetIsOfTheMoment == Spec => OffsetOfTheMoment
<1>1. Inv /\ [Next]_vars => [AtTheOffset]_vars
  <2> SUFFICES ASSUME Inv, Next PROVE AtTheOffset
    OBVIOUS
  <2>1. ASSUME NEW fn \in Fetching, SQLFetch(fn) PROVE AtTheOffset
    BY <2>1, NothingWritten, FetchWritesAtOffset DEF SQLFetch, NotFetched
  <2>2. CASE SQLExtendedFetch
    <3>1. "SQLExtendedFetch" \in Fetching
      BY DEF Fetching
    <3>2. QED
      BY <2>2, <3>1, NothingWritten, FetchWritesAtOffset DEF SQLExtendedFetch, NotFetched
  <2>3. CASE \E c \in Column : SQLGetData(c)
    BY <2>3, GetDataWritesInPlace
  <2>4. CASE MoveOffset
    BY <2>4 DEF MoveOffset, AtTheOffset
  <2>5. CASE NewQuery \/ Unbind \/ \E c \in Column : SQLBindCol(c)
    BY <2>5, NothingWritten DEF NewQuery, Unbind, SQLBindCol, Crash, Returns
  <2>6. CASE \/ SetFixedAttr
             \/ \E v \in ArraySize :
                  \/ SetRowArraySize(v)
                  \/ SetParamsetSize("SQLSetStmtAttr", v)
                  \/ SetParamsetSize("SQLParamOptions", v)
             \/ SetPointerAttr \/ SQLSetDescField \/ CloseCursor
             \/ SQLFetchScrollElsewhere
    <3>1. writes' = NoWrites
      BY <2>6 DEF SetFixedAttr, SetRowArraySize, SetParamsetSize, SetPointerAttr,
                  SQLSetDescField, CloseCursor, SQLFetchScrollElsewhere, Returns
    <3>2. QED
      BY <3>1, NothingWritten
  <2>7. QED
    BY <2>1, <2>2, <2>3, <2>4, <2>5, <2>6 DEF Next, Fetching
<1>2. Spec => [][AtTheOffset]_vars
  BY <1>1, DescriptorInvariant, PTL DEF Spec
<1>3. QED
  BY <1>2 DEF OffsetOfTheMoment, AtTheOffset

================================================================================
