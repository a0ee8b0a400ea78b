--------------------------- MODULE EzHandles_proofs ---------------------------
(***************************************************************************)
(* Proofs about the handles: for any number of environments, connections,  *)
(* statements and sessions.                                                *)
(***************************************************************************)
EXTENDS EzHandles, TLAPS

(***************************************************************************)
(* Whoever calls: types, the handle tree, and the view of the session.     *)
(***************************************************************************)

(* One conjunct of TypeOK that a login or a logout can disturb.            *)
LEMMA LoginType ==
  ASSUME TypeOK, NEW d \in Dbc, login(d),
         UNCHANGED <<treeVars, queryVars, crashed>>
  PROVE  TypeOK'
<1> USE DEF TypeOK, treeVars, queryVars
<1>1. CASE LoginRefused(d)
  BY <1>1 DEF LoginRefused
<1>2. ASSUME NEW x \in Session, LoginSucceeds(d, x) PROVE TypeOK'
  BY <1>2 DEF LoginSucceeds
<1>3. ASSUME NEW x \in Session, LoginThrows(d, x) PROVE TypeOK'
  BY <1>3 DEF LoginThrows
<1>4. QED
  BY <1>1, <1>2, <1>3 DEF login

LEMMA DisconnectType ==
  ASSUME TypeOK, NEW d \in Dbc, SQLDisconnect(d)
  PROVE  TypeOK'
BY DEF TypeOK, SQLDisconnect, LogoutSucceeds, LogoutThrows, treeVars, queryVars

LEMMA StmtStepType ==
  ASSUME TypeOK, NEW s \in Stmt, StmtStep(s)
  PROVE  TypeOK'
<1> USE DEF TypeOK, treeVars, sessionVars, queryVars
<1>1. CASE SQLFreeStmt(s)
  BY <1>1 DEF SQLFreeStmt, QueryKind
<1>2. CASE SQLPrepare(s)
  BY <1>2 DEF SQLPrepare, Becomes, QueryKind
<1>3. CASE CatalogCall(s)
  BY <1>3 DEF CatalogCall, Becomes, QueryKind
<1>4. CASE SQLGetTypeInfo(s)
  BY <1>4 DEF SQLGetTypeInfo, Becomes, QueryKind
<1>5. CASE SQLExecute(s)
  BY <1>5 DEF SQLExecute
<1>6. CASE ReadColumn(s)
  BY <1>6 DEF ReadColumn
<1>7. QED
  BY <1>1, <1>2, <1>3, <1>4, <1>5, <1>6 DEF StmtStep

LEMMA StepType ==
  ASSUME TypeOK, [Next]_vars
  PROVE  TypeOK'
<1> USE DEF treeVars, sessionVars, queryVars
<1>1. ASSUME NEW e \in Env, EnvStep(e) PROVE TypeOK'
  BY <1>1 DEF EnvStep, SQLAllocEnv, SQLFreeEnv, SQLAllocConnect, TypeOK
<1>2. ASSUME NEW d \in Dbc, DbcStep(d) PROVE TypeOK'
  <2>1. CASE SQLConnect(d) \/ SQLDriverConnect(d)
    BY <2>1, LoginType DEF SQLConnect, SQLDriverConnect
  <2>2. CASE SQLDisconnect(d)
    BY <2>2, DisconnectType
  <2>3. CASE SQLFreeConnect(d)
    BY <2>3 DEF SQLFreeConnect, TypeOK
  <2>4. ASSUME NEW s \in Stmt, SQLAllocStmt(d, s) PROVE TypeOK'
    BY <2>4 DEF SQLAllocStmt, TypeOK
  <2>5. QED
    BY <1>2, <2>1, <2>2, <2>3, <2>4 DEF DbcStep
<1>3. ASSUME NEW x \in Session, ServerExpires(x) PROVE TypeOK'
  BY <1>3 DEF ServerExpires, TypeOK
<1>4. CASE UNCHANGED vars
  BY <1>4 DEF vars, TypeOK
<1>5. QED
  BY <1>1, <1>2, <1>3, <1>4, StmtStepType DEF Next

(* The variables keep their types in every execution.                      *)
THEOREM TypeCorrect == Spec => []TypeOK
<1>1. Init => TypeOK
  BY DEF Init, TypeOK, QueryKind
<1>2. TypeOK /\ [Next]_vars => TypeOK'
  BY StepType
<1>3. QED
  BY <1>1, <1>2, PTL DEF Spec

(* NoOrphans and ViewOfSession are inductive together: that a freed        *)
(* connection holds no session is what login may rely on after the next    *)
(* SQLAllocConnect.                                                        *)
HandleInv == TypeOK /\ NoOrphans /\ ViewOfSession

(* A login works on an allocated connection: the tree is left alone and    *)
(* both pointers get the same value.                                       *)
LEMMA LoginKeepsTree ==
  ASSUME HandleInv, NEW d \in Dbc, mEnv[d] # Nil, login(d), UNCHANGED treeVars
  PROVE  NoOrphans' /\ ViewOfSession'
<1>1. /\ \A c \in Dbc : mEnv'[c] = Nil => mRetsSessionPtr'[c] = Nil
      /\ ViewOfSession'
  <2> USE DEF HandleInv, TypeOK, NoOrphans, ViewOfSession, treeVars
  <2>1. CASE LoginRefused(d)
    BY <2>1 DEF LoginRefused
  <2>2. ASSUME NEW x \in Session, LoginSucceeds(d, x) \/ LoginThrows(d, x)
        PROVE  /\ \A c \in Dbc : mEnv'[c] = Nil => mRetsSessionPtr'[c] = Nil
               /\ ViewOfSession'
    BY <2>2 DEF LoginSucceeds, LoginThrows
  <2>3. QED
    BY <2>1, <2>2 DEF login
<1>2. QED
  BY <1>1 DEF HandleInv, NoOrphans, treeVars

LEMMA DbcStepKeepsTree ==
  ASSUME HandleInv, NEW d \in Dbc, DbcStep(d)
  PROVE  NoOrphans' /\ ViewOfSession'
<1> USE HandlesAssumption
    DEF HandleInv, TypeOK, NoOrphans, ViewOfSession, treeVars, queryVars
<1>1. CASE SQLConnect(d) \/ SQLDriverConnect(d)
  BY <1>1, LoginKeepsTree DEF SQLConnect, SQLDriverConnect
<1>2. CASE SQLDisconnect(d)
  BY <1>2 DEF SQLDisconnect, LogoutSucceeds, LogoutThrows
<1>3. CASE SQLFreeConnect(d)
  BY <1>3 DEF SQLFreeConnect, DbcCanBeFreed
<1>4. ASSUME NEW s \in Stmt, SQLAllocStmt(d, s)
      PROVE  NoOrphans' /\ ViewOfSession'
  BY <1>4 DEF SQLAllocStmt, sessionVars
<1>5. QED
  BY <1>1, <1>2, <1>3, <1>4 DEF DbcStep

LEMMA StmtStepKeepsTree ==
  ASSUME HandleInv, NEW s \in Stmt, StmtStep(s)
  PROVE  NoOrphans' /\ ViewOfSession'
<1> USE HandlesAssumption
    DEF HandleInv, TypeOK, NoOrphans, ViewOfSession, treeVars, sessionVars
<1>1. CASE SQLFreeStmt(s)
  BY <1>1 DEF SQLFreeStmt
<1>2. CASE \/ SQLPrepare(s) \/ CatalogCall(s) \/ SQLGetTypeInfo(s)
           \/ SQLExecute(s) \/ ReadColumn(s)
  BY <1>2 DEF SQLPrepare, CatalogCall, SQLGetTypeInfo, SQLExecute, ReadColumn
<1>3. QED
  BY <1>1, <1>2 DEF StmtStep

LEMMA StepKeepsTree ==
  ASSUME HandleInv, [Next]_vars
  PROVE  HandleInv'
<1>1. TypeOK'
  BY StepType DEF HandleInv
<1>2. ASSUME NEW e \in Env, EnvStep(e) PROVE NoOrphans' /\ ViewOfSession'
  BY <1>2, HandlesAssumption
  DEF EnvStep, SQLAllocEnv, SQLFreeEnv, SQLAllocConnect, EnvCanBeFreed,
      HandleInv, TypeOK, NoOrphans, ViewOfSession, sessionVars
<1>3. ASSUME NEW x \in Session, ServerExpires(x)
      PROVE  NoOrphans' /\ ViewOfSession'
  BY <1>3 DEF ServerExpires, HandleInv, NoOrphans, ViewOfSession, treeVars
<1>4. CASE UNCHANGED vars
  BY <1>4 DEF vars, treeVars, sessionVars, HandleInv, TypeOK,
     NoOrphans, ViewOfSession, queryVars
<1>5. QED
  BY <1>1, <1>2, <1>3, <1>4, DbcStepKeepsTree, StmtStepKeepsTree
  DEF Next, HandleInv

LEMMA HandleInvariant == Spec => []HandleInv
<1>1. Init => HandleInv
  BY HandlesAssumption
  DEF Init, HandleInv, TypeOK, QueryKind, NoOrphans, ViewOfSession
<1>2. HandleInv /\ [Next]_vars => HandleInv'
  BY StepKeepsTree
<1>3. QED
  BY <1>1, <1>2, PTL DEF Spec

(* canBeFreed protects every delete: no handle outlives its parent and the *)
(* lists agree with the back pointers, with or without a driver manager.   *)
THEOREM NoHandleIsOrphaned == Spec => []NoOrphans
<1>1. HandleInv => NoOrphans
  BY DEF HandleInv
<1>2. QED
  BY <1>1, HandleInvariant, PTL

(* The metadata view of a connection always belongs to its session.        *)
THEOREM ViewIsOfSession == Spec => []ViewOfSession
<1>1. HandleInv => ViewOfSession
  BY DEF HandleInv
<1>2. QED
  BY <1>1, HandleInvariant, PTL

(***************************************************************************)
(* Behind a driver manager.  What the manager was told is what is, and a   *)
(* statement keeps the session it was prepared under: a session can only   *)
(* appear on a connection without one, which then has no statement, and    *)
(* only disappear from a connection without statements.                    *)
(***************************************************************************)
FreedHoldNoQuery == \A s \in Stmt : mDbc[s] = Nil => mQuery[s] = "null"

ServedInv ==
  /\ FreedHoldNoQuery
  /\ ManagerAgrees
  /\ StatementsAreServed
  /\ NeverCrashes

ManagedInv == HandleInv /\ ServedInv

LEMMA ManagedDbcStep ==
  ASSUME Managed, ManagedInv, HandleInv', NEW d \in Dbc, DbcStep(d)
  PROVE  ServedInv'
<1> USE HandlesAssumption
    DEF ManagedInv, ServedInv, FreedHoldNoQuery, HandleInv, TypeOK,
        NoOrphans, ManagerAgrees,
        StatementsAreServed, NeverCrashes, treeVars, queryVars, ManagerPermits
<1>1. ASSUME login(d), ManagerPermits(d, FALSE),
             UNCHANGED <<treeVars, queryVars, crashed>>
      PROVE  ServedInv'
  <2>1. mRetsSessionPtr[d] = Nil
    BY <1>1
  <2>2. \A s \in Stmt : mDbc[s] # d
    BY <2>1
  <2>3. /\ ManagerAgrees'
        /\ \A c \in Dbc \ {d} : mRetsSessionPtr'[c] = mRetsSessionPtr[c]
    <3>1. CASE LoginRefused(d)
      BY <3>1, <2>1 DEF LoginRefused
    <3>2. ASSUME NEW x \in Session, LoginSucceeds(d, x) \/ LoginThrows(d, x)
          PROVE  /\ ManagerAgrees'
                 /\ \A c \in Dbc \ {d} :
                      mRetsSessionPtr'[c] = mRetsSessionPtr[c]
      <4>1. \A c \in Dbc \ {d} : /\ mRetsSessionPtr'[c] = mRetsSessionPtr[c]
                                 /\ told'[c] = told[c]
        BY <3>2 DEF LoginSucceeds, LoginThrows
      <4>2. CASE LoginSucceeds(d, x)
        BY <4>1, <4>2 DEF LoginSucceeds
      <4>3. CASE LoginThrows(d, x)
        BY <4>1, <4>3 DEF LoginThrows
      <4>4. QED
        BY <3>2, <4>1, <4>2, <4>3
    <3>3. QED
      BY <1>1, <3>1, <3>2 DEF login
  <2>4. QED
    BY <1>1, <2>2, <2>3
<1>2. CASE SQLConnect(d) \/ SQLDriverConnect(d)
  BY <1>1, <1>2 DEF SQLConnect, SQLDriverConnect
<1>3. CASE SQLDisconnect(d)
  BY <1>3 DEF SQLDisconnect, LogoutSucceeds, LogoutThrows
<1>4. CASE SQLFreeConnect(d)
  BY <1>4 DEF SQLFreeConnect, DbcCanBeFreed
<1>5. ASSUME NEW s \in Stmt, SQLAllocStmt(d, s)
      PROVE  ServedInv'
  BY <1>5 DEF SQLAllocStmt, sessionVars
<1>6. QED
  BY <1>2, <1>3, <1>4, <1>5 DEF DbcStep

LEMMA ManagedStmtStep ==
  ASSUME Managed, ManagedInv, NEW s \in Stmt, StmtStep(s)
  PROVE  ServedInv'
<1> USE HandlesAssumption
    DEF ManagedInv, ServedInv, FreedHoldNoQuery, HandleInv, TypeOK,
        NoOrphans, ViewOfSession,
        ManagerAgrees, StatementsAreServed, NeverCrashes, treeVars,
        sessionVars, queryVars, Becomes
<1>1. CASE SQLFreeStmt(s)
  BY <1>1 DEF SQLFreeStmt
<1>2. CASE SQLPrepare(s)
  BY <1>2 DEF SQLPrepare
<1>3. CASE CatalogCall(s)
  BY <1>3 DEF CatalogCall
<1>4. CASE SQLGetTypeInfo(s)
  BY <1>4 DEF SQLGetTypeInfo
<1>5. CASE SQLExecute(s)
  BY <1>5 DEF SQLExecute
<1>6. CASE ReadColumn(s)
  BY <1>6 DEF ReadColumn
<1>7. QED
  BY <1>1, <1>2, <1>3, <1>4, <1>5, <1>6 DEF StmtStep

LEMMA ManagedStep ==
  ASSUME Managed, ManagedInv, [Next]_vars
  PROVE  ManagedInv'
<1>1. HandleInv'
  BY StepKeepsTree DEF ManagedInv
<1>2. ASSUME NEW e \in Env, EnvStep(e)
      PROVE  ServedInv'
  BY <1>2, HandlesAssumption
  DEF EnvStep, SQLAllocEnv, SQLFreeEnv, SQLAllocConnect, ManagedInv,
      ServedInv, FreedHoldNoQuery,
      ManagerAgrees, StatementsAreServed, NeverCrashes, sessionVars, queryVars
<1>3. ASSUME NEW x \in Session, ServerExpires(x)
      PROVE  ServedInv'
  BY <1>3 DEF ServerExpires, ManagedInv, ServedInv, FreedHoldNoQuery,
     ManagerAgrees, StatementsAreServed,
     NeverCrashes, treeVars, queryVars
<1>4. CASE UNCHANGED vars
  <2>1. /\ told' = told /\ mRetsSessionPtr' = mRetsSessionPtr /\ mDbc' = mDbc
        /\ mQuery' = mQuery /\ origin' = origin /\ crashed' = crashed
    BY <1>4 DEF vars, treeVars, sessionVars, queryVars
  <2>2. QED
    <3>1. FreedHoldNoQuery'
      BY <2>1 DEF ManagedInv, ServedInv, FreedHoldNoQuery
    <3>2. ManagerAgrees'
      BY <2>1, Zenon DEF ManagedInv, ServedInv, ManagerAgrees
    <3>3. StatementsAreServed'
      BY <2>1 DEF ManagedInv, ServedInv, StatementsAreServed
    <3>4. NeverCrashes'
      BY <2>1, Zenon DEF ManagedInv, ServedInv, NeverCrashes
    <3>5. QED
      BY <1>1, <3>1, <3>2, <3>3, <3>4 DEF ManagedInv, ServedInv
<1>5. QED
  BY <1>1, <1>2, <1>3, <1>4, ManagedDbcStep, ManagedStmtStep
  DEF Next, ManagedInv

LEMMA ManagedInvariant == ASSUME Managed PROVE Spec => []ManagedInv
<1>1. Init => ManagedInv
  BY HandlesAssumption
  DEF Init, ManagedInv, ServedInv, FreedHoldNoQuery, HandleInv, TypeOK,
      QueryKind, NoOrphans,
      ViewOfSession, ManagerAgrees, StatementsAreServed, NeverCrashes
<1>2. ManagedInv /\ [Next]_vars => ManagedInv'
  BY ManagedStep
<1>3. QED
  BY <1>1, <1>2, PTL DEF Spec

(* Return codes tell the whole truth about the session.                    *)
THEOREM ReturnCodesAreTrue == ASSUME Managed PROVE Spec => []ManagerAgrees
<1>1. ManagedInv => ManagerAgrees
  BY DEF ManagedInv, ServedInv
<1>2. QED
  BY <1>1, ManagedInvariant, PTL

(* A statement never outlives the session it was prepared under.           *)
THEOREM StatementsKeepTheirSession ==
  ASSUME Managed PROVE Spec => []StatementsAreServed
<1>1. ManagedInv => StatementsAreServed
  BY DEF ManagedInv, ServedInv
<1>2. QED
  BY <1>1, ManagedInvariant, PTL

(* No call follows a pointer its connection has lost.                      *)
THEOREM NoLostPointer == ASSUME Managed PROVE Spec => []NeverCrashes
<1>1. ManagedInv => NeverCrashes
  BY DEF ManagedInv, ServedInv
<1>2. QED
  BY <1>1, ManagedInvariant, PTL

(***************************************************************************)
(* A step of one connection leaves the others as they are.                 *)
(***************************************************************************)
Rest(d) ==
  \A c \in Dbc \ {d} :
    /\ mEnv'[c] = mEnv[c]
    /\ mRetsSessionPtr'[c] = mRetsSessionPtr[c]
    /\ mStatements'[c] = mStatements[c]

LEMMA DbcStepIsLocal ==
  ASSUME HandleInv, NEW d \in Dbc, DbcStep(d)
  PROVE  Rest(d)
<1> USE DEF HandleInv, TypeOK, Rest, treeVars, sessionVars
<1>1. ASSUME login(d), UNCHANGED treeVars
      PROVE  Rest(d)
  BY <1>1 DEF login, LoginRefused, LoginSucceeds, LoginThrows
<1>2. CASE SQLConnect(d) \/ SQLDriverConnect(d)
  BY <1>1, <1>2 DEF SQLConnect, SQLDriverConnect
<1>3. CASE SQLDisconnect(d)
  BY <1>3 DEF SQLDisconnect, LogoutSucceeds, LogoutThrows
<1>4. CASE SQLFreeConnect(d)
  BY <1>4 DEF SQLFreeConnect
<1>5. ASSUME NEW s \in Stmt, SQLAllocStmt(d, s)
      PROVE  Rest(d)
  BY <1>5 DEF SQLAllocStmt
<1>6. QED
  BY <1>2, <1>3, <1>4, <1>5 DEF DbcStep

(* Only SQLDisconnect takes a session from a connection a manager knows.   *)
LEMMA OnlyDisconnectReleases ==
  ASSUME Managed, ManagedInv, NEW d \in Dbc, DbcStep(d),
         mRetsSessionPtr[d] \notin {Nil, mRetsSessionPtr'[d]}
  PROVE  mRetsSessionPtr[d] \notin serverSessions'
<1> USE DEF ManagedInv, ServedInv, HandleInv, TypeOK, ManagerAgrees,
            ManagerPermits, sessionVars
<1>1. CASE SQLConnect(d) \/ SQLDriverConnect(d)
  BY <1>1 DEF SQLConnect, SQLDriverConnect
<1>2. CASE SQLDisconnect(d)
  BY <1>2 DEF SQLDisconnect, LogoutSucceeds, LogoutThrows
<1>3. CASE SQLFreeConnect(d)
  BY <1>3 DEF SQLFreeConnect
<1>4. ASSUME NEW s \in Stmt, SQLAllocStmt(d, s)
      PROVE  mRetsSessionPtr[d] \notin serverSessions'
  BY <1>4 DEF SQLAllocStmt
<1>5. QED
  BY <1>1, <1>2, <1>3, <1>4 DEF DbcStep

(* A connection gives up a session only when the server no longer has it.  *)
THEOREM SessionsAreLoggedOut ==
  ASSUME Managed PROVE Spec => ReleasedByLogout
<1> DEFINE Released ==
      \A d \in Dbc :
        mRetsSessionPtr[d] \notin {Nil, mRetsSessionPtr'[d]}
          => mRetsSessionPtr[d] \notin serverSessions'
<1>1. ManagedInv /\ [Next]_vars => [Released]_vars
  <2> SUFFICES ASSUME ManagedInv, Next, NEW d \in Dbc,
                      mRetsSessionPtr[d] \notin {Nil, mRetsSessionPtr'[d]}
               PROVE  mRetsSessionPtr[d] \notin serverSessions'
    OBVIOUS
  <2>1. CASE \E e \in Env : EnvStep(e)
    BY <2>1 DEF EnvStep, SQLAllocEnv, SQLFreeEnv, SQLAllocConnect, sessionVars
  <2>2. ASSUME NEW c \in Dbc, DbcStep(c)
        PROVE  mRetsSessionPtr[d] \notin serverSessions'
    <3>1. CASE c = d
      BY <2>2, <3>1, OnlyDisconnectReleases
    <3>2. CASE c # d
      BY <2>2, <3>2, DbcStepIsLocal DEF ManagedInv, Rest
    <3>3. QED
      BY <3>1, <3>2
  <2>3. CASE \E s \in Stmt : StmtStep(s)
    BY <2>3 DEF StmtStep, SQLFreeStmt, SQLPrepare, CatalogCall,
       SQLGetTypeInfo, SQLExecute, ReadColumn, sessionVars
  <2>4. CASE \E x \in Session : ServerExpires(x)
    BY <2>4 DEF ServerExpires
  <2>5. QED
    BY <2>1, <2>2, <2>3, <2>4 DEF Next
<1>2. QED
  BY <1>1, ManagedInvariant, PTL DEF Spec, ReleasedByLogout

(***************************************************************************)
(* The refinement of the ODBC connection states.                           *)
(***************************************************************************)
Bar == [d \in Dbc |-> ConnectionState(d)]

LEMMA StateCases ==
  ASSUME NEW d \in Dbc
  PROVE  /\ mEnv[d] = Nil => Bar[d] = "C1"
         /\ mEnv[d] # Nil /\ mRetsSessionPtr[d] = Nil => Bar[d] = "C2"
         /\ mEnv[d] # Nil /\ mRetsSessionPtr[d] # Nil =>
              Bar[d] = IF mStatements[d] = {} THEN "C4" ELSE "C5"
BY DEF Bar, ConnectionState

LEMMA StateCasesNext ==
  ASSUME NEW d \in Dbc
  PROVE  /\ mEnv'[d] = Nil => Bar'[d] = "C1"
         /\ mEnv'[d] # Nil /\ mRetsSessionPtr'[d] = Nil => Bar'[d] = "C2"
         /\ mEnv'[d] # Nil /\ mRetsSessionPtr'[d] # Nil =>
              Bar'[d] = IF mStatements'[d] = {} THEN "C4" ELSE "C5"
BY DEF Bar, ConnectionState

(* A change of one connection, along an edge of the diagram or to itself,  *)
(* is a step of the abstract specification.                                *)
LEMMA OneConnectionMoves ==
  ASSUME NEW d \in Dbc, Rest(d),
         <<Bar[d], Bar'[d]>> \in Odbc!Moves \/ Bar'[d] = Bar[d]
  PROVE  Odbc!Next \/ Bar' = Bar
<1>1. \A c \in Dbc \ {d} : Bar'[c] = Bar[c]
  BY StateCases, StateCasesNext DEF Rest
<1>2. Bar' = [Bar EXCEPT ![d] = Bar'[d]]
  BY <1>1 DEF Bar
<1>3. CASE <<Bar[d], Bar'[d]>> \in Odbc!Moves
  <2>1. Bar'[d] \in Odbc!States
    BY StateCasesNext DEF Odbc!States
  <2>2. Odbc!Move(d)
    BY <1>2, <1>3, <2>1 DEF Odbc!Move, Bar
  <2>3. QED
    BY <2>2 DEF Odbc!Next
<1>4. CASE Bar'[d] = Bar[d]
  BY <1>2, <1>4 DEF Bar
<1>5. QED
  BY <1>3, <1>4

LEMMA DbcStepMoves ==
  ASSUME Managed, ManagedInv, NEW d \in Dbc, DbcStep(d)
  PROVE  <<Bar[d], Bar'[d]>> \in Odbc!Moves \/ Bar'[d] = Bar[d]
<1> USE StateCases, StateCasesNext
    DEF ManagedInv, ServedInv, HandleInv, TypeOK, NoOrphans, ManagerAgrees,
        StatementsAreServed, ManagerPermits, treeVars, sessionVars, Odbc!Moves
<1>1. ASSUME login(d), mEnv[d] # Nil, ManagerPermits(d, FALSE),
             UNCHANGED treeVars
      PROVE  <<Bar[d], Bar'[d]>> \in Odbc!Moves \/ Bar'[d] = Bar[d]
  <2>1. mRetsSessionPtr[d] = Nil /\ mStatements[d] = {}
    <3>1. mRetsSessionPtr[d] = Nil
      BY <1>1
    <3>2. \A s \in Stmt : mDbc[s] # d
      BY <3>1, HandlesAssumption
    <3>3. QED
      BY <3>1, <3>2
  <2>2. mEnv'[d] # Nil /\ mStatements'[d] = {}
    <3>1. mEnv' = mEnv /\ mStatements' = mStatements
      BY <1>1
    <3>2. QED
      BY <1>1, <2>1, <3>1
  <2>3. Bar[d] = "C2" /\ Bar'[d] \in {"C2", "C4"}
    BY <1>1, <2>1, <2>2
  <2>4. QED
    BY <2>3
<1>2. CASE SQLConnect(d) \/ SQLDriverConnect(d)
  BY <1>1, <1>2 DEF SQLConnect, SQLDriverConnect
<1>3. CASE SQLDisconnect(d)
  BY <1>3, HandlesAssumption DEF SQLDisconnect, LogoutSucceeds, LogoutThrows
<1>4. CASE SQLFreeConnect(d)
  BY <1>4 DEF SQLFreeConnect, DbcCanBeFreed
<1>5. ASSUME NEW s \in Stmt, SQLAllocStmt(d, s)
      PROVE  <<Bar[d], Bar'[d]>> \in Odbc!Moves \/ Bar'[d] = Bar[d]
  BY <1>5 DEF SQLAllocStmt
<1>6. QED
  BY <1>2, <1>3, <1>4, <1>5 DEF DbcStep

LEMMA StmtStepMoves ==
  ASSUME Managed, ManagedInv, NEW s \in Stmt, StmtStep(s)
  PROVE  Odbc!Next \/ Bar' = Bar
<1>1. CASE SQLFreeStmt(s)
  <2> DEFINE d == mDbc[s]
  <2>1. d \in Dbc /\ s \in mStatements[d]
    BY <1>1 DEF SQLFreeStmt, ManagedInv, HandleInv, TypeOK, NoOrphans
  <2>2. Rest(d)
    BY <1>1, <2>1 DEF SQLFreeStmt, Rest, ManagedInv, HandleInv, TypeOK,
       sessionVars
  <2>3. mEnv'[d] = mEnv[d] /\ mRetsSessionPtr'[d] = mRetsSessionPtr[d]
    BY <1>1 DEF SQLFreeStmt, sessionVars
  <2>4. mEnv[d] # Nil /\ mRetsSessionPtr[d] # Nil /\ mStatements[d] # {}
    BY <1>1, <2>1 DEF SQLFreeStmt, ManagedInv, ServedInv, HandleInv,
       NoOrphans, StatementsAreServed
  <2>5. <<Bar[d], Bar'[d]>> \in Odbc!Moves \/ Bar'[d] = Bar[d]
    BY <2>1, <2>3, <2>4, StateCases, StateCasesNext DEF Odbc!Moves
  <2>6. QED
    BY <2>1, <2>2, <2>5, OneConnectionMoves
<1>2. CASE ~SQLFreeStmt(s)
  BY <1>2 DEF StmtStep, SQLPrepare, CatalogCall, SQLGetTypeInfo, SQLExecute,
     ReadColumn, treeVars, sessionVars, Bar, ConnectionState
<1>3. QED
  BY <1>1, <1>2

LEMMA EnvStepMoves ==
  ASSUME Managed, ManagedInv, NEW e \in Env, EnvStep(e)
  PROVE  Odbc!Next \/ Bar' = Bar
<1>1. ASSUME NEW d \in Dbc, SQLAllocConnect(e, d)
      PROVE  Odbc!Next \/ Bar' = Bar
  <2>1. Rest(d)
    BY <1>1 DEF SQLAllocConnect, Rest, ManagedInv, HandleInv, TypeOK,
       sessionVars
  <2>2. mRetsSessionPtr'[d] = Nil /\ mEnv[d] = Nil /\ mEnv'[d] # Nil
    BY <1>1, HandlesAssumption DEF SQLAllocConnect, ManagedInv, HandleInv,
       TypeOK, NoOrphans, sessionVars
  <2>3. <<Bar[d], Bar'[d]>> \in Odbc!Moves
    BY <2>2, StateCases, StateCasesNext DEF Odbc!Moves
  <2>4. QED
    BY <2>1, <2>3, OneConnectionMoves
<1>2. CASE SQLAllocEnv(e) \/ SQLFreeEnv(e)
  BY <1>2 DEF SQLAllocEnv, SQLFreeEnv, sessionVars, Bar, ConnectionState
<1>3. QED
  BY <1>1, <1>2 DEF EnvStep

(* Behind a manager the driver implements the ODBC connection states.      *)
THEOREM ImplementsOdbcStates == ASSUME Managed PROVE Spec => OdbcStates
<1>1. Init => Odbc!Init
  BY DEF Init, Odbc!Init, ConnectionState
<1>2. ManagedInv /\ [Next]_vars => [Odbc!Next]_Bar
  <2> SUFFICES ASSUME ManagedInv, [Next]_vars
               PROVE  Odbc!Next \/ Bar' = Bar
    OBVIOUS
  <2>1. ASSUME NEW d \in Dbc, DbcStep(d)
        PROVE  Odbc!Next \/ Bar' = Bar
    BY <2>1, DbcStepIsLocal, DbcStepMoves, OneConnectionMoves DEF ManagedInv
  <2>2. CASE \E x \in Session : ServerExpires(x)
    BY <2>2 DEF ServerExpires, treeVars, Bar, ConnectionState
  <2>3. CASE UNCHANGED vars
    BY <2>3 DEF vars, treeVars, sessionVars, Bar, ConnectionState
  <2>4. QED
    BY <2>1, <2>2, <2>3, EnvStepMoves, StmtStepMoves DEF Next
<1>3. QED
  BY <1>1, <1>2, ManagedInvariant, PTL DEF Spec, OdbcStates, Odbc!Spec, Bar

=============================================================================
