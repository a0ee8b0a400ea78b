------------------------------ MODULE EzHandles ------------------------------
(***************************************************************************)
(* The handles of the ezRETS ODBC driver and the RETS session a connection *)
(* holds.                                                                  *)
(*                                                                         *)
(* An environment (RetsENV) lists its connections, a connection (RetsDBC)  *)
(* lists its statements, and each child keeps a raw pointer to its parent. *)
(* A connection also holds the librets session it logged in with and a     *)
(* MetadataView over the metadata that session owns.  A statement prepared *)
(* from SQL keeps raw MetadataTable pointers into that metadata.           *)
(*                                                                         *)
(* The driver has no thread of its own: a step is one ODBC call, and the   *)
(* application interleaves calls on different handles as it likes.  With   *)
(* Managed = TRUE the calls come through a driver manager, which refuses   *)
(* those that are wrong for the connection state it has been told of; with *)
(* Managed = FALSE the application is linked against the driver itself.    *)
(*                                                                         *)
(* What a statement does with its query and rows is in EzStatement; here a *)
(* statement is only what it needs from its connection.                    *)
(***************************************************************************)
EXTENDS FiniteSets

CONSTANTS
  Env,       \* environment handles the process can allocate
  Dbc,       \* connection handles
  Stmt,      \* statement handles
  Session,   \* librets session objects; bounds the number of logins
  Nil,       \* the null pointer
  Managed    \* TRUE if a driver manager stands before the driver

ASSUME HandlesAssumption ==
  /\ Nil \notin Env \cup Dbc \cup Stmt \cup Session
  /\ Managed \in BOOLEAN

VARIABLES
  environments,          \* the environments that exist
  mDatabaseConnections,  \* RetsENV: its connections
  mEnv,                  \* RetsDBC: its environment, Nil if not allocated
  mStatements,           \* RetsDBC: its statements
  mDbc,                  \* RetsSTMT: its connection, Nil if not allocated
  mRetsSessionPtr,       \* RetsDBC: the librets session
  mMetadataViewPtr,      \* RetsDBC: the session whose metadata it views
  mQuery,                \* RetsSTMT: the kind of query it holds
  origin,                \* the session whose metadata that query points into
  serverSessions,        \* RETS server: the sessions it holds open
  told,                  \* what the caller knows: is the connection open?
  crashed                \* a pointer its connection lost was followed

treeVars == <<environments, mDatabaseConnections, mEnv, mStatements, mDbc>>
sessionVars == <<mRetsSessionPtr, mMetadataViewPtr, serverSessions, told>>
queryVars == <<mQuery, origin>>
vars == <<treeVars, sessionVars, queryVars, crashed>>

QueryKind == {"null", "typeinfo", "catalog", "sql"}

TypeOK ==
  /\ environments \subseteq Env
  /\ mDatabaseConnections \in [Env -> SUBSET Dbc]
  /\ mEnv \in [Dbc -> Env \cup {Nil}]
  /\ mStatements \in [Dbc -> SUBSET Stmt]
  /\ mDbc \in [Stmt -> Dbc \cup {Nil}]
  /\ mRetsSessionPtr \in [Dbc -> Session \cup {Nil}]
  /\ mMetadataViewPtr \in [Dbc -> Session \cup {Nil}]
  /\ mQuery \in [Stmt -> QueryKind]
  /\ origin \in [Stmt -> Session \cup {Nil}]
  /\ serverSessions \subseteq Session
  /\ told \in [Dbc -> BOOLEAN]
  /\ crashed \in BOOLEAN

Init ==
  /\ environments = {}
  /\ mDatabaseConnections = [e \in Env |-> {}]
  /\ mEnv = [d \in Dbc |-> Nil]
  /\ mStatements = [d \in Dbc |-> {}]
  /\ mDbc = [s \in Stmt |-> Nil]
  /\ mRetsSessionPtr = [d \in Dbc |-> Nil]
  /\ mMetadataViewPtr = [d \in Dbc |-> Nil]
  /\ mQuery = [s \in Stmt |-> "null"]
  /\ origin = [s \in Stmt |-> Nil]
  /\ serverSessions = {}
  /\ told = [d \in Dbc |-> FALSE]
  /\ crashed = FALSE

-----------------------------------------------------------------------------
(* The driver manager lets a call through only in the connection state the *)
(* call needs, as far as earlier return codes have told it.                *)
ManagerPermits(d, open) == Managed => told[d] = open

(* A librets session object nobody holds or points into yet.               *)
Unused(x) ==
  /\ x \notin serverSessions
  /\ \A d \in Dbc : mRetsSessionPtr[d] # x
  /\ \A s \in Stmt : origin[s] # x

(***************************************************************************)
(* Environments.                                                           *)
(***************************************************************************)
SQLAllocEnv(e) ==
  /\ e \notin environments
  /\ environments' = environments \cup {e}
  /\ UNCHANGED <<mDatabaseConnections, mEnv, mStatements, mDbc>>
  /\ UNCHANGED <<sessionVars, queryVars, crashed>>

EnvCanBeFreed(e) == mDatabaseConnections[e] = {}

SQLFreeEnv(e) ==
  /\ e \in environments
  /\ EnvCanBeFreed(e)
  /\ environments' = environments \ {e}
  /\ UNCHANGED <<mDatabaseConnections, mEnv, mStatements, mDbc>>
  /\ UNCHANGED <<sessionVars, queryVars, crashed>>

(***************************************************************************)
(* Connections.                                                            *)
(***************************************************************************)
SQLAllocConnect(e, d) ==
  /\ e \in environments
  /\ mEnv[d] = Nil
  /\ mEnv' = [mEnv EXCEPT ![d] = e]
  /\ mDatabaseConnections' = [mDatabaseConnections EXCEPT ![e] = @ \cup {d}]
  /\ UNCHANGED <<environments, mStatements, mDbc>>
  /\ UNCHANGED <<sessionVars, queryVars, crashed>>

FaultyDbcCanBeFreed(d) == mRetsSessionPtr[d] = Nil

DbcCanBeFreed(d) == mRetsSessionPtr[d] = Nil /\ mStatements[d] = {}

SQLFreeConnect(d) ==
  /\ mEnv[d] # Nil
  /\ ManagerPermits(d, FALSE)
  /\ DbcCanBeFreed(d)
  /\ mDatabaseConnections' =
       [mDatabaseConnections EXCEPT ![mEnv[d]] = @ \ {d}]
  /\ mEnv' = [mEnv EXCEPT ![d] = Nil]
  /\ told' = [told EXCEPT ![d] = FALSE]
  /\ UNCHANGED <<environments, mStatements, mDbc, mRetsSessionPtr>>
  /\ UNCHANGED <<mMetadataViewPtr, serverSessions, queryVars, crashed>>

(* The server grants the login and its metadata can be read.               *)
LoginSucceeds(d, x) ==
  /\ mRetsSessionPtr' = [mRetsSessionPtr EXCEPT ![d] = x]
  /\ mMetadataViewPtr' = [mMetadataViewPtr EXCEPT ![d] = x]
  /\ serverSessions' = serverSessions \cup {x}
  /\ told' = [told EXCEPT ![d] = TRUE]

(* The server refuses the login: what the connection held before stays.    *)
LoginRefused(d) ==
  /\ told' = [told EXCEPT ![d] = FALSE]
  /\ UNCHANGED <<mRetsSessionPtr, mMetadataViewPtr, serverSessions>>

(* Faulty catch blocks of login: the session not reset; the view not reset.*)
FaultyLoginThrowsSession(d, x) ==
  /\ mRetsSessionPtr' = [mRetsSessionPtr EXCEPT ![d] = x]
  /\ mMetadataViewPtr' = [mMetadataViewPtr EXCEPT ![d] = Nil]
  /\ serverSessions' = serverSessions \cup {x}
  /\ told' = [told EXCEPT ![d] = FALSE]

FaultyLoginThrowsView(d, x) ==
  /\ mRetsSessionPtr' = [mRetsSessionPtr EXCEPT ![d] = Nil]
  /\ serverSessions' = serverSessions \cup {x}
  /\ told' = [told EXCEPT ![d] = FALSE]
  /\ UNCHANGED mMetadataViewPtr

(* The login or the first use of the metadata throws.  The server may have *)
(* granted the session all the same: nothing logs it out.                  *)
LoginThrows(d, x) ==
  /\ mRetsSessionPtr' = [mRetsSessionPtr EXCEPT ![d] = Nil]
  /\ mMetadataViewPtr' = [mMetadataViewPtr EXCEPT ![d] = Nil]
  /\ serverSessions' \in {serverSessions, serverSessions \cup {x}}
  /\ told' = [told EXCEPT ![d] = FALSE]

login(d) ==
  \/ LoginRefused(d)
  \/ \E x \in Session :
       /\ Unused(x)
       /\ LoginSucceeds(d, x) \/ LoginThrows(d, x)

SQLConnect(d) ==
  /\ mEnv[d] # Nil
  /\ ManagerPermits(d, FALSE)
  /\ mRetsSessionPtr[d] = Nil       \* otherwise 08002 and nothing changes
  /\ login(d)
  /\ UNCHANGED <<treeVars, queryVars, crashed>>

(* Unlike SQLConnect, it does not look whether a session is open.  A data  *)
(* source that lacks a login URL, user or password returns SQL_NO_DATA,    *)
(* with the effect of a refused login.                                     *)
SQLDriverConnect(d) ==
  /\ mEnv[d] # Nil
  /\ ManagerPermits(d, FALSE)
  /\ login(d)
  /\ UNCHANGED <<treeVars, queryVars, crashed>>

(* SQLDisconnect with a session and no statement left, when the server     *)
(* answers the Logout.                                                     *)
LogoutSucceeds(d) ==
  /\ serverSessions' = serverSessions \ {mRetsSessionPtr[d]}
  /\ mRetsSessionPtr' = [mRetsSessionPtr EXCEPT ![d] = Nil]
  /\ mMetadataViewPtr' = [mMetadataViewPtr EXCEPT ![d] = Nil]
  /\ told' = [told EXCEPT ![d] = FALSE]

(* Faulty orders in SQLDisconnect: the view, or both, reset before Logout. *)
FaultyLogoutThrowsView(d) ==
  /\ mMetadataViewPtr' = [mMetadataViewPtr EXCEPT ![d] = Nil]
  /\ UNCHANGED <<mRetsSessionPtr, serverSessions, told>>

FaultyLogoutThrowsBoth(d) ==
  /\ mRetsSessionPtr' = [mRetsSessionPtr EXCEPT ![d] = Nil]
  /\ mMetadataViewPtr' = [mMetadataViewPtr EXCEPT ![d] = Nil]
  /\ UNCHANGED <<serverSessions, told>>

(* Logout throws past the two resets.  The request may have arrived.       *)
LogoutThrows(d) ==
  /\ serverSessions' \in {serverSessions,
                          serverSessions \ {mRetsSessionPtr[d]}}
  /\ UNCHANGED <<mRetsSessionPtr, mMetadataViewPtr, told>>

(* Faulty: open statements are not looked for.                             *)
FaultyDisconnect(d) ==
  /\ mEnv[d] # Nil
  /\ ManagerPermits(d, TRUE)
  /\ mRetsSessionPtr[d] # Nil
  /\ LogoutSucceeds(d) \/ LogoutThrows(d)
  /\ UNCHANGED <<treeVars, queryVars, crashed>>

SQLDisconnect(d) ==
  /\ mEnv[d] # Nil
  /\ ManagerPermits(d, TRUE)
  /\ \/ /\ mRetsSessionPtr[d] = Nil
        /\ told' = [told EXCEPT ![d] = FALSE]
        /\ UNCHANGED <<mRetsSessionPtr, mMetadataViewPtr, serverSessions>>
     \/ /\ mRetsSessionPtr[d] # Nil
        /\ mStatements[d] = {}       \* otherwise "STMTs still open"
        /\ LogoutSucceeds(d) \/ LogoutThrows(d)
  /\ UNCHANGED <<treeVars, queryVars, crashed>>

(* The server drops a session on its own, by a timeout or a restart.       *)
ServerExpires(x) ==
  /\ x \in serverSessions
  /\ serverSessions' = serverSessions \ {x}
  /\ UNCHANGED <<mRetsSessionPtr, mMetadataViewPtr, told>>
  /\ UNCHANGED <<treeVars, queryVars, crashed>>

(***************************************************************************)
(* Statements.                                                             *)
(***************************************************************************)
SQLAllocStmt(d, s) ==
  /\ mEnv[d] # Nil
  /\ ManagerPermits(d, TRUE)
  /\ mDbc[s] = Nil
  /\ mDbc' = [mDbc EXCEPT ![s] = d]
  /\ mStatements' = [mStatements EXCEPT ![d] = @ \cup {s}]
  /\ UNCHANGED <<environments, mDatabaseConnections, mEnv>>
  /\ UNCHANGED <<sessionVars, queryVars, crashed>>

(* Faulty: the deleted statement stays in the list of its connection.      *)
FaultyFreeStmt(s) ==
  /\ mDbc[s] # Nil
  /\ mDbc' = [mDbc EXCEPT ![s] = Nil]
  /\ UNCHANGED <<environments, mDatabaseConnections, mEnv, mStatements>>
  /\ UNCHANGED <<sessionVars, queryVars, crashed>>

(* SQLFreeStmt with SQL_DROP, and SQLFreeHandle.                           *)
SQLFreeStmt(s) ==
  /\ mDbc[s] # Nil
  /\ mStatements' = [mStatements EXCEPT ![mDbc[s]] = @ \ {s}]
  /\ mDbc' = [mDbc EXCEPT ![s] = Nil]
  /\ mQuery' = [mQuery EXCEPT ![s] = "null"]
  /\ origin' = [origin EXCEPT ![s] = Nil]
  /\ UNCHANGED <<environments, mDatabaseConnections, mEnv>>
  /\ UNCHANGED <<sessionVars, crashed>>

FaultyBecomes(s, k, x) ==
  /\ mQuery' = [mQuery EXCEPT ![s] = x]
  /\ origin' = [origin EXCEPT ![s] = k]

(* The statement's query is replaced by one of kind k that points into the *)
(* metadata of session x.                                                  *)
Becomes(s, k, x) ==
  /\ mQuery' = [mQuery EXCEPT ![s] = k]
  /\ origin' = [origin EXCEPT ![s] = x]

(* A query compiles against the view of its connection and replaces the    *)
(* old one.  Without a view the compiler follows a null pointer, unless    *)
(* the statement's syntax stops it before; the old query then stays, as it *)
(* does whenever a statement does not compile.                             *)
SQLPrepare(s) ==
  /\ mDbc[s] # Nil
  /\ \/ /\ mMetadataViewPtr[mDbc[s]] # Nil
        /\ Becomes(s, "sql", mMetadataViewPtr[mDbc[s]])
        /\ UNCHANGED crashed
     \/ /\ mMetadataViewPtr[mDbc[s]] = Nil
        /\ crashed' = TRUE
        /\ UNCHANGED queryVars
  /\ UNCHANGED <<treeVars, sessionVars>>

(* SQLTables, SQLColumns and their like replace the query before they look *)
(* at the view.  Their rows are copies, they keep no pointer into it.      *)
CatalogCall(s) ==
  /\ mDbc[s] # Nil
  /\ Becomes(s, "catalog", Nil)
  /\ crashed' \in BOOLEAN
  /\ crashed' => mMetadataViewPtr[mDbc[s]] = Nil
  /\ UNCHANGED <<treeVars, sessionVars>>

(* The type catalogue is the driver's own: no session, no view.            *)
SQLGetTypeInfo(s) ==
  /\ mDbc[s] # Nil
  /\ Becomes(s, "typeinfo", Nil)
  /\ UNCHANGED <<treeVars, sessionVars, crashed>>

(* Every other query asks the session or the view of its connection.       *)
SQLExecute(s) ==
  /\ mDbc[s] # Nil
  /\ mQuery[s] \in {"catalog", "sql"}
  /\ crashed' = (mRetsSessionPtr[mDbc[s]] = Nil)
  /\ UNCHANGED <<treeVars, sessionVars, queryVars>>

(* SQLDescribeCol, SQLColAttribute, SQLFetch and SQLGetData ask a column   *)
(* for its type, and with it the MetadataTable of the session it was       *)
(* prepared under, which is freed with the last connection to hold it.     *)
ReadColumn(s) ==
  /\ mDbc[s] # Nil
  /\ mQuery[s] = "sql"
  /\ crashed' \in BOOLEAN
  /\ crashed' => \A d \in Dbc : mRetsSessionPtr[d] # origin[s]
  /\ UNCHANGED <<treeVars, sessionVars, queryVars>>

-----------------------------------------------------------------------------
EnvStep(e) ==
  \/ SQLAllocEnv(e)
  \/ SQLFreeEnv(e)
  \/ \E d \in Dbc : SQLAllocConnect(e, d)

DbcStep(d) ==
  \/ SQLConnect(d)
  \/ SQLDriverConnect(d)
  \/ SQLDisconnect(d)
  \/ SQLFreeConnect(d)
  \/ \E s \in Stmt : SQLAllocStmt(d, s)

StmtStep(s) ==
  \/ SQLFreeStmt(s)
  \/ SQLPrepare(s)
  \/ CatalogCall(s)
  \/ SQLGetTypeInfo(s)
  \/ SQLExecute(s)
  \/ ReadColumn(s)

Next ==
  /\ ~crashed
  /\ \/ \E e \in Env : EnvStep(e)
     \/ \E d \in Dbc : DbcStep(d)
     \/ \E s \in Stmt : StmtStep(s)
     \/ \E x \in Session : ServerExpires(x)

Spec == Init /\ [][Next]_vars

-----------------------------------------------------------------------------
(***************************************************************************)
(* Properties that hold whoever calls.                                     *)
(***************************************************************************)

(* No handle outlives its parent, the lists and the back pointers agree,   *)
(* and a freed connection holds no session: canBeFreed protects every      *)
(* delete, whatever order the application frees its handles in.            *)
NoOrphans ==
  /\ \A d \in Dbc : mEnv[d] # Nil => mEnv[d] \in environments
  /\ \A e \in Env, d \in Dbc : d \in mDatabaseConnections[e] <=> mEnv[d] = e
  /\ \A s \in Stmt : mDbc[s] # Nil => mEnv[mDbc[s]] # Nil
  /\ \A d \in Dbc, s \in Stmt : s \in mStatements[d] <=> mDbc[s] = d
  /\ \A d \in Dbc : mEnv[d] = Nil => mRetsSessionPtr[d] = Nil

(* The MetadataView of a connection is over the metadata of the session it *)
(* holds, and there is one exactly when there is a session: login, its     *)
(* catch block and SQLDisconnect keep the two pointers together.           *)
ViewOfSession == mMetadataViewPtr = mRetsSessionPtr

(***************************************************************************)
(* Properties of a driver behind a driver manager.                         *)
(***************************************************************************)

(* The return codes of the connect calls and of SQLDisconnect tell the     *)
(* whole truth: a connection the manager takes for closed keeps no session *)
(* (which could then be neither used nor logged out), and one it takes for *)
(* open has one.                                                           *)
ManagerAgrees == \A d \in Dbc : told[d] <=> mRetsSessionPtr[d] # Nil

(* While a statement exists its connection has a session, and a query      *)
(* prepared from SQL points into the metadata of that very session:        *)
(* SQLDisconnect refuses to drop the session under an open statement.      *)
StatementsAreServed ==
  \A s \in Stmt : mDbc[s] # Nil =>
    /\ mRetsSessionPtr[mDbc[s]] # Nil
    /\ mQuery[s] = "sql" => origin[s] = mRetsSessionPtr[mDbc[s]]

(* So no call on a statement follows a pointer its connection has lost.    *)
NeverCrashes == ~crashed

(* A connection lets go of a session the server still holds open only by   *)
(* logging it out: SQLDisconnect keeps the session when Logout throws, so  *)
(* that it can be tried again.                                             *)
ReleasedByLogout ==
  [][\A d \in Dbc :
       mRetsSessionPtr[d] \notin {Nil, mRetsSessionPtr'[d]}
         => mRetsSessionPtr[d] \notin serverSessions']_vars

(* The connection state a manager sees in the driver's own variables.      *)
ConnectionState(d) ==
  CASE mEnv[d] = Nil -> "C1"
    [] mEnv[d] # Nil /\ mRetsSessionPtr[d] = Nil -> "C2"
    [] mEnv[d] # Nil /\ mRetsSessionPtr[d] # Nil /\ mStatements[d] = {} -> "C4"
    [] OTHER -> "C5"

Odbc == INSTANCE OdbcConnection
          WITH cstate <- [d \in Dbc |-> ConnectionState(d)]

(* Behind a manager the driver implements the ODBC connection states: each *)
(* call moves at most one connection, and by one state.                    *)
OdbcStates == Odbc!Spec

=============================================================================
