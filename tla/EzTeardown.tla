------------------------------ MODULE EzTeardown ------------------------------
(***************************************************************************)
(* An application of EzHandles that at some moment starts to close down:   *)
(* from then on it only frees and disconnects, and keeps at it.            *)
(***************************************************************************)
EXTENDS EzHandles

VARIABLE closing   \* the application opens nothing any more

tearVars == <<vars, closing>>

TearInit == Init /\ closing = FALSE

Quit == ~closing /\ closing' = TRUE /\ UNCHANGED vars

Release ==
  \/ \E s \in Stmt : SQLFreeStmt(s)
  \/ \E d \in Dbc : SQLDisconnect(d) \/ SQLFreeConnect(d)
  \/ \E e \in Env : SQLFreeEnv(e)
  \/ \E x \in Session : ServerExpires(x)

TearNext ==
  \/ ~closing /\ Next /\ UNCHANGED closing
  \/ Quit
  \/ closing /\ ~crashed /\ Release /\ UNCHANGED closing

(* The application quits, and then calls every freeing function again and  *)
(* again as long as the handle exists.  A Logout that is repeated is       *)
(* answered in the end: strong fairness, for a call that throws leaves it  *)
(* to be called once more.                                                 *)
Fairness ==
  /\ WF_tearVars(Quit)
  /\ \A s \in Stmt : WF_tearVars(closing /\ SQLFreeStmt(s) /\ UNCHANGED closing)
  /\ \A d \in Dbc :
       /\ SF_tearVars(closing /\ SQLDisconnect(d) /\ told'[d] = FALSE
                        /\ UNCHANGED closing)
       /\ WF_tearVars(closing /\ SQLFreeConnect(d) /\ UNCHANGED closing)
  /\ \A e \in Env : WF_tearVars(closing /\ SQLFreeEnv(e) /\ UNCHANGED closing)

TearSpec == TearInit /\ [][TearNext]_tearVars /\ Fairness

(* From wherever the application stops, and whatever Logout did before, it *)
(* gets rid of every handle: the guards of SQLDisconnect, SQLFreeConnect   *)
(* and SQLFreeEnv never wait on each other.                                *)
EverythingIsFreed ==
  <>[](environments = {} /\ \A d \in Dbc : mEnv[d] = Nil /\ mStatements[d] = {})

=============================================================================
