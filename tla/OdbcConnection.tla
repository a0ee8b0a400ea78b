---------------------------- MODULE OdbcConnection ----------------------------
(***************************************************************************)
(* What the driver promises a driver manager about each connection handle, *)
(* in the terms of the ODBC connection states:                             *)
(*                                                                         *)
(*    C1 not allocated    C2 allocated, not connected                      *)
(*    C4 connected        C5 connected, with statements                    *)
(*                                                                         *)
(* A connection moves one state at a time: it is never freed while it is   *)
(* connected, never loses its session while it has statements, and never   *)
(* has a statement without a session.  (C3, C6: browsing and transactions, *)
(* which the driver has not.)                                              *)
(***************************************************************************)
CONSTANT Dbc

VARIABLE cstate

States == {"C1", "C2", "C4", "C5"}

Moves == { <<"C1", "C2">>,      \* SQLAllocConnect
           <<"C2", "C1">>,      \* SQLFreeConnect
           <<"C2", "C4">>,      \* SQLConnect, SQLDriverConnect
           <<"C4", "C2">>,      \* SQLDisconnect
           <<"C4", "C5">>,      \* SQLAllocStmt, the first
           <<"C5", "C4">> }     \* SQLFreeStmt, the last

Init == cstate = [d \in Dbc |-> "C1"]

Move(d) ==
  \E c \in States :
    /\ <<cstate[d], c>> \in Moves
    /\ cstate' = [cstate EXCEPT ![d] = c]

Next == \E d \in Dbc : Move(d)

Spec == Init /\ [][Next]_cstate

=============================================================================
