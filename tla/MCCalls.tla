-------------------------------- MODULE MCCalls --------------------------------
(* The records of the handles and the descriptors of a statement share no  *)
(* variable.  One run checks both, each while the other has not begun.     *)
EXTENDS MCDiag, MCDescriptors

CallsInit == DiagInit /\ Init

CallsNext ==
  \/ Init /\ DiagNext /\ UNCHANGED vars
  \/ DiagInit /\ Next /\ UNCHANGED diagVars

CallsSpec == CallsInit /\ [][CallsNext]_<<diagVars, vars>>

================================================================================
