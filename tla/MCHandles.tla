------------------------------ MODULE MCHandles ------------------------------
(* Small instances of EzHandles for TLC.  The handles and the sessions are *)
(* model values that the specification only compares, so any permutation   *)
(* of one of the sets is a symmetry.                                       *)
EXTENDS EzHandles, TLC

Symmetry ==
  Permutations(Env) \cup Permutations(Dbc) \cup Permutations(Stmt)
    \cup Permutations(Session)

=============================================================================
