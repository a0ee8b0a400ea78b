-------------------------------- MODULE MCDiag ---------------------------------
(* Diagnostics for TLC: texts and buffers around the boundary.             *)
EXTENDS EzDiag

MCSizes == {0, 2}
MCLengths == {1, 2}

================================================================================
