------------------------------- MODULE MCStream -------------------------------
(***************************************************************************)
(* A result set of two rows and two columns for TLC: a value that takes    *)
(* several pieces, a shorter one behind it in the same column, and a NULL. *)
(***************************************************************************)
EXTENDS EzStream

MCLength == << <<3, 2>>, <<2, 0>> >>

=============================================================================
