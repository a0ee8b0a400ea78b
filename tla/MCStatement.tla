------------------------------ MODULE MCStatement ------------------------------
(* Statements for TLC, by what they compile to.                            *)
EXTENDS EzStatement

CONSTANTS search, all, photos, lookup

MCType == [t \in {search, all, photos, lookup} |->
             CASE t = photos -> "object"
               [] t = lookup -> "bulk"
               [] OTHER -> "data"]

LookupType == [t \in {lookup} |-> "bulk"]

=============================================================================
