------------------------------- MODULE MCCatalog -------------------------------
(* The names in the catalog and the values of a column share no variable.  *)
(* One run checks both: the names while a first column stands still, the   *)
(* values while a first server does.                                       *)
EXTENDS MCMetadata, MCTranslate

AtFirstServer == ViewInit /\ config = <<<<Office>>, FALSE, FALSE>>
AtFirstColumn ==
  Init /\ columnVars = <<FALSE, FALSE, FALSE, RetsField("INT", "NONE", 30, FALSE)>>

CatalogInit == (AtFirstServer /\ Init) \/ (ViewInit /\ AtFirstColumn)

CatalogNext ==
  \/ AtFirstColumn /\ ViewNext /\ UNCHANGED vars
  \/ AtFirstServer /\ Next /\ UNCHANGED viewVars

CatalogSpec == CatalogInit /\ [][CatalogNext]_<<viewVars, vars>>

================================================================================
