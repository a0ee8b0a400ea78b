------------------------------ MODULE MCMetadata -------------------------------
(* Metadata for TLC: two resources; one class without a standard name, one *)
(* field without, a key field that one of the classes lacks.               *)
EXTENDS EzMetadata

Field(sys, std, lookup) == [sys |-> sys, std |-> std, lookup |-> lookup]
Class(sys, std, fields) == [sys |-> sys, std |-> std, fields |-> fields]

Property ==
  [sys |-> "P", std |-> "Property", key |-> "LN", lookups |-> {"STAT"},
   classes |-> <<Class("RES", "Residential",
                       <<Field("LN", "ListingID", ""), Field("LP", "", ""),
                         Field("ST", "Status", "STAT")>>),
                 Class("LND", "", <<Field("LN", "ListingID", "")>>)>>]
Agent ==
  [sys |-> "A", std |-> "", key |-> "AN", lookups |-> {},
   classes |-> <<Class("AG", "Agent", <<Field("NM", "Name", ""), Field("AR", "", "AREA")>>)>>]
Office ==
  [sys |-> "O", std |-> "Office", key |-> "ON", lookups |-> {"AREA"},
   classes |-> <<Class("OF", "Office", <<Field("ON", "", ""), Field("AR", "", "AREA")>>)>>]

MCMetadatas == {<<Property, Agent>>, <<Office>>}
MCNames == {"X"}

================================================================================
