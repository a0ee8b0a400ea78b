----------------------------- MODULE MCDescriptors -----------------------------
(* Descriptors for TLC: two columns, the second without an indicator.      *)
EXTENDS EzDescriptors

MCTarget == <<1000, 2000>>
MCIndicator == <<1500, 0>>
MCOffset == {8}
MCArraySize == {1, 5}

================================================================================
