---------------------------- MODULE OrderedDelivery ----------------------------
(***************************************************************************)
(* What reading a long value piece by piece promises: the reader turns to  *)
(* a value, receives it from its first byte on without a gap or a repeat,  *)
(* and is told that it is complete when, and only when, it has all of it.  *)
(***************************************************************************)
EXTENDS Naturals

CONSTANTS
  Value,     \* the values there are to read
  None,      \* no value
  Size       \* the number of bytes of each

VARIABLES
  value,     \* the value being read, or None
  held,      \* the reader has its bytes 1 to held
  complete   \* the reader was told that this is all of it

Init == value = None /\ held = 0 /\ complete = FALSE

TurnTo(v) ==
  /\ v # value
  /\ value' = v
  /\ held' = 0
  /\ complete' = FALSE

Receive(n) ==
  /\ value # None
  /\ ~complete
  /\ held + n <= Size[value]
  /\ held' = held + n
  /\ complete' = (held' = Size[value])
  /\ UNCHANGED value

(* The first piece of a value may come with the call that turns to it.     *)
TurnAndReceive(v, n) ==
  /\ v # value
  /\ n <= Size[v]
  /\ value' = v
  /\ held' = n
  /\ complete' = (n = Size[v])

Next ==
  \/ \E v \in Value \cup {None} : TurnTo(v)
  \/ \E v \in Value : \E n \in 0..Size[v] : Receive(n) \/ TurnAndReceive(v, n)

Spec == Init /\ [][Next]_<<value, held, complete>>

=============================================================================
