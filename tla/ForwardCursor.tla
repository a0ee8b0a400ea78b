----------------------------- MODULE ForwardCursor -----------------------------
(***************************************************************************)
(* What a forward-only cursor promises: an execution opens it on one       *)
(* answer, and fetching walks that answer from its first item on, each     *)
(* item once and in order, past those that stand for nothing, until        *)
(* nothing is left.                                                        *)
(***************************************************************************)
EXTENDS Sequences, Naturals

CONSTANTS
  Items,     \* what an answer is made of
  None,      \* no item
  IsRow(_),  \* it is a row
  IsVoid(_)  \* it stands for nothing

VARIABLES
  answer,    \* the answer of the open execution, <<>> if none is open
  passed,    \* the number of its items passed
  current,   \* the row the reader is on, or None
  fetched    \* the number of fetches that gave a row

Init == answer = <<>> /\ passed = 0 /\ current = None /\ fetched = 0

Open ==
  /\ answer' \in Seq(Items)
  /\ passed' = 0
  /\ current' = None
  /\ fetched' = 0

(* The next item that stands for something.                                *)
IsNext(i) ==
  /\ i \in passed + 1 .. Len(answer)
  /\ ~IsVoid(answer[i])
  /\ \A j \in passed + 1 .. i - 1 : IsVoid(answer[j])

Deliver(i) ==
  /\ IsNext(i)
  /\ IsRow(answer[i])
  /\ passed' = i
  /\ current' = answer[i]
  /\ fetched' = fetched + 1
  /\ UNCHANGED answer

(* An item the reader gets an error for: no row, or one that cannot be     *)
(* converted.  The reader stays on the row it was on, leaves it, or finds  *)
(* itself on the new one.                                                  *)
Report(i) ==
  /\ IsNext(i)
  /\ passed' = i
  /\ \/ current' \in {current, None}
     \/ IsRow(answer[i]) /\ current' = answer[i]
  /\ UNCHANGED <<answer, fetched>>

End ==
  /\ \A j \in passed + 1 .. Len(answer) : IsVoid(answer[j])
  /\ passed' = Len(answer)
  /\ current' = None
  /\ UNCHANGED <<answer, fetched>>

Close == answer' = <<>> /\ passed' = 0 /\ current' = None /\ fetched' = 0

Next ==
  \/ Open
  \/ \E i \in 1..Len(answer) : Deliver(i) \/ Report(i)
  \/ End
  \/ Close

Spec == Init /\ [][Next]_<<answer, passed, current, fetched>>

=============================================================================
