------------------------------ MODULE MCTranslate ------------------------------
(* Texts of every form, at the edges of the integers of Base 4 (-2..1,     *)
(* -8..7, -128..127, -32768..32767); C types with and without a worker,    *)
(* where the default type stands for that of each field; every type of     *)
(* field, lookups that are texts or numbers, lengths given or not.         *)
EXTENDS EzTranslate, EzTypes

T(form, n) == [Empty EXCEPT !.form = form, !.n = n]
At(form, n, clock, milli) == [T(form, n) EXCEPT !.clock = clock, !.milli = milli]
Padded(n) == [T("number", n) EXCEPT !.padded = TRUE]
WithCommas(n) == [T("number", n) EXCEPT !.commas = TRUE]

MCTexts ==
  {Empty, T("blanks", 0), Padded(0), WithCommas(100), T("point", 15)}
    \cup {T(form, 0) : form \in {"false", "letter", "word"}}
    \cup {T("number", n) : n \in {0, 1, -2, 8, 127, 20000}}
    \cup {T("date", 0), T("date", 3), At("dateTime", 3, 5, 7), At("time", 0, 9, 7)}

(* For what the driver gets wrong: each of these alone shows one of them.  *)
MCBooleans == {T("false", 0), T("number", 0), T("number", 1)}
MCDates == {T("date", 0), T("date", 3)}
MCNumbers == {T("number", n) : n \in {1, 127, 20000}}
MCMisread == MCBooleans \cup MCDates \cup MCNumbers

RetsField(type, interp, length, separator) ==
  [type |-> type, interp |-> interp, length |-> length, precision |-> 2,
   separator |-> separator]
MCFields ==
  {RetsField(type, "NONE", 30, FALSE) : type \in RetsType}
    \cup {RetsField("INT", "NONE", 0, TRUE), RetsField("CHARACTER", "NONE", 0, FALSE),
          RetsField("INT", "LOOKUP", 30, FALSE), RetsField("DECIMAL", "LOOKUP", 5, FALSE),
          [RetsField("DATE_TIME", "NONE", 30, FALSE) EXCEPT !.precision = 3],
          RetsField("CHARACTER", "LOOKUP_MULTI", 30, FALSE)}

MCSettings ==
  {<<FALSE, FALSE, FALSE>>, <<FALSE, TRUE, TRUE>>, <<TRUE, FALSE, FALSE>>}

MCTargets ==
  {"C_DEFAULT", "CHAR", "BIT", "TIMESTAMP", "C_ULONG", "DOUBLE", "NUMERIC", "REAL"}

================================================================================
