-------------------------------- MODULE EzSetup --------------------------------
(***************************************************************************)
(* The setup library: ConfigDSN, which the ODBC administrator calls to     *)
(* add, change or remove a data source; its dialog; and the section of     *)
(* ODBC.INI it writes, entry by entry.  The installer functions that       *)
(* change ODBC.INI may fail; nothing undoes what was done before.          *)
(*                                                                         *)
(* The controls of the dialog are kept as a data source, window, of which  *)
(* the flag UseCompactFormat stands for the check box "Decode LOOKUP       *)
(* Values", and DisableGetObjectMetadata for nothing: it has no control.   *)
(***************************************************************************)
EXTENDS EzSettings, FiniteSetsExt

CONSTANTS
  Edits,        \* what a user may do: new values of some fields, or of the name
  MaxCalls,     \* bounds the calls of ConfigDSN
  MaxFailures   \* bounds the failures of installer functions

(* Check boxes are on or off, and a data source gets a name there can be.  *)
ASSUME EditsAssumption ==
  \A edit \in Edits :
    /\ DOMAIN edit \subseteq Fields \cup {"name"}
    /\ \A f \in DOMAIN edit \cap FlagFields : edit[f] \in BOOLEAN
    /\ "name" \in DOMAIN edit => edit["name"] \in Names \cup {""}

VARIABLES
  dsns,         \* the data sources that are there
  request,      \* what the last call asks for, "-" before the first
  phase,        \* where it is: "idle", "dialog", "remove", "create" or "write"
  original,     \* dataSource of ConfigDsn
  edited,       \* newDataSource, which is the dialog's
  window,       \* the controls
  next,         \* the entry to be written next
  answer,       \* what the last call returned, "-" while it runs; FALSE comes with an
                \* installer error
  before,       \* ODBC.INI and its data sources when it began
  writtenBy,    \* what each section was last created with
  calls, failures

iniVars == <<ini, dsns, writtenBy>>
dialogVars == <<original, edited, window>>
callVars == <<request, before, calls>>
vars == <<iniVars, dialogVars, callVars, phase, next, answer, failures>>

NotWritten == New("?")

SetupInit ==
  /\ ini \in Inis
  /\ dsns = {n \in Names : ini[n] # NoSection}
  /\ writtenBy = [n \in Names |-> NotWritten]
  /\ request = "-"
  /\ phase = "idle"
  /\ original = New("")
  /\ edited = New("")
  /\ window = New("")
  /\ next = 1
  /\ answer = "-"
  /\ before = [ini |-> ini, dsns |-> dsns]
  /\ calls = 0
  /\ failures = 0

-----------------------------------------------------------------------------
(* The controls.                                                           *)

(* A choice shows the default for a text it does not have; the decode      *)
(* check box shows the opposite of the setting.                            *)
TransferDataToWindow(d) ==
  LET texts == [d.str EXCEPT !["RetsVersion"] = StringToRetsVersion(@),
                             !["UserAgentAuthType"] = StringToUserAgentAuthType(@),
                             !["EncodingType"] = StringToEncodingType(@)]
      boxes == [d.flag EXCEPT !["UseCompactFormat"] = ~@,
                              !["DisableGetObjectMetadata"] = TRUE]
  IN  [d EXCEPT !.str = texts, !.flag = boxes]

(* Faulty: the decode check box is taken for the setting.                  *)
FaultyDecode(w, d) ==
  [w EXCEPT !.flag["DisableGetObjectMetadata"] = d.flag["DisableGetObjectMetadata"]]

TransferDataFromWindow(w, d) ==
  LET hidden == d.flag["DisableGetObjectMetadata"]
      flags == [w.flag EXCEPT !["UseCompactFormat"] = ~@,
                              !["DisableGetObjectMetadata"] = hidden]
  IN  [w EXCEPT !.flag = flags]

(* The dialog's checks, then those of the controls.                        *)
Validate(w) ==
  /\ w.flag["UseHttpLogging"] => w.str["HttpLogFile"] # ""
  /\ w.flag["UseDebugLogging"] => w.str["DebugLogFile"] # ""
  /\ w.flag["EnableUserAgentAuth"] => w.str["UserAgentPassword"] # ""
  /\ w.flag["UseProxy"] => w.str["ProxyUrl"] # ""
  /\ w.name # "" /\ IsComplete(w)

-----------------------------------------------------------------------------
(* The call, and how it ends.                                              *)

Answer(result) ==
  /\ phase' = "idle"
  /\ answer' = result

(* Faulty: an exception is posted, and the result stays TRUE.              *)
FaultyThrow ==
  /\ phase' = "idle"
  /\ answer' = "TRUE"

(* Any exception: posted as an installer error.                            *)
Throw == Answer("FALSE")

(* An installer function fails.                                            *)
Fails ==
  /\ failures < MaxFailures
  /\ failures' = failures + 1
  /\ Throw

Goes(place) ==
  /\ phase' = place
  /\ UNCHANGED <<answer, failures>>

Opens(d) ==
  /\ original' = d
  /\ edited' = d
  /\ window' = TransferDataToWindow(d)

(* ConfigDSN up to its dialog; the name is "" if the attributes have none. *)
ConfigDSN(kind, name) ==
  /\ phase = "idle"
  /\ calls < MaxCalls
  /\ calls' = calls + 1
  /\ request' = kind
  /\ before' = [ini |-> ini, dsns |-> dsns]
  /\ Opens(CASE kind = "CONFIG" -> MergeFromIni(New(name))
             [] kind = "REMOVE" -> New(name)
             [] OTHER -> New(""))
  /\ CASE kind = "REMOVE" -> phase' = "remove" /\ answer' = "-"
       [] kind = "UNKNOWN" -> Throw
       [] OTHER -> phase' = "dialog" /\ answer' = "-"
  /\ next' = 1
  /\ UNCHANGED <<iniVars, failures>>

(* New values for some of the controls.                                    *)
Change(w, edit) ==
  LET value(f, old) == IF f \in DOMAIN edit THEN edit[f] ELSE old
  IN  [w EXCEPT
        !.name = value("name", @),
        !.str = [f \in StringFields |-> value(f, @[f])],
        !.flag = [f \in FlagFields |-> value(f, @[f])]]

(* The user changes some controls.                                         *)
Edit(edit) ==
  /\ phase = "dialog"
  /\ window' = Change(window, edit)
  /\ UNCHANGED <<iniVars, original, edited, callVars, phase, next, answer, failures>>

(* The test button logs in with the controls' settings, which are          *)
(* transferred whether or not the dialog is confirmed later.               *)
OnTest ==
  /\ phase = "dialog"
  /\ Validate(window)
  /\ edited' = TransferDataFromWindow(window, edited)
  /\ UNCHANGED <<iniVars, original, window, callVars, phase, next, answer, failures>>

Cancel ==
  /\ phase = "dialog"
  /\ Answer("TRUE")
  /\ UNCHANGED <<iniVars, dialogVars, callVars, next, failures>>

(* OK: a data source that is changed is removed first.                     *)
Confirm ==
  /\ phase = "dialog"
  /\ Validate(window)
  /\ edited' = TransferDataFromWindow(window, edited)
  /\ Goes(IF request = "CONFIG" THEN "remove" ELSE "create")
  /\ UNCHANGED <<iniVars, original, window, callVars, next>>

-----------------------------------------------------------------------------
(* ODBC.INI.                                                               *)

RemoveDSNFromIni(n) ==
  /\ ini' = [ini EXCEPT ![n] = NoSection]
  /\ dsns' = dsns \ {n}

(* SQLRemoveDSNFromIni, which does nothing if the section is not there.    *)
RemoveFromIni ==
  /\ phase = "remove"
  /\ UNCHANGED <<dialogVars, callVars, next, writtenBy>>
  /\ IF original.name = "" THEN Throw /\ UNCHANGED <<ini, dsns, failures>>
     ELSE \/ Fails /\ UNCHANGED <<ini, dsns>>
          \/ /\ RemoveDSNFromIni(original.name)
             /\ IF request = "REMOVE" THEN Answer("TRUE") /\ UNCHANGED failures
                ELSE Goes("create")

(* Faulty: the section is kept if it is there already.                     *)
FaultyWriteDSNToIni ==
  /\ phase = "create"
  /\ UNCHANGED <<dialogVars, callVars>>
  /\ \/ Fails /\ UNCHANGED <<iniVars, next>>
     \/ /\ dsns' = dsns \cup {edited.name}
        /\ writtenBy' = [writtenBy EXCEPT ![edited.name] = edited]
        /\ next' = 1
        /\ Goes("write")
        /\ UNCHANGED ini

(* SQLWriteDSNToIni begins an empty section, also if there is one.         *)
WriteDSNToIni ==
  /\ phase = "create"
  /\ UNCHANGED <<dialogVars, callVars>>
  /\ \/ Fails /\ UNCHANGED <<iniVars, next>>
     \/ /\ ini' = [ini EXCEPT ![edited.name] = NoSection]
        /\ dsns' = dsns \cup {edited.name}
        /\ writtenBy' = [writtenBy EXCEPT ![edited.name] = edited]
        /\ next' = 1
        /\ Goes("write")

(* The next entry.  Empty values are passed over; the last entry has one.  *)
WriteProfileString ==
  LET f == Entries[next]
      later == {i \in next+1..Len(Entries) : EntryValue(edited, Entries[i]) # ""}
  IN  /\ phase = "write"
      /\ UNCHANGED <<dialogVars, callVars, dsns, writtenBy>>
      /\ \/ Fails /\ UNCHANGED <<ini, next>>
         \/ /\ ini' = [ini EXCEPT ![edited.name][f] = EntryValue(edited, f)]
            /\ UNCHANGED failures
            /\ IF next = Len(Entries) THEN Answer("TRUE") /\ UNCHANGED next
               ELSE next' = Min(later) /\ UNCHANGED <<phase, answer>>

SetupNext ==
  \/ \E kind \in {"CONFIG", "ADD", "REMOVE", "UNKNOWN"}, name \in Names \cup {""} :
       ConfigDSN(kind, name)
  \/ \E edit \in Edits : Edit(edit)
  \/ OnTest
  \/ Cancel
  \/ Confirm
  \/ RemoveFromIni
  \/ WriteDSNToIni
  \/ WriteProfileString

SetupSpec == SetupInit /\ [][SetupNext]_vars

-----------------------------------------------------------------------------
(* Properties.                                                             *)

Reads(n) == MergeFromIni(New(n))

(* The last call wrote the data source of its dialog, or says so.          *)
Done == answer = "TRUE" /\ phase = "idle" /\ request \in {"CONFIG", "ADD"}
Wrote == Done /\ next = Len(Entries)
Readable(w) == \A f \in StringFields : w.str[f] # Long

(* What the user sees in the controls.                                     *)
Meaning(w, f) ==
  IF f = "UseCompactFormat" THEN ~w.flag[f]
  ELSE IF f \in FlagFields THEN w.flag[f] ELSE w.str[f]

(* The entries of a section, however its writing ended, are all of one     *)
(* data source: never some of an old one and some of a new one.            *)
SectionsOfOneWriting ==
  \A n \in Names, f \in Fields :
    writtenBy[n] # NotWritten /\ ini[n][f] # "" => ini[n][f] = EntryValue(writtenBy[n], f)

(* After a dialog was confirmed and the call succeeded, the driver reads   *)
(* for every control what it showed (unless a text is too long), and for   *)
(* the setting that has no control what it was before.                     *)
DriverReadsTheDialog ==
  Wrote =>
    /\ Readable(window) =>
         \A f \in Fields \ {"DisableGetObjectMetadata"} :
           Meaning(window, f) =
             IF f \in FlagFields THEN Reads(window.name).flag[f]
             ELSE Reads(window.name).str[f]
    /\ Reads(edited.name).flag["DisableGetObjectMetadata"]
         = original.flag["DisableGetObjectMetadata"]

(* A call that returns TRUE takes away the data source it was to remove or *)
(* rename, with all its entries, and leaves every other one as it was, but *)
(* for one under the name it wrote: nothing looks whether the name that is *)
(* added or renamed to is another's, whose section is begun anew, although *)
(* the dialog calls it "a unique identifier" (SetupDialog.cpp:189).        *)
(* Removing the old section first, and every failure between the steps,    *)
(* make the rest a matter of the return code: what is lost is told.        *)
LossIsTold ==
  answer = "TRUE" =>
    LET gone == IF request = "REMOVE" \/ (Wrote /\ request = "CONFIG")
                THEN {original.name} ELSE {}
        there == IF Wrote THEN {edited.name} ELSE {}
    IN  /\ dsns = (before.dsns \ gone) \cup there
        /\ \A n \in Names \ there :
             ini[n] = IF n \in gone THEN NoSection ELSE before.ini[n]

================================================================================
