--------------------------- MODULE EzSettings_proofs ---------------------------
(***************************************************************************)
(* Proofs about EzSetup and EzDataSource, for any data sources, sections,  *)
(* edits, connection strings, calls and failures.                          *)
(*                                                                         *)
(* Of EzSetup, one invariant follows the section that is being written,    *)
(* one the data sources that are there in every phase of a call, and one   *)
(* the settings on their way from the controls into the section.  Of       *)
(* EzDataSource, the invariant ties the session to the settings of the     *)
(* handle, and these to the section of its data source; that a connection  *)
(* string is read back is a lemma about the operators of EzSettings.       *)
(***************************************************************************)
EXTENDS EzSetup, EzDataSource, SequenceTheorems, WellFoundedInduction, TLAPS

-----------------------------------------------------------------------------
(* The section that is written.                                            *)

(* The sections of ODBC.INI have all entries, empty or not.                *)
IniIsTable ==
  /\ ini = [n \in Names |-> ini[n]]
  /\ \A n \in Names : ini[n] = [f \in Fields |-> ini[n][f]]
  /\ writtenBy = [n \in Names |-> writtenBy[n]]

(* While the entries of a section are written, it is that of edited.       *)
WritingIsOfEdited ==
  phase = "write" /\ edited.name \in Names => writtenBy[edited.name] = edited

IniInv == IniIsTable /\ WritingIsOfEdited /\ SectionsOfOneWriting

LEMMA InitIniInv ==
  ASSUME IniAssumption, SetupInit
  PROVE  IniInv
<1>1. IniIsTable
  BY DEF IniAssumption, SetupInit, IniIsTable
<1>2. WritingIsOfEdited /\ SectionsOfOneWriting
  BY DEF SetupInit, WritingIsOfEdited, SectionsOfOneWriting
<1>3. QED
  BY <1>1, <1>2 DEF IniInv

(* A step that does not touch ODBC.INI, nor the data source it is written  *)
(* from.                                                                   *)
LEMMA IniStays ==
  ASSUME IniInv, UNCHANGED <<ini, writtenBy>>,
         phase' = "write" => phase = "write" /\ UNCHANGED edited
  PROVE  IniInv'
BY DEF IniInv, IniIsTable, WritingIsOfEdited, SectionsOfOneWriting

LEMMA RemoveKeepsIni ==
  ASSUME IniInv, RemoveFromIni
  PROVE  IniInv'
<1>1. CASE UNCHANGED <<ini, writtenBy>>
  <2>1. phase' # "write"
    BY DEF RemoveFromIni, Throw, Fails, Answer, Goes
  <2>2. QED
    BY <1>1, <2>1, IniStays
<1>2. CASE ini' = [ini EXCEPT ![original.name] = NoSection]
  <2>1. writtenBy' = writtenBy /\ phase' # "write"
    BY DEF RemoveFromIni, Throw, Fails, Answer, Goes
  <2>2. \A n \in Names : ini'[n] = IF n = original.name THEN NoSection ELSE ini[n]
    BY <1>2 DEF IniInv, IniIsTable
  <2>3. IniIsTable'
    BY <1>2, <2>1, <2>2 DEF IniInv, IniIsTable, NoSection
  <2>4. SectionsOfOneWriting'
    BY <2>1, <2>2 DEF IniInv, SectionsOfOneWriting, NoSection
  <2>5. QED
    BY <2>1, <2>3, <2>4 DEF IniInv, WritingIsOfEdited
<1>3. QED
  BY <1>1, <1>2 DEF RemoveFromIni, RemoveDSNFromIni

(* A section that is created begins empty.                                 *)
LEMMA CreateBeginsEmpty ==
  ASSUME IniInv, WriteDSNToIni
  PROVE  IniInv'
<1>1. CASE Fails /\ UNCHANGED <<iniVars, next>>
  <2>1. phase' # "write"
    BY <1>1 DEF Fails, Throw, Answer
  <2>2. QED
    BY <1>1, <2>1, IniStays DEF iniVars
<1>2. CASE /\ ini' = [ini EXCEPT ![edited.name] = NoSection]
           /\ writtenBy' = [writtenBy EXCEPT ![edited.name] = edited]
  <2>1. edited' = edited
    BY DEF WriteDSNToIni, dialogVars
  <2>2. \A n \in Names :
          /\ ini'[n] = IF n = edited.name THEN NoSection ELSE ini[n]
          /\ writtenBy'[n] = IF n = edited.name THEN edited ELSE writtenBy[n]
    BY <1>2 DEF IniInv, IniIsTable
  <2>3. IniIsTable'
    BY <1>2, <2>2 DEF IniInv, IniIsTable, NoSection
  <2>4. WritingIsOfEdited'
    BY <2>1, <2>2 DEF WritingIsOfEdited
  <2>5. SectionsOfOneWriting'
    <3> SUFFICES ASSUME NEW n \in Names, NEW f \in Fields,
                        writtenBy'[n] # NotWritten, ini'[n][f] # ""
                 PROVE  ini'[n][f] = EntryValue(writtenBy'[n], f)
      BY DEF SectionsOfOneWriting
    <3>1. n # edited.name
      BY <2>2 DEF NoSection
    <3>2. QED
      BY <2>2, <3>1 DEF IniInv, SectionsOfOneWriting
  <2>6. QED
    BY <2>3, <2>4, <2>5 DEF IniInv
<1>3. QED
  BY <1>1, <1>2 DEF WriteDSNToIni

(* The entries are those of the data source the section was created with.  *)
LEMMA EntriesAreOfEdited ==
  ASSUME IniInv, WriteProfileString
  PROVE  IniInv'
<1> DEFINE g == Entries[next]
<1>1. CASE Fails /\ UNCHANGED <<ini, next>>
  <2>1. phase' # "write"
    BY <1>1 DEF Fails, Throw, Answer
  <2>2. QED
    BY <1>1, <2>1, IniStays DEF WriteProfileString
<1>2. CASE ini' = [ini EXCEPT ![edited.name][g] = EntryValue(edited, g)]
  <2>1. edited' = edited /\ writtenBy' = writtenBy /\ phase = "write"
    BY DEF WriteProfileString, dialogVars
  <2> HIDE DEF g
  <2>2. \A n \in Names, f \in Fields :
          ini'[n][f] = IF n = edited.name /\ f = g THEN EntryValue(edited, g) ELSE ini[n][f]
    BY <1>2 DEF IniInv, IniIsTable
  <2>3. IniIsTable'
    BY <1>2, <2>1, <2>2 DEF IniInv, IniIsTable
  <2>4. WritingIsOfEdited'
    BY <2>1 DEF IniInv, WritingIsOfEdited
  <2>5. SectionsOfOneWriting'
    BY <2>1, <2>2 DEF IniInv, SectionsOfOneWriting, WritingIsOfEdited
  <2>6. QED
    BY <2>3, <2>4, <2>5 DEF IniInv
<1>3. QED
  BY <1>1, <1>2 DEF WriteProfileString

LEMMA DialogKeepsIni ==
  ASSUME IniInv,
         \/ \E kind \in {"CONFIG", "ADD", "REMOVE", "UNKNOWN"}, name \in Names \cup {""} :
              ConfigDSN(kind, name)
         \/ \E edit \in Edits : Edit(edit)
         \/ OnTest \/ Cancel \/ Confirm
  PROVE  IniInv'
<1>1. UNCHANGED <<ini, writtenBy>>
  BY DEF ConfigDSN, Edit, OnTest, Cancel, Confirm, iniVars
<1>2. phase' # "write"
  BY DEF ConfigDSN, Edit, OnTest, Cancel, Confirm, Throw, Answer, Goes
<1>3. QED
  BY <1>1, <1>2, IniStays

LEMMA NextIniInv ==
  IniInv /\ [SetupNext]_vars => IniInv'
<1> SUFFICES ASSUME IniInv, [SetupNext]_vars PROVE IniInv'
  OBVIOUS
<1>1. CASE UNCHANGED vars
  BY <1>1, IniStays DEF vars, iniVars, dialogVars
<1>2. CASE SetupNext
  BY <1>2, DialogKeepsIni, RemoveKeepsIni, CreateBeginsEmpty, EntriesAreOfEdited DEF SetupNext
<1>3. QED
  BY <1>1, <1>2

(* A section never mixes entries of two data sources, wherever an          *)
(* installer function failed.                                              *)
THEOREM SectionIsOfOneWriting == SetupSpec => []SectionsOfOneWriting
<1>1. SetupInit => IniInv
  BY InitIniInv, IniAssumption
<1>2. IniInv => SectionsOfOneWriting
  BY DEF IniInv
<1>3. QED
  BY <1>1, <1>2, NextIniInv, PTL DEF SetupSpec

-----------------------------------------------------------------------------
(* The data sources that are there.                                        *)

(* What a call takes away before it writes.                                *)
Removed == IF request = "CONFIG" THEN {original.name} ELSE {}

(* A section that is not written, before the call writes.                  *)
Left(n) == IF n \in Removed THEN NoSection ELSE before.ini[n]

(* Which data sources are there in every phase, what their sections hold,  *)
(* and that no phase but the last has come to the last entry.              *)
CallInv ==
  /\ phase \in {"dialog", "remove", "create", "write"} => answer = "-"
  /\ phase \in {"dialog", "remove", "create"} => next = 1
  /\ phase = "dialog" =>
       request \in {"CONFIG", "ADD"} /\ dsns = before.dsns /\ ini = before.ini
  /\ phase = "remove" =>
       request \in {"CONFIG", "REMOVE"} /\ dsns = before.dsns /\ ini = before.ini
  /\ phase = "create" => /\ request \in {"CONFIG", "ADD"}
                         /\ dsns = before.dsns \ Removed
                         /\ \A n \in Names : ini[n] = Left(n)
  /\ phase = "write" => /\ request \in {"CONFIG", "ADD"}
                        /\ dsns = (before.dsns \ Removed) \cup {edited.name}
                        /\ \A n \in Names \ {edited.name} : ini[n] = Left(n)
  /\ LossIsTold

LEMMA MoreThanOneEntry == Len(Entries) # 1
BY DEF Entries

(* A call that does not end with TRUE has nothing to answer for.           *)
LEMMA NotTrueYet ==
  ASSUME answer' # "TRUE"
  PROVE  LossIsTold'
BY DEF LossIsTold

LEMMA InitCallInv ==
  ASSUME SetupInit
  PROVE  CallInv
BY DEF SetupInit, CallInv, LossIsTold

LEMMA CallBegins ==
  ASSUME NEW kind \in {"CONFIG", "ADD", "REMOVE", "UNKNOWN"}, NEW name, ConfigDSN(kind, name)
  PROVE  CallInv'
<1>1. answer' # "TRUE" /\ next' = 1 /\ request' = kind
  BY DEF ConfigDSN, Throw, Answer
<1>2. before' = [ini |-> ini, dsns |-> dsns] /\ dsns' = dsns /\ ini' = ini
  BY DEF ConfigDSN, iniVars
<1>3. CASE kind = "REMOVE"
  <2>1. phase' = "remove" /\ answer' = "-"
    BY <1>3 DEF ConfigDSN
  <2>2. QED
    BY <1>1, <1>2, <1>3, <2>1, NotTrueYet DEF CallInv
<1>4. CASE kind = "UNKNOWN"
  <2>1. phase' = "idle"
    BY <1>4 DEF ConfigDSN, Throw, Answer
  <2>2. QED
    BY <1>1, <2>1, NotTrueYet DEF CallInv
<1>5. CASE kind \in {"CONFIG", "ADD"}
  <2>1. phase' = "dialog" /\ answer' = "-"
    BY <1>5 DEF ConfigDSN
  <2>2. QED
    BY <1>1, <1>2, <1>5, <2>1, NotTrueYet DEF CallInv
<1>6. QED
  BY <1>3, <1>4, <1>5

LEMMA DialogKeepsCall ==
  ASSUME CallInv, (\E edit \in Edits : Edit(edit)) \/ OnTest
  PROVE  CallInv'
<1>1. /\ phase = "dialog" /\ UNCHANGED <<phase, next, answer, request, before, dsns, ini>>
  BY DEF Edit, OnTest, iniVars, callVars
<1>2. answer' # "TRUE"
  BY <1>1 DEF CallInv
<1>3. QED
  BY <1>1, <1>2, NotTrueYet DEF CallInv

LEMMA CancelKeepsCall ==
  ASSUME CallInv, Cancel
  PROVE  CallInv'
<1>1. /\ phase = "dialog" /\ phase' = "idle" /\ answer' = "TRUE"
      /\ UNCHANGED <<next, request, before, dsns, ini>>
  BY DEF Cancel, Answer, iniVars, callVars
<1>2. /\ next' = 1 /\ request' \in {"CONFIG", "ADD"}
      /\ dsns' = before'.dsns /\ ini' = before'.ini
  BY <1>1 DEF CallInv
<1>3. ~Wrote'
  BY <1>2, MoreThanOneEntry DEF Wrote
<1>4. LossIsTold'
  BY <1>2, <1>3 DEF LossIsTold
<1>5. QED
  BY <1>1, <1>4 DEF CallInv

LEMMA ConfirmKeepsCall ==
  ASSUME CallInv, Confirm
  PROVE  CallInv'
<1>1. /\ phase = "dialog" /\ UNCHANGED <<answer, next, request, before, dsns, ini, original>>
      /\ phase' = IF request = "CONFIG" THEN "remove" ELSE "create"
  BY DEF Confirm, Goes, iniVars, callVars
<1>2. answer' # "TRUE"
  BY <1>1 DEF CallInv
<1>3. QED
  BY <1>1, <1>2, NotTrueYet DEF CallInv, Removed, Left

LEMMA RemoveTells ==
  ASSUME IniInv, CallInv, RemoveFromIni
  PROVE  CallInv'
<1> DEFINE gone == original.name
<1>1. /\ phase = "remove" /\ UNCHANGED <<next, request, before, original>>
  BY DEF RemoveFromIni, dialogVars, callVars
<1>2. /\ next = 1 /\ request \in {"CONFIG", "REMOVE"}
      /\ dsns = before.dsns /\ ini = before.ini
  BY <1>1 DEF CallInv
<1>3. CASE Throw
  <2>1. phase' = "idle" /\ answer' = "FALSE"
    BY <1>3 DEF Throw, Answer
  <2>2. QED
    BY <2>1, NotTrueYet DEF CallInv
<1>4. ASSUME RemoveDSNFromIni(gone)
      PROVE  /\ dsns' = before'.dsns \ {gone}
             /\ \A n \in Names : ini'[n] = IF n = gone THEN NoSection ELSE before'.ini[n]
  <2>1. dsns' = before'.dsns \ {gone}
    BY <1>1, <1>2, <1>4 DEF RemoveDSNFromIni
  <2> HIDE DEF gone
  <2>2. \A n \in Names : ini'[n] = IF n = gone THEN NoSection ELSE ini[n]
    BY <1>4 DEF RemoveDSNFromIni, IniInv, IniIsTable
  <2>3. QED
    BY <1>1, <1>2, <2>1, <2>2
<1>5. CASE RemoveDSNFromIni(gone) /\ request = "REMOVE" /\ Answer("TRUE")
  <2>1. phase' = "idle" /\ request' = "REMOVE" /\ original'.name = gone
    BY <1>1, <1>5 DEF Answer
  <2>2. ~Wrote'
    BY <2>1 DEF Wrote, Done
  <2>3. /\ dsns' = (before'.dsns \ {original'.name}) \cup {}
        /\ \A n \in Names \ {} :
             ini'[n] = IF n \in {original'.name} THEN NoSection ELSE before'.ini[n]
    BY <1>4, <1>5, <2>1
  <2>4. LossIsTold'
    BY <2>1, <2>2, <2>3 DEF LossIsTold
  <2>5. QED
    BY <2>1, <2>4 DEF CallInv
<1>6. CASE RemoveDSNFromIni(gone) /\ request # "REMOVE" /\ Goes("create")
  <2>1. phase' = "create" /\ answer' = "-" /\ request' = "CONFIG" /\ original'.name = gone
    BY <1>1, <1>2, <1>6 DEF Goes, CallInv
  <2>2. dsns' = before'.dsns \ Removed' /\ \A n \in Names : ini'[n] = Left(n)'
    BY <1>4, <1>6, <2>1 DEF Removed, Left
  <2>3. QED
    BY <1>1, <1>2, <2>1, <2>2, NotTrueYet DEF CallInv
<1>7. QED
  BY <1>3, <1>5, <1>6 DEF RemoveFromIni, Fails

LEMMA CreateTells ==
  ASSUME IniInv, CallInv, WriteDSNToIni
  PROVE  CallInv'
<1>1. /\ phase = "create" /\ UNCHANGED <<request, before, original, edited>>
  BY DEF WriteDSNToIni, dialogVars, callVars
<1>2. CASE Throw
  <2>1. phase' = "idle" /\ answer' = "FALSE"
    BY <1>2 DEF Throw, Answer
  <2>2. QED
    BY <2>1, NotTrueYet DEF CallInv
<1>3. CASE /\ dsns' = dsns \cup {edited.name} /\ Goes("write")
           /\ ini' = [ini EXCEPT ![edited.name] = NoSection]
  <2>1. phase' = "write" /\ answer' = "-"
    BY <1>1, <1>3 DEF Goes, CallInv
  <2>2. request' \in {"CONFIG", "ADD"}
    BY <1>1 DEF CallInv
  <2>3. dsns' = (before'.dsns \ Removed') \cup {edited'.name}
    BY <1>1, <1>3 DEF CallInv, Removed
  <2>4. \A n \in Names \ {edited'.name} : ini'[n] = Left(n)'
    <3>1. \A n \in Names \ {edited.name} : ini'[n] = ini[n]
      BY <1>3 DEF IniInv, IniIsTable
    <3>2. \A n \in Names : ini[n] = Left(n) /\ Left(n)' = Left(n)
      BY <1>1 DEF CallInv, Left, Removed
    <3>3. QED
      BY <1>1, <3>1, <3>2
  <2>5. QED
    BY <2>1, <2>2, <2>3, <2>4, NotTrueYet DEF CallInv
<1>4. QED
  BY <1>2, <1>3 DEF WriteDSNToIni, Fails

LEMMA WritingTells ==
  ASSUME IniInv, CallInv, WriteProfileString
  PROVE  CallInv'
<1>1. /\ phase = "write" /\ UNCHANGED <<request, before, original, edited, dsns>>
  BY DEF WriteProfileString, dialogVars, callVars
<1>2. /\ request' \in {"CONFIG", "ADD"}
      /\ dsns' = (before'.dsns \ Removed') \cup {edited'.name}
  BY <1>1 DEF CallInv, Removed
<1>3. ASSUME NEW g, ini' = [ini EXCEPT ![edited.name][g] = EntryValue(edited, g)]
      PROVE  \A n \in Names \ {edited'.name} : ini'[n] = Left(n)'
  <2>1. \A n \in Names \ {edited.name} : ini'[n] = ini[n]
    BY <1>3 DEF IniInv, IniIsTable
  <2>2. \A n \in Names \ {edited.name} : ini[n] = Left(n) /\ Left(n)' = Left(n)
    BY <1>1 DEF CallInv, Left, Removed
  <2>3. QED
    BY <1>1, <2>1, <2>2
<1>4. CASE Throw
  <2>1. phase' = "idle" /\ answer' = "FALSE"
    BY <1>4 DEF Throw, Answer
  <2>2. QED
    BY <2>1, NotTrueYet DEF CallInv
<1> DEFINE others == \A n \in Names \ {edited'.name} : ini'[n] = Left(n)'
<1>5. CASE UNCHANGED <<phase, answer>> /\ others
  <2>1. phase' = "write" /\ answer' = "-"
    BY <1>1, <1>5 DEF CallInv
  <2>2. QED
    BY <1>2, <1>5, <2>1, NotTrueYet DEF CallInv
<1>6. CASE Answer("TRUE") /\ next' = Len(Entries) /\ others
  <2>1. phase' = "idle" /\ answer' = "TRUE"
    BY <1>6 DEF Answer
  <2>2. Wrote'
    BY <1>2, <1>6, <2>1 DEF Wrote, Done
  <2>3. LossIsTold'
    BY <1>2, <1>6, <2>2 DEF LossIsTold, Removed, Left
  <2>4. QED
    BY <2>1, <2>3 DEF CallInv
<1>7. QED
  BY <1>3, <1>4, <1>5, <1>6 DEF WriteProfileString, Fails

LEMMA NextCallInv ==
  IniInv /\ CallInv /\ [SetupNext]_vars => CallInv'
<1> SUFFICES ASSUME IniInv, CallInv, [SetupNext]_vars PROVE CallInv'
  OBVIOUS
<1>1. CASE UNCHANGED vars
  BY <1>1 DEF CallInv, LossIsTold, Removed, Left, Wrote, Done, vars, iniVars, dialogVars, callVars
<1>2. CASE SetupNext
  BY <1>2, CallBegins, DialogKeepsCall, CancelKeepsCall, ConfirmKeepsCall, RemoveTells,
     CreateTells, WritingTells DEF SetupNext
<1>3. QED
  BY <1>1, <1>2

(* A call of ConfigDSN that returns TRUE took away, although it removes    *)
(* before it writes, only the data source it was to remove or rename: all  *)
(* others have the entries they had, but for the one it wrote.             *)
THEOREM NothingIsLostSilently == SetupSpec => []LossIsTold
<1>1. SetupInit => IniInv /\ CallInv
  BY InitIniInv, InitCallInv, IniAssumption
<1>2. CallInv => LossIsTold
  BY DEF CallInv
<1>3. QED
  BY <1>1, <1>2, NextIniInv, NextCallInv, PTL DEF SetupSpec

-----------------------------------------------------------------------------
(* Data sources and the functions on them.                                 *)

IsDataSource(d) ==
  /\ d = [name |-> d.name, driver |-> d.driver, str |-> d.str, flag |-> d.flag]
  /\ d.str = [f \in StringFields |-> d.str[f]]
  /\ d.flag \in [FlagFields -> BOOLEAN]

LEMMA FieldsAreKnown ==
  /\ {"UseCompactFormat", "DisableGetObjectMetadata"} \subseteq FlagFields
  /\ {"RetsVersion", "UserAgentAuthType", "EncodingType", "LoginUrl"} \subseteq StringFields
  /\ StringFields \cap FlagFields = {}
  /\ "name" \notin Fields
BY DEF FlagFields, StringFields, Fields

LEMMA Booleans ==
  /\ \A f : FlagDefault(f) \in BOOLEAN
  /\ \A s : stringToBool(s) \in BOOLEAN
  /\ \A section, f : GetProfileBool(section, f) \in BOOLEAN
<1>1. \A f : FlagDefault(f) \in BOOLEAN
  BY DEF FlagDefault
<1>2. \A s : stringToBool(s) \in BOOLEAN
  BY DEF stringToBool
<1>3. \A section, f : GetProfileBool(section, f) \in BOOLEAN
  BY <1>1, <1>2, Zenon DEF GetProfileBool
<1> QED
  BY <1>1, <1>2, <1>3

LEMMA RecordIsDataSource ==
  ASSUME NEW name, NEW driver, NEW strs, strs = [f \in StringFields |-> strs[f]],
         NEW flags \in [FlagFields -> BOOLEAN],
         NEW d, d = [name |-> name, driver |-> driver, str |-> strs, flag |-> flags]
  PROVE  IsDataSource(d) /\ d.name = name /\ d.str = strs /\ d.flag = flags
BY DEF IsDataSource

LEMMA NewDataSource ==
  ASSUME NEW name
  PROVE  IsDataSource(New(name)) /\ New(name).name = name
<1> DEFINE flags == [f \in FlagFields |-> FlagDefault(f)]
           strs == [f \in StringFields |-> ""]
<1>1. flags \in [FlagFields -> BOOLEAN] /\ strs = [f \in StringFields |-> strs[f]]
  BY Booleans
<1>2. New(name) = [name |-> name, driver |-> "", str |-> strs, flag |-> flags]
  BY Zenon DEF New
<1> HIDE DEF flags, strs
<1>3. \A driver, d : d = [name |-> name, driver |-> driver, str |-> strs, flag |-> flags]
                      => IsDataSource(d) /\ d.name = name
  BY <1>1, RecordIsDataSource
<1> QED
  BY <1>2, <1>3, Zenon

LEMMA MergedDataSource ==
  ASSUME NEW d, IsDataSource(d)
  PROVE  /\ IsDataSource(MergeFromIni(d))
         /\ MergeFromIni(d).name = d.name
         /\ d.name # "" =>
              /\ \A f \in StringFields :
                   MergeFromIni(d).str[f] = MergeFromProfileString(d.str[f], ini[d.name], f)
              /\ \A f \in FlagFields : MergeFromIni(d).flag[f] = GetProfileBool(ini[d.name], f)
<1> DEFINE strs == [f \in StringFields |-> MergeFromProfileString(d.str[f], ini[d.name], f)]
           flags == [f \in FlagFields |-> GetProfileBool(ini[d.name], f)]
<1>1. MergeFromIni(d) = IF d.name = "" THEN d ELSE [d EXCEPT !.str = strs, !.flag = flags]
  BY Zenon DEF MergeFromIni
<1>2. flags \in [FlagFields -> BOOLEAN] /\ strs = [f \in StringFields |-> strs[f]]
  BY Booleans
<1>3. /\ \A f \in StringFields : strs[f] = MergeFromProfileString(d.str[f], ini[d.name], f)
      /\ \A f \in FlagFields : flags[f] = GetProfileBool(ini[d.name], f)
  BY Zenon
<1> HIDE DEF strs, flags
<1>4. d = [name |-> d.name, driver |-> d.driver, str |-> d.str, flag |-> d.flag]
  BY DEF IsDataSource
<1>5. d.name # ""
        => MergeFromIni(d) = [name |-> d.name, driver |-> d.driver, str |-> strs, flag |-> flags]
  BY <1>1, <1>4
<1> QED
  BY <1>1, <1>2, <1>3, <1>5 DEF IsDataSource

(* An entry of a flag is read as the flag it was written from, and a text  *)
(* that is not too long as it is.                                          *)
LEMMA FlagsAreReadBack ==
  ASSUME NEW section, NEW f, NEW b \in BOOLEAN, section[f] = boolToString(b)
  PROVE  GetProfileBool(section, f) = b
<1>1. boolToString(b) \in {"true", "false"}
  BY DEF boolToString
<1>2. section[f] # "" /\ GetProfileString(section, f) = section[f]
  BY <1>1 DEF GetProfileString, Long
<1> QED
  BY <1>2 DEF GetProfileBool, stringToBool, boolToString

-----------------------------------------------------------------------------
(* The controls.                                                           *)

LEMMA ToWindow ==
  ASSUME NEW d, IsDataSource(d)
  PROVE  /\ IsDataSource(TransferDataToWindow(d))
         /\ TransferDataToWindow(d).name = d.name
<1> DEFINE strs == [d.str EXCEPT !["RetsVersion"] = StringToRetsVersion(@),
                                 !["UserAgentAuthType"] = StringToUserAgentAuthType(@),
                                 !["EncodingType"] = StringToEncodingType(@)]
           flags == [d.flag EXCEPT !["UseCompactFormat"] = ~@,
                                   !["DisableGetObjectMetadata"] = TRUE]
<1>1. d = [name |-> d.name, driver |-> d.driver, str |-> d.str, flag |-> d.flag]
  BY DEF IsDataSource
<1>2. TransferDataToWindow(d) = [d EXCEPT !.str = strs, !.flag = flags]
  BY Zenon DEF TransferDataToWindow
<1>3. strs = [f \in StringFields |-> strs[f]]
  BY DEF IsDataSource
<1>4. flags \in [FlagFields -> BOOLEAN]
  BY DEF IsDataSource
<1> HIDE DEF strs, flags
<1>5. TransferDataToWindow(d)
        = [name |-> d.name, driver |-> d.driver, str |-> strs, flag |-> flags]
  BY <1>1, <1>2
<1> QED
  BY <1>3, <1>4, <1>5 DEF IsDataSource


(* The setting without a control is kept, the others are what is seen.     *)
LEMMA FromWindow ==
  ASSUME NEW w, IsDataSource(w), NEW d, IsDataSource(d)
  PROVE  LET result == TransferDataFromWindow(w, d)
         IN  /\ IsDataSource(result)
             /\ result.name = w.name
             /\ result.str = w.str
             /\ result.flag["DisableGetObjectMetadata"] = d.flag["DisableGetObjectMetadata"]
             /\ \A f \in FlagFields \ {"DisableGetObjectMetadata"} :
                  result.flag[f] = Meaning(w, f)
<1> DEFINE kept == d.flag["DisableGetObjectMetadata"]
           flags == [w.flag EXCEPT !["UseCompactFormat"] = ~@,
                                   !["DisableGetObjectMetadata"] = kept]
           result == TransferDataFromWindow(w, d)
<1>1. w = [name |-> w.name, driver |-> w.driver, str |-> w.str, flag |-> w.flag]
  BY DEF IsDataSource
<1>2. result = [w EXCEPT !.flag = flags]
  BY Zenon DEF TransferDataFromWindow
<1>3. kept \in BOOLEAN /\ w.flag \in [FlagFields -> BOOLEAN]
  BY FieldsAreKnown DEF IsDataSource
<1>4. flags \in [FlagFields -> BOOLEAN]
      /\ flags["DisableGetObjectMetadata"] = kept
  BY <1>3, FieldsAreKnown
<1>5. \A f \in FlagFields \ {"DisableGetObjectMetadata"} : flags[f] = Meaning(w, f)
  BY <1>3, FieldsAreKnown DEF Meaning
<1> HIDE DEF flags, kept, result
<1>6. result = [name |-> w.name, driver |-> w.driver, str |-> w.str, flag |-> flags]
  BY <1>1, <1>2
<1>7. IsDataSource(result) /\ result.name = w.name /\ result.str = w.str /\ result.flag = flags
  BY <1>4, <1>6 DEF IsDataSource
<1> QED
  BY <1>4, <1>5, <1>7, Zenon DEF result, kept

LEMMA ChangedWindow ==
  ASSUME NEW w, IsDataSource(w), NEW edit \in Edits
  PROVE  /\ IsDataSource(Change(w, edit))
         /\ w.name \in Names \cup {""} => Change(w, edit).name \in Names \cup {""}
<1> DEFINE value(f, old) == IF f \in DOMAIN edit THEN edit[f] ELSE old
           name == value("name", w.name)
           strs == [f \in StringFields |-> value(f, w.str[f])]
           flags == [f \in FlagFields |-> value(f, w.flag[f])]
<1>1. w = [name |-> w.name, driver |-> w.driver, str |-> w.str, flag |-> w.flag]
      /\ w.flag \in [FlagFields -> BOOLEAN]
  BY DEF IsDataSource
<1>2. Change(w, edit) = [w EXCEPT !.name = name, !.str = strs, !.flag = flags]
  BY Zenon DEF Change
<1>3. w.name \in Names \cup {""} => name \in Names \cup {""}
  BY EditsAssumption, Zenon
<1>4. flags \in [FlagFields -> BOOLEAN]
  <2>1. \A f \in FlagFields : value(f, w.flag[f]) \in BOOLEAN
    <3> TAKE f \in FlagFields
    <3>1. f \in DOMAIN edit => edit[f] \in BOOLEAN
      BY EditsAssumption, Zenon
    <3>2. w.flag[f] \in BOOLEAN
      BY <1>1
    <3> QED
      BY <3>1, <3>2, Zenon
  <2> QED
    BY <2>1, Zenon
<1>5. strs = [f \in StringFields |-> strs[f]]
  BY Zenon
<1> HIDE DEF name, strs, flags
<1>6. Change(w, edit) = [name |-> name, driver |-> w.driver, str |-> strs, flag |-> flags]
  BY <1>1, <1>2
<1>7. \A driver, c : c = [name |-> name, driver |-> driver, str |-> strs, flag |-> flags]
                      => IsDataSource(c) /\ c.name = name
  BY <1>4, <1>5, RecordIsDataSource
<1> QED
  BY <1>3, <1>6, <1>7, Zenon

-----------------------------------------------------------------------------
(* From the controls into the section.                                     *)

DialogIsTyped ==
  /\ IsDataSource(original) /\ IsDataSource(edited) /\ IsDataSource(window)
  /\ {original.name, edited.name, window.name} \subseteq Names \cup {""}
  /\ edited.flag["DisableGetObjectMetadata"] = original.flag["DisableGetObjectMetadata"]

(* The data source is what the user saw when the dialog was confirmed.     *)
Confirmed ==
  /\ edited.name = window.name /\ window.name # "" /\ window.str["LoginUrl"] # ""
  /\ edited.str = window.str
  /\ \A f \in FlagFields \ {"DisableGetObjectMetadata"} : edited.flag[f] = Meaning(window, f)

AfterDialog ==
  \/ phase \in {"create", "write"}
  \/ phase = "remove" /\ request = "CONFIG"
  \/ Wrote

(* The first k entries are in the section, or empty.                       *)
Written(k) ==
  \A i \in 1..k : ini[edited.name][Entries[i]] = EntryValue(edited, Entries[i])

WritingGoesOn ==
  /\ phase = "write" => next \in 1..Len(Entries) /\ Written(next - 1)
  /\ Wrote => Written(Len(Entries))

DialogInv == DialogIsTyped /\ (AfterDialog => Confirmed) /\ WritingGoesOn

LEMMA InitDialogInv ==
  ASSUME SetupInit
  PROVE  DialogInv
<1>1. original = New("") /\ edited = New("") /\ window = New("")
      /\ phase = "idle" /\ answer = "-"
  BY DEF SetupInit
<1>2. ~Wrote
  BY <1>1 DEF Wrote, Done
<1>3. DialogIsTyped
  BY <1>1, NewDataSource, Zenon DEF DialogIsTyped
<1> QED
  BY <1>1, <1>2, <1>3 DEF DialogInv, AfterDialog, WritingGoesOn

(* Outside of writing, and without an answer that tells of it, only the    *)
(* types of the data sources count.                                        *)
LEMMA NothingWritten ==
  ASSUME DialogIsTyped', phase' \notin {"create", "write"},
         phase' = "remove" => request' # "CONFIG",
         ~Wrote'
  PROVE  DialogInv'
BY DEF DialogInv, AfterDialog, WritingGoesOn

LEMMA CallOpensDialog ==
  ASSUME DialogInv, NEW kind, NEW name \in Names \cup {""}, ConfigDSN(kind, name)
  PROVE  DialogInv'
<1>1. PICK d : Opens(d) /\ d \in {MergeFromIni(New(name)), New(name), New("")}
  BY Zenon DEF ConfigDSN
<1>2. IsDataSource(d) /\ d.name \in Names \cup {""}
  <2>1. CASE d = MergeFromIni(New(name))
    BY <2>1, NewDataSource, MergedDataSource, Zenon
  <2>2. CASE d = New(name)
    BY <2>2, NewDataSource, Zenon
  <2>3. CASE d = New("")
    BY <2>3, NewDataSource, Zenon
  <2> QED
    BY <1>1, <2>1, <2>2, <2>3, Zenon
<1>3. original' = d /\ edited' = d /\ window' = TransferDataToWindow(d)
  BY <1>1 DEF Opens
<1>4. DialogIsTyped'
  BY <1>2, <1>3, ToWindow, Zenon DEF DialogIsTyped
<1>5. answer' # "TRUE" /\ phase' \in {"remove", "idle", "dialog"} /\ request' = kind
      /\ (phase' = "remove" => kind = "REMOVE")
  BY DEF ConfigDSN, Throw, Answer
<1>6. ~Wrote'
  BY <1>5 DEF Wrote, Done
<1> QED
  BY <1>4, <1>5, <1>6, NothingWritten

LEMMA EditKeepsDialog ==
  ASSUME DialogInv, CallInv, NEW edit \in Edits, Edit(edit)
  PROVE  DialogInv'
<1>1. window' = Change(window, edit) /\ UNCHANGED <<original, edited, phase, answer>>
      /\ phase = "dialog"
  BY DEF Edit
<1>2. DialogIsTyped'
  BY <1>1, ChangedWindow DEF DialogInv, DialogIsTyped
<1>3. ~Wrote'
  BY <1>1 DEF Wrote, Done
<1> QED
  BY <1>1, <1>2, <1>3, NothingWritten

(* What the test button and OK transfer.                                   *)
LEMMA TransferIsConfirmed ==
  ASSUME DialogInv, Validate(window), UNCHANGED <<original, window>>,
         edited' = TransferDataFromWindow(window, edited)
  PROVE  DialogIsTyped' /\ Confirmed'
<1>1. IsDataSource(window) /\ IsDataSource(edited)
  BY DEF DialogInv, DialogIsTyped
<1>2. /\ IsDataSource(edited')
      /\ edited'.name = window.name
      /\ edited'.str = window.str
      /\ edited'.flag["DisableGetObjectMetadata"] = edited.flag["DisableGetObjectMetadata"]
      /\ \A f \in FlagFields \ {"DisableGetObjectMetadata"} :
           edited'.flag[f] = Meaning(window, f)
  BY <1>1, FromWindow, Zenon
<1>3. DialogIsTyped'
  BY <1>2 DEF DialogInv, DialogIsTyped
<1>4. window.name # "" /\ window.str["LoginUrl"] # ""
  BY DEF Validate, IsComplete
<1>5. Confirmed'
  BY <1>2, <1>4 DEF Confirmed, Meaning
<1> QED
  BY <1>3, <1>5

LEMMA TestKeepsDialog ==
  ASSUME DialogInv, CallInv, OnTest
  PROVE  DialogInv'
<1>1. DialogIsTyped'
  BY TransferIsConfirmed, Zenon DEF OnTest
<1>2. phase' = "dialog"
  BY DEF OnTest
<1>3. ~Wrote'
  BY <1>2 DEF Wrote, Done
<1> QED
  BY <1>1, <1>2, <1>3, NothingWritten

LEMMA CancelWritesNothing ==
  ASSUME DialogInv, CallInv, Cancel
  PROVE  DialogInv'
<1>1. DialogIsTyped'
  BY DEF Cancel, dialogVars, DialogInv, DialogIsTyped
<1>2. phase' = "idle" /\ next' = next /\ phase = "dialog"
  BY DEF Cancel, Answer
<1>3. ~Wrote'
  BY <1>2, MoreThanOneEntry DEF CallInv, Wrote
<1> QED
  BY <1>1, <1>2, <1>3, NothingWritten

LEMMA ConfirmSettles ==
  ASSUME DialogInv, CallInv, Confirm
  PROVE  DialogInv'
<1>1. DialogIsTyped' /\ Confirmed'
  BY TransferIsConfirmed, Zenon DEF Confirm
<1>2. phase' \in {"remove", "create"}
  BY DEF Confirm, Goes
<1>3. ~Wrote'
  BY <1>2 DEF Wrote, Done
<1> QED
  BY <1>1, <1>2, <1>3 DEF DialogInv, WritingGoesOn

LEMMA RemovalKeepsDialog ==
  ASSUME DialogInv, CallInv, RemoveFromIni
  PROVE  DialogInv'
<1>1. DialogIsTyped' /\ UNCHANGED <<original, edited, window, request>> /\ phase = "remove"
  BY DEF RemoveFromIni, dialogVars, callVars, DialogInv, DialogIsTyped
<1>2. CASE Throw
  <2>1. phase' = "idle" /\ answer' = "FALSE"
    BY <1>2 DEF Throw, Answer
  <2>2. ~Wrote'
    BY <2>1 DEF Wrote, Done
  <2> QED
    BY <1>1, <2>1, <2>2, NothingWritten
<1>3. CASE request = "REMOVE" /\ Answer("TRUE")
  <2>1. phase' = "idle" /\ request' = "REMOVE"
    BY <1>1, <1>3 DEF Answer
  <2>2. ~Wrote'
    BY <2>1 DEF Wrote, Done
  <2> QED
    BY <1>1, <2>1, <2>2, NothingWritten
<1>4. CASE request # "REMOVE" /\ Goes("create")
  <2>1. phase' = "create" /\ request = "CONFIG"
    BY <1>1, <1>4 DEF Goes, CallInv
  <2>2. Confirmed
    BY <1>1, <2>1 DEF DialogInv, AfterDialog
  <2>3. Confirmed'
    BY <1>1, <2>2 DEF Confirmed, Meaning
  <2>4. ~Wrote'
    BY <2>1 DEF Wrote, Done
  <2> QED
    BY <1>1, <2>1, <2>3, <2>4 DEF DialogInv, WritingGoesOn
<1> QED
  BY <1>2, <1>3, <1>4 DEF RemoveFromIni, Fails

LEMMA CreationKeepsDialog ==
  ASSUME DialogInv, CallInv, WriteDSNToIni
  PROVE  DialogInv'
<1>1. DialogIsTyped' /\ UNCHANGED <<original, edited, window>> /\ phase = "create"
  BY DEF WriteDSNToIni, dialogVars, DialogInv, DialogIsTyped
<1>2. CASE Throw
  <2>1. phase' = "idle" /\ answer' = "FALSE"
    BY <1>2 DEF Throw, Answer
  <2>2. ~Wrote'
    BY <2>1 DEF Wrote, Done
  <2> QED
    BY <1>1, <2>1, <2>2, NothingWritten
<1>3. CASE next' = 1 /\ Goes("write")
  <2>1. phase' = "write"
    BY <1>3 DEF Goes
  <2>2. Confirmed'
    BY <1>1 DEF DialogInv, AfterDialog, Confirmed, Meaning
  <2>3. ~Wrote'
    BY <2>1 DEF Wrote, Done
  <2>4. Written(next - 1)' /\ next' \in 1..Len(Entries)
    BY <1>3 DEF Written, Entries
  <2> QED
    BY <1>1, <2>2, <2>3, <2>4 DEF DialogInv, WritingGoesOn
<1> QED
  BY <1>2, <1>3 DEF WriteDSNToIni, Fails

-----------------------------------------------------------------------------
(* Entry by entry.                                                         *)

LEMMA LeastNumber ==
  ASSUME NEW T, T \subseteq Nat, T # {}
  PROVE  Min(T) \in T /\ \A y \in T : Min(T) <= y
<1> DEFINE R == OpToRel(<, Nat)
<1>1. IsWellFoundedOn(R, Nat)
  BY NatLessThanWellFounded
<1>2. \A x, y \in Nat : y < x => <<y, x>> \in R
  BY DEF OpToRel
<1> HIDE DEF R
<1>3. PICK x \in T : \A y \in T : ~(<<y, x>> \in R)
  BY <1>1, WFMin
<1>4. \A y \in T : x <= y
  <2> TAKE y \in T
  <2>1. ~(y < x)
    BY <1>2, <1>3, Zenon
  <2> QED
    BY <2>1
<1>5. \E m \in T : \A y \in T : m <= y
  BY <1>4
<1> QED
  BY <1>5, Zenon DEF Min

LEMMA EntriesAreFields ==
  /\ Len(Entries) = 25
  /\ \A i \in 1..Len(Entries) : Entries[i] \in Fields
  /\ \A f \in Fields : \E i \in 1..Len(Entries) : Entries[i] = f
<1>1. Len(Entries) = 25
  BY DEF Entries
<1>2. \A i \in 1..Len(Entries) : Entries[i] \in Fields
  BY DEF Entries, Fields, StringFields, FlagFields
<1>3. ASSUME NEW f \in StringFields
      PROVE  \E i \in 1..25 : Entries[i] = f
  BY DEF Entries, StringFields
<1>4. ASSUME NEW f \in FlagFields
      PROVE  \E i \in 1..25 : Entries[i] = f
  BY DEF Entries, FlagFields
<1> QED
  BY <1>1, <1>2, <1>3, <1>4, Zenon DEF Fields

(* The last entry is a flag, which is not written as nothing.              *)
LEMMA LastEntryIsWritten ==
  EntryValue(edited, Entries[25]) # ""
<1>1. Entries[25] = "HttpLogEverything"
  BY DEF Entries
<1>2. Entries[25] \in FlagFields
  BY <1>1 DEF FlagFields
<1> QED
  BY <1>2 DEF EntryValue, boolToString

(* An entry that is passed over is not in the section that was begun.      *)
LEMMA EntryStays ==
  ASSUME IniInv, phase = "write", Confirmed, edited.name \in Names, NEW f \in Fields,
         EntryValue(edited, f) = ""
  PROVE  ini[edited.name][f] = ""
<1>1. writtenBy[edited.name] = edited
  BY DEF IniInv, WritingIsOfEdited
<1>2. edited # NotWritten
  <2>1. edited.str["LoginUrl"] # ""
    BY DEF Confirmed
  <2>2. NotWritten.str["LoginUrl"] = ""
    BY FieldsAreKnown DEF NotWritten, New
  <2> QED
    BY <2>1, <2>2, Zenon
<1> QED
  BY <1>1, <1>2, Zenon DEF IniInv, SectionsOfOneWriting

LEMMA EntryIsWritten ==
  ASSUME DialogInv, IniInv, WriteProfileString
  PROVE  DialogInv'
<1> DEFINE n == edited.name
           later == {i \in next+1..Len(Entries) : EntryValue(edited, Entries[i]) # ""}
<1>0. Len(Entries) = 25
  BY EntriesAreFields
<1>1. /\ UNCHANGED <<original, edited, window, request>> /\ phase = "write"
      /\ DialogIsTyped' /\ Confirmed /\ Confirmed'
      /\ next \in 1..Len(Entries) /\ Written(next - 1)
  <2>1. UNCHANGED <<original, edited, window, request>> /\ phase = "write"
    BY DEF WriteProfileString, dialogVars, callVars
  <2>2. DialogIsTyped' /\ Confirmed
    BY <2>1 DEF DialogInv, DialogIsTyped, AfterDialog
  <2>3. Confirmed'
    BY <2>1, <2>2 DEF Confirmed, Meaning
  <2> QED
    BY <2>1, <2>2, <2>3 DEF DialogInv, WritingGoesOn
<1>2. CASE Throw
  <2>1. phase' = "idle" /\ answer' = "FALSE"
    BY <1>2 DEF Throw, Answer
  <2>2. ~Wrote'
    BY <2>1 DEF Wrote, Done
  <2> QED
    BY <1>1, <2>1, <2>2, NothingWritten
<1>3. CASE /\ ini' = [ini EXCEPT ![n][Entries[next]] = EntryValue(edited, Entries[next])]
           /\ IF next = Len(Entries) THEN Answer("TRUE") /\ UNCHANGED next
              ELSE next' = Min(later) /\ UNCHANGED <<phase, answer>>
  <2>1. n \in Names
    BY <1>1, Zenon DEF Confirmed, DialogInv, DialogIsTyped
  <2>2. Entries[next] \in Fields
    BY <1>1, EntriesAreFields
  <2>3. \A f \in Fields : ini'[n][f] = IF f = Entries[next] THEN EntryValue(edited, f)
                                       ELSE ini[n][f]
    <3>1. ini = [m \in Names |-> ini[m]] /\ ini[n] = [f \in Fields |-> ini[n][f]]
      BY <2>1 DEF IniInv, IniIsTable
    <3> QED
      BY <1>3, <2>1, <2>2, <3>1
  <2>4. \A i \in 1..next : ini'[n][Entries[i]] = EntryValue(edited, Entries[i])
    <3> TAKE i \in 1..next
    <3>1. Entries[i] \in Fields
      BY <1>1, EntriesAreFields
    <3>2. i # next => ini[n][Entries[i]] = EntryValue(edited, Entries[i])
      BY <1>1 DEF Written
    <3> QED
      BY <2>3, <3>1, <3>2, Zenon
  <2>5. CASE next = Len(Entries)
    <3>1. phase' = "idle" /\ next' = next
      BY <1>3, <2>5 DEF Answer
    <3>2. Written(Len(Entries))'
      BY <1>1, <2>4, <2>5 DEF Written, EntryValue
    <3> QED
      BY <1>1, <3>1, <3>2 DEF DialogInv, WritingGoesOn
  <2>6. CASE next # Len(Entries)
    <3>1. phase' = "write" /\ next' = Min(later)
      BY <1>1, <1>3, <2>6
    <3>2. 25 \in later /\ later \subseteq Nat
      <4>1. 25 \in next+1..Len(Entries)
        BY <1>0, <1>1, <2>6
      <4>2. later \subseteq Nat
        <5>1. later \subseteq next+1..Len(Entries)
          BY Zenon
        <5>2. next+1..Len(Entries) \subseteq Nat
          BY <1>0, <1>1
        <5> QED
          BY <5>1, <5>2, Zenon
      <4> QED
        BY <4>1, <4>2, LastEntryIsWritten, Zenon
    <3>3. next' \in later /\ \A i \in later : next' <= i
      BY <3>1, <3>2, LeastNumber, Zenon
    <3>4. next' \in 1..Len(Entries) /\ next' > next
      <4>1. next' \in next+1..Len(Entries)
        BY <3>3, Zenon
      <4> QED
        BY <1>0, <1>1, <4>1
    <3>5. \A i \in 1..next'-1 : ini'[n][Entries[i]] = EntryValue(edited, Entries[i])
      <4> SUFFICES ASSUME NEW i \in 1..next'-1
                   PROVE  ini'[n][Entries[i]] = EntryValue(edited, Entries[i])
        OBVIOUS
      <4>1. CASE i \in 1..next
        BY <2>4, <4>1
      <4>2. CASE i \notin 1..next
        <5> DEFINE k == next'
        <5>0. k \in 1..Len(Entries) /\ i \in 1..k-1
          BY <3>4
        <5> HIDE DEF k
        <5>1. i \in next+1..Len(Entries) /\ i < k /\ i # next
          BY <1>0, <1>1, <4>2, <5>0
        <5>2. i \notin later
          <6>1. i \in later => k <= i
            BY <3>3, Zenon DEF k
          <6> HIDE DEF later
          <6> QED
            BY <1>0, <5>0, <5>1, <6>1
        <5>3. EntryValue(edited, Entries[i]) = ""
          BY <5>1, <5>2, Zenon
        <5>4. Entries[i] \in Fields
          BY <1>1, <5>1, EntriesAreFields
        <5>5. ini[n][Entries[i]] = ""
          BY <1>1, <2>1, <5>3, <5>4, EntryStays, Zenon
        <5> QED
          BY <2>3, <5>3, <5>4, <5>5, Zenon
      <4> QED
        BY <4>1, <4>2, Zenon
    <3>6. Written(next - 1)'
      BY <1>1, <3>5 DEF Written, EntryValue
    <3>7. ~Wrote'
      BY <3>1 DEF Wrote, Done
    <3> QED
      BY <1>1, <3>1, <3>4, <3>6, <3>7 DEF DialogInv, WritingGoesOn
  <2> QED
    BY <2>5, <2>6
<1> QED
  BY <1>2, <1>3 DEF WriteProfileString, Fails

LEMMA StutterKeepsDialog ==
  ASSUME DialogInv, UNCHANGED vars
  PROVE  DialogInv'
<1>1. /\ UNCHANGED <<ini, original, edited, window, request, phase, next, answer>>
  BY DEF vars, iniVars, dialogVars, callVars
<1>2. DialogIsTyped' /\ (AfterDialog' => AfterDialog) /\ (Wrote' => Wrote)
  BY <1>1 DEF DialogInv, DialogIsTyped, AfterDialog, Wrote, Done
<1>3. Confirmed => Confirmed'
  BY <1>1 DEF Confirmed, Meaning
<1>4. WritingGoesOn'
  BY <1>1, <1>2 DEF DialogInv, WritingGoesOn, Written, EntryValue
<1> QED
  BY <1>2, <1>3, <1>4 DEF DialogInv

LEMMA NextDialogInv ==
  DialogInv /\ CallInv /\ IniInv /\ [SetupNext]_vars => DialogInv'
<1> SUFFICES ASSUME DialogInv, CallInv, IniInv, [SetupNext]_vars
             PROVE  DialogInv'
  OBVIOUS
<1>1. CASE UNCHANGED vars
  BY <1>1, StutterKeepsDialog
<1>2. CASE SetupNext
  BY <1>2, CallOpensDialog, EditKeepsDialog, TestKeepsDialog, CancelWritesNothing,
     ConfirmSettles, RemovalKeepsDialog, CreationKeepsDialog, EntryIsWritten, Zenon
    DEF SetupNext
<1> QED
  BY <1>1, <1>2

(* A section with all its entries is read as the data source it is of.     *)
LEMMA SectionIsReadBack ==
  ASSUME DialogInv, Wrote
  PROVE  LET n == edited.name
         IN  /\ \A f \in FlagFields : Reads(n).flag[f] = edited.flag[f]
             /\ \A f \in StringFields :
                  edited.str[f] # Long => Reads(n).str[f] = edited.str[f]
<1> DEFINE n == edited.name
           d == MergeFromIni(New(n))
<1>1. Confirmed /\ Written(Len(Entries)) /\ IsDataSource(edited)
  BY DEF DialogInv, AfterDialog, WritingGoesOn, DialogIsTyped
<1>2. \A f \in Fields : ini[n][f] = EntryValue(edited, f)
  <2> TAKE f \in Fields
  <2>1. PICK i \in 1..Len(Entries) : Entries[i] = f
    BY EntriesAreFields, Zenon
  <2>2. ini[n][Entries[i]] = EntryValue(edited, Entries[i])
    BY <1>1, Zenon DEF Written
  <2> QED
    BY <2>1, <2>2, Zenon
<1>3. IsDataSource(New(n)) /\ New(n).name = n /\ n # ""
  BY <1>1, NewDataSource, Zenon DEF Confirmed
<1>4. /\ \A f \in StringFields : d.str[f] = MergeFromProfileString(New(n).str[f], ini[n], f)
      /\ \A f \in FlagFields : d.flag[f] = GetProfileBool(ini[n], f)
  BY <1>3, MergedDataSource, Zenon
<1>5. ASSUME NEW f \in FlagFields
      PROVE  d.flag[f] = edited.flag[f]
  <2>1. edited.flag[f] \in BOOLEAN
    BY <1>1 DEF IsDataSource
  <2>2. ini[n][f] = boolToString(edited.flag[f])
    BY <1>2, Zenon DEF Fields, EntryValue
  <2> QED
    BY <1>4, <2>1, <2>2, FlagsAreReadBack, Zenon
<1>6. ASSUME NEW f \in StringFields, edited.str[f] # Long
      PROVE  d.str[f] = edited.str[f]
  <2>1. f \notin FlagFields
    BY FieldsAreKnown, Zenon
  <2>2. ini[n][f] = edited.str[f]
    BY <1>2, <2>1, Zenon DEF Fields, EntryValue
  <2>3. GetProfileString(ini[n], f) = edited.str[f]
    BY <1>6, <2>2, Zenon DEF GetProfileString
  <2>4. New(n).str[f] = ""
    <3>1. New(n).str = [g \in StringFields |-> ""]
      BY DEF New
    <3> QED
      BY <3>1, Zenon
  <2> QED
    BY <1>4, <2>3, <2>4, Zenon DEF MergeFromProfileString
<1> QED
  BY <1>5, <1>6, Zenon DEF Reads

LEMMA DialogIsRead ==
  ASSUME DialogInv
  PROVE  DriverReadsTheDialog
<1> DEFINE hidden == "DisableGetObjectMetadata"
<1>1. SUFFICES ASSUME Wrote
               PROVE  /\ Readable(window) =>
                           \A f \in Fields \ {hidden} :
                             Meaning(window, f) =
                               IF f \in FlagFields THEN Reads(window.name).flag[f]
                               ELSE Reads(window.name).str[f]
                      /\ Reads(edited.name).flag[hidden] = original.flag[hidden]
  BY Zenon DEF DriverReadsTheDialog
<1>2. Confirmed /\ edited.flag[hidden] = original.flag[hidden]
  BY <1>1 DEF DialogInv, AfterDialog, DialogIsTyped
<1>3. window.name = edited.name /\ window.str = edited.str
  BY <1>2, Zenon DEF Confirmed
<1>4. Reads(edited.name).flag[hidden] = original.flag[hidden]
  BY <1>1, <1>2, FieldsAreKnown, SectionIsReadBack
<1>5. ASSUME Readable(window), NEW f \in Fields \ {hidden}
      PROVE  Meaning(window, f) = IF f \in FlagFields THEN Reads(window.name).flag[f]
                                  ELSE Reads(window.name).str[f]
  <2>1. CASE f \in FlagFields
    <3>1. Meaning(window, f) = edited.flag[f]
      BY <1>2, <1>5, <2>1, Zenon DEF Confirmed
    <3>2. Reads(edited.name).flag[f] = edited.flag[f]
      BY <1>1, <2>1, SectionIsReadBack, Zenon
    <3> QED
      BY <1>3, <2>1, <3>1, <3>2, Zenon
  <2>2. CASE f \notin FlagFields
    <3>1. f \in StringFields /\ f # "UseCompactFormat"
      BY <1>5, <2>2, FieldsAreKnown DEF Fields
    <3>2. Meaning(window, f) = edited.str[f]
      BY <1>3, <2>2, <3>1, Zenon DEF Meaning
    <3>3. edited.str[f] # Long
      BY <1>3, <1>5, <3>1, Zenon DEF Readable
    <3>4. Reads(edited.name).str[f] = edited.str[f]
      BY <1>1, <3>1, <3>3, SectionIsReadBack, Zenon
    <3> QED
      BY <1>3, <2>2, <3>2, <3>4, Zenon
  <2> QED
    BY <2>1, <2>2
<1> QED
  BY <1>4, <1>5, Zenon

(* After a confirmed dialog and a call that returned TRUE the driver reads *)
(* what the controls showed, and the setting without a control as it was:  *)
(* whatever was edited, tested, failed and tried again before.             *)
THEOREM DialogReachesTheDriver == SetupSpec => []DriverReadsTheDialog
<1>1. SetupInit => IniInv /\ CallInv /\ DialogInv
  BY InitIniInv, InitCallInv, InitDialogInv, IniAssumption
<1>2. DialogInv => DriverReadsTheDialog
  BY DialogIsRead
<1>3. QED
  BY <1>1, <1>2, NextIniInv, NextCallInv, NextDialogInv, PTL DEF SetupSpec

-----------------------------------------------------------------------------
(* Settings on their way to a session.                                     *)

(* The settings are those of the section, where they are not given.        *)
IsMerged(d) ==
  d.name # "" =>
    /\ \A f \in FlagFields : d.flag[f] = GetProfileBool(ini[d.name], f)
    /\ \A f \in StringFields : d.str[f] = "" => GetProfileString(ini[d.name], f) = ""

LEMMA MergedIsMerged ==
  ASSUME NEW d, IsDataSource(d)
  PROVE  IsMerged(MergeFromIni(d))
<1> DEFINE m == MergeFromIni(d)
<1>1. m.name = d.name
  BY MergedDataSource, Zenon
<1>2. ASSUME m.name # ""
      PROVE  \A f \in FlagFields : m.flag[f] = GetProfileBool(ini[m.name], f)
  BY <1>1, <1>2, MergedDataSource, Zenon
<1>3. ASSUME m.name # "", NEW f \in StringFields, m.str[f] = ""
      PROVE  GetProfileString(ini[m.name], f) = ""
  <2>1. m.str[f] = MergeFromProfileString(d.str[f], ini[m.name], f)
    BY <1>1, <1>3, MergedDataSource, Zenon
  <2> QED
    BY <1>3, <2>1, Zenon DEF MergeFromProfileString
<1> QED
  BY <1>2, <1>3, Zenon DEF IsMerged

LEMMA UserIsSet ==
  ASSUME NEW d, IsDataSource(d), NEW f \in {"UID", "PWD"}, NEW value
  PROVE  LET s == Set(d, f, value)
         IN  /\ IsDataSource(s) /\ s.name = d.name /\ s.flag = d.flag
             /\ \A g \in StringFields \ {f} : s.str[g] = d.str[g]
<1> DEFINE s == Set(d, f, value)
           strs == [d.str EXCEPT ![f] = value]
<1>1. f \in StringFields /\ f \notin FlagFields
  BY DEF StringFields, FlagFields
<1>2. d.str = [g \in StringFields |-> d.str[g]]
  BY DEF IsDataSource
<1>3. strs = [g \in StringFields |-> strs[g]] /\ strs[f] = value
      /\ \A g \in StringFields \ {f} : strs[g] = d.str[g]
  BY <1>1, <1>2
<1>4. s = [d EXCEPT !.str = strs]
  BY <1>1, Zenon DEF Set
<1> HIDE DEF strs
<1>5. d = [name |-> d.name, driver |-> d.driver, str |-> d.str, flag |-> d.flag]
      /\ d.flag \in [FlagFields -> BOOLEAN]
  BY DEF IsDataSource
<1>6. \A t : t = [d EXCEPT !.str = strs]
        => t = [name |-> d.name, driver |-> d.driver, str |-> strs, flag |-> d.flag]
  BY <1>5
<1>7. IsDataSource(s) /\ s.name = d.name /\ s.str = strs /\ s.flag = d.flag
  BY <1>3, <1>4, <1>5, <1>6, RecordIsDataSource
<1>8. \A g \in StringFields \ {f} : s.str[g] = d.str[g]
  BY <1>3, <1>7
<1> QED
  BY <1>7, <1>8, Zenon

LEMMA StringIsDataSource ==
  ASSUME NEW d, NEW tokens
  PROVE  LET b == SetFromOdbcConnectionString(d, tokens)
         IN  /\ IsDataSource(b)
             /\ b.name = ValueIn(tokens, "DSN", d.name)
             /\ \A f \in StringFields : b.str[f] = ValueIn(tokens, f, d.str[f])
             /\ \A f \in FlagFields :
                  b.flag[f] = stringToBool(ValueIn(tokens, f, boolToString(d.flag[f])))
<1> DEFINE b == SetFromOdbcConnectionString(d, tokens)
           strs == [f \in StringFields |-> ValueIn(tokens, f, d.str[f])]
           flags == [f \in FlagFields |->
                      stringToBool(ValueIn(tokens, f, boolToString(d.flag[f])))]
<1>1. flags \in [FlagFields -> BOOLEAN] /\ strs = [f \in StringFields |-> strs[f]]
  BY Booleans
<1>2. /\ \A f \in StringFields : strs[f] = ValueIn(tokens, f, d.str[f])
      /\ \A f \in FlagFields :
           flags[f] = stringToBool(ValueIn(tokens, f, boolToString(d.flag[f])))
  BY Zenon
<1>3. b = [name |-> ValueIn(tokens, "DSN", d.name), driver |-> ValueIn(tokens, "DRIVER", d.driver),
           str |-> strs, flag |-> flags]
  BY Zenon DEF SetFromOdbcConnectionString
<1> HIDE DEF b, strs, flags
<1>4. IsDataSource(b) /\ b.name = ValueIn(tokens, "DSN", d.name) /\ b.str = strs /\ b.flag = flags
  BY <1>1, <1>3, RecordIsDataSource
<1> QED
  BY <1>2, <1>4, Zenon DEF b

-----------------------------------------------------------------------------
(* Connection strings.                                                     *)

IsTokens(s) == \E S : s \in Seq(S)

LEMMA OneIsLast ==
  ASSUME NEW tokens, Len(tokens) \in Nat, NEW key,
         NEW i \in LastWith(tokens, key), NEW j \in LastWith(tokens, key)
  PROVE  i = j
<1>1. i \in 1..Len(tokens) /\ j \in 1..Len(tokens) /\ tokens[i].key = tokens[j].key
  BY DEF LastWith
<1>2. j \notin i+1..Len(tokens) /\ i \notin j+1..Len(tokens)
  BY <1>1, Zenon DEF LastWith, IsLast
<1> QED
  BY <1>1, <1>2

LEMMA LastIsRead ==
  ASSUME NEW tokens, Len(tokens) \in Nat, NEW i \in 1..Len(tokens), IsLast(tokens, i), NEW old
  PROVE  ValueIn(tokens, tokens[i].key, old) = tokens[i].value
<1> DEFINE key == tokens[i].key
           last == LastWith(tokens, key)
           chosen == CHOOSE j \in last : TRUE
<1>1. i \in last
  BY DEF LastWith
<1>2. chosen \in last
  BY <1>1, Zenon
<1>3. chosen = i
  BY <1>1, <1>2, OneIsLast, Zenon
<1>4. last # {}
  BY <1>1, Zenon
<1> QED
  BY <1>3, <1>4, Zenon DEF ValueIn

LEMMA OneMoreToken ==
  ASSUME NEW s, IsTokens(s), NEW t
  PROVE  /\ IsTokens(s \o <<t>>)
         /\ Len(s) \in Nat
         /\ Len(s \o <<t>>) = Len(s) + 1
         /\ \A i \in 1..Len(s) : (s \o <<t>>)[i] = s[i]
         /\ (s \o <<t>>)[Len(s) + 1] = t
<1>1. PICK S : s \in Seq(S)
  BY Zenon DEF IsTokens
<1>2. s \in Seq(S \cup {t}) /\ <<t>> \in Seq(S \cup {t})
  BY <1>1
<1>3. s \o <<t>> \in Seq(S \cup {t})
  BY <1>2
<1>4. IsTokens(s \o <<t>>)
  BY <1>3, Zenon DEF IsTokens
<1>5. /\ Len(s) \in Nat
      /\ Len(s \o <<t>>) = Len(s) + 1
      /\ \A i \in 1..Len(s) : (s \o <<t>>)[i] = s[i]
      /\ (s \o <<t>>)[Len(s) + 1] = t
  BY <1>1
<1> QED
  BY <1>4, <1>5

LEMMA LastTokenIsRead ==
  ASSUME NEW s, IsTokens(s), NEW t, NEW key, NEW old
  PROVE  ValueIn(s \o <<t>>, key, old) = IF t.key = key THEN t.value ELSE ValueIn(s, key, old)
<1> DEFINE u == s \o <<t>>
           n == Len(s)
<1>1. /\ n \in Nat /\ Len(u) = n + 1 /\ u[n + 1] = t
      /\ \A i \in 1..n : u[i] = s[i]
  BY OneMoreToken
<1> HIDE DEF u, n
<1>2. CASE t.key = key
  <2>1. Len(u) \in Nat /\ n + 1 \in 1..Len(u) /\ n + 1 + 1..Len(u) = {}
    BY <1>1
  <2>2. IsLast(u, n + 1)
    BY <2>1 DEF IsLast
  <2>3. ValueIn(u, u[n + 1].key, old) = u[n + 1].value
    BY <2>1, <2>2, LastIsRead
  <2> QED
    BY <1>1, <1>2, <2>3 DEF u
<1>3. CASE t.key # key
  <2>1. ASSUME NEW i \in 1..n, s[i].key = key
        PROVE  IsLast(u, i) <=> IsLast(s, i)
    <3>1. i+1..Len(u) = (i+1..n) \cup {n + 1}
      BY <1>1
    <3>2. \A j \in i+1..n : u[j] = s[j]
      BY <1>1
    <3>3. u[n + 1].key # key /\ u[i].key = key
      BY <1>1, <1>3, <2>1
    <3> QED
      BY <2>1, <3>1, <3>2, <3>3 DEF IsLast, n
  <2>2. \A i : i \in LastWith(u, key) <=> i \in LastWith(s, key)
    <3>1. \A i : i \in 1..Len(u) /\ u[i].key = key <=> i \in 1..n /\ s[i].key = key
      BY <1>1, <1>3
    <3> QED
      BY <2>1, <3>1, Zenon DEF LastWith, n
  <2>3. LastWith(u, key) = LastWith(s, key)
    BY <2>2
  <2>4. \A i \in LastWith(s, key) : u[i] = s[i]
    BY <1>1, Zenon DEF LastWith, n
  <2> DEFINE i == CHOOSE j \in LastWith(s, key) : TRUE
  <2>5. LastWith(s, key) # {} => u[i] = s[i]
    BY <2>4, Zenon
  <2>6. /\ ValueIn(u, key, old) = IF LastWith(s, key) = {} THEN old ELSE u[i].value
        /\ ValueIn(s, key, old) = IF LastWith(s, key) = {} THEN old ELSE s[i].value
    BY <2>3 DEF ValueIn
  <2> HIDE DEF i
  <2>7. ValueIn(u, key, old) = ValueIn(s, key, old)
    BY <2>5, <2>6
  <2> QED
    BY <1>3, <2>7 DEF u
<1> QED
  BY <1>2, <1>3

(* There is a text; and how it is read if it is in a connection string.    *)
IsText(value) == value # ""
AsRead(value) == IF value = Semicolon THEN "with" ELSE value

LEMMA TokenIsPair ==
  \A key, value : Token(key, value).key = key /\ Token(key, value).value = value
BY DEF Token

LEMMA NothingIsAppended ==
  ASSUME NEW s, IsTokens(s)
  PROVE  s \o << >> = s
<1>1. PICK S : s \in Seq(S)
  BY Zenon DEF IsTokens
<1> QED
  BY <1>1

LEMMA BothAreAppended ==
  ASSUME NEW s, IsTokens(s), NEW t, NEW rest
  PROVE  s \o <<t, rest>> = (s \o <<t>>) \o <<rest>>
<1>1. PICK S : s \in Seq(S)
  BY Zenon DEF IsTokens
<1> DEFINE T == S \cup {t, rest}
<1>2. s \in Seq(T) /\ <<t>> \in Seq(T) /\ <<rest>> \in Seq(T)
  BY <1>1
<1>3. (s \o <<t>>) \o <<rest>> = s \o (<<t>> \o <<rest>>)
  BY <1>2, ConcatAssociative
<1>4. <<t>> \o <<rest>> = <<t, rest>>
  <2>1. <<t>> \o <<rest>> \in Seq(T) /\ <<t, rest>> \in Seq(T)
    BY <1>2
  <2>2. /\ Len(<<t>> \o <<rest>>) = 2 /\ Len(<<t, rest>>) = 2
        /\ (<<t>> \o <<rest>>)[1] = t /\ (<<t>> \o <<rest>>)[2] = rest
        /\ <<t, rest>>[1] = t /\ <<t, rest>>[2] = rest
    BY <1>2
  <2>3. \A i \in 1..2 : (<<t>> \o <<rest>>)[i] = <<t, rest>>[i]
    BY <2>2
  <2> QED
    BY <2>1, <2>2, <2>3, SeqEqual
<1> QED
  BY <1>3, <1>4, Zenon

LEMMA AppendedIsRead ==
  ASSUME NEW s, IsTokens(s), NEW k, NEW v, NEW key, key # "semicolon", NEW old
  PROVE  LET u == s \o AppendToConnectionString(k, v)
         IN  /\ IsTokens(u)
             /\ ValueIn(u, key, old) =
                  IF key = k /\ IsText(v) THEN AsRead(v) ELSE ValueIn(s, key, old)
<1> DEFINE u == s \o AppendToConnectionString(k, v)
<1>1. CASE ~IsText(v)
  <2>1. AppendToConnectionString(k, v) = << >>
    BY <1>1, Zenon DEF AppendToConnectionString, IsText
  <2> QED
    BY <1>1, <2>1, NothingIsAppended
<1>2. CASE IsText(v) /\ v # Semicolon
  <2>1. u = s \o <<Token(k, v)>>
    BY <1>2, Zenon DEF AppendToConnectionString, IsText
  <2> HIDE DEF u
  <2>2. IsTokens(u)
    BY <2>1, OneMoreToken, Zenon
  <2>3. ValueIn(u, key, old) = IF key = k THEN v ELSE ValueIn(s, key, old)
    BY <2>1, TokenIsPair, LastTokenIsRead
  <2>4. ValueIn(u, key, old) = IF key = k /\ IsText(v) THEN AsRead(v) ELSE ValueIn(s, key, old)
    BY <1>2, <2>3 DEF AsRead
  <2> QED
    BY <2>2, <2>4 DEF u
<1>3. CASE IsText(v) /\ v = Semicolon
  <2> DEFINE t == Token(k, "with")
             rest == Token("semicolon", "semicolon")
             w == s \o <<t>>
  <2>1. AppendToConnectionString(k, v) = <<t, rest>>
    BY <1>3, Zenon DEF AppendToConnectionString, IsText
  <2>2. u = w \o <<rest>>
    <3>1. u = s \o <<t, rest>>
      BY <2>1, Zenon
    <3> HIDE DEF u, t, rest
    <3>2. s \o <<t, rest>> = (s \o <<t>>) \o <<rest>>
      BY BothAreAppended
    <3> QED
      BY <3>1, <3>2
  <2>3. t.key = k /\ t.value = "with" /\ rest.key = "semicolon"
    BY TokenIsPair
  <2>4. IsTokens(w)
    BY OneMoreToken, Zenon
  <2> HIDE DEF u, t, rest
  <2>5. ValueIn(w, key, old) = IF key = k THEN "with" ELSE ValueIn(s, key, old)
    BY <2>3, LastTokenIsRead
  <2> HIDE DEF w
  <2>6. IsTokens(u)
    BY <2>2, <2>4, OneMoreToken, Zenon
  <2>7. ValueIn(u, key, old) = ValueIn(w, key, old)
    BY <2>2, <2>3, <2>4, LastTokenIsRead
  <2>8. ValueIn(u, key, old) = IF key = k /\ IsText(v) THEN AsRead(v) ELSE ValueIn(s, key, old)
    BY <1>3, <2>5, <2>7 DEF AsRead
  <2> QED
    BY <2>6, <2>8 DEF u
<1> QED
  BY <1>1, <1>2, <1>3

(* What is read of a connection string that has the entries K of d so far. *)
Told(d, f) == Writes(d, f) /\ IsText(EntryValue(d, f))

ReadBack(d, s, K) ==
  /\ IsTokens(s)
  /\ \A old : ValueIn(s, "DSN", old) = IF IsText(d.name) THEN AsRead(d.name) ELSE old
  /\ \A f \in Fields : \A old :
       ValueIn(s, f, old) = IF f \in K /\ Told(d, f) THEN AsRead(EntryValue(d, f)) ELSE old

LEMMA NamesAreNoFields == \A f \in Fields : f \notin {"DSN", "DRIVER", "semicolon"}
BY DEF Fields, FlagFields, StringFields

LEMMA NamesAreRead ==
  ASSUME NEW d
  PROVE  ReadBack(d, AppendToConnectionString("DRIVER", d.driver)
                       \o AppendToConnectionString("DSN", d.name), {})
<1> DEFINE driver == AppendToConnectionString("DRIVER", d.driver)
           s == << >> \o driver
           u == s \o AppendToConnectionString("DSN", d.name)
<1>1. IsTokens(<< >>)
  <2>1. << >> \in Seq({})
    OBVIOUS
  <2> QED
    BY <2>1, Zenon DEF IsTokens
<1>2. \A key, old : ValueIn(<< >>, key, old) = old
  <2>1. \A key : LastWith(<< >>, key) = {}
    BY DEF LastWith
  <2> QED
    BY <2>1, Zenon DEF ValueIn
<1>3. ASSUME NEW key, key # "semicolon", NEW old
      PROVE  IsTokens(s) /\ (key # "DRIVER" => ValueIn(s, key, old) = old)
  <2>1. /\ IsTokens(s)
        /\ ValueIn(s, key, old) = IF key = "DRIVER" /\ IsText(d.driver) THEN AsRead(d.driver)
                                  ELSE ValueIn(<< >>, key, old)
    <3>1. \A e, v : IsTokens(e) =>
            LET w == e \o AppendToConnectionString("DRIVER", v)
            IN  /\ IsTokens(w)
                /\ ValueIn(w, key, old) =
                     IF key = "DRIVER" /\ IsText(v) THEN AsRead(v) ELSE ValueIn(e, key, old)
      BY <1>3, AppendedIsRead
    <3> QED
      BY <1>1, <3>1
  <2> HIDE DEF s
  <2> QED
    BY <1>2, <2>1
<1>4. << >> \o driver = driver
  <2>1. << >> \o << >> = << >>
    OBVIOUS
  <2>2. \A a : << >> \o <<a>> = <<a>>
    OBVIOUS
  <2>3. \A a, b : << >> \o <<a, b>> = <<a, b>>
    OBVIOUS
  <2> QED
    BY <2>1, <2>2, <2>3, Zenon DEF AppendToConnectionString
<1> HIDE DEF s, driver
<1>5. ASSUME NEW key, key # "semicolon", NEW old
      PROVE  /\ IsTokens(u)
             /\ ValueIn(u, key, old) =
                  IF key = "DSN" /\ IsText(d.name) THEN AsRead(d.name) ELSE ValueIn(s, key, old)
  BY <1>3, <1>5, AppendedIsRead
<1>6. u = driver \o AppendToConnectionString("DSN", d.name)
  BY <1>4 DEF s
<1> HIDE DEF u
<1>7. IsTokens(u)
  BY <1>5
<1>8. \A old : ValueIn(u, "DSN", old) = IF IsText(d.name) THEN AsRead(d.name) ELSE old
  BY <1>3, <1>5
<1>9. \A f \in Fields : \A old : ValueIn(u, f, old) = old
  BY <1>3, <1>5, NamesAreNoFields
<1>10. ReadBack(d, u, {})
  BY <1>7, <1>8, <1>9 DEF ReadBack
<1> QED
  BY <1>6, <1>10, Zenon DEF driver

LEMMA EntryIsAppended ==
  ASSUME NEW d, NEW s, IsTokens(s), NEW g, NEW key, key # "semicolon", NEW old
  PROVE  LET u == s \o WrittenEntry(d, g)
         IN  /\ IsTokens(u)
             /\ ValueIn(u, key, old) =
                  IF key = g /\ Told(d, g) THEN AsRead(EntryValue(d, g)) ELSE ValueIn(s, key, old)
<1>1. CASE Writes(d, g)
  <2>1. WrittenEntry(d, g) = AppendToConnectionString(g, EntryValue(d, g))
    BY <1>1, Zenon DEF WrittenEntry
  <2> QED
    BY <1>1, <2>1, AppendedIsRead DEF Told
<1>2. CASE ~Writes(d, g)
  <2>1. WrittenEntry(d, g) = << >>
    BY <1>2, Zenon DEF WrittenEntry
  <2> QED
    BY <1>2, <2>1, NothingIsAppended DEF Told
<1> QED
  BY <1>1, <1>2

LEMMA EntryIsRead ==
  ASSUME NEW d, NEW s, NEW K, ReadBack(d, s, K), NEW g \in Fields
  PROVE  ReadBack(d, s \o WrittenEntry(d, g), K \cup {g})
<1> DEFINE u == s \o WrittenEntry(d, g)
<1>1. /\ IsTokens(s)
      /\ \A old : ValueIn(s, "DSN", old) = IF IsText(d.name) THEN AsRead(d.name) ELSE old
      /\ \A f \in Fields : \A old :
           ValueIn(s, f, old) = IF f \in K /\ Told(d, f) THEN AsRead(EntryValue(d, f)) ELSE old
  BY DEF ReadBack
<1>2. ASSUME NEW key, key # "semicolon", NEW old
      PROVE  /\ IsTokens(u)
             /\ ValueIn(u, key, old) =
                  IF key = g /\ Told(d, g) THEN AsRead(EntryValue(d, g)) ELSE ValueIn(s, key, old)
  BY <1>1, <1>2, EntryIsAppended
<1> HIDE DEF u
<1>3. IsTokens(u)
  BY <1>2
<1>4. \A old : ValueIn(u, "DSN", old) = IF IsText(d.name) THEN AsRead(d.name) ELSE old
  BY <1>1, <1>2, NamesAreNoFields
<1>5. \A f \in Fields : \A old :
        ValueIn(u, f, old) =
          IF f \in K \cup {g} /\ Told(d, f) THEN AsRead(EntryValue(d, f)) ELSE old
  BY <1>1, <1>2, NamesAreNoFields
<1>6. ReadBack(d, u, K \cup {g})
  BY <1>3, <1>4, <1>5 DEF ReadBack
<1> QED
  BY <1>6 DEF u

LEMMA FiveEntriesAreRead ==
  ASSUME NEW d, NEW s, NEW K, ReadBack(d, s, K), NEW f1 \in Fields, NEW f2 \in Fields,
         NEW f3 \in Fields, NEW f4 \in Fields, NEW f5 \in Fields
  PROVE  ReadBack(d, s \o WrittenEntry(d, f1) \o WrittenEntry(d, f2) \o WrittenEntry(d, f3)
                       \o WrittenEntry(d, f4) \o WrittenEntry(d, f5),
                  K \cup {f1, f2, f3, f4, f5})
<1> DEFINE s1 == s \o WrittenEntry(d, f1)
           s2 == s1 \o WrittenEntry(d, f2)
           s3 == s2 \o WrittenEntry(d, f3)
           s4 == s3 \o WrittenEntry(d, f4)
           s5 == s4 \o WrittenEntry(d, f5)
<1>1. ReadBack(d, s1, K \cup {f1})
  BY EntryIsRead
<1>2. ReadBack(d, s2, K \cup {f1} \cup {f2})
  BY <1>1, EntryIsRead, Zenon
<1>3. ReadBack(d, s3, K \cup {f1} \cup {f2} \cup {f3})
  BY <1>2, EntryIsRead, Zenon
<1>4. ReadBack(d, s4, K \cup {f1} \cup {f2} \cup {f3} \cup {f4})
  BY <1>3, EntryIsRead, Zenon
<1>5. ReadBack(d, s5, K \cup {f1} \cup {f2} \cup {f3} \cup {f4} \cup {f5})
  BY <1>4, EntryIsRead, Zenon
<1>6. K \cup {f1} \cup {f2} \cup {f3} \cup {f4} \cup {f5} = K \cup {f1, f2, f3, f4, f5}
  OBVIOUS
<1> QED
  BY <1>5, <1>6, Zenon

LEMMA ConnectionStringIsRead ==
  ASSUME NEW d
  PROVE  ReadBack(d, GetConnectionString(d), Fields)
<1> DEFINE W(f) == WrittenEntry(d, f)
           s0 == AppendToConnectionString("DRIVER", d.driver)
                   \o AppendToConnectionString("DSN", d.name)
           s1 == s0 \o W("LoginUrl") \o W("UID") \o W("PWD") \o W("StandardNames")
                    \o W("UserAgent")
           s2 == s1 \o W("UseHttpGet") \o W("UseHttpLogging") \o W("HttpLogFile")
                    \o W("UseDebugLogging") \o W("DebugLogFile")
           s3 == s2 \o W("UseBulkMetadata") \o W("RetsVersion") \o W("IgnoreMetadataType")
                    \o W("UseCompactFormat") \o W("DisableGetObjectMetadata")
           s4 == s3 \o W("EnableUserAgentAuth") \o W("UserAgentPassword")
                    \o W("UserAgentAuthType") \o W("TreatDecimalAsString") \o W("EncodingType")
           s5 == s4 \o W("UseProxy") \o W("ProxyUrl") \o W("ProxyPassword")
                    \o W("SupportsQueryStar") \o W("HttpLogEverything")
           K1 == {} \cup {"LoginUrl", "UID", "PWD", "StandardNames", "UserAgent"}
           K2 == K1 \cup {"UseHttpGet", "UseHttpLogging", "HttpLogFile", "UseDebugLogging",
                          "DebugLogFile"}
           K3 == K2 \cup {"UseBulkMetadata", "RetsVersion", "IgnoreMetadataType",
                          "UseCompactFormat", "DisableGetObjectMetadata"}
           K4 == K3 \cup {"EnableUserAgentAuth", "UserAgentPassword", "UserAgentAuthType",
                          "TreatDecimalAsString", "EncodingType"}
           K5 == K4 \cup {"UseProxy", "ProxyUrl", "ProxyPassword", "SupportsQueryStar",
                          "HttpLogEverything"}
<1>1. K5 = Fields
  BY DEF Fields, FlagFields, StringFields
<1>2. GetConnectionString(d) = s5
  BY Zenon DEF GetConnectionString
<1>3. \A f \in K5 : f \in Fields
  BY <1>1
<1>4. ReadBack(d, s0, {})
  BY NamesAreRead, Zenon
<1> HIDE DEF s0
<1>5. ReadBack(d, s1, K1)
  BY <1>3, <1>4, FiveEntriesAreRead
<1> HIDE DEF s1, K1
<1>6. ReadBack(d, s2, K2)
  BY <1>3, <1>5, FiveEntriesAreRead
<1> HIDE DEF s2, K2
<1>7. ReadBack(d, s3, K3)
  BY <1>3, <1>6, FiveEntriesAreRead
<1> HIDE DEF s3, K3
<1>8. ReadBack(d, s4, K4)
  BY <1>3, <1>7, FiveEntriesAreRead
<1> HIDE DEF s4, K4
<1>9. ReadBack(d, s5, K5)
  BY <1>3, <1>8, FiveEntriesAreRead
<1> QED
  BY <1>1, <1>2, <1>9, Zenon

LEMMA WrittenEntries ==
  ASSUME NEW d, IsDataSource(d)
  PROVE  /\ \A f \in {"UID", "PWD", "LoginUrl", "UserAgent", "RetsVersion", "EncodingType",
                      "HttpLogFile", "DebugLogFile"} :
              f \in StringFields /\ Writes(d, f)
         /\ d.flag["EnableUserAgentAuth"] =>
              \A f \in {"UserAgentPassword", "UserAgentAuthType"} :
                f \in StringFields /\ Writes(d, f)
         /\ d.flag["UseProxy"] =>
              \A f \in {"ProxyUrl", "ProxyPassword"} : f \in StringFields /\ Writes(d, f)
         /\ \A f \in FlagFields :
              Writes(d, f) <=> f = "StandardNames" \/ d.flag[f] # FlagDefault(f)
BY DEF Writes, StringFields, FlagFields

LEMMA FlagIsRead ==
  ASSUME NEW d, IsDataSource(d), NEW s, ReadBack(d, s, Fields), NEW f \in FlagFields
  PROVE  stringToBool(ValueIn(s, f, boolToString(FlagDefault(f)))) = d.flag[f]
<1>1. d.flag[f] \in BOOLEAN /\ FlagDefault(f) \in BOOLEAN
  BY Booleans DEF IsDataSource
<1>2. \A b \in BOOLEAN : stringToBool(boolToString(b)) = b
  BY DEF stringToBool, boolToString
<1>3. \A b \in BOOLEAN : IsText(boolToString(b)) /\ AsRead(boolToString(b)) = boolToString(b)
  BY DEF IsText, AsRead, boolToString, Semicolon
<1>4. EntryValue(d, f) = boolToString(d.flag[f])
  BY DEF EntryValue
<1>5. ValueIn(s, f, boolToString(FlagDefault(f))) =
        IF Told(d, f) THEN boolToString(d.flag[f]) ELSE boolToString(FlagDefault(f))
  BY <1>1, <1>3, <1>4 DEF ReadBack, Fields
<1>6. ~Told(d, f) => d.flag[f] = FlagDefault(f)
  BY <1>1, <1>3, <1>4, WrittenEntries DEF Told
<1> QED
  BY <1>1, <1>2, <1>5, <1>6

LEMMA TextIsRead ==
  ASSUME NEW d, NEW s, ReadBack(d, s, Fields), Unbroken(d), NEW f \in StringFields
  PROVE  ValueIn(s, f, "") = IF Writes(d, f) THEN d.str[f] ELSE ""
<1>1. EntryValue(d, f) = d.str[f]
  BY FieldsAreKnown, Zenon DEF EntryValue
<1>2. AsRead(d.str[f]) = d.str[f]
  BY Zenon DEF Unbroken, AsRead
<1>3. \A old : ValueIn(s, f, old) = IF Told(d, f) THEN d.str[f] ELSE old
  BY <1>1, <1>2 DEF ReadBack, Fields
<1>4. Told(d, f) <=> Writes(d, f) /\ d.str[f] # ""
  BY <1>1, Zenon DEF Told, IsText
<1>5. CASE Told(d, f)
  BY <1>3, <1>4, <1>5, Zenon
<1>6. CASE ~Told(d, f)
  <2>1. ValueIn(s, f, "") = ""
    BY <1>3, <1>6, Zenon
  <2> QED
    BY <1>4, <1>6, <2>1, Zenon
<1> QED
  BY <1>5, <1>6

LEMMA NameIsRead ==
  ASSUME NEW d, NEW s, ReadBack(d, s, Fields), Unbroken(d)
  PROVE  ValueIn(s, "DSN", "") = d.name
<1>1. AsRead(d.name) = d.name
  BY Zenon DEF Unbroken, AsRead
<1>2. ValueIn(s, "DSN", "") = IF IsText(d.name) THEN d.name ELSE ""
  BY <1>1 DEF ReadBack
<1> QED
  BY <1>2, Zenon DEF IsText

LEMMA SameSettingsSameSession ==
  ASSUME NEW d, NEW m, IsDataSource(d),
         \A f \in FlagFields : m.flag[f] = d.flag[f],
         \A f \in StringFields : Writes(d, f) => m.str[f] = d.str[f]
  PROVE  Effective(m) = Effective(d)
<1>0. m.str["HttpLogFile"] = d.str["HttpLogFile"] /\ m.str["DebugLogFile"] = d.str["DebugLogFile"]
  BY WrittenEntries
<1>1. /\ m.str["UID"] = d.str["UID"] /\ m.str["PWD"] = d.str["PWD"]
      /\ m.str["LoginUrl"] = d.str["LoginUrl"] /\ m.str["UserAgent"] = d.str["UserAgent"]
      /\ m.str["RetsVersion"] = d.str["RetsVersion"]
      /\ m.str["EncodingType"] = d.str["EncodingType"]
  BY WrittenEntries
<1>2. /\ m.flag["UseHttpGet"] = d.flag["UseHttpGet"]
      /\ m.flag["UseBulkMetadata"] = d.flag["UseBulkMetadata"]
      /\ m.flag["HttpLogEverything"] = d.flag["HttpLogEverything"]
      /\ m.flag["EnableUserAgentAuth"] = d.flag["EnableUserAgentAuth"]
      /\ m.flag["UseProxy"] = d.flag["UseProxy"]
  BY DEF FlagFields
<1>3. d.flag["EnableUserAgentAuth"] =>
        /\ m.str["UserAgentAuthType"] = d.str["UserAgentAuthType"]
        /\ m.str["UserAgentPassword"] = d.str["UserAgentPassword"]
  BY WrittenEntries
<1>4. d.flag["UseProxy"] =>
        m.str["ProxyUrl"] = d.str["ProxyUrl"] /\ m.str["ProxyPassword"] = d.str["ProxyPassword"]
  BY WrittenEntries
<1>5. [f \in DriverFlags |-> m.flag[f]] = [f \in DriverFlags |-> d.flag[f]]
  BY DEF DriverFlags, FlagFields
<1>6. CreateRetsSession(m) = CreateRetsSession(d)
  <2>1. (IF m.flag["EnableUserAgentAuth"]
         THEN <<StringToUserAgentAuthType(m.str["UserAgentAuthType"]),
                m.str["UserAgentPassword"]>>
         ELSE << >>) =
        (IF d.flag["EnableUserAgentAuth"]
         THEN <<StringToUserAgentAuthType(d.str["UserAgentAuthType"]),
                d.str["UserAgentPassword"]>>
         ELSE << >>)
    BY <1>2, <1>3
  <2>2. (IF m.flag["UseProxy"] THEN <<m.str["ProxyUrl"], m.str["ProxyPassword"]>> ELSE << >>) =
        (IF d.flag["UseProxy"] THEN <<d.str["ProxyUrl"], d.str["ProxyPassword"]>> ELSE << >>)
    BY <1>2, <1>4
  <2> QED
    BY <1>1, <1>2, <2>1, <2>2, Zenon DEF CreateRetsSession
<1> QED
  BY <1>0, <1>1, <1>5, <1>6, Zenon DEF Effective

LEMMA NewIsEmpty ==
  ASSUME NEW name
  PROVE  /\ New(name).name = name
         /\ \A f \in StringFields : New(name).str[f] = ""
         /\ \A f \in FlagFields : New(name).flag[f] = FlagDefault(f)
<1> DEFINE strs(none) == [f \in StringFields |-> none]
           flags == [f \in FlagFields |-> FlagDefault(f)]
<1>1. \A none, d : d = [name |-> name, driver |-> none, str |-> strs(none), flag |-> flags]
                   => d.name = name /\ d.str = strs(none) /\ d.flag = flags
  <2> HIDE DEF strs, flags
  <2> QED
    OBVIOUS
<1>2. New(name).name = name /\ New(name).str = strs("") /\ New(name).flag = flags
  BY <1>1, Zenon DEF New
<1> QED
  BY <1>2, Zenon

(* A connection string opens the session it was told for.                  *)
LEMMA StringOpensTheSame ==
  ASSUME NEW d, IsDataSource(d), IsMerged(d), Unbroken(d)
  PROVE  Effective(MergeFromIni(SetFromOdbcConnectionString(New(""), GetConnectionString(d))))
           = Effective(d)
<1> DEFINE s == GetConnectionString(d)
           b == SetFromOdbcConnectionString(New(""), s)
           m == MergeFromIni(b)
<1>1. ReadBack(d, s, Fields)
  BY ConnectionStringIsRead
<1>2. /\ IsDataSource(b) /\ b.name = ValueIn(s, "DSN", New("").name)
      /\ \A f \in StringFields : b.str[f] = ValueIn(s, f, New("").str[f])
      /\ \A f \in FlagFields :
           b.flag[f] = stringToBool(ValueIn(s, f, boolToString(New("").flag[f])))
  BY StringIsDataSource
<1> HIDE DEF b, s
<1>3. IsDataSource(b)
  BY <1>2
<1>4. b.name = d.name
  BY <1>1, <1>2, NameIsRead, NewIsEmpty, Zenon
<1>5. ASSUME NEW f \in FlagFields
      PROVE  b.flag[f] = d.flag[f]
  <2>1. New("").flag[f] = FlagDefault(f)
    BY NewIsEmpty, Zenon
  <2>2. b.flag[f] = stringToBool(ValueIn(s, f, boolToString(New("").flag[f])))
    BY <1>2, Zenon
  <2>3. stringToBool(ValueIn(s, f, boolToString(FlagDefault(f)))) = d.flag[f]
    BY <1>1, FlagIsRead, Zenon
  <2> QED
    BY <2>1, <2>2, <2>3, Zenon
<1>6. ASSUME NEW f \in StringFields
      PROVE  b.str[f] = IF Writes(d, f) THEN d.str[f] ELSE ""
  <2>1. b.str[f] = ValueIn(s, f, "")
    BY <1>2, NewIsEmpty, Zenon
  <2>2. ValueIn(s, f, "") = IF Writes(d, f) THEN d.str[f] ELSE ""
    BY <1>1, TextIsRead, Zenon
  <2> QED
    BY <2>1, <2>2, Zenon
<1>7. CASE d.name = ""
  <2>1. m = b
    BY <1>4, <1>7, Zenon DEF MergeFromIni
  <2>2. \A f \in StringFields : Writes(d, f) => m.str[f] = d.str[f]
    BY <1>6, <2>1, Zenon
  <2>3. \A f \in FlagFields : m.flag[f] = d.flag[f]
    BY <1>5, <2>1, Zenon
  <2> QED
    BY <2>2, <2>3, SameSettingsSameSession, Zenon DEF b, s
<1>8. CASE d.name # ""
  <2>1. \A f \in FlagFields : m.flag[f] = d.flag[f]
    BY <1>3, <1>4, <1>8, MergedDataSource, Zenon DEF IsMerged
  <2>2. ASSUME NEW f \in StringFields, Writes(d, f)
        PROVE  m.str[f] = d.str[f]
    <3>1. m.str[f] = MergeFromProfileString(d.str[f], ini[d.name], f)
      BY <1>3, <1>4, <1>6, <1>8, <2>2, MergedDataSource, Zenon
    <3>2. d.str[f] = "" => GetProfileString(ini[d.name], f) = ""
      BY <1>8, Zenon DEF IsMerged
    <3> QED
      BY <3>1, <3>2, Zenon DEF MergeFromProfileString
  <2> QED
    BY <2>1, <2>2, SameSettingsSameSession, Zenon DEF b, s
<1> QED
  BY <1>7, <1>8, Zenon

-----------------------------------------------------------------------------
(* Connecting and disconnecting.                                           *)

SessionInv ==
  /\ IsDataSource(ds)
  /\ session # None => session = Effective(ds)
  /\ outString # << >> =>
       IsMerged(ds) /\ session = Effective(ds) /\ outString = GetConnectionString(ds)

FirstUseInv ==
  /\ uses = 0 => ds = New("") /\ httpLog = "-" /\ session = None
  /\ FirstUseIsOfItsOwn

(* A connection string is never empty: it tells StandardNames.             *)
LEMMA StringIsNotEmpty ==
  ASSUME NEW d, IsDataSource(d)
  PROVE  GetConnectionString(d) # << >>
<1> DEFINE s == GetConnectionString(d)
           b == d.flag["StandardNames"]
<1>1. ReadBack(d, s, Fields)
  BY ConnectionStringIsRead
<1>2. "StandardNames" \in FlagFields /\ b \in BOOLEAN
  BY DEF IsDataSource, FlagFields
<1>3. Writes(d, "StandardNames") /\ EntryValue(d, "StandardNames") = boolToString(b)
  BY <1>2, WrittenEntries DEF EntryValue
<1>4. IsText(boolToString(b)) /\ AsRead(boolToString(b)) # "none"
  BY <1>2 DEF IsText, AsRead, boolToString, Semicolon
<1>5. ValueIn(s, "StandardNames", "none") # "none"
  BY <1>1, <1>2, <1>3, <1>4 DEF ReadBack, Told, Fields
<1>6. ValueIn(<< >>, "StandardNames", "none") = "none"
  <2>1. LastWith(<< >>, "StandardNames") = {}
    BY DEF LastWith
  <2> QED
    BY <2>1, Zenon DEF ValueIn
<1> QED
  BY <1>5, <1>6, Zenon

LEMMA SessionIsOfSettings ==
  ASSUME NEW d
  PROVE  /\ Effective(d).rets.url = d.str["LoginUrl"]
         /\ \A f \in DriverFlags : Effective(d).flags[f] = d.flag[f]
<1>1. Effective(d).rets.url = d.str["LoginUrl"]
  BY Zenon DEF Effective, CreateRetsSession
<1>2. Effective(d).flags = [f \in DriverFlags |-> d.flag[f]]
  BY DEF Effective
<1> QED
  BY <1>1, <1>2

LEMMA LoginOpens ==
  ASSUME NEW d, NEW granted, login(d, granted)
  PROVE  /\ session' # None => granted /\ session' = Effective(d)
         /\ httpLog = "-" /\ session' # None =>
              (session'.flags["UseHttpLogging"] => httpLog' = d.str["HttpLogFile"])
<1>1. session' # None => granted /\ session' = Effective(d)
  BY Zenon DEF login
<1>2. ASSUME httpLog = "-", session' # None, session'.flags["UseHttpLogging"]
      PROVE  httpLog' = d.str["HttpLogFile"]
  <2>1. d.flag["UseHttpLogging"]
    BY <1>1, <1>2, SessionIsOfSettings DEF DriverFlags
  <2> QED
    BY <1>2, <2>1, Zenon DEF login
<1> QED
  BY <1>1, <1>2

LEMMA RenamedDataSource ==
  ASSUME NEW d, IsDataSource(d), NEW name
  PROVE  LET r == [d EXCEPT !.name = name]
         IN  IsDataSource(r) /\ r.name = name /\ r.str = d.str
<1>1. d = [name |-> d.name, driver |-> d.driver, str |-> d.str, flag |-> d.flag]
  BY DEF IsDataSource
<1>2. [d EXCEPT !.name = name]
        = [name |-> name, driver |-> d.driver, str |-> d.str, flag |-> d.flag]
  BY <1>1
<1> QED
  BY <1>2 DEF IsDataSource

(* The settings SQLConnect connects with.                                  *)
LEMMA ConnectSettings ==
  ASSUME NEW name \in Names, NEW user, NEW password, NEW granted, IsDataSource(ds),
         SQLConnect(name, user, password, granted)
  PROVE  /\ IsDataSource(ds)' /\ ds'.name = name /\ name # ""
         /\ ds'.str["LoginUrl"] = MergeFromProfileString(ds.str["LoginUrl"], ini[name], "LoginUrl")
         /\ login(ds', granted) /\ outString' = << >> /\ ini' = ini
<1> DEFINE named == [ds EXCEPT !.name = name]
           merged == MergeFromIni(named)
           withUser == IF user = Null THEN merged ELSE Set(merged, "UID", user)
           d == IF password = Null THEN withUser ELSE Set(withUser, "PWD", password)
<1>1. ds' = d /\ login(d, granted) /\ outString' = << >> /\ ini' = ini
  BY Zenon DEF SQLConnect
<1>2. name # ""
  BY NamesAssumption, Zenon
<1>3. /\ IsDataSource(merged) /\ merged.name = name
      /\ merged.str["LoginUrl"]
           = MergeFromProfileString(ds.str["LoginUrl"], ini[name], "LoginUrl")
  <2>1. IsDataSource(named) /\ named.name = name /\ named.str = ds.str
    BY RenamedDataSource
  <2> HIDE DEF named
  <2>2. IsDataSource(merged) /\ merged.name = name
    BY <2>1, MergedDataSource, Zenon
  <2>3. merged.str["LoginUrl"]
          = MergeFromProfileString(named.str["LoginUrl"], ini[name], "LoginUrl")
    BY <1>2, <2>1, MergedDataSource, FieldsAreKnown
  <2> QED
    BY <2>1, <2>2, <2>3, Zenon
<1>4. "LoginUrl" \in StringFields \ {"UID"} /\ "LoginUrl" \in StringFields \ {"PWD"}
  BY FieldsAreKnown
<1> HIDE DEF merged
<1>5. /\ IsDataSource(withUser) /\ withUser.name = name
      /\ withUser.str["LoginUrl"] = merged.str["LoginUrl"]
  <2>1. CASE user = Null
    BY <1>3, <2>1, Zenon
  <2>2. CASE user # Null
    <3>1. withUser = Set(merged, "UID", user)
      BY <2>2, Zenon
    <3> QED
      BY <1>3, <1>4, <2>2, <3>1, UserIsSet, Zenon
  <2> QED
    BY <2>1, <2>2, Zenon
<1> HIDE DEF withUser
<1>6. /\ IsDataSource(d) /\ d.name = name
      /\ d.str["LoginUrl"] = merged.str["LoginUrl"]
  <2>1. CASE password = Null
    BY <1>5, <2>1, Zenon
  <2>2. CASE password # Null
    <3>1. d = Set(withUser, "PWD", password)
      BY <2>2, Zenon
    <3> QED
      BY <1>4, <1>5, <2>2, <3>1, UserIsSet, Zenon
  <2> QED
    BY <2>1, <2>2, Zenon
<1> HIDE DEF d
<1>7. IsDataSource(ds)'
  BY <1>1, <1>6, Zenon DEF IsDataSource
<1> QED
  BY <1>1, <1>2, <1>3, <1>6, <1>7, Zenon

(* The settings SQLDriverConnect connects with.                            *)
LEMMA DriverConnectSettings ==
  ASSUME NEW tokens, NEW granted, SQLDriverConnect(tokens, granted)
  PROVE  /\ IsDataSource(ds)' /\ IsMerged(ds)'
         /\ session' # None =>
              login(ds', granted) /\ granted /\ outString' = GetConnectionString(ds')
         /\ outString' # << >> =>
              session' = Effective(ds') /\ outString' = GetConnectionString(ds')
         /\ ds'.name = "" =>
              \A f \in FlagFields :
                ds'.flag[f] = stringToBool(ValueIn(tokens, f, boolToString(ds.flag[f])))
<1> DEFINE b == SetFromOdbcConnectionString(ds, tokens)
           d == MergeFromIni(b)
<1>1. /\ ds' = d /\ ini' = ini /\ session = None
      /\ IF IsComplete(d)
         THEN /\ login(d, granted)
              /\ outString' = IF granted THEN GetConnectionString(d) ELSE << >>
         ELSE UNCHANGED <<httpLog, session>> /\ outString' = << >>
  BY Zenon DEF SQLDriverConnect
<1>2. /\ IsDataSource(b)
      /\ \A f \in FlagFields :
           b.flag[f] = stringToBool(ValueIn(tokens, f, boolToString(ds.flag[f])))
  BY StringIsDataSource
<1> HIDE DEF b
<1>3. IsDataSource(d) /\ IsMerged(d) /\ d.name = b.name
  BY <1>2, MergedDataSource, MergedIsMerged, Zenon
<1>4. d.name = "" => d = b
  BY <1>3, Zenon DEF MergeFromIni
<1> HIDE DEF d
<1>5. IsDataSource(ds)'
  BY <1>1, <1>3, Zenon DEF IsDataSource
<1>6. IsMerged(ds)'
  BY <1>1, <1>3, Zenon DEF IsMerged
<1>7. ASSUME session' # None
      PROVE  login(d, granted) /\ granted /\ outString' = GetConnectionString(d)
  <2>1. login(d, granted) /\ outString' = IF granted THEN GetConnectionString(d) ELSE << >>
    BY <1>1, <1>7
  <2>2. granted
    BY <1>7, <2>1, LoginOpens
  <2> QED
    BY <2>1, <2>2
<1>8. ASSUME outString' # << >>
      PROVE  session' = Effective(d) /\ outString' = GetConnectionString(d)
  BY <1>1, <1>8 DEF login
<1>9. ASSUME ds'.name = "", NEW f \in FlagFields
      PROVE  ds'.flag[f] = stringToBool(ValueIn(tokens, f, boolToString(ds.flag[f])))
  BY <1>1, <1>2, <1>4, <1>9, Zenon
<1> QED
  BY <1>1, <1>5, <1>6, <1>7, <1>8, <1>9, Zenon

LEMMA InitSessionInv == Init => SessionInv /\ FirstUseInv
<1> SUFFICES ASSUME Init
             PROVE  SessionInv /\ FirstUseInv
  OBVIOUS
<1>1. ds = New("") /\ uses = 0 /\ httpLog = "-" /\ session = None /\ outString = << >>
  BY Zenon DEF Init
<1>2. IsDataSource(ds)
  BY <1>1, NewDataSource, Zenon
<1>3. SessionInv
  BY <1>1, <1>2, Zenon DEF SessionInv
<1>4. FirstUseInv
  BY <1>1, Zenon DEF FirstUseInv, FirstUseIsOfItsOwn
<1> QED
  BY <1>3, <1>4

LEMMA NewHandleIsNew ==
  ASSUME SessionInv, NewHandle
  PROVE  SessionInv' /\ FirstUseInv'
<1>1. /\ ds' = New("") /\ uses' = 0 /\ httpLog' = "-" /\ session' = None /\ outString' = << >>
      /\ ini' = ini
  BY Zenon DEF NewHandle
<1>2. IsDataSource(New(""))
  BY NewDataSource, Zenon
<1>3. IsDataSource(ds)'
  BY <1>1, <1>2, Zenon DEF IsDataSource
<1>4. SessionInv'
  BY <1>1, <1>3, Zenon DEF SessionInv
<1>5. FirstUseInv'
  BY <1>1, Zenon DEF FirstUseInv, FirstUseIsOfItsOwn
<1> QED
  BY <1>4, <1>5

LEMMA DisconnectKeepsSettings ==
  ASSUME SessionInv, FirstUseInv, SQLDisconnect
  PROVE  SessionInv' /\ FirstUseInv'
<1>1. /\ session # None /\ session' = None /\ outString' = << >>
      /\ ini' = ini /\ ds' = ds /\ uses' = uses
  BY Zenon DEF SQLDisconnect
<1>2. IsDataSource(ds)'
  BY <1>1, Zenon DEF SessionInv, IsDataSource
<1>3. SessionInv'
  BY <1>1, <1>2, Zenon DEF SessionInv
<1>4. uses # 0
  BY <1>1, Zenon DEF FirstUseInv
<1>5. FirstUseInv'
  BY <1>1, <1>4, Zenon DEF FirstUseInv, FirstUseIsOfItsOwn
<1> QED
  BY <1>3, <1>5

LEMMA ConnectKeepsSettings ==
  ASSUME SessionInv, FirstUseInv, NEW name \in Names, NEW user, NEW password, NEW granted,
         SQLConnect(name, user, password, granted)
  PROVE  SessionInv' /\ FirstUseInv'
<1>1. /\ IsDataSource(ds)' /\ ds'.name = name /\ name # ""
      /\ ds'.str["LoginUrl"] = MergeFromProfileString(ds.str["LoginUrl"], ini[name], "LoginUrl")
      /\ login(ds', granted) /\ outString' = << >> /\ ini' = ini
  BY ConnectSettings, Zenon DEF SessionInv
<1>2. session' # None => session' = Effective(ds')
  BY <1>1, LoginOpens, Zenon
<1>3. SessionInv'
  BY <1>1, <1>2, Zenon DEF SessionInv
<1>4. uses' # 0 /\ (uses' = 1 => uses = 0)
  <2>1. uses' = IF uses = 0 THEN 1 ELSE 2
    BY Zenon DEF SQLConnect
  <2> QED
    BY <2>1
<1>5. ASSUME uses' = 1, session' # None
      PROVE  /\ session'.rets.url = GetProfileString(ini'[ds'.name], "LoginUrl")
             /\ session'.flags["UseHttpLogging"] => httpLog' = ds'.str["HttpLogFile"]
  <2>1. ds = New("") /\ httpLog = "-"
    BY <1>4, <1>5, Zenon DEF FirstUseInv
  <2>2. session'.flags["UseHttpLogging"] => httpLog' = ds'.str["HttpLogFile"]
    BY <1>1, <1>5, <2>1, LoginOpens, Zenon
  <2>3. ds.str["LoginUrl"] = ""
    BY <2>1, NewIsEmpty, FieldsAreKnown
  <2>4. session'.rets.url = ds'.str["LoginUrl"]
    BY <1>2, <1>5, SessionIsOfSettings, Zenon
  <2> QED
    BY <1>1, <2>2, <2>3, <2>4, Zenon DEF MergeFromProfileString
<1>6. FirstUseInv'
  BY <1>1, <1>4, <1>5, Zenon DEF FirstUseInv, FirstUseIsOfItsOwn
<1> QED
  BY <1>3, <1>6

LEMMA DriverConnectKeepsSettings ==
  ASSUME SessionInv, FirstUseInv, NEW tokens \in Strings, NEW granted,
         SQLDriverConnect(tokens, granted)
  PROVE  SessionInv' /\ FirstUseInv'
<1>1. /\ IsDataSource(ds)' /\ IsMerged(ds)'
      /\ session' # None =>
           login(ds', granted) /\ granted /\ outString' = GetConnectionString(ds')
      /\ outString' # << >> =>
           session' = Effective(ds') /\ outString' = GetConnectionString(ds')
      /\ ds'.name = "" =>
           \A f \in FlagFields :
             ds'.flag[f] = stringToBool(ValueIn(tokens, f, boolToString(ds.flag[f])))
  BY DriverConnectSettings, Zenon
<1>2. session' # None => session' = Effective(ds')
  BY <1>1, LoginOpens, Zenon
<1>3. SessionInv'
  BY <1>1, <1>2, Zenon DEF SessionInv
<1>4. uses' # 0 /\ (uses' = 1 => uses = 0) /\ given' = tokens
  BY DEF SQLDriverConnect
<1>5. Len(tokens) \in Nat
  BY StringsAssumption
<1>6. ASSUME uses' = 1, session' # None
      PROVE  /\ outString' # << >>
             /\ session'.flags["UseHttpLogging"] => httpLog' = ds'.str["HttpLogFile"]
             /\ ds'.name = "" =>
                  \A i \in 1..Len(tokens) :
                    tokens[i].key \in DriverFlags /\ IsLast(tokens, i) =>
                      session'.flags[tokens[i].key] = stringToBool(tokens[i].value)
  <2>1. httpLog = "-"
    BY <1>4, <1>6, Zenon DEF FirstUseInv
  <2>2. session'.flags["UseHttpLogging"] => httpLog' = ds'.str["HttpLogFile"]
    BY <1>1, <1>6, <2>1, LoginOpens, Zenon
  <2>3. outString' # << >>
    <3>1. \A d : IsDataSource(d) => GetConnectionString(d) # << >>
      BY StringIsNotEmpty
    <3>2. IsDataSource(ds')
      BY <1>1, Zenon DEF IsDataSource
    <3> QED
      BY <1>1, <1>6, <3>1, <3>2, Zenon
  <2>4. ASSUME ds'.name = "", NEW i \in 1..Len(tokens),
               tokens[i].key \in DriverFlags, IsLast(tokens, i)
        PROVE  session'.flags[tokens[i].key] = stringToBool(tokens[i].value)
    <3>1. tokens[i].key \in FlagFields
      <4>1. DriverFlags \subseteq FlagFields
        BY DEF DriverFlags, FlagFields
      <4> QED
        BY <2>4, <4>1, Zenon
    <3>2. session'.flags[tokens[i].key] = ds'.flag[tokens[i].key]
      <4>1. \A d : \A f \in DriverFlags : Effective(d).flags[f] = d.flag[f]
        BY SessionIsOfSettings
      <4>2. \A f \in DriverFlags : Effective(ds').flags[f] = ds'.flag[f]
        BY <4>1
      <4>3. session' = Effective(ds')
        BY <1>2, <1>6, Zenon
      <4> DEFINE key == tokens[i].key
      <4>4. key \in DriverFlags
        BY <2>4
      <4> HIDE DEF key
      <4>5. session'.flags[key] = ds'.flag[key]
        BY <4>2, <4>3, <4>4, Zenon
      <4> QED
        BY <4>5, Zenon DEF key
    <3>3. \A old : ValueIn(tokens, tokens[i].key, old) = tokens[i].value
      BY <1>5, <2>4, LastIsRead, Zenon
    <3> QED
      BY <1>1, <2>4, <3>1, <3>2, <3>3, Zenon
  <2> QED
    BY <2>2, <2>3, <2>4, Zenon
<1>7. FirstUseInv'
  BY <1>4, <1>6, Zenon DEF FirstUseInv, FirstUseIsOfItsOwn
<1> QED
  BY <1>3, <1>7

LEMMA NextSessionInv ==
  SessionInv /\ FirstUseInv /\ [Next]_handleVars => SessionInv' /\ FirstUseInv'
<1> SUFFICES ASSUME SessionInv, FirstUseInv, [Next]_handleVars
             PROVE  SessionInv' /\ FirstUseInv'
  OBVIOUS
<1>1. CASE UNCHANGED handleVars
  <2>1. /\ ini' = ini /\ ds' = ds /\ uses' = uses /\ httpLog' = httpLog
        /\ session' = session /\ given' = given /\ outString' = outString
    BY <1>1 DEF handleVars
  <2> QED
    BY <2>1, Zenon DEF SessionInv, IsDataSource, IsMerged, FirstUseInv, FirstUseIsOfItsOwn
<1>2. CASE Next
  BY <1>2, ConnectKeepsSettings, DriverConnectKeepsSettings, DisconnectKeepsSettings,
     NewHandleIsNew, Zenon DEF Next
<1> QED
  BY <1>1, <1>2

(* The first session of a handle is of what it was given, also when        *)
(* another handle was freed before.                                        *)
THEOREM FirstSessionIsOfItsOwn == Spec => []FirstUseIsOfItsOwn
<1>1. FirstUseInv => FirstUseIsOfItsOwn
  BY DEF FirstUseInv
<1>2. QED
  BY <1>1, InitSessionInv, NextSessionInv, PTL DEF Spec

(* The connection string an application is told opens the same session on  *)
(* a new handle, whatever the settings came from.                          *)
THEOREM ConnectionStringsAreRead == Spec => []RoundTrip
<1>1. SessionInv => RoundTrip
  BY StringOpensTheSame, Zenon DEF SessionInv, RoundTrip
<1>2. QED
  BY <1>1, InitSessionInv, NextSessionInv, PTL DEF Spec

================================================================================
