------------------------------- MODULE EzSettings -------------------------------
(***************************************************************************)
(* The settings of a data source as values: what class DataSource reads    *)
(* from ODBC.INI and from connection strings, writes to them, and tells    *)
(* librets.                                                                *)
(*                                                                         *)
(* Settings are kept by entry: texts in str, Booleans in flag.  A section  *)
(* of ODBC.INI holds texts only, "" where there is no entry.  Long stands  *)
(* for texts longer than the driver reads, Semicolon for those with a      *)
(* semicolon in them.  The driver only reads ODBC.INI, the setup library   *)
(* writes it.                                                              *)
(***************************************************************************)
EXTENDS Naturals, Sequences

CONSTANTS
  Names,       \* names of data sources
  Inis         \* contents ODBC.INI may have at first

VARIABLE ini   \* ODBC.INI: the section of every data source

StringFields ==
  {"LoginUrl", "UID", "PWD", "UserAgent", "HttpLogFile", "DebugLogFile", "RetsVersion",
   "UserAgentPassword", "UserAgentAuthType", "EncodingType", "ProxyUrl", "ProxyPassword"}

FlagFields ==
  {"StandardNames", "UseHttpGet", "UseHttpLogging", "UseDebugLogging", "UseBulkMetadata",
   "IgnoreMetadataType", "UseCompactFormat", "DisableGetObjectMetadata",
   "EnableUserAgentAuth", "TreatDecimalAsString", "UseProxy", "SupportsQueryStar",
   "HttpLogEverything"}

Fields == StringFields \cup FlagFields

(* The entries of a section in the order they are written.                 *)
Entries ==
  <<"LoginUrl", "UID", "PWD", "StandardNames", "UserAgent", "UseHttpGet", "UseHttpLogging",
    "HttpLogFile", "UseDebugLogging", "DebugLogFile", "RetsVersion", "UseBulkMetadata",
    "IgnoreMetadataType", "UseCompactFormat", "DisableGetObjectMetadata",
    "EnableUserAgentAuth", "UserAgentPassword", "UserAgentAuthType", "TreatDecimalAsString",
    "EncodingType", "UseProxy", "ProxyUrl", "ProxyPassword", "SupportsQueryStar",
    "HttpLogEverything">>

(* The driver manager finds the driver by the name of the data source, so  *)
(* that every data source has one.                                         *)
ASSUME NamesAssumption == "" \notin Names
ASSUME IniAssumption == Inis \subseteq [Names -> [Fields -> STRING]]

NoSection == [f \in Fields |-> ""]

-----------------------------------------------------------------------------
(* Values.                                                                 *)

Long == "too long"
Semicolon == "with;semicolon"

boolToString(b) == IF b THEN "true" ELSE "false"
stringToBool(s) == s \in {"true", "True", "TRUE"}

(* A value of a fixed set, or its default.                                 *)
StringToRetsVersion(s) == IF s \in {"1.0", "1.5", "1.7", "1.7.2"} THEN s ELSE "1.5"
StringToEncodingType(s) ==
  IF s \in {"US-ASCII", "iso-8859-1", "UTF-8"} THEN s ELSE "US-ASCII"
StringToUserAgentAuthType(s) == IF s \in {"RETS 1.7", "INTEREALTY"} THEN s ELSE "INTEREALTY"

-----------------------------------------------------------------------------
(* Operations of DataSource.                                               *)

FlagDefault(f) == f = "DisableGetObjectMetadata"

New(name) ==
  [name |-> name, driver |-> "", str |-> [f \in StringFields |-> ""],
   flag |-> [f \in FlagFields |-> FlagDefault(f)]]

(* One of the set functions.                                               *)
Set(d, f, value) ==
  IF f \in FlagFields THEN [d EXCEPT !.flag[f] = value] ELSE [d EXCEPT !.str[f] = value]

(* Only INI_MAX_PROPERTY_VALUE characters are read.                        *)
GetProfileString(section, f) == IF section[f] = Long THEN "cut" ELSE section[f]

GetProfileBool(section, f) ==
  IF section[f] = "" THEN FlagDefault(f) ELSE stringToBool(GetProfileString(section, f))

MergeFromProfileString(value, section, f) ==
  IF value = "" THEN GetProfileString(section, f) ELSE value

(* Texts the data source already has stay; flags are always read.          *)
MergeFromIni(d) ==
  IF d.name = "" THEN d
  ELSE [d EXCEPT
         !.str = [f \in StringFields |-> MergeFromProfileString(@[f], ini[d.name], f)],
         !.flag = [f \in FlagFields |-> GetProfileBool(ini[d.name], f)]]

(* The last of several tokens with the same key counts, and keys nobody    *)
(* knows are ignored.                                                      *)
IsLast(tokens, i) == \A j \in i+1..Len(tokens) : tokens[j].key # tokens[i].key

LastWith(tokens, key) == {i \in 1..Len(tokens) : tokens[i].key = key /\ IsLast(tokens, i)}

(* The value a connection string has for a key, or what was there before.  *)
ValueIn(tokens, key, old) ==
  IF LastWith(tokens, key) = {} THEN old
  ELSE tokens[CHOOSE i \in LastWith(tokens, key) : TRUE].value

SetFromOdbcConnectionString(d, tokens) ==
  [name |-> ValueIn(tokens, "DSN", d.name),
   driver |-> ValueIn(tokens, "DRIVER", d.driver),
   str |-> [f \in StringFields |-> ValueIn(tokens, f, d.str[f])],
   flag |-> [f \in FlagFields |->
              stringToBool(ValueIn(tokens, f, boolToString(d.flag[f])))]]

(* What a text that is appended to a connection string is split into when  *)
(* the string is read.                                                     *)
Token(key, value) == [key |-> key, value |-> value]
AppendToConnectionString(key, value) ==
  IF value = "" THEN << >>
  ELSE IF value = Semicolon THEN <<Token(key, "with"), Token("semicolon", "semicolon")>>
  ELSE <<Token(key, value)>>

(* Faulty: all flags are written when they are set.                        *)
FaultyWrites(d, f) == f \in FlagFields => d.flag[f]

(* Which entries GetConnectionString writes: StandardNames always, other   *)
(* flags if they differ from the default, and what only counts with a flag *)
(* together with that.                                                     *)
Writes(d, f) ==
  /\ f \in FlagFields => f = "StandardNames" \/ d.flag[f] # FlagDefault(f)
  /\ f \in {"UserAgentPassword", "UserAgentAuthType"} => d.flag["EnableUserAgentAuth"]
  /\ f \in {"ProxyUrl", "ProxyPassword"} => d.flag["UseProxy"]

EntryValue(d, f) == IF f \in FlagFields THEN boolToString(d.flag[f]) ELSE d.str[f]

WrittenEntry(d, f) ==
  IF Writes(d, f) THEN AppendToConnectionString(f, EntryValue(d, f)) ELSE << >>

GetConnectionString(d) ==
  AppendToConnectionString("DRIVER", d.driver)
    \o AppendToConnectionString("DSN", d.name)
    \o WrittenEntry(d, "LoginUrl") \o WrittenEntry(d, "UID") \o WrittenEntry(d, "PWD")
    \o WrittenEntry(d, "StandardNames") \o WrittenEntry(d, "UserAgent")
    \o WrittenEntry(d, "UseHttpGet") \o WrittenEntry(d, "UseHttpLogging")
    \o WrittenEntry(d, "HttpLogFile") \o WrittenEntry(d, "UseDebugLogging")
    \o WrittenEntry(d, "DebugLogFile") \o WrittenEntry(d, "UseBulkMetadata")
    \o WrittenEntry(d, "RetsVersion") \o WrittenEntry(d, "IgnoreMetadataType")
    \o WrittenEntry(d, "UseCompactFormat") \o WrittenEntry(d, "DisableGetObjectMetadata")
    \o WrittenEntry(d, "EnableUserAgentAuth") \o WrittenEntry(d, "UserAgentPassword")
    \o WrittenEntry(d, "UserAgentAuthType") \o WrittenEntry(d, "TreatDecimalAsString")
    \o WrittenEntry(d, "EncodingType") \o WrittenEntry(d, "UseProxy")
    \o WrittenEntry(d, "ProxyUrl") \o WrittenEntry(d, "ProxyPassword")
    \o WrittenEntry(d, "SupportsQueryStar") \o WrittenEntry(d, "HttpLogEverything")

IsComplete(d) == \A f \in {"LoginUrl", "UID", "PWD"} : d.str[f] # ""

(* What librets is told.                                                   *)
CreateRetsSession(d) ==
  [url |-> d.str["LoginUrl"],
   get |-> d.flag["UseHttpGet"],
   agent |-> IF d.str["UserAgent"] = "" THEN "ezRETS" ELSE d.str["UserAgent"],
   version |-> StringToRetsVersion(d.str["RetsVersion"]),
   incremental |-> ~d.flag["UseBulkMetadata"],
   encoding |-> StringToEncodingType(d.str["EncodingType"]),
   everything |-> d.flag["HttpLogEverything"],
   agentAuth |-> IF d.flag["EnableUserAgentAuth"]
                 THEN <<StringToUserAgentAuthType(d.str["UserAgentAuthType"]),
                        d.str["UserAgentPassword"]>>
                 ELSE << >>,
   proxy |-> IF d.flag["UseProxy"] THEN <<d.str["ProxyUrl"], d.str["ProxyPassword"]>>
             ELSE << >>]

(* What the driver itself looks up while the session is open.              *)
DriverFlags ==
  {"StandardNames", "IgnoreMetadataType", "UseCompactFormat", "DisableGetObjectMetadata",
   "TreatDecimalAsString", "SupportsQueryStar", "UseDebugLogging", "UseHttpLogging"}

(* Everything that matters about a session opened with d: of the log files *)
(* those it is told of, for a log that is open stays where it is.          *)
Effective(d) ==
  [user |-> d.str["UID"], password |-> d.str["PWD"], rets |-> CreateRetsSession(d),
   flags |-> [f \in DriverFlags |-> d.flag[f]],
   logs |-> <<d.str["HttpLogFile"], d.str["DebugLogFile"]>>]

================================================================================
