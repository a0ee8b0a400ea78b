------------------------------ MODULE EzDataSource ------------------------------
(***************************************************************************)
(* How a connection handle comes by its settings: from the arguments of    *)
(* SQLConnect, from the connection string of SQLDriverConnect, and from    *)
(* the section of the data source in ODBC.INI; and what stays when the     *)
(* handle is used again.                                                   *)
(***************************************************************************)
EXTENDS EzSettings

CONSTANTS
  Arguments,   \* users and passwords for SQLConnect, Null among them
  Strings      \* connection strings: sequences of tokens

ASSUME StringsAssumption == Strings \subseteq Seq([key : STRING, value : STRING])

VARIABLES
  ds,          \* mDataSource of the connection handle
  uses,        \* how often the handle was used to connect: never, once, or more
  httpLog,     \* the file the handle's HTTP log was opened with, "-" if it was not
  session,     \* what the open session was created with, None if there is none
  given,       \* what the last connect was given: a sequence of tokens
  outString    \* the connection string it told

handleVars == <<ini, ds, uses, httpLog, session, given, outString>>

None == [user |-> "none"]

Null == "a null pointer"

-----------------------------------------------------------------------------
(* A connection handle.  The driver manager refuses to connect one that is *)
(* connected.                                                              *)

Init ==
  /\ ini \in Inis       \* nobody changes it here: that is EzSetup's part
  /\ ds = New("")
  /\ uses = 0
  /\ httpLog = "-"
  /\ session = None
  /\ given = << >>
  /\ outString = << >>

(* The server takes the login, or does not.  The HTTP log is opened first, *)
(* once.                                                                   *)
login(d, granted) ==
  /\ httpLog' = IF d.flag["UseHttpLogging"] /\ httpLog = "-" THEN d.str["HttpLogFile"]
                ELSE httpLog
  /\ session' = IF granted THEN Effective(d) ELSE None

(* What the arguments amount to, as tokens.                                *)
ArgumentToken(key, argument) == IF argument = Null THEN << >> ELSE <<Token(key, argument)>>
ArgumentTokens(name, user, password) ==
  <<Token("DSN", name)>> \o ArgumentToken("UID", user) \o ArgumentToken("PWD", password)

(* An argument that is there counts, an empty one too: it takes away what  *)
(* the section has.                                                        *)
SQLConnect(name, user, password, granted) ==
  LET merged == MergeFromIni([ds EXCEPT !.name = name])
      withUser == IF user = Null THEN merged ELSE Set(merged, "UID", user)
      d == IF password = Null THEN withUser ELSE Set(withUser, "PWD", password)
  IN  /\ session = None
      /\ ds' = d
      /\ login(d, granted)
      /\ uses' = IF uses = 0 THEN 1 ELSE 2
      /\ given' = ArgumentTokens(name, user, password)
      /\ outString' = << >>
      /\ UNCHANGED ini

(* SQL_NO_DATA if the data source lacks an entry.                          *)
SQLDriverConnect(tokens, granted) ==
  LET d == MergeFromIni(SetFromOdbcConnectionString(ds, tokens))
  IN  /\ session = None
      /\ ds' = d
      /\ uses' = IF uses = 0 THEN 1 ELSE 2
      /\ given' = tokens
      /\ IF IsComplete(d)
         THEN login(d, granted) /\ outString' = IF granted THEN GetConnectionString(d) ELSE << >>
         ELSE UNCHANGED <<httpLog, session>> /\ outString' = << >>
      /\ UNCHANGED ini

(* The data source stays as it is.                                         *)
SQLDisconnect ==
  /\ session # None
  /\ session' = None
  /\ outString' = << >>
  /\ UNCHANGED <<ini, ds, uses, httpLog, given>>

(* Faulty: the log of the freed handle is kept.                            *)
FaultyNewHandle ==
  /\ session = None
  /\ uses > 0
  /\ ds' = New("")
  /\ uses' = 0
  /\ given' = << >>
  /\ outString' = << >>
  /\ UNCHANGED <<ini, session, httpLog>>

(* The handle is freed, and a new one allocated.                           *)
NewHandle ==
  /\ session = None
  /\ uses > 0
  /\ ds' = New("")
  /\ uses' = 0
  /\ httpLog' = "-"
  /\ given' = << >>
  /\ outString' = << >>
  /\ UNCHANGED <<ini, session>>

Next ==
  \/ \E name \in Names, user, password \in Arguments, granted \in BOOLEAN :
       SQLConnect(name, user, password, granted)
  \/ \E tokens \in Strings, granted \in BOOLEAN : SQLDriverConnect(tokens, granted)
  \/ SQLDisconnect
  \/ NewHandle

Spec == Init /\ [][Next]_handleVars

-----------------------------------------------------------------------------
(* Properties.                                                             *)

Unbroken(d) == d.name # Semicolon /\ \A f \in StringFields : d.str[f] # Semicolon

(* The connection string SQLDriverConnect tells opens the same session     *)
(* again, on a new handle: it leaves out nothing that counts, the names of *)
(* the log files included, whatever the settings came from and whatever    *)
(* the handle was used for before.  (Texts with a semicolon cannot be      *)
(* written.)                                                               *)
RoundTrip ==
  outString # << >> /\ Unbroken(ds) =>
    Effective(MergeFromIni(SetFromOdbcConnectionString(New(""), outString))) = session

(* SQLDriverConnect goes to ODBC.INI to "get missing info": what the       *)
(* connection string says of a flag is not missing, and counts.  It does   *)
(* not if the string names a data source: MergeFromIni reads every flag    *)
(* from the section, or takes the default where it has no entry.           *)
GivenFlagsCount ==
  uses = 1 /\ session # None =>
    \A i \in 1..Len(given) :
      given[i].key \in DriverFlags /\ IsLast(given, i) =>
        session.flags[given[i].key] = stringToBool(given[i].value)

(* Only a handle that is used again mixes what it is given with what it    *)
(* had before: the first session of a handle, also of one that was         *)
(* allocated after another was freed, has its URL from the section of its  *)
(* data source, or its flags from the connection string if that names no   *)
(* data source, and logs to its own file.                                  *)
FirstUseIsOfItsOwn ==
  uses = 1 /\ session # None =>
    /\ outString = << >> =>
         session.rets.url = GetProfileString(ini[ds.name], "LoginUrl")
    /\ session.flags["UseHttpLogging"] => httpLog = ds.str["HttpLogFile"]
    /\ ds.name = "" =>
         \A i \in 1..Len(given) :
           given[i].key \in DriverFlags /\ IsLast(given, i) =>
             session.flags[given[i].key] = stringToBool(given[i].value)

================================================================================
