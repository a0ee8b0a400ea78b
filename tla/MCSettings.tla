------------------------------ MODULE MCSettings -------------------------------
(* The setup library and a connection handle use the same ODBC.INI.  Here  *)
(* the handle is used before the first call of ConfigDSN, and freed when   *)
(* that comes; ConfigDSN begins with sections of its own.                  *)
EXTENDS MCSetup, MCDataSource

MCAllInis == MCInis \cup MCSetupInis

driverVars == <<ds, uses, httpLog, session, given, outString>>
setupVars == <<dsns, dialogVars, callVars, phase, next, answer, failures, writtenBy>>

SettingsInit == SetupInit /\ Init

SettingsNext ==
  \/ /\ uses = 0
     /\ calls = 0 => ini \in MCSetupInis
     /\ SetupNext
     /\ UNCHANGED driverVars
  \/ calls = 0 /\ Next /\ UNCHANGED setupVars

SettingsSpec == SettingsInit /\ [][SettingsNext]_<<vars, driverVars>>

================================================================================
