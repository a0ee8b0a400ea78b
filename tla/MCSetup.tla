-------------------------------- MODULE MCSetup --------------------------------
(* Two names, one data source to begin with, and controls of each kind: a  *)
(* name, a text, an obligatory text, a flag with a text, an inverted flag. *)
EXTENDS EzSetup

MCSection ==
  [NoSection EXCEPT !["LoginUrl"] = "url1", !["UID"] = "user1", !["PWD"] = "pwd1",
                    !["RetsVersion"] = "2.0", !["UserAgent"] = Long, !["UseCompactFormat"] = "true",
                    !["DisableGetObjectMetadata"] = "false"]
MCSetupInis == {[n \in Names |-> IF n = "A" THEN MCSection ELSE NoSection]}

MCEdits ==
  {[name |-> "A"], [name |-> "B"], [LoginUrl |-> "url2", UID |-> "user2", PWD |-> "pwd2"],
   [UseProxy |-> TRUE], [ProxyUrl |-> "proxy"], [UseCompactFormat |-> TRUE]}

================================================================================
