------------------------------ MODULE MCDataSource ------------------------------
(* Two data sources, a complete one and one without a password; strings    *)
(* with and without a data source, with each kind of entry; arguments of   *)
(* SQLConnect that are not there, empty, and texts.                        *)
EXTENDS EzDataSource

MCArguments == {Null, "", "arg"}

Complete == [NoSection EXCEPT !["LoginUrl"] = "url1", !["UID"] = "user1", !["PWD"] = "pwd1"]

MCInis ==
  {[A |-> [Complete EXCEPT !["DisableGetObjectMetadata"] = get, !["UseProxy"] = "true",
                           !["ProxyUrl"] = proxy, !["RetsVersion"] = "1.7"],
    B |-> [Complete EXCEPT !["LoginUrl"] = "url2", !["PWD"] = "", !["UserAgent"] = agent,
                           !["StandardNames"] = "True"]]
   : get \in {"", "false"}, proxy \in {"proxy", Semicolon}, agent \in {"", Long}}

T(key, value) == Token(key, value)
MCStrings ==
  {<<T("DSN", "A")>>,
   <<T("DSN", "B"), T("PWD", "pwd2"), T("UseCompactFormat", "true")>>,
   <<T("DSN", "B"), T("noise", "noise")>>,
   <<T("LoginUrl", "url3"), T("UID", "user3"), T("PWD", "pwd3"), T("PWD", "pwd2")>>,
   <<T("LoginUrl", "url3"), T("UID", "user3"), T("PWD", "pwd3"), T("DRIVER", "ezRETS"),
     T("DisableGetObjectMetadata", "false"), T("EnableUserAgentAuth", "true"),
     T("UserAgentPassword", "agent"), T("UseHttpLogging", "TRUE"), T("HttpLogFile", "log1")>>,
   <<T("UID", "user3"), T("UseBulkMetadata", "true"), T("RetsVersion", "2.0"),
     T("UseHttpLogging", "true"), T("HttpLogFile", "log2")>>}

================================================================================
