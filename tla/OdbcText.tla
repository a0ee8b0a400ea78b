------------------------------- MODULE OdbcText --------------------------------
(***************************************************************************)
(* How the driver hands a text to the application: utils.cpp's copyString  *)
(* and the callers that turn what it copied into a length and a return     *)
(* code. A text is its size, a buffer its length; the record an answer     *)
(* leaves is "01004" or none.  An answer is what the application gets to   *)
(* know: the characters copied to its buffer, the length it is told, the   *)
(* return code, and whether a record says more.                            *)
(***************************************************************************)
EXTENDS Naturals

(* The characters of the text that are in the buffer, before its null.     *)
CopyString(size, length) ==
  IF length = 0 THEN 0 ELSE IF size >= length THEN length - 1 ELSE size

(* Faulty: compares with the buffer, where the null needs a place too.     *)
FaultySetString(size, length, null) ==
  LET copied == IF null THEN 0 ELSE CopyString(size, length)
      cut == size > length
  IN  [copied |-> copied, told |-> size,
       ret |-> IF cut THEN "SUCCESS_WITH_INFO" ELSE "SUCCESS", recorded |-> cut]

(* Information on the connection (GetInfoHelper); GetConnectAttrHelper and *)
(* ColAttributeHelper do the same, and their callers lose the return code. *)
SetString(size, length, null) ==
  LET copied == IF null THEN 0 ELSE CopyString(size, length)
      cut == size > copied
  IN  [copied |-> copied, told |-> size,
       ret |-> IF cut THEN "SUCCESS_WITH_INFO" ELSE "SUCCESS", recorded |-> cut]

(* SQLColAttribute(SQL_DESC_TYPE_NAME) drops the return code of the helper,*)
(* whose buffer pointer may be null.                                       *)
TypeName(size, length, null) ==
  [SetString(size, length, null) EXCEPT !.ret = "SUCCESS"]

(* SQLDriverConnect's completed connection string.                         *)
OutConnectionString(size, length, null) ==
  LET copied == IF null THEN 0 ELSE CopyString(size, length)
  IN  [copied |-> copied,
       told |-> IF size > copied THEN size ELSE copied,
       ret |-> IF size > copied THEN "SUCCESS_WITH_INFO" ELSE "SUCCESS",
       recorded |-> size > copied]

(* SQLGetDiagRec and SQLError: the length told is that of the copied part, *)
(* and the message is compared with the buffer, not with what was copied.  *)
MessageText(size, length, null) ==
  [copied |-> IF null THEN 0 ELSE CopyString(size, length),
   told |-> IF null \/ length = 0 THEN size ELSE CopyString(size, length),
   ret |-> IF size > length THEN "SUCCESS_WITH_INFO" ELSE "SUCCESS",
   recorded |-> FALSE]

(* SQLGetDiagField's strings and the name SQLDescribeCol returns: cut      *)
(* without a word, the length told is that of the copied part.             *)
SilentText(size, length, null) ==
  LET copied == IF null THEN 0 ELSE CopyString(size, length)
  IN  [copied |-> copied, told |-> copied, ret |-> "SUCCESS", recorded |-> FALSE]

================================================================================
