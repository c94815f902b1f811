---------------------------- MODULE MCAccessPattern ----------------------------
(***************************************************************************)
(* The instance of AccessPattern that TLC checks.  The  time stamps cover  *)
(* every random word, and more than once.                                  *)
(***************************************************************************)
EXTENDS AccessPatternProperties

MCTimeStamps == 0 .. NumberOfWords + 17
=============================================================================
