------------------------------- MODULE MCCall -------------------------------
(***************************************************************************)
(* TLC instance of module Call: two server incarnations and one or two of  *)
(* the client, some of which make a call.                                *)
(***************************************************************************)
EXTENDS Call

BothCall == {1, 2}
FirstCalls == {1}
=============================================================================
