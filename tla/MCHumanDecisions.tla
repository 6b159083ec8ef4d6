-------------------------- MODULE MCHumanDecisions --------------------------
(***************************************************************************)
(* HumanDecisions with one linked chat and one person at the console.      *)
(***************************************************************************)
EXTENDS HumanDecisions

MCSenders == Workers \cup {Console}
MCCommands == ({"tap"} \X (1..MaxPresses)) \cup ({"page"} \X (1..MaxSubmissions))
=============================================================================
