------------------------- MODULE MCIncidentRuntime -------------------------
(***************************************************************************)
(* IncidentRuntime with two callers on one incident, from its declaration  *)
(* to its closing.                                                         *)
(***************************************************************************)
EXTENDS IncidentRuntime

CONSTANTS r0, r1, r2, c1, c2, MaxCommands

Keys == 1..MaxCommands
Symmetric == Permutations(Clients) \cup Permutations(Runs \ {DeclarationRun})
=============================================================================
