-------------------------- MODULE MCIncidentReads --------------------------
(***************************************************************************)
(* IncidentReads with one API process that dispatches, people who retry    *)
(* and answer, and a console that polls one of the runs they write.        *)
(***************************************************************************)
EXTENDS IncidentReads

CONSTANTS r0, r1, r2, p1, p2

Keys == ({"turn", "start", "human", "reinvestigate"} \cup Dispatches) \X Runs \X (0..MaxVersion)
Symmetric == Permutations(Processes) \cup Permutations(Runs \ {DeclarationRun})
=============================================================================
