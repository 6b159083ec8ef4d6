---------------------- MODULE MCInvestigationDispatch ----------------------
(***************************************************************************)
(* InvestigationDispatch on small instances.  Spec and FairSpec explore it *)
(* from the declaration; RetrySpec from the second failed verification,    *)
(* with its reinvestigation handed to a process, to reach the third.       *)
(***************************************************************************)
EXTENDS InvestigationDispatch

CONSTANTS r0, r1, r2, r3, r4, p1, p2

Keys == ({"turn", "start", "human", "reinvestigate"} \cup Dispatches) \X Runs \X (0..MaxVersion)
Symmetric == Permutations(Processes) \cup Permutations(Runs \ {DeclarationRun})

-----------------------------------------------------------------------------
(* Two runs whose mitigations a person approved, nothing executed, and judged to fail: the      *)
(* first run also recorded the hypothesis.                                                      *)

At(state, mitigation) == [state |-> state, cited |-> TRUE, mitigation |-> mitigation,
                          postmortem |-> FALSE]
Uncited == [DeclaredDoc EXCEPT !.state = "investigating"]
RunAt(state) == NewRun(state).doc
Waiting == [RunAt("mitigating") EXCEPT !.status = "awaiting_human",
                                       !.pending = "approve_mitigation"]
Ended == PatchRun(RunAt("investigating"), Termination("needs_human"))
Proposed(id) == [id |-> id, status |-> "pending", operation |-> TRUE, executed |-> FALSE]
Approved(id) == [Proposed(id) EXCEPT !.status = "approved"]

Unmitigated(id) ==
    <<StateChange("propose_mitigation", At("mitigating", Proposed(id)), Waiting),
      InvestigationResult(FALSE, "none"), Receipt("investigate", "outcome", "success"),
      StateChange("apply_mitigation", At("verifying", Approved(id)), RunAt("verifying")),
      StateChange("verification_failed", At("investigating", Approved(id)), Ended)>>
First ==
    <<StateChange("start_investigation", Uncited, RunAt("investigating")),
      Receipt("investigate", "intent", "pending"),
      StateChange("continue_investigation", At("investigating", NoMitigation),
                  RunAt("investigating")),
      InvestigationResult(FALSE, "none")>> \o Unmitigated(4)
Second ==
    <<StateChange("continue_investigation", At("investigating", Approved(4)),
                  RunAt("investigating")),
      Receipt("investigate", "intent", "pending")>> \o Unmitigated(8)

Record(kind, n, t, r, actor, version, subject) ==
    [id |-> Key(kind, r, n), transition |-> t, run |-> r, actor |-> actor, version |-> version,
     subject |-> subject, reviewed |-> 0]
Decided(r, from) ==
    {Record("investigate", 0, "propose_mitigation", r, "agent", from, IF from > 4 THEN 4 ELSE 0),
     Record("human", from, "apply_mitigation", r, "human", from + 1, from),
     Record("human", from + 1, "verification_failed", r, "human", from + 2, from)}

RetryInit ==
    /\ incident = [doc |-> At("investigating", Approved(8)), version |-> 10]
    /\ runs = [r \in Runs |-> CASE r = r0 -> [NewRun("active") EXCEPT !.version = 1]
                                [] r = r1 -> [doc |-> Ended, version |-> 5]
                                [] r = r2 -> [doc |-> Ended, version |-> 4]
                                [] OTHER  -> AbsentRun]
    /\ events = [r \in Runs |->
                   CASE r = r0 -> <<StateChange("triage_declare", DeclaredDoc, RunAt("active"))>>
                     [] r = r1 -> First
                     [] r = r2 -> Second
                     [] OTHER  -> <<>>]
    /\ snapshots = [r \in Runs |->
                      CASE r = r0 -> [incident |-> DeclaredDoc, run |-> RunAt("active"),
                                      version |-> 1, upto |-> 1]
                        [] r = r1 -> [incident |-> First[8].incident, run |-> First[8].run,
                                      version |-> 4, upto |-> 8]
                        [] r = r2 -> [incident |-> Second[7].incident, run |-> Second[7].run,
                                      version |-> 4, upto |-> 7]
                        [] OTHER  -> [incident |-> DeclaredDoc, run |-> AbsentRun.doc,
                                      version |-> 0, upto |-> 0]]
    /\ commits = Decided(r1, 4) \cup Decided(r2, 8)
         \cup {Record("start", 0, "start_investigation", r1, "human", 2, 0),
               Record("turn", 2, "continue_investigation", r1, "agent", 3, 0),
               [Record("reinvestigate", 1, "continue_investigation", r2, "system", 7, 4) EXCEPT
                  !.id = Key("reinvestigate", DeclarationRun, 1)]}
    /\ postmortem = [version |-> 0, approved |-> 0]
    /\ process = [p \in Processes |-> "up"]
    /\ worker = [p \in Processes |-> Idle]
    /\ hooks = [p \in Processes |-> {Hook("reinvestigate", r2)}]
    /\ sweep = [p \in Processes |-> {}]
    /\ crashes = 0 /\ failures = 0
    /\ gaveUp = FALSE
    /\ mover = r2

RetrySpec == RetryInit /\ [][Next]_vars /\ Fairness
=============================================================================
