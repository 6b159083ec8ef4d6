----------------------------- MODULE Investigator -----------------------------
(***************************************************************************)
(* One investigation and the verification of what it proposed: the bounded *)
(* loop of the harness (investigator/loop.py, contract.py), called pass    *)
(* after pass by the dispatcher (gateway/investigation.py, _investigate),  *)
(* which records each cited hypothesis and goes on with the steps left.    *)
(* The model, the tools, the BoK and the Skills answer anything their      *)
(* ports can bring; other people may move the incident meanwhile.          *)
(*                                                                         *)
(* A turn adds at most one piece of evidence (of the at most five          *)
(* fragments of a search only the first is kept), and its number is the    *)
(* evidence's id.  A memory recalled from a past incident is evidence 0.   *)
(***************************************************************************)
EXTENDS EvidenceSources

CONSTANTS
    max_steps,              \* Limits.max_steps
    steps_after_refusal,    \* Limits.steps_after_refusal
    transient_retries,      \* Limits.transient_retries
    Catalog,                \* what the deploy-executor offers the service
    Proposals,              \* the operations a model may name
    MaxMoves                \* how often someone else moves the incident

ASSUME LimitsAssumption ==
    /\ max_steps \in 1 .. 20
    /\ steps_after_refusal \in 0 .. 6
    /\ transient_retries \in 0 .. 3

VARIABLES
    incident,   \* the incident as the runtime keeps it
    pc,         \* where the dispatcher and its harness are
    request,    \* InvestigationRequest, with the version of the view behind it
    limits,     \* Limits of this pass
    pass,       \* the local state of investigate()
    result,     \* InvestigationResult
    skill,      \* what the gateway serves for the pinned Skill
    turns,      \* turns of all passes and dispatches, which number the evidence
    moves

vars == <<incident, pc, request, limits, pass, result, skill, turns, moves>>

Memory == 0
Foreign == 99               \* an id that names nothing
UNMEASURED_SOURCES == {"bok", "incident_memory"}
Tools == MCP_TOOLS \cup {CHANGES_TOOL}

Item(id, found, verdict) ==
    [id |-> id, source |-> found.source, empty |-> found.empty, data |-> found.data,
     verdict |-> verdict]
Recalled == Item(Memory, Evidence("incident_memory", FALSE, FALSE), None)
Ids(items) == {item.id : item \in items}

NoRequest == [objective |-> None]
NoOperation == [operation |-> None]
NoVerdict == [cites |-> {}, since |-> 0]
NoResult == [status |-> None, outcome |-> [action |-> None], remaining |-> 0]

-----------------------------------------------------------------------------
(* The request *)

\* MCPGatewayClient.discover: the visible tools, and the change history when its probe answers.
discover == {MCP_TOOLS \cup changes : changes \in {{}, {CHANGES_TOOL}}}

\* _bok_capabilities, _recall and service_operations: each may find nothing or fail, and the
\* run goes on.  A verification measures what ran and is given none of them.
_bok_capabilities(objective) == IF objective = "verify" THEN {FALSE} ELSE BOOLEAN
_recall(objective) == IF objective = "verify" THEN {FALSE} ELSE BOOLEAN
service_operations(objective) ==
    IF objective = "verify" THEN {None} ELSE {None, "unavailable", "enrolled"}

\* All of it is read once, before the first turn.
Requests(objective) ==
    [objective : {objective}, seen : {incident.version}, base : {turns}, tools : discover,
     collection : _bok_capabilities(objective), recalled : _recall(objective),
     operations : service_operations(objective), pins : BOOLEAN]

FreshLimits == [max_steps |-> max_steps, after |-> steps_after_refusal]

\* The locals of investigate() when it is entered.
Entered(lim, evidence) ==
    [budget |-> lim.max_steps, turns |-> 0, feedback |-> FALSE, evidence |-> evidence,
     loaded |-> None, attempt |-> 0, ask |-> None]

\* Only a memory the incident does not hold yet is passed on.
RecalledFor(req, known) == IF req.recalled /\ Memory \notin known THEN {Recalled} ELSE {}

-----------------------------------------------------------------------------
(* What a model may reply, and which of it is valid *)

Known == Ids(incident.evidence) \cup Ids(pass.evidence)
Citations == SUBSET (Known \cup {Foreign}) \ {{}}

Actions ==
    [action : {"unparsed", "request_human", "search_bok"}]
        \cup [action : {"search_bok_foreign"}]
        \cup [action : {"use_tool"}, tool : Tools \cup {"foreign"}, valid : BOOLEAN]
        \cup [action : {"propose_hypothesis"}, cites : Citations, supports : BOOLEAN]
        \cup [action : {"propose_mitigation"}, known : BOOLEAN, operation : Proposals]
        \cup [action : {"conclude"}, cites : Citations]
        \cup [action : {"verify_mitigation"}, cites : Citations, passed : BOOLEAN]

Citing == {"propose_hypothesis", "conclude", "verify_mitigation"}

unknown_references(action) ==
    IF action.action \in Citing THEN action.cites \ Known
    ELSE IF action.action = "propose_mitigation" /\ ~action.known THEN {Foreign}
    ELSE {}

Unmeasured(item) == item.empty \/ item.source \in UNMEASURED_SOURCES

UnfoundedThisPass(action) ==
    /\ action.action = "propose_hypothesis"
    /\ action.cites \subseteq Ids({item \in pass.evidence : Unmeasured(item)})
unfounded_citations(action) ==
    /\ action.action = "propose_hypothesis"
    /\ action.cites \subseteq Ids({item \in incident.evidence \cup pass.evidence :
                                      Unmeasured(item)})

\* A verdict must cite what this verification measured with data.
unmeasured_verdict(action) ==
    /\ action.action = "verify_mitigation"
    /\ action.cites \cap Ids({item \in pass.evidence : ~Unmeasured(item)}) = {}

\* ServiceOperations.problem: why the enrolled service cannot run this proposal.
problem(proposed) ==
    \/ proposed = NoOperation
    \/ /\ proposed # NoOperation
       /\ \/ proposed.service # Catalog.service
          \/ proposed.operation \notin DOMAIN Catalog.operations
          \/ DOMAIN proposed.parameters # Catalog.operations[proposed.operation]
          \/ /\ "to_tag" \in DOMAIN proposed.parameters
             /\ \/ proposed.parameters.to_tag \notin Catalog.available_tags
                \/ proposed.parameters.to_tag = Catalog.running
          \/ /\ "flag" \in DOMAIN proposed.parameters
             /\ \/ proposed.parameters.flag \notin DOMAIN Catalog.flags
                \/ LET flag == Catalog.flags[proposed.parameters.flag]
                   IN \/ proposed.parameters.variant \notin flag.allowed
                      \/ proposed.parameters.variant = flag.variant

operation_problem(action) ==
    IF request.operations = "enrolled" THEN problem(action.operation)
    ELSE action.operation # NoOperation

InvalidOperation(action) ==
    /\ action.action = "propose_mitigation"
    /\ request.operations # "unavailable"
    /\ operation_problem(action)

InvalidOutput(action) ==
    \/ action.action = "unparsed"
    \/ action.action \in {"search_bok", "search_bok_foreign"} /\ ~request.collection
    \/ /\ request.objective = "verify"
       /\ action.action \in {"propose_hypothesis", "propose_mitigation", "conclude"}
    \/ request.objective # "verify" /\ action.action = "verify_mitigation"
    \/ unknown_references(action) # {}
    \/ unmeasured_verdict(action)
    \/ unfounded_citations(action)
    \/ action.action = "propose_mitigation" /\ incident.hypotheses = {}

-----------------------------------------------------------------------------
(* The loop *)

remaining(p) == IF p.budget > p.turns THEN p.budget - p.turns ELSE 0

Finish(p, status, outcome) ==
    /\ pc' = "result"
    /\ pass' = p
    /\ result' = [status |-> status, outcome |-> outcome, remaining |-> remaining(p)]

NoOutcome == [action |-> None]
AsksHuman == [action |-> "request_human"]

\* The head of `while len(turns) < budget`.
Loops(p) ==
    IF p.turns < p.budget THEN /\ pc' = "asking"
                               /\ pass' = p
                               /\ UNCHANGED result
    ELSE Finish(p, "max_steps", NoOutcome)

Taken(p) == [p EXCEPT !.turns = @ + 1]
TakesTurn == turns' = turns + 1

RunEnds(kind) ==
    CASE kind = "denied" -> "denied"
      [] kind = "transient" -> "upstream_unavailable"
      [] OTHER -> "needs_human"

\* _resolve, once: the pinned Skill, whose digest must be the first one's.
ResolveKinds(loaded) ==
    IF skill # "revoked" /\ loaded \in {None, skill} THEN Kinds(resolve)
    ELSE Kinds(resolve) \ {"usable"}

\* _attempts: a transient failure is tried again while attempts are left.
RetriesLeft(p, kind) == kind = "transient" /\ p.attempt < transient_retries

ResolveSkills ==
    /\ pc = "resolving"
    /\ \E kind \in ResolveKinds(pass.loaded) :
          IF kind = "usable"
          THEN LET p == [pass EXCEPT !.loaded = skill, !.attempt = 0]
               IN Loops(p)
          ELSE IF RetriesLeft(pass, kind)
          THEN /\ pass' = [pass EXCEPT !.attempt = @ + 1]
               /\ UNCHANGED <<pc, result>>
          ELSE Finish([pass EXCEPT !.attempt = 0], RunEnds(kind), NoOutcome)
    /\ UNCHANGED <<incident, request, limits, skill, turns, moves>>

\* assemble: the next input is sent, or is longer than the gateway takes.
Assemble ==
    /\ pc = "asking"
    /\ \/ /\ pc' = IF request.pins THEN "revalidating" ELSE "calling"
          /\ UNCHANGED <<pass, result>>
       \/ Finish(pass, "needs_human", NoOutcome)
    /\ UNCHANGED <<incident, request, limits, skill, turns, moves>>

\* revalidate: every pinned Skill is resolved again before each model call.
Revalidate ==
    /\ pc = "revalidating"
    /\ \E kind \in ResolveKinds(pass.loaded) :
          IF kind = "usable"
          THEN /\ pc' = "calling"
               /\ pass' = [pass EXCEPT !.attempt = 0]
               /\ UNCHANGED result
          ELSE IF RetriesLeft(pass, kind)
          THEN /\ pass' = [pass EXCEPT !.attempt = @ + 1]
               /\ UNCHANGED <<pc, result>>
          ELSE Finish([pass EXCEPT !.attempt = 0], RunEnds(kind), NoOutcome)
    /\ UNCHANGED <<incident, request, limits, skill, turns, moves>>

\* _respond: the model is asked once; a timeout or a 5xx is never tried again.
RespondFails ==
    /\ pc = "calling"
    /\ \E kind \in Kinds(respond) \ {"usable"} : Finish(pass, RunEnds(kind), NoOutcome)
    /\ UNCHANGED <<incident, request, limits, skill, turns, moves>>

-----------------------------------------------------------------------------
(* A reply *)

\* A refused operation gives the run its steps back, once.
Granted(p) ==
    IF p.budget = limits.max_steps /\ p.turns + limits.after > p.budget
    THEN p.turns + limits.after ELSE p.budget

Refuses(action) ==
    LET p == Taken(pass)
        more == [p EXCEPT !.feedback = TRUE, !.budget = Granted(p)]
    IN IF pass.feedback THEN Finish(p, "needs_human", AsksHuman)
       ELSE IF more.turns >= more.budget THEN Finish(more, "needs_human", AsksHuman)
       ELSE Loops(more)

Rejects(action) ==
    LET p == Taken(pass)
    IN IF pass.feedback THEN Finish(p, "invalid_output", NoOutcome)
       ELSE Loops([p EXCEPT !.feedback = TRUE])

\* _judged: the hypothesis judges what has no verdict; an empty item keeps its own.
_judged(items, action) ==
    {IF item.verdict # None THEN item
     ELSE [item EXCEPT !.verdict = IF action.supports THEN "supports" ELSE "inconclusive"] :
        item \in items}

\* What a conclusion cites is kept in its event only, never in the incident.
Concludes(action) ==
    LET p == Taken([pass EXCEPT !.feedback = FALSE])
    IN IF action.action = "propose_mitigation" /\ request.operations = "unavailable"
       THEN Finish(p, "needs_human", AsksHuman)
       ELSE IF action.action = "request_human" THEN Finish(p, "needs_human", AsksHuman)
       ELSE IF action.action = "propose_hypothesis"
       THEN Finish([p EXCEPT !.evidence = _judged(@, action)], "completed", action)
       ELSE IF action.action = "conclude"
       THEN Finish(p, "completed", [action |-> "conclude", cites |-> {}])
       ELSE Finish(p, "completed", action)

Collecting == {"use_tool", "search_bok", "search_bok_foreign"}
Authorized(action) ==
    \/ action.action = "search_bok"
    \/ action.action = "use_tool" /\ action.tool \in request.tools

\* An accepted action that collects waits for its answer before the turn is kept.
Collects(action) ==
    LET p == [pass EXCEPT !.feedback = FALSE]
    IN IF ~Authorized(action) THEN Finish(Taken(p), "denied", NoOutcome) /\ TakesTurn
       ELSE /\ pc' = IF action.action = "use_tool" THEN "collecting" ELSE "searching"
            /\ pass' = [p EXCEPT !.ask = action]
            /\ UNCHANGED <<result, turns>>

Respond ==
    /\ pc = "calling"
    /\ \E action \in Actions :
          IF InvalidOutput(action) THEN Rejects(action) /\ TakesTurn
          ELSE IF InvalidOperation(action) THEN Refuses(action) /\ TakesTurn
          ELSE IF action.action \in Collecting THEN Collects(action)
          ELSE Concludes(action) /\ TakesTurn
    /\ UNCHANGED <<incident, request, limits, skill, moves>>

-----------------------------------------------------------------------------
(* Evidence *)

ToolStatus(error) ==
    CASE error.kind = "denied" -> "denied"
      [] error.kind = "rejected" /\ error.status = 422 -> "pre_dispatch_rejected"
      [] OTHER -> "upstream_unavailable"

\* One tool call: evidence, an error the model may act on, or the end of the run.
UseTool ==
    /\ pc = "collecting"
    /\ LET ask == pass.ask
           p == Taken([pass EXCEPT !.ask = None])
       IN \E allowed \in BOOLEAN : \E found \in ToolOutcomes(ask.tool, allowed, ask.valid) :
             IF "source" \in DOMAIN found
             THEN Loops([p EXCEPT !.evidence = @ \cup
                            {Item(turns + 1, found, IF found.empty THEN "inconclusive" ELSE None)}])
             ELSE IF found.code = "upstream_invalid" THEN Loops([p EXCEPT !.feedback = TRUE])
             ELSE Finish(p, ToolStatus(found), NoOutcome)
    /\ TakesTurn
    /\ UNCHANGED <<incident, request, limits, skill, moves>>

\* _search, once: fragments of another version, or more than asked, are rejected.
SearchKinds == Kinds(search)

\* A search with its attempts: a fragment, nothing found, or a failure that ends nothing.
SearchBoK ==
    /\ pc = "searching"
    /\ \E kind \in SearchKinds :
          IF RetriesLeft(pass, kind)
          THEN /\ pass' = [pass EXCEPT !.attempt = @ + 1]
               /\ UNCHANGED <<pc, result, turns>>
          ELSE /\ TakesTurn
               /\ LET p == Taken([pass EXCEPT !.ask = None, !.attempt = 0])
                      fragment == Item(turns + 1, Evidence("bok", FALSE, FALSE), None)
                  IN \/ Loops(p)
                     \/ kind = "usable" /\ Loops([p EXCEPT !.evidence = @ \cup {fragment}])
    /\ UNCHANGED <<incident, request, limits, skill, moves>>

-----------------------------------------------------------------------------
(* The dispatcher *)

\* _investigate up to its first pass.
Begin(objective) ==
    /\ pc = "idle"
    /\ incident.state = IF objective = "verify" THEN "verifying" ELSE "investigating"
    /\ \/ \E req \in Requests(objective) :
            /\ request' = req
            /\ limits' = FreshLimits
            /\ pass' = Entered(FreshLimits, RecalledFor(req, Ids(incident.evidence)))
            /\ pc' = IF req.pins THEN "resolving" ELSE "asking"
       \/ /\ pc' = "ended"          \* mcp_discovery_*: the run ends before a turn
          /\ UNCHANGED <<request, limits, pass>>
    /\ UNCHANGED <<incident, result, skill, turns, moves>>

\* _cited_memories_only, then _merge_evidence: what is already kept stays as it is.
_cited_memories_only(items, outcome) ==
    {item \in items : item.id = Memory =>
                        outcome.action \in Citing /\ Memory \in outcome.cites}
_merge_evidence(items) ==
    incident.evidence \cup {item \in items : item.id \notin Ids(incident.evidence)}

Kept == _cited_memories_only(pass.evidence, result.outcome)
Merged == [incident EXCEPT !.evidence = _merge_evidence(Kept), !.version = @ + 1]

\* _runtime_command and _hypothesis_patch: a hypothesis is recorded with its citations, a
\* proposal or a verdict moves the incident, any other outcome leaves it as it is.
Patched ==
    LET outcome == result.outcome
    IN CASE outcome.action = "propose_hypothesis" ->
              [Merged EXCEPT !.hypotheses = @ \cup {outcome.cites}]
         [] outcome.action = "propose_mitigation" -> [Merged EXCEPT !.state = "mitigating"]
         [] outcome.action = "verify_mitigation" ->
              [Merged EXCEPT !.verdict = [cites |-> outcome.cites, since |-> request.base],
                             !.state = IF outcome.passed THEN "resolved" ELSE "investigating"]
         [] OTHER -> incident

GoesOn == /\ result.status = "completed"
          /\ result.outcome.action = "propose_hypothesis"
          /\ result.remaining >= 1
Accepted == result.outcome.action # None /\ result.status \in {"completed", "needs_human"}

\* A run that got its steps after a refusal does not get them again.
AfterUncounted == limits.after
After == IF pass.turns + result.remaining > limits.max_steps THEN 0 ELSE limits.after

\* _continue: the hypothesis is recorded and the next pass has the steps left.
Continue ==
    LET lim == [max_steps |-> result.remaining, after |-> After]
    IN /\ pc = "result" /\ GoesOn
       /\ request.seen = incident.version
       /\ incident' = Patched
       /\ request' = [request EXCEPT !.seen = incident.version + 1]
       /\ limits' = lim
       /\ pass' = Entered(lim, RecalledFor(request, Ids(Patched.evidence)))
       /\ result' = NoResult
       /\ pc' = IF request.pins THEN "resolving" ELSE "asking"
       /\ UNCHANGED <<skill, turns, moves>>

\* Returning from _investigate drops its locals.
Returns ==
    /\ request' = NoRequest
    /\ limits' = FreshLimits
    /\ pass' = Entered(FreshLimits, {})
    /\ result' = NoResult

\* _persist_result: the outcome commits with the end of the dispatch.
PersistResult ==
    /\ pc = "result" /\ ~GoesOn /\ Accepted
    /\ request.seen = incident.version
    /\ incident' = Patched
    /\ pc' = IF incident'.state = "mitigating" THEN "idle" ELSE "ended"
    /\ Returns
    /\ UNCHANGED <<skill, turns, moves>>

\* A view older than the incident, or a write of which nobody knows whether it committed,
\* ends the run.
Uncertain ==
    /\ pc = "result" /\ Accepted
    /\ \/ UNCHANGED incident
       \/ request.seen = incident.version /\ incident' = Patched
    /\ pc' = "ended"
    /\ Returns
    /\ UNCHANGED <<skill, turns, moves>>

\* _finish: a result with no outcome ends the run and leaves the incident as it is.
EndsRun ==
    /\ pc = "result" /\ ~GoesOn /\ ~Accepted
    /\ pc' = "ended"
    /\ Returns
    /\ UNCHANGED <<incident, skill, turns, moves>>

-----------------------------------------------------------------------------
(* Everyone else *)

\* A person approves the mitigation and it runs: the incident waits for its verification.
Approve ==
    /\ incident.state = "mitigating"
    /\ incident' = [incident EXCEPT !.state = "verifying", !.version = @ + 1]
    /\ UNCHANGED <<pc, request, limits, pass, result, skill, turns, moves>>

\* Someone else's command commits while the investigation runs.  Its version is compared only
\* when the result is recorded, so it is enough to let it commit just before.
Moved ==
    /\ pc = "result" /\ Accepted /\ moves < MaxMoves
    /\ incident' = [incident EXCEPT !.version = @ + 1]
    /\ moves' = moves + 1
    /\ UNCHANGED <<pc, request, limits, pass, result, skill, turns>>

\* The pinned Skill is revoked, or another content is served under its version: seen by the
\* resolution that follows.
SkillChanges ==
    /\ skill = "first" /\ pc \in {"resolving", "revalidating"}
    /\ skill' \in {"second", "revoked"}
    /\ UNCHANGED <<incident, pc, request, limits, pass, result, turns, moves>>

Init ==
    /\ incident = [state |-> "investigating", version |-> 0, evidence |-> {},
                   hypotheses |-> {}, verdict |-> NoVerdict]
    /\ pc = "idle"
    /\ request = NoRequest
    /\ limits = FreshLimits
    /\ pass = Entered(FreshLimits, {})
    /\ result = NoResult
    /\ skill = "first"
    /\ turns = 0
    /\ moves = 0

Harness ==
    \/ ResolveSkills \/ Assemble \/ Revalidate \/ RespondFails \/ Respond
    \/ UseTool \/ SearchBoK

Dispatcher ==
    \/ \E objective \in {"investigate", "verify"} : Begin(objective)
    \/ Continue \/ Uncertain \/ PersistResult \/ EndsRun

Next == Harness \/ Dispatcher \/ Approve \/ Moved \/ SkillChanges
Spec == Init /\ [][Next]_vars

-----------------------------------------------------------------------------
(* Properties *)

\* Nothing is concluded from what was not measured.  Every hypothesis the incident records
\* (loop.py, unfounded_citations) cites evidence the incident keeps, one item of it a
\* measurement, over every pass and although an earlier pass's evidence comes back through
\* the incident's document; a recorded verdict (unmeasured_verdict) cites a measurement of
\* its own verification; and a query that returned nothing supports nothing.
ConclusionsMeasured ==
    /\ \A cites \in incident.hypotheses :
          /\ cites \subseteq Ids(incident.evidence)
          /\ \E item \in incident.evidence : item.id \in cites /\ item.data
    /\ incident.verdict # NoVerdict =>
          \E item \in incident.evidence :
             item.id \in incident.verdict.cites /\ item.id > incident.verdict.since
                /\ item.data
    /\ \A item \in incident.evidence :
          item.source = "grafana-mcp" /\ item.verdict = "supports" => item.data

\* One dispatch, over all its passes, asks the model at most max_steps times and the steps of
\* one refusal more (loop.py, budget; investigation.py, granted): hypotheses recorded on the
\* way and later refusals add none.
StepsBounded ==
    request.objective # None =>
        /\ turns - request.base <= max_steps + steps_after_refusal
        /\ pc # "result" => pass.turns <= pass.budget
=============================================================================
