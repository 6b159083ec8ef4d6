-------------------------- MODULE InvestigatorProofs --------------------------
(***************************************************************************)
(* What the investigator promises for any limits, catalog and proposals:   *)
(* a dispatch asks the model a bounded number of times, and what it        *)
(* records rests on a measurement.                                         *)
(*                                                                         *)
(* Neither is inductive.  The first needs what earlier passes spent and    *)
(* what one refusal may still give back (Budgeted); the second needs to    *)
(* know that a turn's number names its evidence once, so that recording a  *)
(* pass never drops an item its outcome cites (PassSound, IncidentSound),  *)
(* and that a result waiting to be recorded still cites what it was        *)
(* checked against (ResultSound).                                          *)
(***************************************************************************)
EXTENDS Investigator, TLAPS

-----------------------------------------------------------------------------
(* The inductive invariant *)

Sources == {"grafana-mcp", "change-events"} \cup UNMEASURED_SOURCES
Items == [id : Nat, source : Sources, empty : BOOLEAN, data : BOOLEAN,
          verdict : {None, "supports", "inconclusive"}]
Versions == {None, "first", "second", "revoked"}
Asks == {None} \cup [action : {"search_bok"}]
               \cup [action : {"use_tool"}, tool : Tools \cup {"foreign"}, valid : BOOLEAN]

RequestTypes ==
    [objective : {"investigate", "verify"}, seen : Nat, base : Nat, tools : SUBSET Tools,
     collection : BOOLEAN, recalled : BOOLEAN, operations : {None, "unavailable", "enrolled"},
     pins : BOOLEAN]
Passes ==
    [budget : Nat, turns : Nat, feedback : BOOLEAN, evidence : SUBSET Items,
     loaded : Versions, attempt : Nat, ask : Asks]
IncidentTypes ==
    [state : {"investigating", "mitigating", "verifying", "resolved"}, version : Nat,
     evidence : SUBSET Items, hypotheses : SUBSET (SUBSET Nat),
     verdict : [cites : SUBSET Nat, since : Nat]]

Asking == {"asking", "revalidating", "calling", "collecting", "searching"}
Active == Asking \cup {"resolving", "result"}

Types ==
    /\ incident \in IncidentTypes
    /\ request \in {NoRequest} \cup RequestTypes
    /\ limits \in [max_steps : Nat, after : Nat]
    /\ skill \in Versions
    /\ turns \in Nat
    /\ pc \in Active \cup {"idle", "ended"}
    /\ pc \in {"idle", "ended"} <=> request = NoRequest

\* What an answer holds decides what may be said of it.
ItemSound(item) ==
    /\ item.source \in UNMEASURED_SOURCES => ~item.data
    /\ item.source \notin UNMEASURED_SOURCES => item.data = ~item.empty
    /\ item.empty => item.verdict = "inconclusive"
    /\ item.id = Memory => item.source = "incident_memory"

\* A pass of which n turns have been taken in all: it keeps its budget, and its evidence has
\* the numbers of its own turns.
PassSound(p, n) ==
    /\ p \in Passes
    /\ p.turns <= p.budget
    /\ p.budget <= limits.max_steps + limits.after
    /\ \A item \in p.evidence :
          /\ ItemSound(item)
          /\ item.id # Memory => n - p.turns < item.id /\ item.id <= n

\* What the incident keeps came from earlier passes.
IncidentSound(items, n) == \A item \in items : ItemSound(item) /\ item.id <= n

\* The turns of earlier passes and all that this one may still take.
Budgeted ==
    request # NoRequest =>
        /\ request.base + pass.turns <= turns
        /\ (turns - request.base - pass.turns) + limits.max_steps + limits.after
             <= max_steps + steps_after_refusal

\* An outcome that records a citation cites what is kept or was found, and a measurement.
OutcomeSound(outcome, kept, found) ==
    /\ outcome.action \in {"propose_hypothesis", "verify_mitigation"} =>
          outcome.cites \subseteq Ids(kept) \cup Ids(found)
    /\ outcome.action = "propose_hypothesis" =>
          \E item \in kept \cup found : item.id \in outcome.cites /\ ~Unmeasured(item)
    /\ outcome.action = "verify_mitigation" =>
          \E item \in found : item.id \in outcome.cites /\ ~Unmeasured(item)

ResultSound ==
    pc = "result" => /\ result.remaining = remaining(pass)
                     /\ OutcomeSound(result.outcome, incident.evidence, pass.evidence)

InvestigatorSafe ==
    /\ Types
    /\ PassSound(pass, turns)
    /\ IncidentSound(incident.evidence, turns - pass.turns)
    /\ Budgeted
    /\ pc \in Asking => pass.turns < pass.budget
    /\ ResultSound
    /\ ConclusionsMeasured

-----------------------------------------------------------------------------
(* A step of the harness *)

\* The harness changes its pass and its result only: this is all it has to keep.
LEMMA HarnessKeeps ==
    ASSUME InvestigatorSafe, request # NoRequest,
           UNCHANGED <<incident, request, limits, skill>>,
           PassSound(pass', turns'), turns' \in Nat,
           turns' - pass'.turns = turns - pass.turns,
           pc' \in Active, pc' \in Asking => pass'.turns < pass'.budget,
           ResultSound'
    PROVE  InvestigatorSafe'
<1>1. Types'
  BY DEF InvestigatorSafe, Types, Active, Asking
<1>2. PassSound(pass, turns)'
  BY DEF PassSound
<1>3. IncidentSound(incident.evidence, turns - pass.turns)'
  BY DEF InvestigatorSafe, IncidentSound
<1>4. pass.turns \in Nat /\ pass'.turns \in Nat /\ turns \in Nat
  BY DEF InvestigatorSafe, Types, PassSound, Passes
<1>5. Budgeted'
  <2>1. request.base \in Nat /\ limits.max_steps \in Nat /\ limits.after \in Nat
    BY DEF InvestigatorSafe, Types, RequestTypes
  <2>2. /\ request.base + pass.turns <= turns
        /\ (turns - request.base - pass.turns) + limits.max_steps + limits.after
             <= max_steps + steps_after_refusal
    BY DEF InvestigatorSafe, Budgeted
  <2>3. /\ request.base + pass'.turns <= turns'
        /\ turns' - request.base - pass'.turns = turns - request.base - pass.turns
    BY <1>4, <2>1, <2>2
  <2> QED  BY <2>2, <2>3 DEF Budgeted
<1>6. ConclusionsMeasured'
  BY DEF InvestigatorSafe, ConclusionsMeasured
<1> QED  BY <1>1, <1>2, <1>3, <1>5, <1>6 DEF InvestigatorSafe

\* A pass that ended has an outcome that stands on its evidence.
LEMMA FinishKeeps ==
    ASSUME InvestigatorSafe, request # NoRequest,
           UNCHANGED <<incident, request, limits, skill>>,
           NEW p, NEW status, NEW outcome, Finish(p, status, outcome),
           PassSound(p, turns'), turns' \in Nat, turns' - p.turns = turns - pass.turns,
           OutcomeSound(outcome, incident.evidence, p.evidence)
    PROVE  InvestigatorSafe'
<1>1. pc' = "result" /\ pass' = p
      /\ result' = [status |-> status, outcome |-> outcome, remaining |-> remaining(p)]
  BY DEF Finish
<1>2. result'.remaining = remaining(p) /\ result'.outcome = outcome
  BY <1>1
<1>3. ResultSound'
  BY <1>1, <1>2 DEF ResultSound, remaining
<1>4. pc' \in Active /\ pc' \notin Asking
  BY <1>1 DEF Active, Asking
<1> QED  BY <1>1, <1>3, <1>4, HarnessKeeps

\* An outcome without an action, or with one that cites nothing, stands on anything.
LEMMA CitesNothing ==
    ASSUME NEW outcome, NEW kept, NEW found,
           outcome.action \notin {"propose_hypothesis", "verify_mitigation"}
    PROVE  OutcomeSound(outcome, kept, found)
BY DEF OutcomeSound

\* The head of the loop asks again only below the budget.
LEMMA LoopsKeeps ==
    ASSUME InvestigatorSafe, request # NoRequest,
           UNCHANGED <<incident, request, limits, skill>>,
           NEW p, Loops(p), PassSound(p, turns'), turns' \in Nat,
           turns' - p.turns = turns - pass.turns
    PROVE  InvestigatorSafe'
<1>1. CASE p.turns < p.budget
  <2>1. pc' = "asking" /\ pass' = p
    BY <1>1 DEF Loops
  <2>2. ResultSound'
    BY <2>1 DEF ResultSound
  <2> QED  BY <1>1, <2>1, <2>2, HarnessKeeps DEF Active, Asking
<1>2. CASE ~(p.turns < p.budget)
  <2>1. Finish(p, "max_steps", NoOutcome)
    BY <1>2 DEF Loops
  <2>2. OutcomeSound(NoOutcome, incident.evidence, p.evidence)
    BY CitesNothing DEF NoOutcome, None
  <2> QED  BY <2>1, <2>2, FinishKeeps
<1> QED  BY <1>1, <1>2

\* Writing down an attempt, an ask, feedback or a loaded Skill leaves budget and evidence.
LEMMA PassKept ==
    ASSUME InvestigatorSafe, NEW p, p \in Passes, p.budget = pass.budget,
           p.turns = pass.turns, p.evidence = pass.evidence
    PROVE  PassSound(p, turns) /\ turns - p.turns = turns - pass.turns
BY DEF InvestigatorSafe, PassSound

\* A turn below the budget is counted, and may add one sound item with its number.
LEMMA TurnKept ==
    ASSUME InvestigatorSafe, pass.turns < pass.budget, NEW p, p \in Passes,
           p.budget >= pass.budget, p.budget <= limits.max_steps + limits.after,
           p.turns = pass.turns + 1,
           \A item \in p.evidence :
              \/ /\ ItemSound(item) /\ item.id # Memory
                 /\ item.id = turns + 1
              \/ \E old \in pass.evidence : item.id = old.id /\ ItemSound(item)
    PROVE  PassSound(p, turns + 1) /\ (turns + 1) - p.turns = turns - pass.turns
<1>1. /\ pass \in Passes /\ turns \in Nat /\ limits.max_steps \in Nat /\ limits.after \in Nat
      /\ \A item \in pass.evidence :
            item.id # Memory => turns - pass.turns < item.id /\ item.id <= turns
  BY DEF InvestigatorSafe, PassSound, Types
<1>2. pass.turns \in Nat /\ pass.budget \in Nat /\ p.budget \in Nat /\ p.turns \in Nat
  BY <1>1 DEF Passes
<1>3. p.turns <= p.budget
  BY <1>2
<1>4. (turns + 1) - p.turns = turns - pass.turns
  BY <1>1, <1>2
<1>5. ASSUME NEW item \in p.evidence
      PROVE  /\ ItemSound(item)
             /\ item.id # Memory => (turns + 1) - p.turns < item.id /\ item.id <= turns + 1
  <2>1. item.id \in Nat /\ \A old \in pass.evidence : old.id \in Nat
    BY <1>1 DEF Passes, Items
  <2>2. CASE item.id = turns + 1 /\ ItemSound(item)
    BY <1>1, <1>2, <1>4, <2>2
  <2>3. CASE \E old \in pass.evidence : item.id = old.id /\ ItemSound(item)
    BY <1>1, <1>4, <2>1, <2>3
  <2> QED  BY <2>2, <2>3
<1> QED  BY <1>3, <1>4, <1>5 DEF PassSound

-----------------------------------------------------------------------------
(* The actions of the harness *)

\* A pass is under way in every place the harness can be.
LEMMA HarnessActive ==
    ASSUME InvestigatorSafe, pc \in Active
    PROVE  request # NoRequest /\ pass \in Passes /\ turns \in Nat
BY DEF InvestigatorSafe, Types, PassSound, Active, Asking

\* Resolving and revalidating a Skill.
LEMMA SkillKeeps == ASSUME InvestigatorSafe, ResolveSkills \/ Revalidate
                    PROVE  InvestigatorSafe'
<1>1. /\ pc \in {"resolving", "revalidating"} /\ turns' = turns
      /\ UNCHANGED <<incident, request, limits, skill>>
  BY DEF ResolveSkills, Revalidate
<1>2. request # NoRequest /\ pass \in Passes /\ turns \in Nat /\ skill \in Versions
  BY <1>1, HarnessActive DEF Active, Asking, InvestigatorSafe, Types
<1>3. ASSUME NEW p, \/ p = [pass EXCEPT !.loaded = skill, !.attempt = 0]
                    \/ p = [pass EXCEPT !.attempt = 0]
                    \/ p = [pass EXCEPT !.attempt = @ + 1]
      PROVE  /\ PassSound(p, turns') /\ turns' - p.turns = turns - pass.turns
             /\ p.turns = pass.turns /\ p.budget = pass.budget
  <2>1. p \in Passes /\ p.budget = pass.budget /\ p.turns = pass.turns
        /\ p.evidence = pass.evidence
    <3>1. CASE p = [pass EXCEPT !.loaded = skill, !.attempt = 0]
      BY <1>2, <3>1 DEF Passes
    <3>2. CASE p = [pass EXCEPT !.attempt = 0]
      BY <1>2, <3>2 DEF Passes
    <3>3. CASE p = [pass EXCEPT !.attempt = @ + 1]
      BY <1>2, <3>3 DEF Passes
    <3> QED  BY <1>3, <3>1, <3>2, <3>3
  <2> QED  BY <1>1, <2>1, PassKept
<1>4. ASSUME NEW kind, Finish([pass EXCEPT !.attempt = 0], RunEnds(kind), NoOutcome)
      PROVE  InvestigatorSafe'
  <2>1. OutcomeSound(NoOutcome, incident.evidence, [pass EXCEPT !.attempt = 0].evidence)
    BY CitesNothing DEF NoOutcome, None
  <2>2. /\ PassSound([pass EXCEPT !.attempt = 0], turns')
        /\ turns' - [pass EXCEPT !.attempt = 0].turns = turns - pass.turns
    BY <1>3
  <2> QED  BY <1>1, <1>2, <1>4, <2>1, <2>2, FinishKeeps
<1>5. ASSUME pass' = [pass EXCEPT !.attempt = @ + 1], pc' = pc
      PROVE  InvestigatorSafe'
  <2>1. ResultSound'
    BY <1>1, <1>5 DEF ResultSound
  <2>2. pc' \in Active /\ (pc' \in Asking => pass'.turns < pass'.budget)
    BY <1>1, <1>3, <1>5 DEF Active, Asking, InvestigatorSafe
  <2> QED  BY <1>1, <1>2, <1>3, <1>5, <2>1, <2>2, HarnessKeeps
<1>6. CASE ResolveSkills
  <2>1. ASSUME Loops([pass EXCEPT !.loaded = skill, !.attempt = 0]) PROVE InvestigatorSafe'
    BY <1>1, <1>2, <1>3, <2>1, LoopsKeeps
  <2> QED  BY <1>4, <1>5, <1>6, <2>1 DEF ResolveSkills
<1>7. CASE Revalidate
  <2>1. ASSUME pc = "revalidating", pc' = "calling", pass' = [pass EXCEPT !.attempt = 0]
        PROVE  InvestigatorSafe'
    <3>1. ResultSound'
      BY <2>1 DEF ResultSound
    <3>2. pc' \in Active /\ pass'.turns < pass'.budget
      BY <1>3, <2>1 DEF Active, Asking, InvestigatorSafe
    <3> QED  BY <1>1, <1>2, <1>3, <2>1, <3>1, <3>2, HarnessKeeps
  <2> QED  BY <1>4, <1>5, <1>7, <2>1 DEF Revalidate
<1> QED  BY <1>6, <1>7

\* Sending the next input, or finding it too long or the model unavailable.
LEMMA AskKeeps == ASSUME InvestigatorSafe, Assemble \/ RespondFails PROVE InvestigatorSafe'
<1>1. /\ pc \in {"asking", "calling"} /\ turns' = turns
      /\ UNCHANGED <<incident, request, limits, skill>>
  BY DEF Assemble, RespondFails
<1>2. request # NoRequest /\ pass \in Passes /\ turns \in Nat /\ pass.turns < pass.budget
  BY <1>1, HarnessActive DEF Active, Asking, InvestigatorSafe
<1>3. PassSound(pass, turns')
  BY <1>1 DEF InvestigatorSafe
<1>4. ASSUME NEW status, Finish(pass, status, NoOutcome) PROVE InvestigatorSafe'
  <2>1. OutcomeSound(NoOutcome, incident.evidence, pass.evidence)
    BY CitesNothing DEF NoOutcome, None
  <2> QED  BY <1>1, <1>2, <1>3, <1>4, <2>1, FinishKeeps
<1>5. ASSUME pc' \in {"revalidating", "calling"}, pass' = pass PROVE InvestigatorSafe'
  <2>1. ResultSound'
    BY <1>5 DEF ResultSound
  <2> QED  BY <1>1, <1>2, <1>3, <1>5, <2>1, HarnessKeeps DEF Active, Asking
<1>6. CASE Assemble
  BY <1>4, <1>5, <1>6 DEF Assemble
<1>7. CASE RespondFails
  BY <1>4, <1>7 DEF RespondFails
<1> QED  BY <1>6, <1>7

\* A tool's answer that is evidence says of itself whether it holds data.
LEMMA ToolFinds ==
    ASSUME NEW tool, NEW allowed, NEW valid, NEW found \in ToolOutcomes(tool, allowed, valid),
           "source" \in DOMAIN found
    PROVE  /\ found.source \in {"grafana-mcp", "change-events"}
           /\ found.empty \in BOOLEAN /\ found.data \in BOOLEAN /\ found.data = ~found.empty
<1>1. PICK answer, readable : found = collect(tool, answer, readable)
                              \/ found = Unavailable("timeout", 0, None)
  BY DEF ToolOutcomes
<1>2. ASSUME NEW kind, NEW status, NEW code
      PROVE  "source" \notin DOMAIN Unavailable(kind, status, code)
  BY DEF Unavailable
<1>3. "source" \notin DOMAIN _raise_error(answer)
  BY <1>2 DEF _raise_error
<1>4. \/ found = Evidence("change-events", FALSE, TRUE)
      \/ found = Evidence("grafana-mcp", answer.result = "no_data", answer.result # "no_data")
  <2>1. found = collect(tool, answer, readable) /\ answer # Lost
    BY <1>1, <1>2 DEF collect
  <2>2. CASE tool = CHANGES_TOOL
    BY <1>2, <1>3, <2>1, <2>2 DEF collect
  <2>3. CASE tool # CHANGES_TOOL
    BY <1>2, <1>3, <2>1, <2>3 DEF collect, Unreadable
  <2> QED  BY <2>2, <2>3
<1>5. CASE found = Evidence("change-events", FALSE, TRUE)
  BY <1>5 DEF Evidence
<1>6. CASE found = Evidence("grafana-mcp", answer.result = "no_data", answer.result # "no_data")
  <2>1. /\ found.source = "grafana-mcp"
        /\ found.empty = (answer.result = "no_data") /\ found.data = (answer.result # "no_data")
    BY <1>6, Zenon DEF Evidence
  <2> QED  BY <2>1, Zenon
<1> QED  BY <1>4, <1>5, <1>6


\* Taking a turn counts it and touches nothing else.
LEMMA TakenFacts ==
    ASSUME NEW p \in Passes
    PROVE  /\ Taken(p) \in Passes /\ Taken(p).budget = p.budget /\ Taken(p).turns = p.turns + 1
           /\ Taken(p).evidence = p.evidence /\ Taken(p).feedback = p.feedback
BY DEF Passes, Taken

\* One tool call: evidence, an error the model may act on, or the end of the run.
LEMMA ToolKeeps == ASSUME InvestigatorSafe, UseTool PROVE InvestigatorSafe'
<1> DEFINE p == Taken([pass EXCEPT !.ask = None])
<1>1. pc = "collecting" /\ turns' = turns + 1 /\ UNCHANGED <<incident, request, limits, skill>>
  BY DEF UseTool, TakesTurn
<1>2. /\ request # NoRequest /\ pass \in Passes /\ turns \in Nat /\ turns' \in Nat
      /\ pass.turns < pass.budget /\ pass.budget <= limits.max_steps + limits.after
      /\ \A item \in pass.evidence : ItemSound(item)
  BY <1>1, HarnessActive DEF Active, Asking, InvestigatorSafe, PassSound
<1>3. /\ p \in Passes /\ p.budget = pass.budget /\ p.turns = pass.turns + 1
      /\ p.evidence = pass.evidence
  <2> DEFINE q == [pass EXCEPT !.ask = None]
  <2>1. /\ q \in Passes /\ q.budget = pass.budget /\ q.turns = pass.turns
        /\ q.evidence = pass.evidence
    BY <1>2 DEF Passes, Asks
  <2>2. p = Taken(q)
    OBVIOUS
  <2> HIDE DEF p, q
  <2> QED  BY <2>1, <2>2, TakenFacts
<1> HIDE DEF p
<1>4. pass.budget \in Nat
  BY <1>2 DEF Passes
<1>5. PassSound(p, turns') /\ turns' - p.turns = turns - pass.turns
  BY <1>1, <1>2, <1>3, <1>4, TurnKept
<1>pick. PICK allowed \in BOOLEAN :
        \E found \in ToolOutcomes(pass.ask.tool, allowed, pass.ask.valid) :
           IF "source" \in DOMAIN found
           THEN Loops([p EXCEPT !.evidence = @ \cup
                       {Item(turns + 1, found, IF found.empty THEN "inconclusive" ELSE None)}])
           ELSE IF found.code = "upstream_invalid" THEN Loops([p EXCEPT !.feedback = TRUE])
           ELSE Finish(p, ToolStatus(found), NoOutcome)
  BY DEF UseTool, p
<1>6. PICK found \in ToolOutcomes(pass.ask.tool, allowed, pass.ask.valid) :
        IF "source" \in DOMAIN found
        THEN Loops([p EXCEPT !.evidence = @ \cup
                       {Item(turns + 1, found, IF found.empty THEN "inconclusive" ELSE None)}])
        ELSE IF found.code = "upstream_invalid" THEN Loops([p EXCEPT !.feedback = TRUE])
        ELSE Finish(p, ToolStatus(found), NoOutcome)
  BY <1>pick
<1>7. CASE "source" \in DOMAIN found
  <2> DEFINE item == Item(turns + 1, found, IF found.empty THEN "inconclusive" ELSE None)
             q == [p EXCEPT !.evidence = @ \cup {item}]
  <2>1. /\ found.source \in {"grafana-mcp", "change-events"}
        /\ found.empty \in BOOLEAN /\ found.data \in BOOLEAN /\ found.data = ~found.empty
    BY <1>7, ToolFinds
  <2>2. /\ item.id = turns + 1 /\ item.source = found.source /\ item.empty = found.empty
        /\ item.data = found.data
        /\ item.verdict = IF found.empty THEN "inconclusive" ELSE None
    BY DEF Item
  <2>3. item \in Items
    BY <1>2, <2>1 DEF Item, Items, Sources
  <2>4. item.id # Memory
    BY <1>2, <2>2 DEF Memory
  <2>5. ItemSound(item)
    BY <2>1, <2>2, <2>4 DEF ItemSound, UNMEASURED_SOURCES
  <2> HIDE DEF item
  <2>6. /\ q \in Passes /\ q.budget = pass.budget /\ q.turns = pass.turns + 1
        /\ q.evidence = pass.evidence \cup {item}
    BY <1>3, <2>3 DEF Passes
  <2>7. Loops(q)
    BY <1>6, <1>7 DEF item
  <2> HIDE DEF q
  <2>8. PassSound(q, turns') /\ turns' - q.turns = turns - pass.turns
    BY <1>1, <1>2, <1>4, <2>2, <2>4, <2>5, <2>6, TurnKept
  <2> QED  BY <1>1, <1>2, <2>7, <2>8, LoopsKeeps
<1>8. CASE "source" \notin DOMAIN found /\ Loops([p EXCEPT !.feedback = TRUE])
  <2> DEFINE q == [p EXCEPT !.feedback = TRUE]
  <2>1. /\ q \in Passes /\ q.budget = pass.budget /\ q.turns = pass.turns + 1
        /\ q.evidence = pass.evidence
    BY <1>3 DEF Passes
  <2>2. Loops(q)
    BY <1>8
  <2> HIDE DEF q
  <2>3. PassSound(q, turns') /\ turns' - q.turns = turns - pass.turns
    BY <1>1, <1>2, <1>4, <2>1, TurnKept
  <2> QED  BY <1>1, <1>2, <2>2, <2>3, LoopsKeeps
<1>9. CASE Finish(p, ToolStatus(found), NoOutcome)
  <2>1. OutcomeSound(NoOutcome, incident.evidence, p.evidence)
    BY CitesNothing DEF NoOutcome, None
  <2> QED  BY <1>1, <1>2, <1>5, <1>9, <2>1, FinishKeeps
<1> QED  BY <1>6, <1>7, <1>8, <1>9

\* A search with its attempts: a fragment, nothing found, or another attempt.
LEMMA SearchKeeps == ASSUME InvestigatorSafe, SearchBoK PROVE InvestigatorSafe'
<1> DEFINE p == Taken([pass EXCEPT !.ask = None, !.attempt = 0])
           fragment == Item(turns + 1, Evidence("bok", FALSE, FALSE), None)
<1>1. pc = "searching" /\ UNCHANGED <<incident, request, limits, skill>>
  BY DEF SearchBoK
<1>2. /\ request # NoRequest /\ pass \in Passes /\ turns \in Nat /\ turns + 1 \in Nat
      /\ pass.turns < pass.budget /\ pass.budget <= limits.max_steps + limits.after
      /\ \A item \in pass.evidence : ItemSound(item)
  BY <1>1, HarnessActive DEF Active, Asking, InvestigatorSafe, PassSound
<1>3. /\ p \in Passes /\ p.budget = pass.budget /\ p.turns = pass.turns + 1
      /\ p.evidence = pass.evidence
  <2> DEFINE q == [pass EXCEPT !.ask = None, !.attempt = 0]
  <2>1. /\ q \in Passes /\ q.budget = pass.budget /\ q.turns = pass.turns
        /\ q.evidence = pass.evidence
    BY <1>2 DEF Passes, Asks
  <2>2. p = Taken(q)
    OBVIOUS
  <2> HIDE DEF p, q
  <2> QED  BY <2>1, <2>2, TakenFacts
<1>4. pass.budget \in Nat
  BY <1>2 DEF Passes
<1>5. /\ fragment \in Items /\ fragment.id = turns + 1 /\ fragment.id # Memory
      /\ ItemSound(fragment)
  BY <1>2 DEF Item, Evidence, Items, Sources, ItemSound, UNMEASURED_SOURCES, Memory
<1>6. \/ pass' = [pass EXCEPT !.attempt = @ + 1] /\ UNCHANGED <<pc, result, turns>>
      \/ turns' = turns + 1 /\ (Loops(p) \/ Loops([p EXCEPT !.evidence = @ \cup {fragment}]))
  BY DEF SearchBoK, TakesTurn
<1> HIDE DEF p, fragment
<1>7. CASE pass' = [pass EXCEPT !.attempt = @ + 1] /\ UNCHANGED <<pc, result, turns>>
  <2>1. /\ pass' \in Passes /\ pass'.budget = pass.budget /\ pass'.turns = pass.turns
        /\ pass'.evidence = pass.evidence
    BY <1>2, <1>7 DEF Passes
  <2>2. PassSound(pass', turns') /\ turns' - pass'.turns = turns - pass.turns
    BY <1>7, <2>1, PassKept
  <2>3. ResultSound'
    BY <1>1, <1>7 DEF ResultSound
  <2> QED  BY <1>1, <1>2, <1>7, <2>1, <2>2, <2>3, HarnessKeeps DEF Active, Asking
<1>8. CASE turns' = turns + 1 /\ Loops(p)
  <2>1. PassSound(p, turns') /\ turns' - p.turns = turns - pass.turns
    BY <1>2, <1>3, <1>4, <1>8, TurnKept
  <2> QED  BY <1>1, <1>2, <1>8, <2>1, LoopsKeeps
<1>9. CASE turns' = turns + 1 /\ Loops([p EXCEPT !.evidence = @ \cup {fragment}])
  <2> DEFINE q == [p EXCEPT !.evidence = @ \cup {fragment}]
  <2>1. /\ q \in Passes /\ q.budget = pass.budget /\ q.turns = pass.turns + 1
        /\ q.evidence = pass.evidence \cup {fragment}
    BY <1>3, <1>5 DEF Passes
  <2>2. Loops(q)
    BY <1>9
  <2> HIDE DEF q
  <2>3. PassSound(q, turns') /\ turns' - q.turns = turns - pass.turns
    BY <1>2, <1>4, <1>5, <1>9, <2>1, TurnKept
  <2> QED  BY <1>1, <1>2, <1>9, <2>2, <2>3, LoopsKeeps
<1> QED  BY <1>6, <1>7, <1>8, <1>9

-----------------------------------------------------------------------------
(* A reply *)

\* Where a reply finds the harness, and the turn it takes.
LEMMA Called ==
    ASSUME InvestigatorSafe, pc = "calling"
    PROVE  /\ request # NoRequest /\ pass \in Passes /\ turns \in Nat /\ turns + 1 \in Nat
           /\ pass.turns \in Nat /\ pass.budget \in Nat
           /\ limits.max_steps \in Nat /\ limits.after \in Nat
           /\ pass.turns < pass.budget /\ pass.budget <= limits.max_steps + limits.after
           /\ \A item \in pass.evidence : ItemSound(item)
           /\ Taken(pass) \in Passes /\ Taken(pass).budget = pass.budget
           /\ Taken(pass).turns = pass.turns + 1 /\ Taken(pass).evidence = pass.evidence
<1>1. /\ request # NoRequest /\ pass \in Passes /\ turns \in Nat
      /\ pass.turns < pass.budget /\ pass.budget <= limits.max_steps + limits.after
      /\ \A item \in pass.evidence : ItemSound(item)
  BY HarnessActive DEF Active, Asking, InvestigatorSafe, PassSound
<1>2. /\ pass.turns \in Nat /\ pass.budget \in Nat
      /\ limits.max_steps \in Nat /\ limits.after \in Nat
  BY <1>1 DEF Passes, InvestigatorSafe, Types
<1> QED  BY <1>1, <1>2, TakenFacts

\* An invalid reply costs its turn; a second one in a row ends the run.
LEMMA RejectsKeeps ==
    ASSUME InvestigatorSafe, pc = "calling", turns' = turns + 1,
           UNCHANGED <<incident, request, limits, skill>>, NEW action, Rejects(action)
    PROVE  InvestigatorSafe'
<1> DEFINE p == Taken(pass)
           q == [p EXCEPT !.feedback = TRUE]
<1>1. Finish(p, "invalid_output", NoOutcome) \/ Loops(q)
  BY DEF Rejects
<1>2. /\ p \in Passes /\ p.budget = pass.budget /\ p.turns = pass.turns + 1
      /\ p.evidence = pass.evidence
  BY Called
<1> HIDE DEF p
<1>3. /\ q \in Passes /\ q.budget = pass.budget /\ q.turns = pass.turns + 1
      /\ q.evidence = pass.evidence
  BY <1>2 DEF Passes
<1> HIDE DEF q
<1>4. PassSound(p, turns') /\ turns' - p.turns = turns - pass.turns
  BY <1>2, Called, TurnKept
<1>5. PassSound(q, turns') /\ turns' - q.turns = turns - pass.turns
  BY <1>3, Called, TurnKept
<1>6. OutcomeSound(NoOutcome, incident.evidence, p.evidence)
  BY CitesNothing DEF NoOutcome, None
<1> QED  BY <1>1, <1>4, <1>5, <1>6, Called, FinishKeeps, LoopsKeeps

\* A refused operation gives its steps back within the budget of the pass.
LEMMA RefusesKeeps ==
    ASSUME InvestigatorSafe, pc = "calling", turns' = turns + 1,
           UNCHANGED <<incident, request, limits, skill>>, NEW action, Refuses(action)
    PROVE  InvestigatorSafe'
<1> DEFINE p == Taken(pass)
           more == [p EXCEPT !.feedback = TRUE, !.budget = Granted(p)]
<1>1. \/ Finish(p, "needs_human", AsksHuman)
      \/ Finish(more, "needs_human", AsksHuman)
      \/ Loops(more)
  BY DEF Refuses
<1>2. /\ p \in Passes /\ p.budget = pass.budget /\ p.turns = pass.turns + 1
      /\ p.evidence = pass.evidence
  BY Called
<1> HIDE DEF p
<1>3. Granted(p) \in Nat /\ pass.budget <= Granted(p)
      /\ Granted(p) <= limits.max_steps + limits.after
  BY <1>2, Called DEF Granted
<1>4. /\ more \in Passes /\ more.budget = Granted(p) /\ more.turns = pass.turns + 1
      /\ more.evidence = pass.evidence
  BY <1>2, <1>3 DEF Passes
<1> HIDE DEF more
<1>5. PassSound(p, turns') /\ turns' - p.turns = turns - pass.turns
  BY <1>2, Called, TurnKept
<1>6. PassSound(more, turns') /\ turns' - more.turns = turns - pass.turns
  BY <1>3, <1>4, Called, TurnKept
<1>7. /\ OutcomeSound(AsksHuman, incident.evidence, p.evidence)
      /\ OutcomeSound(AsksHuman, incident.evidence, more.evidence)
  BY CitesNothing DEF AsksHuman
<1> QED  BY <1>1, <1>5, <1>6, <1>7, Called, FinishKeeps, LoopsKeeps

\* An accepted action that collects is authorized first, then waits for its answer.
LEMMA CollectsKeeps ==
    ASSUME InvestigatorSafe, pc = "calling",
           UNCHANGED <<incident, request, limits, skill>>,
           NEW action \in Actions, Collects(action)
    PROVE  InvestigatorSafe'
<1> DEFINE p == [pass EXCEPT !.feedback = FALSE]
           q == [p EXCEPT !.ask = action]
<1>1. \/ Finish(Taken(p), "denied", NoOutcome) /\ turns' = turns + 1
      \/ /\ Authorized(action)
         /\ pc' \in {"collecting", "searching"}
         /\ pass' = q /\ turns' = turns
  BY DEF Collects, TakesTurn
<1>2. /\ p \in Passes /\ p.budget = pass.budget /\ p.turns = pass.turns
      /\ p.evidence = pass.evidence
  BY Called DEF Passes
<1> HIDE DEF p
<1>3. CASE Finish(Taken(p), "denied", NoOutcome) /\ turns' = turns + 1
  <2>1. /\ Taken(p) \in Passes /\ Taken(p).budget = pass.budget
        /\ Taken(p).turns = pass.turns + 1 /\ Taken(p).evidence = pass.evidence
    BY <1>2, TakenFacts
  <2>2. PassSound(Taken(p), turns') /\ turns' - Taken(p).turns = turns - pass.turns
    BY <1>3, <2>1, Called, TurnKept
  <2>3. OutcomeSound(NoOutcome, incident.evidence, Taken(p).evidence)
    BY CitesNothing DEF NoOutcome, None
  <2> QED  BY <1>3, <2>2, <2>3, Called, FinishKeeps
<1>4. CASE /\ Authorized(action)
           /\ pc' \in {"collecting", "searching"}
           /\ pass' = q /\ turns' = turns
  <2>1. action \in Asks
    BY <1>4 DEF Authorized, Actions, Asks
  <2>2. /\ q \in Passes /\ q.budget = pass.budget /\ q.turns = pass.turns
        /\ q.evidence = pass.evidence
    BY <1>2, <2>1 DEF Passes
  <2> HIDE DEF q
  <2>3. PassSound(pass', turns') /\ turns' - pass'.turns = turns - pass.turns
        /\ pass'.turns < pass'.budget
    BY <1>4, <2>2, Called, PassKept
  <2>4. ResultSound'
    BY <1>4 DEF ResultSound
  <2> QED  BY <1>4, <2>3, <2>4, Called, HarnessKeeps DEF Active, Asking
<1> QED  BY <1>1, <1>3, <1>4

\* The hypothesis writes its verdict on what had none, and changes nothing else.
LEMMA JudgedFacts ==
    ASSUME NEW items, items \subseteq Items, NEW action, \A item \in items : ItemSound(item)
    PROVE  /\ _judged(items, action) \subseteq Items
           /\ \A item \in _judged(items, action) :
                 ItemSound(item) /\ \E old \in items : item.id = old.id
           /\ \A old \in items : \E item \in _judged(items, action) :
                 item.id = old.id /\ item.source = old.source /\ item.empty = old.empty
<1> DEFINE J(old) == IF old.verdict # None THEN old
                     ELSE [old EXCEPT !.verdict = IF action.supports THEN "supports"
                                                  ELSE "inconclusive"]
<1>1. _judged(items, action) = {J(old) : old \in items}
  BY DEF _judged
<1>2. ASSUME NEW old \in items
      PROVE  /\ J(old) \in Items /\ ItemSound(J(old)) /\ J(old).id = old.id
             /\ J(old).source = old.source /\ J(old).empty = old.empty
  <2>1. CASE old.verdict # None
    BY <2>1
  <2>2. CASE old.verdict = None
    <3>1. old \in Items /\ ItemSound(old)
      OBVIOUS
    <3>2. ~old.empty
      BY <2>2, <3>1 DEF ItemSound, None
    <3>3. /\ J(old) \in Items /\ J(old).id = old.id /\ J(old).data = old.data
          /\ J(old).source = old.source /\ J(old).empty = old.empty
      BY <2>2, <3>1 DEF Items
    <3> HIDE DEF J
    <3> QED  BY <3>1, <3>2, <3>3 DEF ItemSound
  <2> QED  BY <2>1, <2>2
<1> HIDE DEF J
<1> QED  BY <1>1, <1>2

\* A valid reply cites only what is known, and stands on a measurement.
LEMMA ValidStands ==
    ASSUME NEW action, ~InvalidOutput(action)
    PROVE  OutcomeSound(action, incident.evidence, pass.evidence)
<1>1. ASSUME action.action \in {"propose_hypothesis", "verify_mitigation"}
      PROVE  action.cites \subseteq Ids(incident.evidence) \cup Ids(pass.evidence)
  BY <1>1 DEF InvalidOutput, unknown_references, Citing, Known
<1>2. ASSUME action.action = "propose_hypothesis"
      PROVE  \E item \in incident.evidence \cup pass.evidence :
                item.id \in action.cites /\ ~Unmeasured(item)
  <2> DEFINE all == incident.evidence \cup pass.evidence
  <2>1. PICK id \in action.cites : id \notin Ids({item \in all : Unmeasured(item)})
    BY <1>2 DEF InvalidOutput, unfounded_citations
  <2>2. id \in Ids(all)
    BY <1>1, <1>2 DEF Ids
  <2>3. PICK item \in all : item.id = id
    BY <2>2 DEF Ids
  <2>4. ~Unmeasured(item)
    BY <2>1, <2>3 DEF Ids
  <2> QED  BY <2>3, <2>4
<1>3. ASSUME action.action = "verify_mitigation"
      PROVE  \E item \in pass.evidence : item.id \in action.cites /\ ~Unmeasured(item)
  BY <1>3 DEF InvalidOutput, unmeasured_verdict, Ids
<1> QED  BY <1>1, <1>2, <1>3 DEF OutcomeSound

\* A valid reply that ends the pass is its outcome.
LEMMA ConcludesKeeps ==
    ASSUME InvestigatorSafe, pc = "calling", turns' = turns + 1,
           UNCHANGED <<incident, request, limits, skill>>,
           NEW action \in Actions, ~InvalidOutput(action), Concludes(action)
    PROVE  InvestigatorSafe'
<1> DEFINE p == Taken([pass EXCEPT !.feedback = FALSE])
           q == [p EXCEPT !.evidence = _judged(@, action)]
           conclusion == [action |-> "conclude", cites |-> {}]
<1>1. \/ Finish(p, "needs_human", AsksHuman)
      \/ action.action = "propose_hypothesis" /\ Finish(q, "completed", action)
      \/ Finish(p, "completed", conclusion)
      \/ Finish(p, "completed", action)
  BY DEF Concludes
<1>2. /\ p \in Passes /\ p.budget = pass.budget /\ p.turns = pass.turns + 1
      /\ p.evidence = pass.evidence
  <2> DEFINE r == [pass EXCEPT !.feedback = FALSE]
  <2>1. /\ r \in Passes /\ r.budget = pass.budget /\ r.turns = pass.turns
        /\ r.evidence = pass.evidence
    BY Called DEF Passes
  <2>2. p = Taken(r)
    OBVIOUS
  <2> HIDE DEF p, r
  <2> QED  BY <2>1, <2>2, TakenFacts
<1> HIDE DEF p
<1>3. PassSound(p, turns') /\ turns' - p.turns = turns - pass.turns
  BY <1>2, Called, TurnKept
<1>4. OutcomeSound(action, incident.evidence, pass.evidence)
  BY ValidStands
<1>5. /\ OutcomeSound(AsksHuman, incident.evidence, p.evidence)
      /\ OutcomeSound(conclusion, incident.evidence, p.evidence)
      /\ OutcomeSound(action, incident.evidence, p.evidence)
  <2>1. OutcomeSound(AsksHuman, incident.evidence, p.evidence)
    BY CitesNothing DEF AsksHuman
  <2>2. OutcomeSound(conclusion, incident.evidence, p.evidence)
    BY CitesNothing
  <2> QED  BY <1>2, <1>4, <2>1, <2>2
<1> HIDE DEF conclusion
<1>6. ASSUME action.action = "propose_hypothesis", Finish(q, "completed", action)
      PROVE  InvestigatorSafe'
  <2> DEFINE J == _judged(pass.evidence, action)
  <2>1. pass.evidence \subseteq Items /\ \A item \in pass.evidence : ItemSound(item)
    BY Called DEF Passes
  <2>2. /\ J \subseteq Items
        /\ \A item \in J : ItemSound(item) /\ \E old \in pass.evidence : item.id = old.id
        /\ \A old \in pass.evidence : \E item \in J :
              item.id = old.id /\ item.source = old.source /\ item.empty = old.empty
    BY <2>1, JudgedFacts
  <2>3. q = [p EXCEPT !.evidence = J]
    BY <1>2
  <2> HIDE DEF J
  <2>4. /\ q \in Passes /\ q.budget = pass.budget /\ q.turns = pass.turns + 1
        /\ q.evidence = J
    BY <1>2, <2>2, <2>3 DEF Passes
  <2> HIDE DEF q
  <2>5. PassSound(q, turns') /\ turns' - q.turns = turns - pass.turns
    BY <2>2, <2>4, Called, TurnKept
  <2>6. OutcomeSound(action, incident.evidence, q.evidence)
    <3>1. action.cites \subseteq Ids(incident.evidence) \cup Ids(J)
      BY <1>4, <1>6, <2>2 DEF OutcomeSound, Ids
    <3>2. PICK item \in incident.evidence \cup pass.evidence :
             item.id \in action.cites /\ ~Unmeasured(item)
      BY <1>4, <1>6 DEF OutcomeSound
    <3>3. \E new \in incident.evidence \cup J : new.id \in action.cites /\ ~Unmeasured(new)
      BY <2>2, <3>2 DEF Unmeasured
    <3> QED  BY <1>6, <2>4, <3>1, <3>3 DEF OutcomeSound
  <2> QED  BY <1>6, <2>5, <2>6, Called, FinishKeeps
<1> QED  BY <1>1, <1>3, <1>5, <1>6, Called, FinishKeeps

\* The model replies anything.
LEMMA RespondKeeps == ASSUME InvestigatorSafe, Respond PROVE InvestigatorSafe'
<1>1. pc = "calling" /\ UNCHANGED <<incident, request, limits, skill>>
  BY DEF Respond
<1>2. PICK action \in Actions :
         \/ Rejects(action) /\ turns' = turns + 1
         \/ Refuses(action) /\ turns' = turns + 1
         \/ Collects(action)
         \/ ~InvalidOutput(action) /\ Concludes(action) /\ turns' = turns + 1
  BY DEF Respond, TakesTurn
<1> QED
  BY <1>1, <1>2, RejectsKeeps, RefusesKeeps, CollectsKeeps, ConcludesKeeps

-----------------------------------------------------------------------------
(* The dispatcher *)

\* Recording a result keeps every cited item, and adds nothing that is not sound.
LEMMA PatchedSound ==
    ASSUME InvestigatorSafe, pc = "result"
    PROVE  /\ Patched \in IncidentTypes
           /\ IncidentSound(Patched.evidence, turns)
           /\ \A cites \in Patched.hypotheses :
                 /\ cites \subseteq Ids(Patched.evidence)
                 /\ \E item \in Patched.evidence : item.id \in cites /\ item.data
           /\ Patched.verdict # NoVerdict =>
                 \E item \in Patched.evidence :
                    item.id \in Patched.verdict.cites /\ item.id > Patched.verdict.since
                       /\ item.data
<1> DEFINE E == _merge_evidence(Kept)
           outcome == result.outcome
<1>1. /\ incident \in IncidentTypes /\ turns \in Nat /\ request \in RequestTypes
      /\ pass \in Passes /\ pass.evidence \subseteq Items /\ pass.turns \in Nat
      /\ request.base \in Nat /\ request.base + pass.turns <= turns
  <2>1. request # NoRequest
    BY HarnessActive DEF Active
  <2> QED  BY <2>1 DEF InvestigatorSafe, Types, PassSound, Passes, Budgeted, RequestTypes
<1>2. /\ incident.evidence \subseteq Items
      /\ \A item \in incident.evidence : ItemSound(item) /\ item.id <= turns - pass.turns
      /\ \A item \in pass.evidence :
            /\ ItemSound(item)
            /\ item.id # Memory => turns - pass.turns < item.id /\ item.id <= turns
  BY <1>1 DEF InvestigatorSafe, IncidentSound, PassSound, IncidentTypes
<1>3. E \subseteq incident.evidence \cup pass.evidence /\ incident.evidence \subseteq E
  BY DEF _merge_evidence, Kept, _cited_memories_only
<1>4. E \subseteq Items /\ IncidentSound(E, turns)
  <2>1. ASSUME NEW item \in E PROVE ItemSound(item) /\ item.id <= turns
    <3>1. item.id \in Nat
      BY <1>1, <1>2, <1>3 DEF Items
    <3>2. CASE item \in incident.evidence
      BY <1>1, <1>2, <3>1, <3>2
    <3>3. CASE item \in pass.evidence
      BY <1>1, <1>2, <3>1, <3>3 DEF Memory
    <3> QED  BY <1>3, <3>2, <3>3
  <2> QED  BY <1>1, <1>2, <1>3, <2>1 DEF IncidentSound
<1>5. IncidentSound(incident.evidence, turns)
  BY <1>3, <1>4 DEF IncidentSound
<1>6. OutcomeSound(outcome, incident.evidence, pass.evidence)
  BY DEF InvestigatorSafe, ResultSound
\* A measured item of the pass is in what is kept: it is no memory, and its number is new.
<1>7. ASSUME NEW item \in pass.evidence, ~Unmeasured(item)
      PROVE  item \in E /\ item.data
  <2>1. item.source \notin UNMEASURED_SOURCES /\ ~item.empty
    BY <1>7 DEF Unmeasured
  <2>2. item.id # Memory /\ item.data
    BY <1>2, <2>1 DEF ItemSound, UNMEASURED_SOURCES
  <2>3. item.id \notin Ids(incident.evidence)
    <3>1. item.id \in Nat /\ \A old \in incident.evidence : old.id \in Nat
      BY <1>1, <1>2 DEF Items
    <3> QED  BY <1>1, <1>2, <2>2, <3>1 DEF Ids
  <2> QED  BY <2>2, <2>3 DEF _merge_evidence, Kept, _cited_memories_only
<1>8. ASSUME NEW item \in incident.evidence, ~Unmeasured(item) PROVE item.data
  BY <1>2, <1>8 DEF Unmeasured, ItemSound
\* What the outcome cites is kept, a memory too.
<1>9. ASSUME outcome.action \in {"propose_hypothesis", "verify_mitigation"}
      PROVE  outcome.cites \subseteq Ids(E)
  <2> SUFFICES ASSUME NEW id \in outcome.cites PROVE id \in Ids(E)
    OBVIOUS
  <2>1. id \in Ids(incident.evidence) \cup Ids(pass.evidence)
    BY <1>6, <1>9 DEF OutcomeSound
  <2>2. CASE id \in Ids(incident.evidence)
    BY <1>3, <2>2 DEF Ids
  <2>3. CASE id \notin Ids(incident.evidence)
    <3>1. PICK item \in pass.evidence : item.id = id
      BY <2>1, <2>3 DEF Ids
    <3>2. item \in E
      BY <1>9, <2>3, <3>1 DEF _merge_evidence, Kept, _cited_memories_only, Citing
    <3> QED  BY <3>1, <3>2 DEF Ids
  <2> QED  BY <2>2, <2>3
<1>10. Ids(E) \subseteq Nat
  BY <1>4 DEF Ids, Items
\* What was recorded before still has its evidence.
<1>11. /\ \A cites \in incident.hypotheses :
             /\ cites \subseteq Ids(E)
             /\ \E item \in E : item.id \in cites /\ item.data
       /\ incident.verdict # NoVerdict =>
             \E item \in E : item.id \in incident.verdict.cites
                /\ item.id > incident.verdict.since /\ item.data
  BY <1>3 DEF InvestigatorSafe, ConclusionsMeasured, Ids
<1> HIDE DEF E
<1>12. /\ Merged \in IncidentTypes /\ Merged.evidence = E
       /\ Merged.hypotheses = incident.hypotheses /\ Merged.verdict = incident.verdict
  <2> DEFINE i == [incident EXCEPT !.evidence = E]
  <2>1. Merged = [i EXCEPT !.version = incident.version + 1]
    BY DEF Merged, E
  <2>2. /\ i \in IncidentTypes /\ i.evidence = E /\ incident.version \in Nat
        /\ i.hypotheses = incident.hypotheses /\ i.verdict = incident.verdict
    BY <1>1, <1>4 DEF IncidentTypes
  <2> HIDE DEF i
  <2> QED  BY <2>1, <2>2 DEF IncidentTypes
<1>13. CASE outcome.action = "propose_hypothesis"
  <2>1. Patched = [Merged EXCEPT !.hypotheses = @ \cup {outcome.cites}]
    BY <1>13 DEF Patched
  <2>2. outcome.cites \subseteq Ids(E)
    BY <1>9, <1>13
  <2>3. \E item \in E : item.id \in outcome.cites /\ item.data
    BY <1>3, <1>6, <1>7, <1>8, <1>13 DEF OutcomeSound
  <2>4. outcome.cites \in SUBSET Nat
    BY <1>10, <2>2
  <2> HIDE DEF outcome
  <2>5. /\ Patched \in IncidentTypes /\ Patched.evidence = E
        /\ Patched.hypotheses = incident.hypotheses \cup {outcome.cites}
        /\ Patched.verdict = incident.verdict
    BY <1>12, <2>1, <2>4 DEF IncidentTypes
  <2> QED  BY <1>4, <1>11, <2>2, <2>3, <2>5
<1>14. CASE outcome.action = "propose_mitigation"
  <2>1. Patched = [Merged EXCEPT !.state = "mitigating"]
    BY <1>14 DEF Patched
  <2>2. /\ Patched \in IncidentTypes /\ Patched.evidence = E
        /\ Patched.hypotheses = incident.hypotheses /\ Patched.verdict = incident.verdict
    BY <1>12, <2>1 DEF IncidentTypes
  <2> QED  BY <1>4, <1>11, <2>2
<1>15. CASE outcome.action = "verify_mitigation"
  <2> DEFINE verdict == [cites |-> outcome.cites, since |-> request.base]
  <2>1. Patched = [Merged EXCEPT !.verdict = verdict,
                                 !.state = IF outcome.passed THEN "resolved"
                                           ELSE "investigating"]
    BY <1>15 DEF Patched
  <2>2. outcome.cites \subseteq Ids(E)
    BY <1>9, <1>15
  <2>3. PICK item \in pass.evidence : item.id \in outcome.cites /\ ~Unmeasured(item)
    BY <1>6, <1>15 DEF OutcomeSound
  <2>4. item \in E /\ item.data
    BY <1>7, <2>3
  <2>5. item.id > request.base
    <3>1. item.id \in Nat /\ item.id # Memory
      BY <1>1, <1>2, <2>3 DEF Items, ItemSound, Unmeasured, UNMEASURED_SOURCES
    <3> QED  BY <1>1, <1>2, <3>1
  <2>6. verdict \in [cites : SUBSET Nat, since : Nat]
    BY <1>1, <1>10, <2>2
  <2>7. verdict.cites = outcome.cites /\ verdict.since = request.base
    OBVIOUS
  <2> HIDE DEF verdict, outcome
  <2>8. /\ Patched \in IncidentTypes /\ Patched.evidence = E
        /\ Patched.hypotheses = incident.hypotheses /\ Patched.verdict = verdict
    BY <1>12, <2>1, <2>6 DEF IncidentTypes
  <2> QED  BY <1>4, <1>11, <2>3, <2>4, <2>5, <2>7, <2>8
<1>16. CASE outcome.action \notin {"propose_hypothesis", "propose_mitigation",
                                   "verify_mitigation"}
  <2>1. Patched = incident
    BY <1>16 DEF Patched
  <2> QED  BY <1>1, <1>5, <2>1 DEF InvestigatorSafe, ConclusionsMeasured
<1> QED  BY <1>13, <1>14, <1>15, <1>16

\* A sound incident brings its part of ConclusionsMeasured; the verdicts of its items follow.
LEMMA MeasuredFrom ==
    ASSUME NEW i, NEW n, i \in IncidentTypes, IncidentSound(i.evidence, n),
           NEW item \in i.evidence, item.source = "grafana-mcp", item.verdict = "supports"
    PROVE  item.data
<1>1. ItemSound(item)
  BY DEF IncidentSound
<1> QED  BY <1>1 DEF ItemSound, UNMEASURED_SOURCES

\* A pass is entered with its budget whole and, at most, a memory.
LEMMA EnteredSound ==
    ASSUME NEW lim, lim \in [max_steps : Nat, after : Nat], NEW req, NEW known,
           NEW items, items = {} \/ items = RecalledFor(req, known)
    PROVE  /\ Entered(lim, items) \in Passes
           /\ Entered(lim, items).budget = lim.max_steps
           /\ Entered(lim, items).turns = 0
           /\ \A item \in Entered(lim, items).evidence : ItemSound(item) /\ item.id = Memory
<1>1. Recalled \in Items /\ ItemSound(Recalled) /\ Recalled.id = Memory
  BY DEF Recalled, Item, Evidence, Items, Sources, UNMEASURED_SOURCES, ItemSound, Memory
<1>2. items \subseteq {Recalled}
  BY DEF RecalledFor
<1>3. /\ Entered(lim, items).budget = lim.max_steps /\ Entered(lim, items).turns = 0
      /\ Entered(lim, items).evidence = items
  BY DEF Entered
<1>4. Entered(lim, items) \in Passes
  BY <1>1, <1>2 DEF Entered, Passes, Asks, Versions
<1> QED  BY <1>1, <1>2, <1>3, <1>4

\* Outside a pass, and when one is entered, nothing is open but the incident and the budget.
LEMMA DispatcherKeeps ==
    ASSUME InvestigatorSafe, UNCHANGED <<skill, turns>>,
           incident' \in IncidentTypes, IncidentSound(incident'.evidence, turns),
           ConclusionsMeasured',
           limits' \in [max_steps : Nat, after : Nat],
           NEW req, NEW known, NEW items, items = {} \/ items = RecalledFor(req, known),
           pass' = Entered(limits', items),
           request' \in {NoRequest} \cup RequestTypes,
           \/ pc' \in {"idle", "ended"} /\ request' = NoRequest
           \/ /\ pc' \in {"resolving", "asking"} /\ request' # NoRequest
              /\ limits'.max_steps > 0 /\ request'.base <= turns
              /\ (turns - request'.base) + limits'.max_steps + limits'.after
                   <= max_steps + steps_after_refusal
    PROVE  InvestigatorSafe'
<1>1. turns \in Nat
  BY DEF InvestigatorSafe, Types
<1>2. /\ pass' \in Passes /\ pass'.budget = limits'.max_steps /\ pass'.turns = 0
      /\ \A item \in pass'.evidence : ItemSound(item) /\ item.id = Memory
  BY <1>1, EnteredSound
<1>3. limits'.max_steps \in Nat /\ limits'.after \in Nat
  OBVIOUS
<1>4. Types'
  BY DEF InvestigatorSafe, Types, Active, Asking
<1>5. PassSound(pass, turns)'
  BY <1>2, <1>3 DEF PassSound
<1>6. IncidentSound(incident.evidence, turns - pass.turns)'
  BY <1>1, <1>2
<1>7. Budgeted'
  BY <1>1, <1>2, <1>3 DEF Budgeted, RequestTypes
<1>8. (pc \in Asking => pass.turns < pass.budget)'
  BY <1>2 DEF Asking
<1>9. ResultSound'
  BY DEF ResultSound
<1> QED  BY <1>4, <1>5, <1>6, <1>7, <1>8, <1>9 DEF InvestigatorSafe

\* The limits of a fresh dispatch.
LEMMA FreshFacts ==
    /\ FreshLimits \in [max_steps : Nat, after : Nat]
    /\ FreshLimits.max_steps = max_steps /\ FreshLimits.after = steps_after_refusal
    /\ max_steps > 0
BY LimitsAssumption DEF FreshLimits

\* Recording a result, for any of the commands that does.
LEMMA RecordedSound ==
    ASSUME InvestigatorSafe, pc = "result", incident' = Patched
    PROVE  /\ incident' \in IncidentTypes /\ IncidentSound(incident'.evidence, turns)
           /\ ConclusionsMeasured'
<1>1. /\ incident' \in IncidentTypes /\ IncidentSound(incident'.evidence, turns)
      /\ \A cites \in incident'.hypotheses :
            /\ cites \subseteq Ids(incident'.evidence)
            /\ \E item \in incident'.evidence : item.id \in cites /\ item.data
      /\ incident'.verdict # NoVerdict =>
            \E item \in incident'.evidence :
               item.id \in incident'.verdict.cites /\ item.id > incident'.verdict.since
                  /\ item.data
  BY PatchedSound
<1>2. \A item \in incident'.evidence :
         item.source = "grafana-mcp" /\ item.verdict = "supports" => item.data
  BY <1>1, MeasuredFrom
<1> QED  BY <1>1, <1>2 DEF ConclusionsMeasured, Ids

\* An incident that stays is as sound without a pass.
LEMMA StayedSound ==
    ASSUME InvestigatorSafe, UNCHANGED incident
    PROVE  /\ incident' \in IncidentTypes /\ IncidentSound(incident'.evidence, turns)
           /\ ConclusionsMeasured'
<1>1. incident \in IncidentTypes /\ turns \in Nat /\ pass.turns \in Nat
  BY DEF InvestigatorSafe, Types, PassSound, Passes
<1>2. \A item \in incident.evidence : item.id \in Nat
  BY <1>1 DEF IncidentTypes, Items
<1>3. IncidentSound(incident.evidence, turns)
  BY <1>1, <1>2 DEF InvestigatorSafe, IncidentSound
<1> QED  BY <1>1, <1>3 DEF InvestigatorSafe, ConclusionsMeasured

\* A dispatch starts with its limits fresh, or ends before its first turn.
LEMMA BeginKeeps ==
    ASSUME InvestigatorSafe, NEW objective \in {"investigate", "verify"}, Begin(objective)
    PROVE  InvestigatorSafe'
<1>1. pc = "idle" /\ UNCHANGED <<incident, result, skill, turns>>
  BY DEF Begin
<1>2. request = NoRequest /\ turns \in Nat /\ incident.version \in Nat
  BY <1>1 DEF InvestigatorSafe, Types, IncidentTypes
<1>3. CASE \E req \in Requests(objective) :
            /\ request' = req
            /\ limits' = FreshLimits
            /\ pass' = Entered(FreshLimits, RecalledFor(req, Ids(incident.evidence)))
            /\ pc' = IF req.pins THEN "resolving" ELSE "asking"
  <2>1. PICK req \in Requests(objective) :
            /\ request' = req
            /\ limits' = FreshLimits
            /\ pass' = Entered(FreshLimits, RecalledFor(req, Ids(incident.evidence)))
            /\ pc' = IF req.pins THEN "resolving" ELSE "asking"
    BY <1>3
  <2>2. /\ discover \subseteq SUBSET Tools
        /\ _bok_capabilities(objective) \subseteq BOOLEAN /\ _recall(objective) \subseteq BOOLEAN
        /\ service_operations(objective) \subseteq {None, "unavailable", "enrolled"}
    BY DEF discover, Tools, _bok_capabilities, _recall, service_operations
  <2>3. req \in RequestTypes /\ req.base = turns
    BY <1>2, <2>1, <2>2 DEF Requests, RequestTypes
  <2>4. req # NoRequest
    BY <2>3 DEF RequestTypes, NoRequest, None
  <2>5. pc' \in {"resolving", "asking"}
    BY <2>1
  <2>6. /\ limits' \in [max_steps : Nat, after : Nat] /\ limits'.max_steps > 0
        /\ (turns - req.base) + limits'.max_steps + limits'.after
             <= max_steps + steps_after_refusal
        /\ req.base <= turns
    BY <1>2, <2>1, <2>3, FreshFacts, LimitsAssumption
  <2>7. pass' = Entered(limits', RecalledFor(req, Ids(incident.evidence)))
    BY <2>1
  <2> QED
    BY <1>1, <2>1, <2>3, <2>4, <2>5, <2>6, <2>7, StayedSound, DispatcherKeeps
<1>4. CASE pc' = "ended" /\ UNCHANGED <<request, limits, pass>>
  <2>1. Types'
    BY <1>1, <1>2, <1>4 DEF InvestigatorSafe, Types
  <2>2. /\ PassSound(pass, turns)' /\ Budgeted' /\ ResultSound' /\ ConclusionsMeasured'
        /\ IncidentSound(incident.evidence, turns - pass.turns)'
    BY <1>1, <1>4
       DEF InvestigatorSafe, PassSound, IncidentSound, Budgeted, ResultSound, ConclusionsMeasured
  <2>3. (pc \in Asking => pass.turns < pass.budget)'
    BY <1>4 DEF Asking
  <2> QED  BY <2>1, <2>2, <2>3 DEF InvestigatorSafe
<1> QED  BY <1>3, <1>4 DEF Begin

\* The dispatch returns, whatever became of its write.
LEMMA ReturnsKeeps ==
    ASSUME InvestigatorSafe, pc = "result", UNCHANGED <<skill, turns>>, Returns,
           pc' \in {"idle", "ended"}, incident' = incident \/ incident' = Patched
    PROVE  InvestigatorSafe'
<1>1. request' = NoRequest /\ limits' = FreshLimits /\ pass' = Entered(limits', {})
  BY DEF Returns
<1>2. /\ incident' \in IncidentTypes /\ IncidentSound(incident'.evidence, turns)
      /\ ConclusionsMeasured'
  BY StayedSound, RecordedSound
<1> QED  BY <1>1, <1>2, FreshFacts, DispatcherKeeps

\* The next pass has the steps that are left, and those of a refusal only if none had them.
LEMMA ContinueKeeps == ASSUME InvestigatorSafe, Continue PROVE InvestigatorSafe'
<1>1. /\ pc = "result" /\ incident' = Patched /\ UNCHANGED <<skill, turns>>
      /\ result.remaining >= 1
      /\ request' = [request EXCEPT !.seen = incident.version + 1]
      /\ limits' = [max_steps |-> result.remaining, after |-> After]
      /\ pass' = Entered(limits', RecalledFor(request, Ids(Patched.evidence)))
      /\ pc' = IF request.pins THEN "resolving" ELSE "asking"
  BY DEF Continue, GoesOn
<1>2. /\ request # NoRequest /\ request \in RequestTypes /\ turns \in Nat /\ pass \in Passes
      /\ limits.max_steps \in Nat /\ limits.after \in Nat /\ incident.version \in Nat
  BY <1>1, HarnessActive DEF Active, InvestigatorSafe, Types, IncidentTypes
<1>3. pass.turns \in Nat /\ pass.budget \in Nat /\ pass.turns <= pass.budget
      /\ pass.budget <= limits.max_steps + limits.after /\ request.base \in Nat
  BY <1>2 DEF InvestigatorSafe, PassSound, Passes, RequestTypes
<1>4. result.remaining = remaining(pass)
  BY <1>1 DEF InvestigatorSafe, ResultSound
<1>5. result.remaining \in Nat /\ pass.turns + result.remaining = pass.budget
  BY <1>1, <1>3, <1>4 DEF remaining
<1>6. After \in Nat /\ pass.turns + result.remaining + After <= limits.max_steps + limits.after
  BY <1>2, <1>3, <1>5 DEF After
<1>7. /\ limits' \in [max_steps : Nat, after : Nat] /\ limits'.max_steps = result.remaining
      /\ limits'.after = After
  BY <1>1, <1>5, <1>6
<1>8. request' \in RequestTypes /\ request'.base = request.base
  BY <1>1, <1>2 DEF RequestTypes
<1>9. request' # NoRequest
  BY <1>8 DEF RequestTypes, NoRequest, None
<1>10. /\ request.base + pass.turns <= turns
       /\ (turns - request.base - pass.turns) + limits.max_steps + limits.after
            <= max_steps + steps_after_refusal
  BY <1>2 DEF InvestigatorSafe, Budgeted
<1>11. /\ limits'.max_steps > 0 /\ request'.base <= turns
       /\ (turns - request'.base) + limits'.max_steps + limits'.after
            <= max_steps + steps_after_refusal
  <2>1. max_steps \in Nat /\ steps_after_refusal \in Nat
    BY LimitsAssumption
  <2> QED  BY <1>1, <1>2, <1>3, <1>5, <1>6, <1>7, <1>8, <1>10, <2>1
<1>12. pc' \in {"resolving", "asking"}
  BY <1>1
<1> QED
  BY <1>1, <1>7, <1>8, <1>9, <1>11, <1>12, RecordedSound, DispatcherKeeps

\* Someone else's step moves the incident's state or version, or the Skill that is served.
LEMMA OthersKeep ==
    ASSUME InvestigatorSafe, UNCHANGED <<pc, request, limits, pass, result, turns>>,
           incident' \in IncidentTypes, skill' \in Versions,
           incident'.evidence = incident.evidence, incident'.hypotheses = incident.hypotheses,
           incident'.verdict = incident.verdict
    PROVE  InvestigatorSafe'
<1>1. Types'
  BY DEF InvestigatorSafe, Types
<1>2. /\ PassSound(pass, turns)' /\ Budgeted' /\ ResultSound' /\ ConclusionsMeasured'
      /\ IncidentSound(incident.evidence, turns - pass.turns)'
      /\ (pc \in Asking => pass.turns < pass.budget)'
  BY DEF InvestigatorSafe, PassSound, IncidentSound, Budgeted, ResultSound,
         ConclusionsMeasured, remaining
<1> QED  BY <1>1, <1>2 DEF InvestigatorSafe

-----------------------------------------------------------------------------
(* Theorems *)

\* Nothing has been asked yet.
LEMMA InitSafe == Init => InvestigatorSafe
<1> SUFFICES ASSUME Init PROVE InvestigatorSafe
  OBVIOUS
<1>1. /\ pass \in Passes /\ pass.budget = max_steps /\ pass.turns = 0
      /\ \A item \in pass.evidence : ItemSound(item) /\ item.id = Memory
  BY FreshFacts, EnteredSound DEF Init
<1>2. /\ incident \in IncidentTypes /\ incident.evidence = {} /\ incident.hypotheses = {}
      /\ incident.verdict = NoVerdict
  BY DEF Init, IncidentTypes, NoVerdict
<1>3. Types
  BY <1>2, FreshFacts DEF Init, Types, Versions, Active, Asking
<1>4. limits.max_steps = max_steps /\ limits.after \in Nat /\ turns = 0
  BY FreshFacts DEF Init
<1>5. PassSound(pass, turns) /\ IncidentSound(incident.evidence, turns - pass.turns)
  BY <1>1, <1>2, <1>4, LimitsAssumption DEF PassSound, IncidentSound
<1>6. Budgeted /\ (pc \in Asking => pass.turns < pass.budget) /\ ResultSound
  BY DEF Init, Budgeted, Asking, ResultSound
<1>7. ConclusionsMeasured
  BY <1>2 DEF ConclusionsMeasured
<1> QED  BY <1>3, <1>5, <1>6, <1>7 DEF InvestigatorSafe

\* Every step of the harness, the dispatcher and everyone else keeps the invariant.
LEMMA StepSafe == InvestigatorSafe /\ [Next]_vars => InvestigatorSafe'
<1> SUFFICES ASSUME InvestigatorSafe, [Next]_vars PROVE InvestigatorSafe'
  OBVIOUS
<1>1. CASE Harness
  BY <1>1, SkillKeeps, AskKeeps, RespondKeeps, ToolKeeps, SearchKeeps DEF Harness
<1>2. CASE \E objective \in {"investigate", "verify"} : Begin(objective)
  BY <1>2, BeginKeeps
<1>3. CASE Continue
  BY <1>3, ContinueKeeps
<1>4. CASE Uncertain \/ PersistResult \/ EndsRun
  <2>1. /\ pc = "result" /\ UNCHANGED <<skill, turns>> /\ Returns
        /\ pc' \in {"idle", "ended"} /\ (incident' = incident \/ incident' = Patched)
    BY <1>4 DEF Uncertain, PersistResult, EndsRun
  <2> QED  BY <2>1, ReturnsKeeps
<1>5. CASE Approve \/ Moved
  <2>1. /\ \/ incident' = [incident EXCEPT !.state = "verifying", !.version = @ + 1]
           \/ incident' = [incident EXCEPT !.version = @ + 1]
        /\ UNCHANGED <<pc, request, limits, pass, result, skill, turns>>
    BY <1>5 DEF Approve, Moved
  <2>2. incident \in IncidentTypes /\ skill \in Versions
    BY DEF InvestigatorSafe, Types
  <2>3. /\ incident' \in IncidentTypes /\ incident'.evidence = incident.evidence
        /\ incident'.hypotheses = incident.hypotheses /\ incident'.verdict = incident.verdict
    <3>1. CASE incident' = [incident EXCEPT !.state = "verifying", !.version = @ + 1]
      <4> DEFINE i == [incident EXCEPT !.state = "verifying"]
      <4>1. incident' = [i EXCEPT !.version = incident.version + 1]
        BY <3>1
      <4>2. /\ i \in IncidentTypes /\ i.evidence = incident.evidence
            /\ i.hypotheses = incident.hypotheses /\ i.verdict = incident.verdict
            /\ incident.version \in Nat
        BY <2>2 DEF IncidentTypes
      <4> HIDE DEF i
      <4> QED  BY <4>1, <4>2 DEF IncidentTypes
    <3>2. CASE incident' = [incident EXCEPT !.version = @ + 1]
      BY <2>2, <3>2 DEF IncidentTypes
    <3> QED  BY <2>1, <3>1, <3>2
  <2> QED  BY <2>1, <2>2, <2>3, OthersKeep
<1>6. CASE SkillChanges
  <2>1. /\ UNCHANGED <<incident, pc, request, limits, pass, result, turns>>
        /\ skill' \in Versions
    BY <1>6 DEF SkillChanges, Versions
  <2>2. incident' \in IncidentTypes
    BY <2>1 DEF InvestigatorSafe, Types
  <2> QED  BY <2>1, <2>2, OthersKeep
<1>7. CASE UNCHANGED vars
  <2>1. UNCHANGED <<incident, pc, request, limits, pass, result, skill, turns>>
    BY <1>7 DEF vars
  <2>2. incident' \in IncidentTypes /\ skill' \in Versions
    BY <2>1 DEF InvestigatorSafe, Types
  <2> QED  BY <2>1, <2>2, OthersKeep
<1> QED
  BY <1>1, <1>2, <1>3, <1>4, <1>5, <1>6, <1>7 DEF Next, Dispatcher

\* The inductive invariant always holds, for any limits, catalog and proposals.
THEOREM InvestigatorKnown == Spec => []InvestigatorSafe
BY InitSafe, StepSafe, PTL DEF Spec

\* unfounded_citations and unmeasured_verdict over every pass: what the incident records of
\* an investigation stands on a measurement that the incident keeps.
THEOREM RecordsAreMeasured == Spec => []ConclusionsMeasured
<1>1. InvestigatorSafe => ConclusionsMeasured
  BY DEF InvestigatorSafe
<1> QED  BY <1>1, InvestigatorKnown, PTL

\* investigate and _continue: a dispatch never asks the model more often than its limits and
\* one refusal allow.
THEOREM DispatchAsksBounded == Spec => []StepsBounded
<1>1. ASSUME InvestigatorSafe PROVE StepsBounded
  <2> SUFFICES ASSUME request.objective # None
               PROVE  /\ turns - request.base <= max_steps + steps_after_refusal
                      /\ pc # "result" => pass.turns <= pass.budget
    BY DEF StepsBounded
  <2>1. request # NoRequest /\ request \in RequestTypes
    BY <1>1 DEF NoRequest, InvestigatorSafe, Types
  <2>2. /\ request.base \in Nat /\ turns \in Nat /\ pass.turns \in Nat /\ pass.budget \in Nat
        /\ limits.max_steps \in Nat /\ limits.after \in Nat
        /\ pass.turns <= pass.budget /\ pass.budget <= limits.max_steps + limits.after
    BY <1>1, <2>1 DEF InvestigatorSafe, Types, RequestTypes, PassSound, Passes
  <2>3. (turns - request.base - pass.turns) + limits.max_steps + limits.after
          <= max_steps + steps_after_refusal
    BY <1>1, <2>1 DEF InvestigatorSafe, Budgeted
  <2>4. max_steps \in Nat /\ steps_after_refusal \in Nat
    BY LimitsAssumption
  <2> QED  BY <2>2, <2>3, <2>4
<1>2. InvestigatorSafe => StepsBounded
  BY <1>1
<1> QED  BY <1>2, InvestigatorKnown, PTL
=============================================================================
