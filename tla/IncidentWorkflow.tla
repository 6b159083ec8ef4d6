-------------------------- MODULE IncidentWorkflow --------------------------
(***************************************************************************)
(* The pinned workflow contract, incident-response 1.0.0: the states, the  *)
(* named transitions and, for each, its source, target, allowed actors and *)
(* whether a person must approve it.  The runtime executes nothing else.   *)
(***************************************************************************)

States == {"detected", "triage", "dismissed", "linked", "active", "investigating",
           "mitigating", "verifying", "resolved", "postmortem", "closed"}

TerminalStates == {"dismissed", "linked", "closed"}

Actors == {"human", "agent", "system"}

Transitions == {"open_triage", "triage_dismiss", "triage_link", "triage_declare",
                "start_investigation", "continue_investigation", "propose_mitigation",
                "apply_mitigation", "reject_mitigation", "verification_failed",
                "verification_passed", "start_postmortem", "close_incident"}

Edge(from, to, actors, approval) ==
    [from |-> from, to |-> to, actors |-> actors, approval |-> approval]

EdgeOf(t) ==
    CASE t = "open_triage"            -> Edge("detected", "triage", {"human", "system"}, FALSE)
      [] t = "triage_dismiss"         -> Edge("triage", "dismissed", {"human"}, FALSE)
      [] t = "triage_link"            -> Edge("triage", "linked", {"human"}, FALSE)
      [] t = "triage_declare"         -> Edge("triage", "active", {"human", "system"}, FALSE)
      [] t = "start_investigation"    -> Edge("active", "investigating", Actors, FALSE)
      [] t = "continue_investigation" -> Edge("investigating", "investigating", Actors, FALSE)
      [] t = "propose_mitigation"     -> Edge("investigating", "mitigating", {"human", "agent"}, FALSE)
      [] t = "apply_mitigation"       -> Edge("mitigating", "verifying", {"human"}, TRUE)
      [] t = "reject_mitigation"      -> Edge("mitigating", "investigating", {"human"}, FALSE)
      [] t = "verification_failed"    -> Edge("verifying", "investigating", {"human", "agent"}, FALSE)
      [] t = "verification_passed"    -> Edge("verifying", "resolved", {"human", "agent"}, FALSE)
      [] t = "start_postmortem"       -> Edge("resolved", "postmortem", Actors, FALSE)
      [] t = "close_incident"         -> Edge("postmortem", "closed", {"human"}, TRUE)

Workflow == [t \in Transitions |-> EdgeOf(t)]

\* A person who sends a run back to investigating ends it: the next investigation is a new run.
ReturnsToInvestigation == {"reject_mitigation", "verification_failed"}

\* Transitions that open a run for an objective (triage and mitigate are declared as well, but
\* no incident is stored in "detected", and a run start carries no mitigation to propose).
ObjectiveTransitions == {"start_investigation", "start_postmortem"}
=============================================================================
