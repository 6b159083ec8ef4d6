--------------------------- MODULE IncidentStore ---------------------------
(***************************************************************************)
(* The durable state of one incident and what one unit of work does to it: *)
(* the rows of incident.incidents, runs, run_events, snapshots,            *)
(* transition_commits and postmortems, the runtime's validation and        *)
(* reduction of a command (incident/runtime.py) and the write that commits *)
(* it (persistence/incidents.py).  Incidents share no row, so one incident *)
(* and its runs are modelled; the modules that extend this one add the     *)
(* callers and how their transactions interleave.                          *)
(*                                                                         *)
(* Data kept: the workflow state, whether the incident carries a           *)
(* hypothesis with cited evidence, its mitigation, whether a postmortem id *)
(* is reserved.  A mitigation's id is the incident version that proposed   *)
(* it (the code draws a fresh token); id 0 is no mitigation.               *)
(***************************************************************************)
EXTENDS IncidentWorkflow, Integers, FiniteSets, SequencesExt

CONSTANTS Runs,             \* run ids
          DeclarationRun,   \* the run of the triage declaration
          CommandIds,       \* idempotency keys
          SnapshotInterval  \* a snapshot every so many run versions

ASSUME StoreAssumption ==
    /\ DeclarationRun \in Runs
    /\ SnapshotInterval \in Nat \ {0}

VARIABLES incident,    \* [doc, version]
          runs,        \* run id -> [doc, version]
          events,      \* run id -> its event log
          snapshots,   \* run id -> its latest snapshot
          commits,     \* the idempotency records of committed commands
          postmortem   \* [version, approved]: the artifact and the version last approved

storeVars == <<incident, runs, events, snapshots, commits, postmortem>>

-----------------------------------------------------------------------------
(* Documents *)

LiveRunStatuses == {"running", "awaiting_human"}
RunStatuses == LiveRunStatuses \cup {"absent", "completed", "terminated"}
TerminatedReasons == {"none", "completed", "needs_human", "max_steps", "denied",
                      "invalid_output", "upstream_unavailable"}
PendingCommands == {"none", "approve_mitigation"}
Dispatches == {"investigate", "verify"}

Mitigations == [id : Nat, status : {"none", "pending", "approved", "rejected", "changes_requested"},
                operation : BOOLEAN, executed : BOOLEAN]
NoMitigation == [id |-> 0, status |-> "none", operation |-> FALSE, executed |-> FALSE]

Docs == [state : States, cited : BOOLEAN, mitigation : Mitigations, postmortem : BOOLEAN]
RunDocs == [current : States, status : RunStatuses, pending : PendingCommands,
            reason : TerminatedReasons]

NewRun(state) ==
    [doc |-> [current |-> state, status |-> "running", pending |-> "none", reason |-> "none"],
     version |-> 0]
AbsentRun == [NewRun("detected") EXCEPT !.doc.status = "absent"]
Exists(r) == runs[r].doc.status # "absent"

RunPatch(status, reason) == [status |-> status, pending |-> "none", reason |-> reason]

\* termination(reason): a run that ended without reaching a terminal workflow state.
Termination(reason) ==
    RunPatch(IF reason = "completed" THEN "completed" ELSE "terminated", reason)

PatchRun(doc, patch) ==
    [doc EXCEPT !.status = patch.status, !.pending = patch.pending, !.reason = patch.reason]

-----------------------------------------------------------------------------
(* Events *)

StateChange(t, doc, run) ==
    [kind |-> "state_change", transition |-> t, incident |-> doc, run |-> run]
RunTerminated(patch) == [kind |-> "run_terminated", patch |-> patch]
\* The result of an investigation turn; cites: it patches the incident without a transition;
\* verdict: what a verification measured.
InvestigationResult(cites, verdict) ==
    [kind |-> "investigation_result", cites |-> cites, verdict |-> verdict]
Receipt(d, phase, status) ==
    [kind |-> "dispatch_receipt", dispatch |-> d, phase |-> phase, status |-> status]

Events ==
    [kind : {"state_change"}, transition : Transitions, incident : Docs, run : RunDocs]
      \cup [kind : {"run_terminated"},
            patch : [status : RunStatuses, pending : PendingCommands, reason : TerminatedReasons]]
      \cup [kind : {"investigation_result"}, cites : BOOLEAN,
            verdict : {"none", "passed", "failed"}]
      \cup [kind : {"dispatch_receipt"}, dispatch : Dispatches, phase : {"intent", "outcome"},
            status : {"pending", "success", "confirmed_failure", "unknown"}]

\* The receipts of one dispatch of a run.
HasReceipt(r, d, phase) ==
    \E i \in DOMAIN events[r] :
        /\ events[r][i].kind = "dispatch_receipt"
        /\ events[r][i].dispatch = d
        /\ events[r][i].phase = phase
DispatchClaimed(r, d) == HasReceipt(r, d, "intent")

\* A claimed dispatch that has not ended.
DispatchOpen(r, d) == HasReceipt(r, d, "intent") /\ ~HasReceipt(r, d, "outcome")

-----------------------------------------------------------------------------
(* Commands *)

NoVersion == -1

Commands ==
    [id : CommandIds, run : Runs, transition : Transitions, actor : Actors, approval : BOOLEAN,
     outcome : {"default", "reject", "request_changes"}, expected : Nat \cup {NoVersion},
     retry : BOOLEAN, operation : BOOLEAN, executed : BOOLEAN,
     dispatch : Dispatches \cup {"none"}, reviewed : Nat]

CommitForgotten(id) == FALSE

Committed(id) == \E c \in commits : c.id = id

\* _assert_supported_state
Aligned(doc, run) == doc.state = run.current

\* _validate_named_preconditions
NamedPreconditions(cmd, doc) ==
    /\ cmd.transition = "propose_mitigation" => doc.cited
    /\ cmd.transition \in {"apply_mitigation", "reject_mitigation"} => doc.mitigation.id # 0
    /\ cmd.transition \in {"verification_failed", "verification_passed"} =>
           doc.cited /\ doc.mitigation.id # 0
    /\ cmd.transition = "close_incident" => doc.postmortem

\* _reviewed_postmortem_version: the durable artifact exists and its current version is approved.
ReviewedPostmortem == postmortem.version > 0 /\ postmortem.approved = postmortem.version

ValidateAnyVersion(cmd, inc) ==
    /\ inc.doc.state = Workflow[cmd.transition].from
    /\ cmd.actor \in Workflow[cmd.transition].actors
    /\ NamedPreconditions(cmd, inc.doc)

\* _validate, against the incident as this transaction read it.
Validate(cmd, inc) ==
    LET edge == Workflow[cmd.transition] IN
    /\ inc.doc.state = edge.from
    /\ cmd.actor \in edge.actors
    /\ cmd.expected # NoVersion => cmd.expected = inc.version
    /\ edge.approval => cmd.actor = "human" /\ cmd.approval
    /\ cmd.approval => edge.approval
    /\ edge.approval \/ cmd.transition = "reject_mitigation" => cmd.expected # NoVersion
    /\ cmd.transition = "reject_mitigation" => cmd.outcome \in {"reject", "request_changes"}
    /\ NamedPreconditions(cmd, inc.doc)

BesideAnyRun(doc) == FALSE

\* _refuse_beside_live_run
BesideLiveRun(doc) ==
    \E r \in Runs : runs[r].doc.current = doc.state /\ runs[r].doc.status \in LiveRunStatuses

ReviewedStatus(cmd) ==
    CASE cmd.transition = "apply_mitigation"                -> "approved"
      [] cmd.transition = "reject_mitigation"
           /\ cmd.outcome = "request_changes"               -> "changes_requested"
      [] OTHER                                              -> "rejected"

\* _reduce, the incident document.
ReduceMitigation(cmd, inc) ==
    LET old == inc.doc.mitigation IN
    CASE cmd.transition = "propose_mitigation" ->
           [id |-> inc.version + 1, status |-> "pending", operation |-> cmd.operation,
            executed |-> FALSE]
      [] cmd.transition \in {"apply_mitigation", "reject_mitigation"} ->
           [old EXCEPT !.status = ReviewedStatus(cmd),
                       !.executed = IF cmd.transition = "apply_mitigation" THEN cmd.executed
                                     ELSE @]
      [] OTHER -> old

ReduceIncident(cmd, inc) ==
    [state |-> Workflow[cmd.transition].to,
     cited |-> IF cmd.transition = "continue_investigation" /\ ~cmd.retry THEN TRUE
               ELSE inc.doc.cited,
     mitigation |-> ReduceMitigation(cmd, inc),
     postmortem |-> IF cmd.transition = "start_postmortem" THEN TRUE ELSE inc.doc.postmortem]

\* _reduce, the run document: a live run, or one a terminal state or a person's answer ended.
ReduceRunPatch(cmd, run) ==
    LET to == Workflow[cmd.transition].to IN
    CASE to \in TerminalStates -> RunPatch("completed", "completed")
      [] to = "mitigating" ->
           [status |-> "awaiting_human", pending |-> "approve_mitigation", reason |-> run.reason]
      [] cmd.transition \in ReturnsToInvestigation -> Termination("needs_human")
      [] OTHER -> RunPatch("running", "none")

ReduceRun(cmd, run) ==
    PatchRun([run EXCEPT !.current = Workflow[cmd.transition].to], ReduceRunPatch(cmd, run))

-----------------------------------------------------------------------------
(* Writes *)

\* The idempotency record of a commit; subject is the mitigation its decision document names,
\* reviewed (history) the one the person who decided had read.
CommitRecord(cmd, inc) ==
    [id |-> cmd.id, transition |-> cmd.transition, run |-> cmd.run, actor |-> cmd.actor,
     version |-> inc.version + 1, subject |-> inc.doc.mitigation.id, reviewed |-> cmd.reviewed]

\* A snapshot with the run's first transition and with every SnapshotInterval-th.
NextSnapshot(r, doc, run, upto) ==
    IF snapshots[r].version = 0 \/ run.version % SnapshotInterval = 0
    THEN [incident |-> doc, run |-> run.doc, version |-> run.version, upto |-> upto]
    ELSE snapshots[r]

UnchangedRunOnly(cmd, inc, run) == runs[cmd.run].version = run.version
UnchangedNever(cmd, inc, run) == TRUE

\* The version checks of both updates: nothing moved since this transaction read.
Unchanged(cmd, inc, run) ==
    /\ incident.version = inc.version
    /\ runs[cmd.run].version = run.version

\* persist_transition: inc and run are the rows this transaction read, log the events its
\* command carries beside the state change.
PersistTransition(cmd, inc, run, log) ==
    LET doc == ReduceIncident(cmd, inc)
        moved == [doc |-> ReduceRun(cmd, run.doc), version |-> run.version + 1]
        logged == events[cmd.run] \o <<StateChange(cmd.transition, doc, moved.doc)>> \o log
    IN
    /\ ~Committed(cmd.id)
    /\ cmd.dispatch # "none" => DispatchOpen(cmd.run, cmd.dispatch)
    /\ Unchanged(cmd, inc, run)
    /\ incident' = [doc |-> doc, version |-> inc.version + 1]
    /\ runs' = [runs EXCEPT ![cmd.run] = moved]
    /\ events' = [events EXCEPT ![cmd.run] = logged]
    /\ snapshots' = [snapshots EXCEPT ![cmd.run] =
                        NextSnapshot(cmd.run, doc, moved, Len(logged))]
    /\ commits' = commits \cup {CommitRecord(cmd, inc)}

\* PostgresPostmortemRepository.save and review, each under the artifact's row lock.
SavePostmortem ==
    /\ incident.doc.state = "postmortem" /\ incident.doc.postmortem
    /\ postmortem' = [postmortem EXCEPT !.version = @ + 1]

ReviewPostmortem(approve) ==
    /\ incident.doc.state = "postmortem"
    /\ postmortem.version > 0
    /\ postmortem' = [postmortem EXCEPT !.approved = IF approve THEN postmortem.version ELSE 0]

-----------------------------------------------------------------------------
(* Replay *)

\* reconstruct: the latest snapshot and the events after it, replayed in order.
ReplayEvent(view, e) ==
    CASE e.kind = "state_change" ->
           [incident |-> e.incident, run |-> e.run, moves |-> view.moves + 1]
      [] e.kind = "run_terminated" -> [view EXCEPT !.run = PatchRun(@, e.patch)]
      [] e.kind = "investigation_result" -> [view EXCEPT !.incident.cited = @ \/ e.cites]
      [] OTHER -> view

Reconstruct(r) ==
    LET snap == snapshots[r]
        base == [incident |-> snap.incident, run |-> snap.run, moves |-> 0] IN
    FoldLeft(ReplayEvent, base, SubSeq(events[r], snap.upto + 1, Len(events[r])))

\* The stored rows are what the run's own history says.
ReplayMatches(r) ==
    LET view == Reconstruct(r) IN
    /\ runs[r].version = snapshots[r].version + view.moves
    /\ runs[r].doc = view.run
    /\ incident.doc = view.incident
    /\ incident.version >= runs[r].version

-----------------------------------------------------------------------------
(* A declared incident, as the triage service leaves it when the operator may not start runs:   *)
(* its own run, at "active".                                                                   *)

DeclaredDoc == [state |-> "active", cited |-> FALSE, mitigation |-> NoMitigation,
                postmortem |-> FALSE]

Declared ==
    /\ incident = [doc |-> DeclaredDoc, version |-> 1]
    /\ runs = [r \in Runs |-> IF r = DeclarationRun
                              THEN [NewRun("active") EXCEPT !.version = 1] ELSE AbsentRun]
    /\ events = [r \in Runs |->
                    IF r = DeclarationRun
                    THEN <<StateChange("triage_declare", DeclaredDoc, NewRun("active").doc)>>
                    ELSE <<>>]
    /\ snapshots = [r \in Runs |->
                      IF r = DeclarationRun
                      THEN [incident |-> DeclaredDoc, run |-> NewRun("active").doc,
                            version |-> 1, upto |-> 1]
                      ELSE [incident |-> DeclaredDoc, run |-> AbsentRun.doc,
                            version |-> 0, upto |-> 0]]
    /\ commits = {}
    /\ postmortem = [version |-> 0, approved |-> 0]
=============================================================================
