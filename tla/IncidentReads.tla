--------------------------- MODULE IncidentReads ---------------------------
(***************************************************************************)
(* What a person sees of an incident while its dispatchers write: the      *)
(* incident list, the run state and the timeline of gateway/incidents.py   *)
(* with incident/projections.py, and the console that polls them           *)
(* (web/incident-console/src/lib/live-incident.ts).                        *)
(*                                                                         *)
(* A read is several statements, each of which sees what has committed by  *)
(* then, and a poll is several reads: every one of them is a step.  The    *)
(* console watches one run; a poll that fails, or that another one         *)
(* replaces, changes nothing it knows.  Readers share nothing and write    *)
(* nothing, so a behaviour follows either the console or a reader of the   *)
(* list.  Every write of a run appends to its log and stamps its row with  *)
(* the instant of that event, and no two writes share an instant, so the   *)
(* length of the log stands for it.                                        *)
(***************************************************************************)
EXTENDS InvestigationDispatch

CONSTANTS PageLimit,   \* events in one page of the timeline
          Watched,     \* the runs a console may watch
          MaxPolls,    \* bound: polls that bring something
          None         \* nothing known, or no decision pending

ASSUME ReadsAssumption ==
    /\ PageLimit \in Nat \ {0} /\ MaxPolls \in Nat /\ Watched \subseteq Runs
    /\ None \notin [run : Runs, version : Nat, mitigation : Nat]   \* no decision is a decision

STATE_READ_ATTEMPTS == 3

VARIABLES poll,     \* the poll under way
          known,    \* what the console knows of the run it watches
          inbox     \* the row a reader of the incident list has read

readVars == <<poll, known, inbox>>
rvars == <<vars, readVars>>

-----------------------------------------------------------------------------
(* Projections. *)

updated_at(r) == Len(events[r])

project_run_summary(r) == [version |-> runs[r].version, updated |-> updated_at(r)]

project_run_state(r) ==
    [doc |-> runs[r].doc, version |-> runs[r].version, updated |-> updated_at(r)]

\* An approval that ran an operation says what it ran.
executed_summary(doc) == IF doc.mitigation.executed THEN "operation ran" ELSE None

\* What an event tells, by the branch that words it.
event_summary(e) ==
    CASE e.kind = "state_change" ->
           IF e.transition = "apply_mitigation" /\ executed_summary(e.incident) # None
           THEN executed_summary(e.incident) ELSE e.transition
      [] e.kind = "dispatch_receipt" -> e.status
      [] e.kind = "run_terminated" -> e.patch.reason
      [] e.kind = "investigation_result" ->
           CASE e.verdict = "passed" -> "recovered"
             [] e.verdict = "failed" -> "had not recovered"
             [] OTHER -> "result"

\* The summaries of a run that ended: for a reason, or with an answer.
TellsEnd(summary) ==
    summary \in (TerminatedReasons \ {"none"}) \cup ReturnsToInvestigation
                    \cup {t \in Transitions : Workflow[t].to \in TerminalStates}

\* latest_for: the run created last.
CreatedAt(r) ==
    IF r = DeclarationRun THEN 1
    ELSE Min({k.version : k \in {c \in commits : c.run = r}})
latest_for ==
    CHOOSE r \in Runs : Exists(r) /\ \A q \in Runs : Exists(q) => CreatedAt(q) <= CreatedAt(r)

\* The decision a row of the incident list offers: its latest run waits for a
\* person.
project_list_item(row) ==
    LET run == runs[latest_for].doc
        strategy == row.doc.mitigation
    IN IF run.status = "awaiting_human" /\ run.pending = "approve_mitigation"
       THEN [run |-> latest_for, version |-> row.version,
             mitigation |-> IF strategy.status = "pending" THEN strategy.id ELSE 0]
       ELSE None

\* What GET snapshot gives of a run: its latest snapshot, never the rows of now.
project_snapshot(r) ==
    [incident |-> snapshots[r].incident, run |-> snapshots[r].run,
     version |-> snapshots[r].version, sequence |-> snapshots[r].upto]

get_snapshot(r) == IF snapshots[r].version = 0 THEN None ELSE project_snapshot(r)

-----------------------------------------------------------------------------
(* GET /v1/incidents, every state of it: the rows, then their latest runs. *)

list_recent ==
    /\ inbox = None /\ poll.pc = "quiet" /\ known = None
    /\ inbox' = incident
    /\ UNCHANGED <<vars, poll, known>>

list_incidents ==
    /\ inbox # None
    /\ inbox' = None
    /\ UNCHANGED <<vars, poll, known>>

-----------------------------------------------------------------------------
(* GET /v1/incidents/{incident_id}, then the run and its events. *)

Quiet == [pc |-> "quiet"]

Asked(r, summary) ==
    [pc |-> "run", run |-> r, summary |-> summary, view |-> None, sequence |-> 0, attempts |-> 0,
     cursor |-> IF known = None THEN 0 ELSE known.cursor,
     shown |-> IF known = None THEN <<>> ELSE known.shown]

\* A run that ended and has not changed since is not asked for again.
Settled(k, summary) ==
    /\ k.view.doc.status \notin LiveRunStatuses
    /\ k.version = summary.version
    /\ k.view.updated = summary.updated

\* get_detail: the summaries decide whether the run is read.
get_detail(r) ==
    /\ poll = Quiet /\ inbox = None
    /\ Exists(r)
    /\ known # None => /\ known.run = r
                       /\ known.polls < MaxPolls
                       /\ ~Settled(known, project_run_summary(r))
    /\ poll' = Asked(r, project_run_summary(r))
    /\ UNCHANGED <<vars, known, inbox>>

\* consistent_run_state: the run, its last event, and the run again.
ReadRun ==
    /\ poll.pc = "run"
    /\ poll' = [poll EXCEPT !.pc = "events", !.view = project_run_state(poll.run)]
    /\ UNCHANGED <<vars, known, inbox>>

\* The events after the latest snapshot.
LastSequence(r) ==
    LET base == snapshots[r].upto IN Max({base} \cup {i \in DOMAIN events[r] : i > base})

ReadEvents ==
    /\ poll.pc = "events"
    /\ poll' = [poll EXCEPT !.pc = "again", !.sequence = LastSequence(poll.run)]
    /\ UNCHANGED <<vars, known, inbox>>

\* Mutant: only the version is looked at again.
SameVersion(view, r) == view.version = runs[r].version

\* Neither marker moved, so no write landed in between.
SameRow(view, r) == view.version = runs[r].version /\ view.updated = updated_at(r)

\* The pair is answered, read again, or given up with a 503: the console then
\* keeps what it knows of the run.
ReadAgain ==
    /\ poll.pc = "again"
    /\ poll' = IF SameRow(poll.view, poll.run) THEN [poll EXCEPT !.pc = "page"]
               ELSE IF poll.attempts + 1 < STATE_READ_ATTEMPTS
               THEN [poll EXCEPT !.pc = "run", !.attempts = @ + 1, !.sequence = 0, !.view = None]
               ELSE Quiet
    /\ UNCHANGED <<vars, known, inbox>>

get_run_state == ReadRun \/ ReadEvents \/ ReadAgain

-----------------------------------------------------------------------------
(* GET /v1/incidents/{incident_id}/runs/{run_id}/events. *)

\* list_after, in their order and one more than the page holds.
list_after(r, cursor) ==
    LET last == Min({Len(events[r]), cursor + PageLimit + 1})
    IN [i \in 1..(last - cursor) |-> cursor + i]

\* The next cursor: the last event of the page, or the cursor it was asked with.
Watermark(cursor, page) == Max({cursor} \cup {page[i] : i \in DOMAIN page})

\* What the console keeps: the version of the summary, the state and the events.
Known(cursor, shown) ==
    [run |-> poll.run, version |-> poll.summary.version, view |-> poll.view,
     cursor |-> cursor, shown |-> shown, polls |-> IF known = None THEN 1 ELSE known.polls + 1]

get_timeline ==
    LET stored == list_after(poll.run, poll.cursor)
        page == SubSeq(stored, 1, Min({PageLimit, Len(stored)}))
        cursor == Watermark(poll.cursor, page)
        shown == poll.shown \o page
    IN /\ poll.pc = "page"
       /\ \/ /\ Len(stored) > PageLimit         \* has_more
             /\ poll' = [poll EXCEPT !.cursor = cursor, !.shown = shown]
             /\ UNCHANGED known
          \/ /\ Len(stored) <= PageLimit
             /\ known' = Known(cursor, shown)
             /\ poll' = Quiet
       /\ UNCHANGED <<vars, inbox>>

\* A read fails, or another poll replaces this one.
Abort ==
    /\ poll # Quiet
    /\ poll' = Quiet
    /\ UNCHANGED <<vars, known, inbox>>

-----------------------------------------------------------------------------

ReadsInit == Init /\ poll = Quiet /\ known = None /\ inbox = None

Reading ==
    \/ \E r \in Watched : get_detail(r)
    \/ get_run_state \/ get_timeline \/ Abort \/ list_recent \/ list_incidents

ReadsNext == (Next /\ UNCHANGED readVars) \/ Reading

ReadsSpec == ReadsInit /\ [][ReadsNext]_rvars

-----------------------------------------------------------------------------
(* Properties. *)

\* The events up to a snapshot's own, replayed, give the run it shows.
SnapshotIsHistory(r, shown) ==
    LET log == SubSeq(events[r], 1, shown.sequence)
        view == FoldLeft(ReplayEvent, [incident |-> DeclaredDoc, run |-> AbsentRun.doc, moves |-> 0], log)
    IN shown.run = view.run /\ shown.incident = view.incident /\ shown.version = view.moves

\* A snapshot that is given is the run as its events up to it tell.  A state that
\* is answered comes with the cursor of the last event it reflects, whatever was
\* appended while it was read.  The console shows the run's log without a gap or a
\* repetition, from its first event and at least as far as the state beside it; a
\* run shown as ended has the event that tells why; and once the console stops
\* asking for a run, it shows the run as it is stored.
ConsoleShowsHistory ==
    /\ poll.pc = "page" => poll.sequence = poll.view.updated
    /\ \A r \in Runs : get_snapshot(r) # None => SnapshotIsHistory(r, get_snapshot(r))
    /\ known # None =>
        LET length == Len(known.shown)
        IN /\ \A i \in 1..length : known.shown[i] = i
           /\ length >= known.view.updated
           /\ known.view.doc.status \in {"completed", "terminated"} =>
                \E i \in 1..length : TellsEnd(event_summary(events[known.run][i]))
           /\ Settled(known, project_run_summary(known.run)) =>
                length = Len(events[known.run]) /\ known.view.doc = runs[known.run].doc

\* The approval a person sends from a row of the list.
Approval(item) ==
    [Command(Key("human", item.run, item.version), item.run, "apply_mitigation", "human") EXCEPT
        !.approval = TRUE, !.expected = item.version]

\* A mitigation that waits for a person is offered in the incident list, however
\* many runs the incident has, and nothing else is; and an approval sent from a
\* row whose incident and run were read at different moments is about the
\* mitigation the row names, on the run that carries it, or is refused.
InboxOffersDecision ==
    inbox # None =>
        LET item == project_list_item(inbox)
        IN /\ inbox.version = incident.version =>
                (item # None <=> incident.doc.state = "mitigating")
           /\ item # None =>
                (Validate(Approval(item), incident) =>
                    /\ item.mitigation = incident.doc.mitigation.id
                    /\ Aligned(incident.doc, runs[item.run].doc))
=============================================================================
