----------------------- MODULE IncidentRuntimeProofs -----------------------
(***************************************************************************)
(* Proofs about IncidentRuntime, for any runs, callers, keys and bounds.   *)
(***************************************************************************)
EXTENDS IncidentRuntime, FiniteSetTheorems, SequenceTheorems, TLAPS

Incidents == [doc : Docs, version : Nat]
RunRows == [doc : RunDocs, version : Nat]
Snapshots == [incident : Docs, run : RunDocs, version : Nat, upto : Nat]
Records == [id : CommandIds, transition : Transitions, run : Runs, actor : Actors,
            version : Nat, subject : Nat, reviewed : Nat]

-----------------------------------------------------------------------------
(* Types of the operators *)

\* Every edge of the contract joins declared states.
LEMMA WorkflowType ==
    \A t \in Transitions :
        Workflow[t] \in [from : States, to : States, actors : SUBSET Actors, approval : BOOLEAN]
<1> SUFFICES ASSUME NEW t \in Transitions
             PROVE  EdgeOf(t) \in [from : States, to : States, actors : SUBSET Actors,
                                   approval : BOOLEAN]
  BY DEF Workflow
<1> QED
  BY DEF Transitions, EdgeOf, Edge, States, Actors

\* Reducing a command against a typed incident gives a typed document.
LEMMA ReduceIncidentType ==
    ASSUME NEW cmd \in Commands, NEW inc \in Incidents
    PROVE  ReduceIncident(cmd, inc) \in Docs
<1>1. ReviewedStatus(cmd) \in {"approved", "rejected", "changes_requested"}
  BY DEF ReviewedStatus
<1>2. ReduceMitigation(cmd, inc) \in Mitigations
  <2> DEFINE old == inc.doc.mitigation
  <2>1. /\ old \in Mitigations
        /\ cmd.operation \in BOOLEAN
        /\ cmd.executed \in BOOLEAN
        /\ inc.version + 1 \in Nat
    BY DEF Commands, Incidents, Docs
  <2>2. CASE cmd.transition = "propose_mitigation"
    BY <2>1, <2>2 DEF ReduceMitigation, Mitigations
  <2>3. CASE cmd.transition = "apply_mitigation"
    <3>1. ReduceMitigation(cmd, inc) =
             [old EXCEPT !.status = ReviewedStatus(cmd), !.executed = cmd.executed]
      BY <2>3 DEF ReduceMitigation
    <3> QED  BY <1>1, <2>1, <3>1 DEF Mitigations
  <2>4. CASE cmd.transition = "reject_mitigation"
    <3>1. ReduceMitigation(cmd, inc) =
             [old EXCEPT !.status = ReviewedStatus(cmd), !.executed = @]
      BY <2>4 DEF ReduceMitigation
    <3> QED  BY <1>1, <2>1, <3>1 DEF Mitigations
  <2>5. CASE cmd.transition \notin {"propose_mitigation", "apply_mitigation",
                                    "reject_mitigation"}
    BY <2>1, <2>5 DEF ReduceMitigation
  <2> QED
    BY <2>2, <2>3, <2>4, <2>5
<1> QED
  BY <1>2, WorkflowType DEF ReduceIncident, Commands, Incidents, Docs

\* And against a typed run a typed run document.
LEMMA ReduceRunType ==
    ASSUME NEW cmd \in Commands, NEW run \in RunDocs
    PROVE  ReduceRun(cmd, run) \in RunDocs
<1>1. ReduceRunPatch(cmd, run) \in [status : RunStatuses, pending : PendingCommands,
                                    reason : TerminatedReasons]
  BY DEF ReduceRunPatch, RunPatch, Termination, RunDocs, RunStatuses, LiveRunStatuses,
         PendingCommands, TerminatedReasons
<1>2. Workflow[cmd.transition].to \in States
  BY WorkflowType DEF Commands
<1> QED
  BY <1>1, <1>2 DEF ReduceRun, PatchRun, RunDocs

\* What a caller sends is a command: its reads are typed.
LEMMA CommandType ==
    ASSUME NEW c \in Clients, seen \in [Clients -> [version : Nat, mitigation : Nat]],
           incident \in Incidents, NEW id \in CommandIds, NEW r \in Runs
    PROVE  /\ \A t \in Transitions, a \in Actors, b \in BOOLEAN :
                 [Command(id, r, t, a, c) EXCEPT !.retry = b] \in Commands
           /\ HumanCommands(id, r, c) \subseteq Commands
           /\ HarnessCommands(id, r, c) \subseteq Commands
<1>1. \A t \in Transitions, a \in Actors :
         Command(id, r, t, a, c) \in Commands
  BY DEF Command, Commands, NoVersion, Dispatches
<1>2. seen[c].version \in Nat /\ incident.version \in Nat
  BY DEF Incidents
<1>3. /\ {"apply_mitigation", "reject_mitigation", "verification_passed",
           "verification_failed", "close_incident", "continue_investigation",
           "propose_mitigation"} \subseteq Transitions
      /\ {"human", "agent"} \subseteq Actors
  BY DEF Transitions, Actors
<1>4. \A t \in Transitions, a \in Actors, b \in BOOLEAN :
         [Command(id, r, t, a, c) EXCEPT !.retry = b] \in Commands
  BY <1>1 DEF Commands
<1>5. HumanCommands(id, r, c) \subseteq Commands
  <2> DEFINE answer(t) == [Command(id, r, t, "human", c) EXCEPT !.expected = seen[c].version]
  <2>1. \A cmd \in Commands, v \in Nat : [cmd EXCEPT !.expected = v] \in Commands
    BY DEF Commands
  <2>2. \A cmd \in Commands : [cmd EXCEPT !.approval = TRUE] \in Commands
    BY DEF Commands
  <2>3. \A cmd \in Commands, o \in {"reject", "request_changes"} :
           [cmd EXCEPT !.outcome = o] \in Commands
    BY DEF Commands
  <2>4. \A cmd \in Commands, v \in Nat :
           [cmd EXCEPT !.approval = TRUE, !.expected = v] \in Commands
    BY DEF Commands
  <2>5. answer("apply_mitigation") \in Commands /\ answer("reject_mitigation") \in Commands
    BY <1>1, <1>2, <1>3, <2>1
  <2>6. \A t \in {"verification_passed", "verification_failed"} :
           [Command(id, r, t, "human", c) EXCEPT !.expected = incident.version] \in Commands
    BY <1>1, <1>2, <1>3, <2>1
  <2>7. [Command(id, r, "close_incident", "human", c) EXCEPT
            !.approval = TRUE, !.expected = incident.version] \in Commands
    BY <1>1, <1>2, <1>3, <2>4
  <2> HIDE DEF answer
  <2>8. {[answer("apply_mitigation") EXCEPT !.approval = TRUE]}
           \cup {[answer("reject_mitigation") EXCEPT !.outcome = o] :
                    o \in {"reject", "request_changes"}} \subseteq Commands
    BY <2>2, <2>3, <2>5
  <2> QED
    BY <2>6, <2>7, <2>8 DEF HumanCommands, answer
<1>6. HarnessCommands(id, r, c) \subseteq Commands
  BY <1>1, <1>2, <1>3 DEF HarnessCommands, Commands
<1> QED  BY <1>4, <1>5, <1>6

-----------------------------------------------------------------------------
(* Type correctness *)

\* A declared incident, without open transactions, is typed.
LEMMA InitTypeOK == Init => TypeOK
<1> SUFFICES ASSUME Init PROVE TypeOK
  OBVIOUS
<1> USE DEF Init, Declared
<1>1. DeclaredDoc \in Docs
  BY DEF DeclaredDoc, Docs, NoMitigation, Mitigations, States
<1>2. NewRun("active").doc \in RunDocs /\ AbsentRun.doc \in RunDocs
      /\ AbsentRun.version = 0 /\ NewRun("active").version = 0
      /\ AbsentRun = [doc |-> AbsentRun.doc, version |-> 0]
      /\ [NewRun("active") EXCEPT !.version = 1] = [doc |-> NewRun("active").doc, version |-> 1]
  BY DEF NewRun, AbsentRun, RunDocs, RunStatuses, LiveRunStatuses, States, PendingCommands,
         TerminatedReasons
<1>3. StateChange("triage_declare", DeclaredDoc, NewRun("active").doc) \in Events
  BY <1>1, <1>2 DEF StateChange, Events, Transitions
<1>4. incident \in [doc : Docs, version : Nat]
  BY <1>1
<1>5. runs \in [Runs -> [doc : RunDocs, version : Nat]]
  BY <1>2
<1>6. events \in [Runs -> Seq(Events)]
  BY <1>3
<1>7. snapshots \in [Runs -> [incident : Docs, run : RunDocs, version : Nat, upto : Nat]]
  BY <1>1, <1>2
<1>8. postmortem \in [version : Nat, approved : Nat] /\ session \in [Clients -> Sessions]
      /\ seen \in [Clients -> [version : Nat, mitigation : Nat]]
  BY DEF Sessions
<1> QED
  BY <1>4, <1>5, <1>6, <1>7, <1>8 DEF TypeOK

\* An open transaction holds a command and the typed rows it read.
LEMMA OpenType ==
    ASSUME TypeOK, NEW c \in Clients, Open(c)
    PROVE  /\ session[c] \in [pc : {"read"}, cmd : Commands, inc : Incidents, run : RunRows]
           /\ session[c].cmd \in Commands
           /\ session[c].inc \in Incidents
           /\ session[c].run \in RunRows
BY DEF TypeOK, Open, Sessions, Idle, Incidents, RunRows

\* One commit keeps every table typed.
LEMMA PersistType ==
    ASSUME TypeOK, NEW cmd \in Commands, NEW inc \in Incidents, NEW run \in RunRows,
           PersistTransition(cmd, inc, run, <<>>)
    PROVE  /\ incident' \in Incidents
           /\ runs' \in [Runs -> RunRows]
           /\ events' \in [Runs -> Seq(Events)]
           /\ snapshots' \in [Runs -> Snapshots]
           /\ commits' \subseteq Records
<1> DEFINE doc == ReduceIncident(cmd, inc)
           moved == [doc |-> ReduceRun(cmd, run.doc), version |-> run.version + 1]
           logged == events[cmd.run] \o <<StateChange(cmd.transition, doc, moved.doc)>> \o <<>>
<1>1. doc \in Docs
  BY ReduceIncidentType
<1>2. run.doc \in RunDocs /\ run.version + 1 \in Nat /\ inc.version + 1 \in Nat
  BY DEF RunRows, Incidents
<1>3. moved \in RunRows
  BY <1>2, ReduceRunType DEF RunRows
<1>4. cmd.run \in Runs /\ cmd.transition \in Transitions /\ cmd.id \in CommandIds
      /\ cmd.actor \in Actors /\ cmd.reviewed \in Nat
  BY DEF Commands
<1>5. logged \in Seq(Events)
  <2>1. StateChange(cmd.transition, doc, moved.doc) \in Events
    <3>1. moved.doc \in RunDocs
      BY <1>3 DEF RunRows
    <3> HIDE DEF doc, moved
    <3> QED  BY <1>1, <1>4, <3>1 DEF StateChange, Events
  <2>2. events[cmd.run] \in Seq(Events)
    BY <1>4 DEF TypeOK
  <2> HIDE DEF doc, moved
  <2> QED  BY <2>1, <2>2
<1>6. Len(logged) \in Nat
  BY <1>5
<1>7. NextSnapshot(cmd.run, doc, moved, Len(logged)) \in Snapshots
  <2>1. snapshots[cmd.run] \in Snapshots
    BY <1>4 DEF TypeOK, Snapshots
  <2>2. moved.doc \in RunDocs /\ moved.version \in Nat
    BY <1>3 DEF RunRows
  <2> HIDE DEF doc, moved, logged
  <2> QED  BY <1>1, <1>6, <2>1, <2>2 DEF NextSnapshot, Snapshots
<1>8. CommitRecord(cmd, inc) \in Records
  <2>1. inc.doc.mitigation.id \in Nat
    BY DEF Incidents, Docs, Mitigations
  <2> QED  BY <1>2, <1>4, <2>1 DEF CommitRecord, Records
<1>9. /\ incident' = [doc |-> doc, version |-> inc.version + 1]
      /\ runs' = [runs EXCEPT ![cmd.run] = moved]
      /\ events' = [events EXCEPT ![cmd.run] = logged]
      /\ snapshots' = [snapshots EXCEPT ![cmd.run] =
                          NextSnapshot(cmd.run, doc, moved, Len(logged))]
      /\ commits' = commits \cup {CommitRecord(cmd, inc)}
  BY DEF PersistTransition
<1> HIDE DEF doc, moved, logged
<1>10. incident' \in Incidents
  BY <1>1, <1>2, <1>9 DEF Incidents
<1>11. runs' \in [Runs -> RunRows]
  BY <1>3, <1>9 DEF TypeOK, RunRows
<1>12. events' \in [Runs -> Seq(Events)]
  BY <1>5, <1>9 DEF TypeOK
<1>13. snapshots' \in [Runs -> Snapshots]
  BY <1>7, <1>9 DEF TypeOK, Snapshots
<1>14. commits' \subseteq Records
  BY <1>8, <1>9 DEF TypeOK, Records
<1> QED  BY <1>10, <1>11, <1>12, <1>13, <1>14

\* Opening a transaction keeps the sessions typed.
LEMMA OpenSessionType ==
    ASSUME TypeOK, NEW c \in Clients, NEW cmd \in Commands, NEW run \in RunRows,
           OpenSession(c, cmd, run)
    PROVE  TypeOK'
<1>1. [pc |-> "read", cmd |-> cmd, inc |-> incident, run |-> run] \in Sessions
  BY DEF TypeOK, Sessions, RunRows
<1>2. session' \in [Clients -> Sessions]
  BY <1>1 DEF OpenSession, TypeOK
<1> QED  BY <1>2 DEF OpenSession, TypeOK, storeVars

\* Every action keeps the state typed.
LEMMA NextTypeOK == TypeOK /\ [Next]_vars => TypeOK'
<1> SUFFICES ASSUME TypeOK, [Next]_vars PROVE TypeOK'
  OBVIOUS
<1>0. incident \in Incidents /\ seen \in [Clients -> [version : Nat, mitigation : Nat]]
  BY DEF TypeOK, Incidents
<1>1. ASSUME NEW c \in Clients, Look(c) PROVE TypeOK'
  <2>1. incident.version \in Nat /\ incident.doc.mitigation.id \in Nat
    BY <1>0 DEF Incidents, Docs, Mitigations
  <2>2. seen' \in [Clients -> [version : Nat, mitigation : Nat]]
    BY <1>0, <1>1, <2>1 DEF Look
  <2> QED  BY <1>1, <2>2 DEF Look, TypeOK, storeVars
<1>2. ASSUME NEW c \in Clients, Execute(c) PROVE TypeOK'
  <2>1. PICK id \in CommandIds, r \in Runs :
            \E cmd \in HumanCommands(id, r, c) \cup HarnessCommands(id, r, c) :
                OpenSession(c, cmd, runs[r])
    BY <1>2 DEF Execute
  <2>0. PICK cmd \in HumanCommands(id, r, c) \cup HarnessCommands(id, r, c) :
            OpenSession(c, cmd, runs[r])
    BY <2>1
  <2>2. cmd \in Commands
    BY <1>0, <2>0, CommandType
  <2>3. runs[r] \in RunRows
    BY DEF TypeOK, RunRows
  <2> QED  BY <2>0, <2>2, <2>3, OpenSessionType
<1>3. ASSUME NEW c \in Clients, StartRun(c) PROVE TypeOK'
  <2>1. PICK id \in CommandIds, r \in Runs, actor \in Actors, t \in Transitions,
             retry \in BOOLEAN :
            OpenSession(c, [Command(id, r, t, actor, c) EXCEPT !.retry = retry],
                        NewRun(incident.doc.state))
    BY <1>3, ZenonT(60) DEF StartRun, ObjectiveTransitions, Transitions
  <2>2. [Command(id, r, t, actor, c) EXCEPT !.retry = retry] \in Commands
    BY <1>0, CommandType
  <2>3. NewRun(incident.doc.state) \in RunRows
    BY <1>0 DEF NewRun, RunRows, RunDocs, RunStatuses, LiveRunStatuses, PendingCommands,
                TerminatedReasons, Incidents, Docs
  <2> QED  BY <2>1, <2>2, <2>3, OpenSessionType
<1>4. ASSUME NEW c \in Clients, Commit(c) PROVE TypeOK'
  <2>1. /\ Open(c)
        /\ PersistTransition(session[c].cmd, session[c].inc, session[c].run, <<>>)
        /\ session' = [session EXCEPT ![c] = Idle]
        /\ UNCHANGED <<postmortem, seen>>
    BY <1>4 DEF Commit
  <2>2. session' \in [Clients -> Sessions]
    BY <2>1 DEF TypeOK, Sessions
  <2> QED
    BY <2>1, <2>2, OpenType, PersistType DEF TypeOK, Incidents, RunRows, Snapshots, Records
<1>5. ASSUME NEW c \in Clients, Rollback(c) PROVE TypeOK'
  BY <1>5 DEF Rollback, TypeOK, Sessions, storeVars
<1>6. CASE WritePostmortem
  <2>1. postmortem' = [postmortem EXCEPT !.version = postmortem.version + 1]
    BY <1>6 DEF WritePostmortem, SavePostmortem
  <2>3. postmortem \in [version : Nat, approved : Nat]
    BY DEF TypeOK
  <2>4. postmortem.version + 1 \in Nat
    BY <2>3
  <2>2. postmortem' \in [version : Nat, approved : Nat]
    BY <2>1, <2>3, <2>4
  <2> QED  BY <1>6, <2>2 DEF WritePostmortem, TypeOK
<1>7. CASE ReviewDraft
  <2>1. \/ postmortem' = [postmortem EXCEPT !.approved = postmortem.version]
        \/ postmortem' = [postmortem EXCEPT !.approved = 0]
    BY <1>7 DEF ReviewDraft, ReviewPostmortem
  <2>2. postmortem' \in [version : Nat, approved : Nat]
    BY <2>1 DEF TypeOK
  <2> QED  BY <1>7, <2>2 DEF ReviewDraft, TypeOK
<1>8. CASE UNCHANGED vars
  BY <1>8 DEF vars, TypeOK
<1> QED
  BY <1>1, <1>2, <1>3, <1>4, <1>5, <1>6, <1>7, <1>8 DEF Next

\* The documents, logs, snapshots and idempotency records that any number of concurrent callers
\* commit keep the shape the contract declares.
THEOREM TypeCorrect == Spec => []TypeOK
BY InitTypeOK, NextTypeOK, PTL DEF Spec

-----------------------------------------------------------------------------
(* Safety: the versions identify what was read *)

\* A caller never looked ahead of the incident, and a version still current is the mitigation
\* still current.
SeenCurrent ==
    \A c \in Clients :
        /\ seen[c].version <= incident.version
        /\ seen[c].version = incident.version =>
              seen[c].mitigation = incident.doc.mitigation.id

\* Likewise for the incident an open transaction read, against which its command was validated;
\* an answer names the mitigation its caller had seen.
ReadsCurrent ==
    \A c \in Clients : Open(c) =>
        /\ session[c].inc.version <= incident.version
        /\ session[c].inc.version = incident.version => session[c].inc = incident
        /\ Validate(session[c].cmd, session[c].inc)
        /\ session[c].cmd.transition \in ReviewTransitions =>
              session[c].cmd.reviewed = session[c].inc.doc.mitigation.id

\* Each commit has a version of its own, up to the incident's.
CommitsCounted ==
    /\ IsFiniteSet(commits)
    /\ VersionCountsCommits
    /\ \A k \in commits : k.version <= incident.version

\* Mitigations are numbered upwards, and the one that waits for its answer has none.
DecisionsPast ==
    /\ incident.version > 0
    /\ incident.doc.mitigation.id <= incident.version
    /\ \A k \in commits : k.transition \in ReviewTransitions =>
          /\ k.subject <= incident.doc.mitigation.id
          /\ incident.doc.state = "mitigating" => k.subject < incident.doc.mitigation.id

Safe ==
    /\ TypeOK
    /\ SeenCurrent
    /\ ReadsCurrent
    /\ CommitsCounted
    /\ DecisionsPast
    /\ OneEffectPerCommand
    /\ OneDecisionPerMitigation
    /\ DecidesWhatWasReviewed

\* Only a proposal leads to mitigating, and only an answer leaves it.
LEMMA MitigatingEdges ==
    \A t \in Transitions :
        /\ Workflow[t].to = "mitigating" => t = "propose_mitigation"
        /\ t \in ReviewTransitions => Workflow[t].from = "mitigating"
                                     /\ Workflow[t].to # "mitigating"
BY ZenonT(60) DEF Workflow, Transitions, EdgeOf, Edge, ReviewTransitions

\* What a commit does to the incident's mitigation: a proposal numbers a new one, and no other
\* command changes which one the incident carries.
LEMMA ReduceFacts ==
    ASSUME NEW cmd \in Commands, NEW inc \in Incidents
    PROVE  LET doc == ReduceIncident(cmd, inc) IN
           /\ doc.state = Workflow[cmd.transition].to
           /\ cmd.transition = "propose_mitigation" => doc.mitigation.id = inc.version + 1
           /\ cmd.transition # "propose_mitigation" =>
                 doc.mitigation.id = inc.doc.mitigation.id
<1>1. inc.doc.mitigation \in Mitigations
  BY DEF Incidents, Docs
<1>2. cmd.transition = "propose_mitigation" => ReduceMitigation(cmd, inc).id = inc.version + 1
  BY DEF ReduceMitigation
<1>3. ASSUME cmd.transition # "propose_mitigation"
      PROVE  ReduceMitigation(cmd, inc).id = inc.doc.mitigation.id
  BY <1>1, <1>3 DEF ReduceMitigation, Mitigations
<1> QED
  BY <1>2, <1>3 DEF ReduceIncident

\* A commit applies a command validated against the incident it replaces: the version check
\* leaves no older read.
LEMMA CommitFacts ==
    ASSUME Safe, NEW c \in Clients, Commit(c)
    PROVE  LET cmd == session[c].cmd IN
           /\ Open(c) /\ cmd \in Commands /\ incident \in Incidents
           /\ session[c].inc = incident
           /\ Validate(cmd, incident)
           /\ cmd.transition \in ReviewTransitions =>
                 cmd.reviewed = incident.doc.mitigation.id
           /\ ~Committed(cmd.id)
           /\ incident' = [doc |-> ReduceIncident(cmd, incident),
                           version |-> incident.version + 1]
           /\ commits' = commits \cup {CommitRecord(cmd, incident)}
           /\ session' = [session EXCEPT ![c] = Idle]
           /\ seen' = seen
<1>1. Open(c) /\ PersistTransition(session[c].cmd, session[c].inc, session[c].run, <<>>)
      /\ session' = [session EXCEPT ![c] = Idle] /\ seen' = seen
  BY DEF Commit
<1>2. session[c].cmd \in Commands /\ incident \in Incidents
  BY <1>1, OpenType DEF Safe, TypeOK, Incidents
<1>3. session[c].inc = incident
  BY <1>1 DEF PersistTransition, Unchanged, Safe, ReadsCurrent
<1> QED
  BY <1>1, <1>2, <1>3 DEF PersistTransition, Safe, ReadsCurrent

\* A declared incident satisfies the inductive invariant: it has no commit and no reader.
LEMMA InitSafe == Init => Safe
<1> SUFFICES ASSUME Init PROVE Safe
  OBVIOUS
<1>1. TypeOK
  BY InitTypeOK
<1>2. /\ commits = {} /\ incident.version = 1 /\ incident.doc.mitigation.id = 0
      /\ \A c \in Clients : ~Open(c) /\ seen[c].version = 0
  BY DEF Init, Declared, DeclaredDoc, NoMitigation, Open, Idle
<1>3. CommitsCounted
  BY <1>2, FS_EmptySet DEF CommitsCounted, VersionCountsCommits
<1> QED
  BY <1>1, <1>2, <1>3 DEF Safe, SeenCurrent, ReadsCurrent, DecisionsPast, OneEffectPerCommand,
     OneDecisionPerMitigation, DecidesWhatWasReviewed

\* A commit preserves the invariant, conjunct by conjunct.
LEMMA CommitSafe ==
    ASSUME Safe, TypeOK', NEW c \in Clients, Commit(c)
    PROVE  Safe'
<1> DEFINE cmd == session[c].cmd
           rec == CommitRecord(cmd, incident)
<1>0. /\ Open(c) /\ cmd \in Commands /\ incident \in Incidents
      /\ session[c].inc = incident
      /\ Validate(cmd, incident)
      /\ cmd.transition \in ReviewTransitions => cmd.reviewed = incident.doc.mitigation.id
      /\ ~Committed(cmd.id)
      /\ incident' = [doc |-> ReduceIncident(cmd, incident), version |-> incident.version + 1]
      /\ commits' = commits \cup {rec}
      /\ session' = [session EXCEPT ![c] = Idle]
      /\ seen' = seen
  BY CommitFacts
<1> HIDE DEF cmd, rec
<1>1. /\ incident.version \in Nat /\ incident.doc.mitigation.id \in Nat
      /\ incident'.version = incident.version + 1
      /\ cmd.transition \in Transitions
      /\ \A k \in commits : k.version \in Nat /\ k.subject \in Nat
  BY <1>0, ZenonT(60) DEF Incidents, Docs, Mitigations, Commands, Safe, TypeOK
<1>2. /\ rec.id = cmd.id /\ rec.transition = cmd.transition /\ rec.reviewed = cmd.reviewed
      /\ rec.version = incident.version + 1 /\ rec.subject = incident.doc.mitigation.id
  BY DEF rec, CommitRecord
<1>3. /\ incident'.doc.state = Workflow[cmd.transition].to
      /\ cmd.transition = "propose_mitigation" =>
            incident'.doc.mitigation.id = incident.version + 1
      /\ cmd.transition # "propose_mitigation" =>
            incident'.doc.mitigation.id = incident.doc.mitigation.id
  BY <1>0, ReduceFacts
<1>4. /\ incident'.doc.state = "mitigating" => cmd.transition = "propose_mitigation"
      /\ cmd.transition \in ReviewTransitions => incident.doc.state = "mitigating"
                                               /\ incident'.doc.state # "mitigating"
  BY <1>0, <1>1, <1>3, MitigatingEdges DEF Validate
<1>5. SeenCurrent'
  <2> SUFFICES ASSUME NEW d \in Clients
               PROVE  seen[d].version <= incident.version /\ seen[d].version \in Nat
    BY <1>0, <1>1 DEF SeenCurrent
  <2> QED  BY DEF Safe, SeenCurrent, TypeOK
<1>6. ReadsCurrent'
  <2> SUFFICES ASSUME NEW d \in Clients, Open(d)'
               PROVE  ReadsCurrent!(d)!2'
    BY DEF ReadsCurrent
  <2>1. d # c /\ session'[d] = session[d] /\ Open(d)
    BY <1>0 DEF Open, Idle, Safe, TypeOK
  <2>2. session[d].inc.version <= incident.version /\ session[d].inc.version \in Nat
    BY <2>1, OpenType DEF Safe, ReadsCurrent, Incidents
  <2>3. session[d].inc.version # incident'.version /\ session[d].inc.version <= incident'.version
    BY <1>1, <2>2
  <2> QED  BY <2>1, <2>3 DEF Safe, ReadsCurrent
<1>7. CommitsCounted'
  <2>1. rec \notin commits
    BY <1>1, <1>2 DEF Safe, CommitsCounted
  <2>2. /\ IsFiniteSet(commits')
        /\ Cardinality(commits') = Cardinality(commits) + 1
    BY <1>0, <2>1, FS_AddElement DEF Safe, CommitsCounted
  <2>3. \A k \in commits' : k.version <= incident'.version
    BY <1>0, <1>1, <1>2 DEF Safe, CommitsCounted
  <2> QED  BY <1>1, <2>2, <2>3 DEF Safe, CommitsCounted, VersionCountsCommits
<1>8. DecisionsPast'
  <2>1. incident'.doc.mitigation.id <= incident'.version /\ incident'.version > 0
    BY <1>1, <1>3 DEF Safe, DecisionsPast
  <2>2. ASSUME NEW k \in commits', k.transition \in ReviewTransitions
        PROVE  /\ k.subject <= incident'.doc.mitigation.id
               /\ incident'.doc.state = "mitigating" =>
                     k.subject < incident'.doc.mitigation.id
    <3>1. CASE k \in commits
      BY <1>1, <1>3, <1>4, <2>2, <3>1 DEF Safe, DecisionsPast
    <3>2. CASE k = rec
      BY <1>1, <1>2, <1>3, <1>4, <2>2, <3>2 DEF ReviewTransitions
    <3> QED  BY <1>0, <3>1, <3>2
  <2> QED  BY <2>1, <2>2 DEF DecisionsPast
<1>9. OneEffectPerCommand'
  BY <1>0, <1>2 DEF Safe, OneEffectPerCommand, Committed
<1>10. OneDecisionPerMitigation'
  <2>1. \A k \in commits : /\ k.transition \in ReviewTransitions
                            /\ rec.transition \in ReviewTransitions
                            => k.subject # rec.subject
    BY <1>1, <1>2, <1>4 DEF Safe, DecisionsPast
  <2> QED  BY <1>0, <2>1 DEF Safe, OneDecisionPerMitigation
<1>11. DecidesWhatWasReviewed'
  BY <1>0, <1>2 DEF Safe, DecidesWhatWasReviewed
<1> QED
  BY <1>5, <1>6, <1>7, <1>8, <1>9, <1>10, <1>11 DEF Safe

\* An answer carries the version and the mitigation its sender last read.
LEMMA AnswersAreSeen ==
    ASSUME NEW id, NEW r, NEW c,
           NEW cmd \in HumanCommands(id, r, c) \cup HarnessCommands(id, r, c),
           cmd.transition \in ReviewTransitions
    PROVE  cmd.expected = seen[c].version /\ cmd.reviewed = seen[c].mitigation
<1>1. cmd \notin HarnessCommands(id, r, c)
  BY DEF HarnessCommands, Command, ReviewTransitions
<1>2. cmd \in HumanCommands(id, r, c)
  BY <1>1
<1>3. ASSUME NEW t PROVE /\ Command(id, r, t, "human", c).transition = t
                         /\ Command(id, r, t, "human", c).reviewed = seen[c].mitigation
  BY DEF Command
<1> DEFINE answer(t) == [Command(id, r, t, "human", c) EXCEPT !.expected = seen[c].version]
<1>5. CASE cmd = [answer("apply_mitigation") EXCEPT !.approval = TRUE]
  BY <1>5 DEF Command
<1>6. CASE \E o \in {"reject", "request_changes"} :
              cmd = [answer("reject_mitigation") EXCEPT !.outcome = o]
  BY <1>6 DEF Command
<1>7. CASE \E t \in {"verification_passed", "verification_failed"} :
              cmd = [Command(id, r, t, "human", c) EXCEPT !.expected = incident.version]
  BY <1>7 DEF Command, ReviewTransitions
<1>8. CASE cmd = [Command(id, r, "close_incident", "human", c) EXCEPT
                     !.approval = TRUE, !.expected = incident.version]
  BY <1>8 DEF Command, ReviewTransitions
<1> QED
  BY <1>2, <1>5, <1>6, <1>7, <1>8 DEF HumanCommands

\* Opening a transaction preserves the invariant when its answer is for what was seen.
LEMMA OpenSessionSafe ==
    ASSUME Safe, TypeOK', NEW c \in Clients, NEW cmd, NEW run, OpenSession(c, cmd, run),
           cmd.transition \in ReviewTransitions =>
              cmd.reviewed = incident.doc.mitigation.id
    PROVE  Safe'
<1>1. /\ incident' = incident /\ commits' = commits /\ seen' = seen
      /\ session' = [session EXCEPT ![c] = [pc |-> "read", cmd |-> cmd, inc |-> incident,
                                            run |-> run]]
      /\ Validate(cmd, incident)
  BY DEF OpenSession, storeVars
<1>2. ReadsCurrent'
  <2> SUFFICES ASSUME NEW d \in Clients, Open(d)'
               PROVE  ReadsCurrent!(d)!2'
    BY DEF ReadsCurrent
  <2>1. CASE d = c
    <3>1. session'[d].cmd = cmd /\ session'[d].inc = incident
      BY <1>1, <2>1 DEF Safe, TypeOK
    <3>2. incident.version <= incident.version
      BY SMTT(30) DEF Safe, TypeOK
    <3> QED  BY <1>1, <3>1, <3>2 DEF Validate, NamedPreconditions
  <2>2. CASE d # c
    <3>1. session'[d] = session[d] /\ Open(d)
      BY <1>1, <2>2 DEF Safe, TypeOK, Open
    <3> QED  BY <1>1, <3>1 DEF Safe, ReadsCurrent, Validate, NamedPreconditions
  <2> QED  BY <2>1, <2>2
<1> QED
  BY <1>1, <1>2 DEF Safe, SeenCurrent, CommitsCounted, VersionCountsCommits, DecisionsPast,
     OneEffectPerCommand, OneDecisionPerMitigation, DecidesWhatWasReviewed

\* Every action preserves the inductive invariant.
LEMMA NextSafe == Safe /\ [Next]_vars => Safe'
<1> SUFFICES ASSUME Safe, [Next]_vars PROVE Safe'
  OBVIOUS
<1>0. TypeOK' /\ TypeOK
  BY NextTypeOK DEF Safe
<1> DEFINE Rest == /\ UNCHANGED <<incident, commits>>
                   /\ \A d \in Clients : Open(d)' => Open(d) /\ session'[d] = session[d]
\* A step that neither commits nor opens a transaction.
<1>1. ASSUME Rest, SeenCurrent' PROVE Safe'
  <2>1. ReadsCurrent'
    BY <1>1 DEF Safe, ReadsCurrent, Validate, NamedPreconditions
  <2> QED
    BY <1>0, <1>1, <2>1 DEF Safe, CommitsCounted, VersionCountsCommits, DecisionsPast,
       OneEffectPerCommand, OneDecisionPerMitigation, DecidesWhatWasReviewed
<1>2. ASSUME UNCHANGED <<seen, incident>> PROVE SeenCurrent'
  BY <1>2 DEF Safe, SeenCurrent
<1>3. ASSUME NEW c \in Clients, Look(c) PROVE Safe'
  <2>1. /\ UNCHANGED <<incident, commits, session>>
        /\ seen' = [seen EXCEPT ![c] = [version |-> incident.version,
                                        mitigation |-> incident.doc.mitigation.id]]
    BY <1>3 DEF Look, storeVars
  <2>2. SeenCurrent'
    BY <1>0, <2>1 DEF Safe, SeenCurrent, TypeOK
  <2>3. Rest
    BY <2>1 DEF Open
  <2> QED  BY <1>1, <2>2, <2>3
<1>4. ASSUME NEW c \in Clients, Execute(c) PROVE Safe'
  <2>1. PICK id \in CommandIds, r \in Runs :
            \E cmd \in HumanCommands(id, r, c) \cup HarnessCommands(id, r, c) :
                OpenSession(c, cmd, runs[r])
    BY <1>4 DEF Execute
  <2>2. PICK cmd \in HumanCommands(id, r, c) \cup HarnessCommands(id, r, c) :
            OpenSession(c, cmd, runs[r])
    BY <2>1
  <2>3. ASSUME cmd.transition \in ReviewTransitions
        PROVE  cmd.reviewed = incident.doc.mitigation.id
    <3>1. cmd.expected = seen[c].version /\ cmd.reviewed = seen[c].mitigation
      BY <2>3, AnswersAreSeen
    <3>4. seen[c].version \in Nat
      BY <1>0 DEF TypeOK
    <3>2. seen[c].version # NoVersion
      BY <3>4 DEF NoVersion
    <3>3. cmd.expected = incident.version
      BY <2>2, <3>1, <3>2 DEF OpenSession, Validate
    <3> QED  BY <3>1, <3>3 DEF Safe, SeenCurrent
  <2> QED  BY <1>0, <2>2, <2>3, OpenSessionSafe
<1>5. ASSUME NEW c \in Clients, StartRun(c) PROVE Safe'
  <2>1. PICK id \in CommandIds, r \in Runs, actor \in Actors,
             t \in ObjectiveTransitions \cup {"continue_investigation"}, retry \in BOOLEAN :
            OpenSession(c, [Command(id, r, t, actor, c) EXCEPT !.retry = retry],
                        NewRun(incident.doc.state))
    BY <1>5 DEF StartRun
  <2>2. [Command(id, r, t, actor, c) EXCEPT !.retry = retry].transition
           \notin ReviewTransitions
    BY DEF Command, ObjectiveTransitions, ReviewTransitions
  <2> QED  BY <1>0, <2>1, <2>2, OpenSessionSafe
<1>6. ASSUME NEW c \in Clients, Commit(c) PROVE Safe'
  BY <1>0, <1>6, CommitSafe
<1>7. ASSUME NEW c \in Clients, Rollback(c) PROVE Safe'
  <2>1. UNCHANGED <<incident, commits, seen>> /\ session' = [session EXCEPT ![c] = Idle]
    BY <1>7 DEF Rollback, storeVars
  <2>2. Rest
    BY <1>0, <2>1 DEF TypeOK, Open, Idle
  <2> QED  BY <1>1, <1>2, <2>1, <2>2
<1>8. CASE WritePostmortem \/ ReviewDraft \/ UNCHANGED vars
  <2>1. UNCHANGED <<incident, commits, seen, session>>
    BY <1>8 DEF WritePostmortem, ReviewDraft, vars
  <2>2. Rest
    BY <2>1 DEF Open
  <2> QED  BY <1>1, <1>2, <2>1, <2>2
<1> QED
  BY <1>3, <1>4, <1>5, <1>6, <1>7, <1>8 DEF Next

\* The inductive invariant holds in every state of every execution.
THEOREM RuntimeSafe == Spec => []Safe
BY InitSafe, NextSafe, PTL DEF Spec

\* No interleaving of callers loses a commit: the incident's version counts them all
\* (persist_transition's version checks).
THEOREM NoLostCommit == Spec => []VersionCountsCommits
<1>1. Safe => VersionCountsCommits
  BY DEF Safe, CommitsCounted
<1> QED  BY <1>1, RuntimeSafe, PTL

\* A key commits at most once, whatever retries and double submissions race.
THEOREM KeyCommitsOnce == Spec => []OneEffectPerCommand
<1>1. Safe => OneEffectPerCommand
  BY DEF Safe
<1> QED  BY <1>1, RuntimeSafe, PTL

\* A mitigation is decided at most once, whatever answers race.
THEOREM DecidedOnce == Spec => []OneDecisionPerMitigation
<1>1. Safe => OneDecisionPerMitigation
  BY DEF Safe
<1> QED  BY <1>1, RuntimeSafe, PTL

\* An answer decides the mitigation its sender had read: an expected version that passes both
\* the validation and the version check identifies it.
THEOREM AnswersTheReviewed == Spec => []DecidesWhatWasReviewed
<1>1. Safe => DecidesWhatWasReviewed
  BY DEF Safe
<1> QED  BY <1>1, RuntimeSafe, PTL

\* Every commit follows one edge of the contract from the state it replaces, although it was
\* validated against an unlocked earlier read.
THEOREM CommitsFollowWorkflow == Spec => FollowsWorkflow
<1> DEFINE Follows == \A k \in commits' \ commits :
                          /\ Workflow[k.transition].from = incident.doc.state
                          /\ Workflow[k.transition].to = incident'.doc.state
<1>1. Safe /\ [Next]_vars => [Follows]_vars
  <2> SUFFICES ASSUME Safe, Next PROVE Follows
    OBVIOUS
  <2>1. ASSUME NEW c \in Clients, Commit(c) PROVE Follows
    <3>1. LET cmd == session[c].cmd IN
          /\ cmd \in Commands /\ incident \in Incidents
          /\ Validate(cmd, incident)
          /\ incident'.doc = ReduceIncident(cmd, incident)
          /\ commits' = commits \cup {CommitRecord(cmd, incident)}
      BY <2>1, CommitFacts
    <3>2. CommitRecord(session[c].cmd, incident).transition = session[c].cmd.transition
      BY DEF CommitRecord
    <3> QED  BY <3>1, <3>2, ReduceFacts DEF Validate
  <2>2. ASSUME commits' = commits PROVE Follows
    BY <2>2
  <2>3. ASSUME NEW c \in Clients, Look(c) \/ Rollback(c) PROVE commits' = commits
    BY <2>3 DEF Look, Rollback, storeVars
  <2>4. ASSUME NEW c \in Clients, NEW cmd, NEW run, OpenSession(c, cmd, run)
        PROVE  commits' = commits
    BY <2>4 DEF OpenSession, storeVars
  <2>5. ASSUME NEW c \in Clients, Execute(c) PROVE commits' = commits
    BY <2>4, <2>5 DEF Execute
  <2>6. ASSUME NEW c \in Clients, StartRun(c) PROVE commits' = commits
    BY <2>4, <2>6 DEF StartRun
  <2>7. WritePostmortem \/ ReviewDraft => commits' = commits
    BY DEF WritePostmortem, ReviewDraft
  <2> QED
    BY <2>1, <2>2, <2>3, <2>5, <2>6, <2>7 DEF Next
<1> QED  BY <1>1, RuntimeSafe, PTL DEF Spec, FollowsWorkflow

-----------------------------------------------------------------------------
(* Closing *)

\* A transaction that is to close the incident has read an approved postmortem, and its row
\* lock keeps it so.
ClosingReviewed ==
    \A c \in Clients :
        Open(c) /\ session[c].cmd.transition = "close_incident" => ReviewedPostmortem

ClosedSafe == ClosingReviewed /\ ClosedAsReviewed

\* Only closing leads to closed.
LEMMA ClosedEdge ==
    \A t \in Transitions : Workflow[t].to = "closed" => t = "close_incident"
BY ZenonT(60) DEF Workflow, Transitions, EdgeOf, Edge

\* A transaction opens, to close the incident only on an approved postmortem.
LEMMA OpenSessionClosed ==
    ASSUME Safe, ClosedSafe, NEW c \in Clients, NEW cmd, NEW run, OpenSession(c, cmd, run),
           cmd.transition = "close_incident" => ReviewedPostmortem
    PROVE  ClosedSafe'
<1>1. /\ UNCHANGED <<incident, postmortem>>
      /\ session' = [session EXCEPT ![c] = [pc |-> "read", cmd |-> cmd, inc |-> incident,
                                            run |-> run]]
  BY DEF OpenSession, storeVars
<1>2. session'[c].cmd = cmd /\ \A d \in Clients : d # c => session'[d] = session[d]
  BY <1>1 DEF Safe, TypeOK
<1>3. ReviewedPostmortem' <=> ReviewedPostmortem
  BY <1>1 DEF ReviewedPostmortem
<1> QED
  BY <1>1, <1>2, <1>3 DEF ClosedSafe, ClosingReviewed, ClosedAsReviewed, Open

\* Every action keeps the postmortem behind a closing, and a closed, incident approved.
LEMMA NextClosed == ASSUME Safe, ClosedSafe, [Next]_vars PROVE ClosedSafe'
<1>1. ASSUME UNCHANGED <<incident, postmortem>>,
             \A d \in Clients : Open(d)' => Open(d) /\ session'[d] = session[d]
      PROVE  ClosedSafe'
  BY <1>1 DEF ClosedSafe, ClosingReviewed, ClosedAsReviewed, ReviewedPostmortem
<1>2. ASSUME NEW c \in Clients, Look(c) \/ Rollback(c) PROVE ClosedSafe'
  <2>1. UNCHANGED <<incident, postmortem>>
    BY <1>2 DEF Look, Rollback, storeVars
  <2>2. \A d \in Clients : Open(d)' => Open(d) /\ session'[d] = session[d]
    <3>1. CASE Look(c)
      BY <3>1 DEF Look, Open
    <3>2. CASE Rollback(c)
      BY <3>2 DEF Rollback, Safe, TypeOK, Open, Idle
    <3> QED  BY <1>2, <3>1, <3>2
  <2> QED  BY <1>1, <2>1, <2>2
<1>3. ASSUME NEW c \in Clients, Execute(c) PROVE ClosedSafe'
  <2>1. PICK cmd, run : /\ OpenSession(c, cmd, run)
                        /\ cmd.transition = "close_incident" => ReviewedPostmortem
    BY <1>3 DEF Execute
  <2> QED  BY <2>1, OpenSessionClosed
<1>4. ASSUME NEW c \in Clients, StartRun(c) PROVE ClosedSafe'
  <2>1. PICK id \in CommandIds, r \in Runs, actor \in Actors,
             t \in ObjectiveTransitions \cup {"continue_investigation"}, retry \in BOOLEAN :
            OpenSession(c, [Command(id, r, t, actor, c) EXCEPT !.retry = retry],
                        NewRun(incident.doc.state))
    BY <1>4 DEF StartRun
  <2>2. [Command(id, r, t, actor, c) EXCEPT !.retry = retry].transition # "close_incident"
    BY DEF Command, ObjectiveTransitions
  <2> QED  BY <2>1, <2>2, OpenSessionClosed
<1>5. ASSUME NEW c \in Clients, Commit(c) PROVE ClosedSafe'
  <2> DEFINE cmd == session[c].cmd
  <2>1. /\ Open(c) /\ cmd \in Commands /\ incident \in Incidents
        /\ incident' = [doc |-> ReduceIncident(cmd, incident), version |-> incident.version + 1]
        /\ session' = [session EXCEPT ![c] = Idle]
    BY <1>5, CommitFacts
  <2>2. postmortem' = postmortem
    BY <1>5 DEF Commit
  <2>3. incident'.doc.state = Workflow[cmd.transition].to
    BY <2>1, ReduceFacts
  <2>4. incident'.doc.state = "closed" => ReviewedPostmortem
    BY <2>1, <2>3, ClosedEdge DEF ClosedSafe, ClosingReviewed, Commands
  <2>5. \A d \in Clients : Open(d)' => Open(d) /\ session'[d] = session[d]
    BY <2>1 DEF Safe, TypeOK, Open, Idle
  <2> QED
    BY <2>2, <2>4, <2>5 DEF ClosedSafe, ClosingReviewed, ClosedAsReviewed, ReviewedPostmortem
<1>6. ASSUME WritePostmortem \/ ReviewDraft PROVE ClosedSafe'
  <2>1. UNCHANGED <<incident, session>> /\ ~PostmortemLocked
    BY <1>6 DEF WritePostmortem, ReviewDraft
  <2>2. incident.doc.state # "closed"
    BY <1>6 DEF WritePostmortem, ReviewDraft, SavePostmortem, ReviewPostmortem
  <2> QED
    BY <2>1, <2>2 DEF ClosedSafe, ClosingReviewed, ClosedAsReviewed, PostmortemLocked, Open
<1>7. CASE UNCHANGED vars
  BY <1>1, <1>7 DEF vars, Open
<1> QED
  BY <1>2, <1>3, <1>4, <1>5, <1>6, <1>7 DEF Next

\* close_incident: an incident is closed on the postmortem version a person approved, and no
\* write or review that races the closing, or comes after it, undoes that.
THEOREM ClosesAsReviewed == Spec => []ClosedAsReviewed
<1>1. Init => ClosedSafe
  BY DEF Init, Declared, DeclaredDoc, ClosedSafe, ClosingReviewed, ClosedAsReviewed, Open, Idle
<1>2. Safe /\ ClosedSafe /\ [Next]_vars => ClosedSafe'
  BY NextClosed
<1>3. ClosedSafe => ClosedAsReviewed
  BY DEF ClosedSafe
<1> QED  BY <1>1, <1>2, <1>3, RuntimeSafe, PTL DEF Spec
=============================================================================
