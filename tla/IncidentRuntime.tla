-------------------------- MODULE IncidentRuntime --------------------------
(***************************************************************************)
(* IncidentRuntime.execute and start_run under concurrent callers.  Each   *)
(* call is one READ COMMITTED transaction that reads the incident and its  *)
(* run without locking them, validates, and only then writes: every other  *)
(* transaction may commit between its read and its write.  What protects   *)
(* the incident is the advisory lock on the command's key, the replay      *)
(* check, and the compare-and-swap on both versions.  A call that is       *)
(* refused, finds its read stale or loses its connection writes nothing.   *)
(*                                                                         *)
(* Callers are people, who answer for the mitigation they last read        *)
(* (seen), the investigation harness and the system.  A version a caller   *)
(* states is checked against the read, so one already stale by then is     *)
(* refused without a step: only the answers' stale versions are kept.  The *)
(* harness is unconstrained here; InvestigationDispatch models when it     *)
(* runs.                                                                   *)
(***************************************************************************)
EXTENDS IncidentStore

CONSTANTS Clients,     \* concurrent callers
          MaxVersion,  \* bound: incident versions explored, the closing one aside
          MaxDrafts    \* bound: postmortem versions explored

ASSUME RuntimeAssumption ==
    /\ CommandIds \subseteq Nat
    /\ MaxVersion \in Nat /\ MaxDrafts \in Nat

VARIABLES session,  \* caller -> its open transaction
          seen      \* caller -> the incident version and mitigation it last read

vars == <<incident, runs, events, snapshots, commits, postmortem, session, seen>>

Idle == [pc |-> "idle"]
Sessions ==
    {Idle} \cup [pc : {"read"}, cmd : Commands, inc : [doc : Docs, version : Nat],
                 run : [doc : RunDocs, version : Nat]]

Open(c) == session[c].pc = "read"

\* lock_command: the advisory lock on the command's key is held until the transaction ends.
CommandLocked(id) == \E c \in Clients : Open(c) /\ session[c].cmd.id = id

PostmortemNeverLocked == FALSE

\* get(lock=True): closing holds the postmortem's row until its transaction ends.
PostmortemLocked ==
    \E c \in Clients : Open(c) /\ session[c].cmd.transition = "close_incident"

\* Keys are random; the model draws a fresh one in order, or sends a used one again.
Drawn(id) == \A k \in CommandIds : k < id => Committed(k) \/ CommandLocked(k)

Bounded == incident.version < MaxVersion \/ incident.doc.state = "postmortem"

-----------------------------------------------------------------------------
(* What callers send *)

Command(id, r, t, actor, c) ==
    [id |-> id, run |-> r, transition |-> t, actor |-> actor, approval |-> FALSE,
     outcome |-> "default", expected |-> NoVersion, retry |-> FALSE, operation |-> FALSE,
     executed |-> FALSE, dispatch |-> "none", reviewed |-> seen[c].mitigation]

\* resolve(HumanCommand): only approve_mitigation and close_incident carry an approval.
HumanCommands(id, r, c) ==
    LET answer(t) == [Command(id, r, t, "human", c) EXCEPT !.expected = seen[c].version] IN
    {[answer("apply_mitigation") EXCEPT !.approval = TRUE]}
      \cup {[answer("reject_mitigation") EXCEPT !.outcome = o] : o \in {"reject", "request_changes"}}
      \cup {[Command(id, r, t, "human", c) EXCEPT !.expected = incident.version] :
               t \in {"verification_passed", "verification_failed"}}
      \cup {[Command(id, r, "close_incident", "human", c) EXCEPT
                !.approval = TRUE, !.expected = incident.version]}

\* _runtime_command: a hypothesis, a mitigation or a verdict, at the version the harness read.
HarnessCommands(id, r, c) ==
    {[Command(id, r, t, "agent", c) EXCEPT !.expected = incident.version] :
        t \in {"continue_investigation", "propose_mitigation", "verification_passed",
               "verification_failed"}}

-----------------------------------------------------------------------------
(* Actions *)

\* A person reads the mitigation that waits for its answer.
Look(c) ==
    /\ ~Open(c)
    /\ incident.doc.state = "mitigating"
    /\ seen' = [seen EXCEPT ![c] = [version |-> incident.version,
                                    mitigation |-> incident.doc.mitigation.id]]
    /\ UNCHANGED <<storeVars, session>>

\* The key's lock is free and the key has no commit, which would only be replayed.
Claimable(id) == ~CommandLocked(id) /\ ~Committed(id)

\* The transaction opens: it holds its locks and its reads, and nothing is written yet.
OpenSession(c, cmd, run) ==
    /\ Aligned(incident.doc, run.doc)
    /\ Validate(cmd, incident)
    /\ session' = [session EXCEPT ![c] = [pc |-> "read", cmd |-> cmd, inc |-> incident,
                                          run |-> run]]
    /\ UNCHANGED <<storeVars, seen>>

\* execute, up to its write.
Execute(c) ==
    /\ ~Open(c)
    /\ Bounded
    /\ \E id \in {k \in CommandIds : Drawn(k)}, r \in {q \in Runs : Exists(q)} :
       /\ Claimable(id)
       /\ \E cmd \in HumanCommands(id, r, c) \cup HarnessCommands(id, r, c) :
              /\ cmd.transition = "close_incident" => ~PostmortemLocked /\ ReviewedPostmortem
              /\ OpenSession(c, cmd, runs[r])

\* start_run, up to its write: the new run's row is not visible before the commit.
StartRun(c) ==
    /\ ~Open(c)
    /\ Bounded
    /\ \E id \in CommandIds, r \in Runs, actor \in Actors, objective \in ObjectiveTransitions :
        LET retry == /\ objective = "start_investigation"
                     /\ incident.doc.state = "investigating"
            t == IF retry THEN "continue_investigation" ELSE objective
        IN
        /\ ~Exists(r)
        /\ \A o \in Clients : Open(o) => session[o].cmd.run # r
        /\ Drawn(id) /\ Claimable(id)
        /\ retry => actor \in {"human", "system"} /\ ~BesideLiveRun(incident.doc)
        /\ OpenSession(c, [Command(id, r, t, actor, c) EXCEPT !.retry = retry],
                       NewRun(incident.doc.state))

\* persist_transition and the commit.
Commit(c) ==
    /\ Open(c)
    /\ PersistTransition(session[c].cmd, session[c].inc, session[c].run, <<>>)
    /\ session' = [session EXCEPT ![c] = Idle]
    /\ UNCHANGED <<postmortem, seen>>

\* IncidentStaleWriteError, or the transaction's connection or process is lost.
Rollback(c) ==
    /\ Open(c)
    /\ session' = [session EXCEPT ![c] = Idle]
    /\ UNCHANGED <<storeVars, seen>>

\* PostmortemService.write and review: one transaction that first locks the artifact's row.
WritePostmortem ==
    /\ ~PostmortemLocked
    /\ postmortem.version < MaxDrafts
    /\ SavePostmortem
    /\ UNCHANGED <<incident, runs, events, snapshots, commits, session, seen>>

ReviewDraft ==
    /\ ~PostmortemLocked
    /\ \E approve \in BOOLEAN : ReviewPostmortem(approve)
    /\ UNCHANGED <<incident, runs, events, snapshots, commits, session, seen>>

Init ==
    /\ Declared
    /\ session = [c \in Clients |-> Idle]
    /\ seen = [c \in Clients |-> [version |-> 0, mitigation |-> 0]]

Next ==
    \/ \E c \in Clients : Look(c) \/ Execute(c) \/ StartRun(c) \/ Commit(c) \/ Rollback(c)
    \/ WritePostmortem
    \/ ReviewDraft

Spec == Init /\ [][Next]_vars

-----------------------------------------------------------------------------
(* Properties *)

ReviewTransitions == {"apply_mitigation", "reject_mitigation"}
\* The documents keep their shape: states and statuses of the contract, natural versions.
TypeOK ==
    /\ incident \in [doc : Docs, version : Nat]
    /\ runs \in [Runs -> [doc : RunDocs, version : Nat]]
    /\ events \in [Runs -> Seq(Events)]
    /\ snapshots \in [Runs -> [incident : Docs, run : RunDocs, version : Nat, upto : Nat]]
    /\ commits \subseteq [id : CommandIds, transition : Transitions, run : Runs, actor : Actors,
                          version : Nat, subject : Nat, reviewed : Nat]
    /\ postmortem \in [version : Nat, approved : Nat]
    /\ session \in [Clients -> Sessions]
    /\ seen \in [Clients -> [version : Nat, mitigation : Nat]]

\* A retried or doubly submitted command takes effect once: its key has one commit.
OneEffectPerCommand == \A a, b \in commits : a.id = b.id => a = b

\* No commit overwrites another: every version after the declaration's is one commit.
VersionCountsCommits == incident.version = Cardinality(commits) + 1

\* Every commit moves the incident along its own transition, from the state stored at that
\* moment, although its caller validated an earlier read.
FollowsWorkflow ==
    [][\A k \in commits' \ commits :
          /\ Workflow[k.transition].from = incident.doc.state
          /\ Workflow[k.transition].to = incident'.doc.state]_vars

\* A mitigation gets one answer: two people never both decide it.
OneDecisionPerMitigation ==
    \A a, b \in commits :
        /\ a.transition \in ReviewTransitions
        /\ b.transition \in ReviewTransitions
        /\ a.subject = b.subject
        => a = b

\* A person's answer applies to the mitigation they had read, never to one proposed since.
DecidesWhatWasReviewed ==
    \A k \in commits : k.transition \in ReviewTransitions => k.subject = k.reviewed

\* The incident closes on the postmortem version a person approved, whatever edits race it.
ClosedAsReviewed == incident.doc.state = "closed" => ReviewedPostmortem
=============================================================================
