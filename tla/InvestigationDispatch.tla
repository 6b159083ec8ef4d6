----------------------- MODULE InvestigationDispatch -----------------------
(***************************************************************************)
(* InvestigationRunDispatcher (gateway/investigation.py): how a committed  *)
(* run is claimed, investigated and finished, and how an applied           *)
(* mitigation is verified, by API processes that crash, restart and sweep. *)
(*                                                                         *)
(* A dispatch of a run writes an intent receipt when it is claimed and an  *)
(* outcome receipt when it ends; a session-level advisory lock on the run, *)
(* on a connection of its own, keeps a second dispatcher out meanwhile.    *)
(* Every unit of work is one step: its version checks make it so           *)
(* (IncidentRuntime), and the claim and the completion hold the run's      *)
(* event lock and its rows.  _finish writes before the dispatch lock is    *)
(* released and commits after it, but a claim that gets the dispatch lock  *)
(* in between waits for the event lock, so the two are one step here.      *)
(*                                                                         *)
(* The model's answer, the evidence and the executor's receipt are         *)
(* nondeterministic; a process runs one dispatch at a time, and what else  *)
(* it was handed waits in its memory (hooks).                              *)
(***************************************************************************)
EXTENDS IncidentStore

CONSTANTS Processes,    \* API processes
          EndReasons,   \* why a dispatch may end without a result
          MaxVersion,   \* bound: incident versions explored
          MaxHooks,     \* bound: hand-offs waiting in a process when a start is repeated
          MaxCrashes,   \* bound: process crashes
          MaxFailures,  \* bound: database errors met by a dispatcher
          LockLoss      \* whether the dispatch lock's connection may drop

MAX_REINVESTIGATIONS == 2

ASSUME DispatchAssumption ==
    /\ EndReasons \subseteq TerminatedReasons \ {"none"}
    /\ MaxVersion \in Nat /\ MaxHooks \in Nat /\ MaxCrashes \in Nat /\ MaxFailures \in Nat
    /\ LockLoss \in BOOLEAN

VARIABLES process,   \* process -> "up", "down" or "sweeping"
          worker,    \* process -> the dispatch it runs
          hooks,     \* process -> work it was handed and has not begun
          sweep,     \* process -> runs its startup sweep has still to end
          crashes, failures,
          gaveUp,    \* the chats were told that the retries are spent
          mover      \* history: the run that last moved the incident

dispatchVars == <<process, worker, hooks, sweep, crashes, failures, gaveUp, mover>>
vars == <<incident, runs, events, snapshots, commits, postmortem,
          process, worker, hooks, sweep, crashes, failures, gaveUp, mover>>

Idle == [pc |-> "idle"]
Busy(p, r) == worker[p].pc # "idle" /\ worker[p].run = r

\* The session-level advisory lock on a run's dispatches.
DispatchLocked(r) == \E p \in Processes : Busy(p, r) /\ worker[p].locked

\* A run is handed to the dispatcher when its first transition opened an investigation.
Investigates(r) ==
    /\ events[r] # <<>>
    /\ events[r][1].transition \in {"start_investigation", "continue_investigation"}

Hook(kind, r) == [kind |-> kind, run |-> r]
AddHook(p, hook) == hooks' = [hooks EXCEPT ![p] = @ \cup {hook}]

\* One unit of work of IncidentRuntime: its command against the rows it reads.
Accepts(cmd, run) ==
    /\ ~Committed(cmd.id)
    /\ Aligned(incident.doc, run.doc)
    /\ Validate(cmd, incident)
    /\ cmd.dispatch # "none" => DispatchOpen(cmd.run, cmd.dispatch)

Apply(cmd, run, log) ==
    /\ incident.version < MaxVersion
    /\ Accepts(cmd, run)
    /\ PersistTransition(cmd, incident, run, log)
    /\ mover' = cmd.run
    /\ UNCHANGED postmortem

Key(kind, r, n) == <<kind, r, n>>

Command(id, r, t, actor) ==
    [id |-> id, run |-> r, transition |-> t, actor |-> actor, approval |-> FALSE,
     outcome |-> "default", expected |-> NoVersion, retry |-> FALSE, operation |-> FALSE,
     executed |-> FALSE, dispatch |-> "none", reviewed |-> 0]

AppendEvents(r, log) == events' = [events EXCEPT ![r] = @ \o log]

-----------------------------------------------------------------------------
(* Claim *)

Busied(p, pc, r, d) ==
    [pc |-> pc, run |-> r, dispatch |-> d, view |-> 0, locked |-> FALSE]

\* claim_run_dispatch, its answer once the dispatch lock is held.  A verification counts only
\* its own receipts; an investigation any receipt of its run.
ClaimOf(r, d) ==
    LET counted == IF d = "investigate" THEN Dispatches ELSE {d} IN
    CASE HasReceipt(r, d, "outcome") -> "complete"
      [] ~HasReceipt(r, d, "outcome")
           /\ \E q \in counted, phase \in {"intent", "outcome"} : HasReceipt(r, q, phase)
           -> "interrupted"
      [] OTHER -> "claimed"

EndingUnlogged(d, status, patch) == <<Receipt(d, "outcome", status)>>

\* The events of a dispatch that ends its run.
Ending(d, status, patch) == <<Receipt(d, "outcome", status), RunTerminated(patch)>>

EndRun(r, d, status, reason) ==
    /\ AppendEvents(r, Ending(d, status, Termination(reason)))
    /\ runs' = [runs EXCEPT ![r].doc = PatchRun(@, Termination(reason))]
    /\ UNCHANGED <<incident, snapshots, commits, postmortem, mover>>

\* The claim of a hand-off, of its fallback or of the sweep; next is where a granted one goes on.
ClaimDispatch(p, next) ==
    LET w == worker[p]
        answer == IF DispatchLocked(w.run) THEN "active" ELSE ClaimOf(w.run, w.dispatch)
        leave == worker' = [worker EXCEPT ![p] = Idle]
    IN
    \/ /\ answer \in {"active", "complete"}
       /\ leave
       /\ UNCHANGED <<storeVars, mover>>
    \/ /\ answer = "interrupted"
       /\ EndRun(w.run, w.dispatch, "unknown", "needs_human")
       /\ leave
    \/ /\ answer = "claimed"
       /\ AppendEvents(w.run, <<Receipt(w.dispatch, "intent", "pending")>>)
       /\ worker' = [worker EXCEPT ![p].pc = next, ![p].locked = TRUE]
       /\ UNCHANGED <<incident, runs, snapshots, commits, postmortem, mover>>

Claim(p) ==
    /\ \/ worker[p].pc = "claim" /\ ClaimDispatch(p, "read")
       \/ worker[p].pc = "endclaim" /\ ClaimDispatch(p, "endfinish")
    /\ UNCHANGED <<process, hooks, sweep, crashes, failures, gaveUp>>

\* A database error during the claim: a hand-off falls back to ending its run, once.
ClaimFails(p) ==
    /\ failures < MaxFailures
    /\ \/ /\ worker[p].pc = "claim"
          /\ worker' = [worker EXCEPT ![p].pc = "endclaim"]
       \/ /\ worker[p].pc = "endclaim"
          /\ worker' = [worker EXCEPT ![p] = Idle]
    /\ failures' = failures + 1
    /\ UNCHANGED <<storeVars, process, hooks, sweep, crashes, gaveUp, mover>>

-----------------------------------------------------------------------------
(* Investigate *)

\* runtime.current: the view whose version every command of this turn carries.
Read(p) ==
    /\ worker[p].pc = "read"
    /\ worker' = [worker EXCEPT
                    ![p].pc = IF Aligned(incident.doc, runs[worker[p].run].doc) THEN "work"
                              ELSE "finish",
                    ![p].view = incident.version]
    /\ UNCHANGED <<storeVars, process, hooks, sweep, crashes, failures, gaveUp, mover>>

\* complete_run_dispatch ends nothing twice, and nothing that was not claimed.
Finish(p) ==
    LET w == worker[p] IN
    /\ w.pc \in {"finish", "endfinish"}
    /\ worker' = [worker EXCEPT ![p] = Idle]
    /\ IF DispatchOpen(w.run, w.dispatch)
       THEN EndRun(w.run, w.dispatch, "unknown", "needs_human")
       ELSE UNCHANGED <<storeVars, mover>>
    /\ UNCHANGED <<process, hooks, sweep, crashes, failures, gaveUp>>

\* The completion cannot be written: the dispatch lock goes with its unit of work and the
\* hand-off falls back to ending the run; a sweep or a fallback only logs the error.
FinishFails(p) ==
    /\ worker[p].pc \in {"work", "finish", "endfinish"}
    /\ failures < MaxFailures
    /\ worker' = [worker EXCEPT ![p] =
                    IF worker[p].pc = "endfinish" THEN Idle
                    ELSE Busied(p, "endclaim", worker[p].run, worker[p].dispatch)]
    /\ failures' = failures + 1
    /\ UNCHANGED <<storeVars, process, hooks, sweep, crashes, gaveUp, mover>>

\* The investigation ended without a result: denied, out of steps, invalid, unavailable.
EndsWithoutResult(p) ==
    LET w == worker[p] IN
    /\ w.pc = "work"
    /\ worker' = [worker EXCEPT ![p] = Idle]
    /\ \E reason \in EndReasons, status \in {"unknown", "confirmed_failure"} :
          /\ reason = "denied" => status = "confirmed_failure"
          /\ IF DispatchOpen(w.run, w.dispatch)
             THEN EndRun(w.run, w.dispatch, status, reason)
             ELSE UNCHANGED <<storeVars, mover>>
    /\ UNCHANGED <<process, hooks, sweep, crashes, failures, gaveUp>>

\* _runtime_command at the view's version.
HarnessCommand(p, t, id) ==
    [Command(id, worker[p].run, t, "agent") EXCEPT !.expected = worker[p].view]

\* _continue: a cited hypothesis with steps left.  Its command names no dispatch.
Continue(p) ==
    LET r == worker[p].run
        cmd == HarnessCommand(p, "continue_investigation", Key("turn", r, incident.version))
    IN
    /\ worker[p].pc = "work" /\ worker[p].dispatch = "investigate"
    /\ \/ /\ Apply(cmd, runs[r], <<InvestigationResult(FALSE, "none")>>)
          /\ worker' = [worker EXCEPT ![p].pc = "read"]
       \/ /\ ~Accepts(cmd, runs[r])
          /\ worker' = [worker EXCEPT ![p].pc = "finish"]
          /\ UNCHANGED <<storeVars, mover>>
    /\ UNCHANGED <<process, hooks, sweep, crashes, failures, gaveUp>>

\* _persist_result, an outcome with a transition: it commits with the dispatch's success
\* receipt.  A stale one, or one whose commit is uncertain, goes on to _finish.
Outcome(p, t, verdict) ==
    LET w == worker[p]
        r == w.run
        cmd == [HarnessCommand(p, t, Key(w.dispatch, r, 0)) EXCEPT
                  !.dispatch = w.dispatch, !.operation = (t = "propose_mitigation")]
        log == <<InvestigationResult(FALSE, verdict), Receipt(w.dispatch, "outcome", "success")>>
    IN
    /\ w.pc = "work"
    /\ UNCHANGED <<process, sweep, crashes, gaveUp>>
    /\ \/ /\ Apply(cmd, runs[r], log)
          /\ worker' = [worker EXCEPT ![p] = Idle]
          /\ IF t = "verification_failed" THEN AddHook(p, Hook("reinvestigate", r))
             ELSE UNCHANGED hooks
          /\ UNCHANGED failures
       \/ /\ failures < MaxFailures
          /\ Apply(cmd, runs[r], log)
          /\ worker' = [worker EXCEPT ![p].pc = "finish"]
          /\ failures' = failures + 1
          /\ UNCHANGED hooks
       \/ /\ ~Accepts(cmd, runs[r])
          /\ worker' = [worker EXCEPT ![p].pc = "finish"]
          /\ UNCHANGED <<storeVars, hooks, failures, mover>>

ProposeMitigation(p) ==
    /\ worker[p].pc = "work" /\ worker[p].dispatch = "investigate"
    /\ Outcome(p, "propose_mitigation", "none")

VerifyMitigation(p) ==
    /\ worker[p].pc = "work" /\ worker[p].dispatch = "verify"
    /\ \/ Outcome(p, "verification_passed", "passed")
       \/ Outcome(p, "verification_failed", "failed")

\* _persist_result, an outcome without a transition: the last step's hypothesis patches the
\* incident, a conclusion or a request for a person does not; the run ends with it.
EndsWithResult(p) ==
    LET w == worker[p]
        reasons == IF w.dispatch = "verify" THEN {"needs_human"}
                   ELSE {"completed", "max_steps", "needs_human"}
    IN
    /\ w.pc = "work"
    /\ UNCHANGED <<process, hooks, sweep, crashes, failures, gaveUp>>
    /\ \/ \E reason \in reasons :
            LET patch == Termination(reason)
                cites == reason = "max_steps"
            IN
            /\ DispatchOpen(w.run, w.dispatch)
            /\ incident.version = w.view
            /\ cites => incident.version < MaxVersion
            /\ incident' = IF cites THEN [doc |-> [incident.doc EXCEPT !.cited = TRUE],
                                          version |-> incident.version + 1]
                           ELSE incident
            /\ mover' = IF cites THEN w.run ELSE mover
            /\ AppendEvents(w.run, <<InvestigationResult(cites, "none"),
                                     Receipt(w.dispatch, "outcome", "success"),
                                     RunTerminated(patch)>>)
            /\ runs' = [runs EXCEPT ![w.run].doc = PatchRun(@, patch)]
            /\ worker' = [worker EXCEPT ![p] = Idle]
            /\ UNCHANGED <<snapshots, commits, postmortem>>
       \/ /\ ~DispatchOpen(w.run, w.dispatch)
          /\ worker' = [worker EXCEPT ![p] = Idle]
          /\ UNCHANGED <<storeVars, mover>>
       \/ /\ DispatchOpen(w.run, w.dispatch)
          /\ incident.version # w.view
          /\ worker' = [worker EXCEPT ![p].pc = "finish"]
          /\ UNCHANGED <<storeVars, mover>>

-----------------------------------------------------------------------------
(* Hand-offs *)

\* RunStartService: a person opens or retries the investigation, and its process dispatches it.
\* The same key sent again finds the run and hands it off once more.
StartInvestigation(p) ==
    /\ process[p] = "up"
    /\ \/ \E r \in Runs :
            LET retry == incident.doc.state = "investigating"
                t == IF retry THEN "continue_investigation" ELSE "start_investigation"
            IN
            /\ ~Exists(r)
            /\ retry => ~BesideLiveRun(incident.doc)
            /\ Apply([Command(Key("start", r, 0), r, t, "human") EXCEPT !.retry = retry],
                     NewRun(incident.doc.state), <<>>)
            /\ AddHook(p, Hook("dispatch", r))
       \/ \E r \in Runs :
            /\ Investigates(r)
            /\ Cardinality(hooks[p]) < MaxHooks
            /\ AddHook(p, Hook("dispatch", r))
            /\ UNCHANGED <<storeVars, mover>>
    /\ UNCHANGED <<process, worker, sweep, crashes, failures, gaveUp>>

\* RunCommandService.send: a person answers the mitigation or judges its result.  An approval
\* that ran an operation schedules its verification; a failed one schedules a new investigation.
Answer(p) ==
    /\ process[p] = "up"
    /\ \E r \in Runs, t \in {"apply_mitigation", "reject_mitigation", "verification_passed",
                             "verification_failed"}, executed \in BOOLEAN :
        /\ executed => t = "apply_mitigation" /\ incident.doc.mitigation.operation
        /\ Exists(r)
        /\ Apply([Command(Key("human", r, incident.version), r, t, "human") EXCEPT
                     !.approval = (t = "apply_mitigation"), !.expected = incident.version,
                     !.outcome = IF t = "reject_mitigation" THEN "reject" ELSE "default",
                     !.executed = executed], runs[r], <<>>)
        /\ CASE executed                   -> AddHook(p, Hook("verify", r))
             [] t = "verification_failed"  -> AddHook(p, Hook("reinvestigate", r))
             [] OTHER                      -> UNCHANGED hooks
    /\ UNCHANGED <<process, worker, sweep, crashes, failures, gaveUp>>

\* A hand-off begins: the run's dispatch, or its verification while the approval still stands.
HandOff(p) ==
    /\ process[p] = "up" /\ worker[p] = Idle
    /\ \E hook \in hooks[p] :
        LET r == hook.run
            stands == /\ Aligned(incident.doc, runs[r].doc)
                      /\ incident.doc.state = "verifying"
                      /\ incident.doc.mitigation.executed
        IN
        /\ hook.kind \in {"dispatch", "verify"}
        /\ hooks' = [hooks EXCEPT ![p] = @ \ {hook}]
        /\ worker' = [worker EXCEPT ![p] =
                        CASE hook.kind = "dispatch" -> Busied(p, "claim", r, "investigate")
                          [] hook.kind = "verify" /\ stands -> Busied(p, "claim", r, "verify")
                          [] OTHER -> Idle]
    /\ UNCHANGED <<storeVars, process, sweep, crashes, failures, gaveUp, mover>>

\* failed_mitigations: the failures the incident's events record.
Failures ==
    LET failed(r) == Cardinality({i \in DOMAIN events[r] :
                        /\ events[r][i].kind = "state_change"
                        /\ events[r][i].transition = "verification_failed"}) IN
    MapThenSumSet(failed, Runs)

GivesUpLate(failed) == failed > MAX_REINVESTIGATIONS + 1

GivesUp(failed) == failed > MAX_REINVESTIGATIONS

\* _reinvestigate: one key per failure, so a repeated hook finds the same run.
Reinvestigate(p) ==
    /\ process[p] = "up"
    /\ \E hook \in hooks[p] :
        LET id == Key("reinvestigate", DeclarationRun, Failures)
            begin(r) == [Command(id, r, "continue_investigation", "system") EXCEPT !.retry = TRUE]
            done == hooks[p] \ {hook}
        IN
        /\ hook.kind = "reinvestigate"
        /\ \/ /\ GivesUp(Failures)
              /\ gaveUp' = TRUE
              /\ hooks' = [hooks EXCEPT ![p] = done]
              /\ UNCHANGED <<storeVars, mover>>
           \/ /\ ~GivesUp(Failures) /\ ~BesideLiveRun(incident.doc)
              /\ \E r \in Runs :
                    /\ ~Exists(r)
                    /\ Apply(begin(r), NewRun(incident.doc.state), <<>>)
                    /\ hooks' = [hooks EXCEPT ![p] = done \cup {Hook("dispatch", r)}]
              /\ UNCHANGED gaveUp
           \/ /\ ~GivesUp(Failures)
              /\ Committed(id)
              /\ \E k \in commits :
                    /\ k.id = id
                    /\ hooks' = [hooks EXCEPT ![p] = done \cup {Hook("dispatch", k.run)}]
              /\ UNCHANGED <<storeVars, mover, gaveUp>>
           \/ /\ ~GivesUp(Failures) /\ ~Committed(id)
              /\ BesideLiveRun(incident.doc) \/ incident.doc.state # "investigating"
              /\ hooks' = [hooks EXCEPT ![p] = done]
              /\ UNCHANGED <<storeVars, mover, gaveUp>>
    /\ UNCHANGED <<process, worker, sweep, crashes, failures>>

\* A database error anywhere in it: the failure is logged and the hook is gone.
ReinvestigateFails(p) ==
    /\ process[p] = "up" /\ failures < MaxFailures
    /\ \E hook \in hooks[p] : /\ hook.kind = "reinvestigate"
                             /\ hooks' = [hooks EXCEPT ![p] = @ \ {hook}]
    /\ failures' = failures + 1
    /\ UNCHANGED <<storeVars, process, worker, sweep, crashes, gaveUp, mover>>

-----------------------------------------------------------------------------
(* Faults *)

\* The process dies: its work, its hand-offs and its locks are gone, its commits stay.
Crash(p) ==
    /\ process[p] # "down" /\ crashes < MaxCrashes
    /\ process' = [process EXCEPT ![p] = "down"]
    /\ worker' = [worker EXCEPT ![p] = Idle]
    /\ hooks' = [hooks EXCEPT ![p] = {}]
    /\ sweep' = [sweep EXCEPT ![p] = {}]
    /\ crashes' = crashes + 1
    /\ UNCHANGED <<storeVars, failures, gaveUp, mover>>

NothingInterrupted == {}

\* _INTERRUPTED_RUNS: running, with an intent and no outcome of any dispatch.
Interrupted ==
    {r \in Runs : /\ runs[r].doc.status = "running"
                  /\ \E d \in Dispatches : HasReceipt(r, d, "intent")
                  /\ ~\E d \in Dispatches : HasReceipt(r, d, "outcome")}

\* Startup: end_interrupted reads the runs to end, then ends them one by one before it serves.
Restart(p) ==
    /\ process[p] = "down"
    /\ process' = [process EXCEPT ![p] = "sweeping"]
    /\ sweep' = [sweep EXCEPT ![p] = Interrupted]
    /\ UNCHANGED <<storeVars, worker, hooks, crashes, failures, gaveUp, mover>>

Sweep(p) ==
    /\ process[p] = "sweeping" /\ worker[p] = Idle
    /\ \/ \E r \in sweep[p] :
            /\ sweep' = [sweep EXCEPT ![p] = @ \ {r}]
            /\ worker' = [worker EXCEPT ![p] = Busied(p, "endclaim", r, "investigate")]
            /\ UNCHANGED process
       \/ /\ sweep[p] = {}
          /\ process' = [process EXCEPT ![p] = "up"]
          /\ UNCHANGED <<sweep, worker>>
    /\ UNCHANGED <<storeVars, hooks, crashes, failures, gaveUp, mover>>

\* The dispatch lock's connection drops: PostgreSQL frees the lock, the dispatcher goes on.
LoseLock(p) ==
    /\ LockLoss
    /\ worker[p] # Idle /\ worker[p].locked
    /\ worker' = [worker EXCEPT ![p].locked = FALSE]
    /\ UNCHANGED <<storeVars, process, hooks, sweep, crashes, failures, gaveUp, mover>>

-----------------------------------------------------------------------------
Init ==
    /\ Declared
    /\ process = [p \in Processes |-> "up"]
    /\ worker = [p \in Processes |-> Idle]
    /\ hooks = [p \in Processes |-> {}]
    /\ sweep = [p \in Processes |-> {}]
    /\ crashes = 0 /\ failures = 0
    /\ gaveUp = FALSE
    /\ mover = DeclarationRun

\* What a dispatcher does by itself once it has a run.
Work(p) ==
    \/ Claim(p) \/ Read(p) \/ Finish(p) \/ EndsWithoutResult(p) \/ Continue(p)
    \/ ProposeMitigation(p) \/ VerifyMitigation(p) \/ EndsWithResult(p)

Next ==
    \E p \in Processes :
        \/ Work(p) \/ HandOff(p) \/ Reinvestigate(p) \/ Restart(p) \/ Sweep(p)
        \/ ClaimFails(p) \/ FinishFails(p) \/ ReinvestigateFails(p)
        \/ StartInvestigation(p) \/ Answer(p)
        \/ Crash(p) \/ LoseLock(p)

Spec == Init /\ [][Next]_vars

\* A dispatcher goes on (every call it makes has a timeout), a process takes up what it was
\* handed, and a dead one is restarted (compose: unless-stopped) and sweeps before it serves.
Fairness ==
    \A p \in Processes : /\ WF_vars(Work(p)) /\ WF_vars(HandOff(p))
                         /\ WF_vars(Reinvestigate(p))
                         /\ WF_vars(Restart(p)) /\ WF_vars(Sweep(p))

FairSpec == Spec /\ Fairness

-----------------------------------------------------------------------------
(* Properties *)

Receipts(r, d, phase) ==
    {i \in DOMAIN events[r] : /\ events[r][i].kind = "dispatch_receipt"
                              /\ events[r][i].dispatch = d
                              /\ events[r][i].phase = phase}

\* A dispatch has one intent and at most one outcome, whichever dispatchers, fallbacks and
\* sweeps meet on it, and the outcome follows the intent.
OneOutcomePerDispatch ==
    \A r \in Runs, d \in Dispatches :
        /\ Cardinality(Receipts(r, d, "intent")) <= 1
        /\ Cardinality(Receipts(r, d, "outcome")) <= 1
        /\ \A o \in Receipts(r, d, "outcome") : \E i \in Receipts(r, d, "intent") : i < o

\* The run that last moved the incident rebuilds it, run and incident patches included.
ReplayFaithful == ReplayMatches(mover)

\* Someone will end a dispatch: the process that runs it or its fallback, a sweep, or the
\* sweep of a process that is to start again.
Owned(r) ==
    \E p \in Processes : Busy(p, r) \/ r \in sweep[p] \/ process[p] = "down"

\* A sweep or a fallback may itself meet a database error: it only logs it.  A fallback
\* already has an error behind it, and a sweep a crash.
EndMayHaveFailed == failures > 1 \/ (failures = 1 /\ crashes > 0)

\* No investigation is abandoned: while its dispatch has an intent and no outcome, a process
\* runs it or a startup will end it.
InvestigationsOwned ==
    ~EndMayHaveFailed => \A r \in Runs : DispatchOpen(r, "investigate") => Owned(r)

\* And so every claimed investigation gets its outcome, through crashes and restarts.
InvestigationsEnd ==
    \A r \in Runs : HasReceipt(r, "investigate", "intent")
                        ~> HasReceipt(r, "investigate", "outcome") \/ EndMayHaveFailed

\* The system retries an incident's investigation MAX_REINVESTIGATIONS times; once a further
\* verification fails, a person is told, unless a database error met the hand-off.
GivesUpAloud == Failures > MAX_REINVESTIGATIONS ~> gaveUp \/ failures > 0

=============================================================================
