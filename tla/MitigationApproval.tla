------------------------- MODULE MitigationApproval -------------------------
(***************************************************************************)
(* A person's decision on a proposed mitigation as the API carries it out  *)
(* (RunCommandService.send, gateway/runs.py; OperationExecutor.run,        *)
(* gateway/execution.py): an approval is checked, its operation is run by  *)
(* the deploy-executor, audited, and only then committed.                  *)
(*                                                                         *)
(* One incident and one run of it.  The incident is what a decision reads  *)
(* and writes: its state, version and current proposal; the runtime around *)
(* it is IncidentRuntime's.  The executor is its promise, OperationOnce.   *)
(* A sender is one request being carried out: a chat worker's tap or the   *)
(* console's command.                                                      *)
(***************************************************************************)
EXTENDS Integers, Sequences, FiniteSets

CONSTANTS Senders,       \* requests carried out side by side
          MaxProposals,
          Executable,    \* the proposals with a catalog operation; the others are free text
          MaxUpsets,     \* bound: upsets and changes under the decision's feet
          Commands       \* idempotency keys of commands

ASSUME ProposalsAssumption == MaxProposals \in Nat

VARIABLES incident,   \* its state, version and current proposal
          sender,     \* sender -> its request
          posted,     \* operation keys the executor has been asked for
          runs, kept, \* the executor (OperationOnce)
          audited,    \* operation keys with a success in the audit
          recorded,   \* commands the incident has on record
          decided,    \* history: the decisions, and what the person had in view
          upsets

records == <<incident, posted, runs, kept, audited, recorded, decided>>
apiRest == <<records, sender>>
apiVars == <<apiRest, upsets>>

Proposals == 1..MaxProposals
Verdicts == {"approve", "reject"}
NoKey == <<"none", 0>>
OperationKeys == Proposals \X (Commands \cup {NoKey})
Idle == [pc |-> "idle"]

Upset == upsets < MaxUpsets /\ upsets' = upsets + 1

Executor == INSTANCE OperationOnce
                WITH Keys <- OperationKeys, Targets <- {"applied"}, answers <- {}

\* A verified request: what it decides, on which version, and what its sender had in view.
Request(choice, version, command, shown) ==
    [pc |-> "check", choice |-> choice, version |-> version, command |-> command,
     shown |-> shown, proposal |-> 0, reply |-> ""]

Replied(s, reply) == sender' = [sender EXCEPT ![s] = [@ EXCEPT !.pc = "reply", !.reply = reply]]

Waits == incident.state = "mitigating"

-----------------------------------------------------------------------------
(* The rest of the incident: what moves under a decision *)

\* propose_mitigation: the investigation ends in a proposal, with a catalog operation or free text.
Proposed ==
    /\ incident.state = "investigating" /\ incident.proposal < MaxProposals
    /\ incident' = [state |-> "mitigating", version |-> incident.version + 1,
                    proposal |-> incident.proposal + 1]
    /\ UNCHANGED <<sender, posted, runs, kept, audited, recorded, decided>>

\* An event-only write of a dispatch moves the version and nothing else.
Patch ==
    /\ Waits /\ Upset
    /\ incident' = [incident EXCEPT !.version = @ + 1]
    /\ UNCHANGED <<sender, posted, runs, kept, audited, recorded, decided>>

-----------------------------------------------------------------------------
(* RunCommandService.send *)

\* Whether the approval has something to run: the proposal is the one reviewed and names one.
\* Otherwise the runtime replays the command or refuses it as stale.
RunsSomething(s) == Waits /\ incident.proposal \in Executable /\ incident.version = sender[s].version

\* The idempotency key sent to the executor: one for each proposal of the run.
KeyPerCommand(s, proposal) == <<proposal, sender[s].command>>
OperationKey(s, proposal) == <<proposal, NoKey>>

\* The body's shape and the principal, then what an approval must pass before its operation is
\* called: the configuration, the catalog and the agent's grant may each refuse, which the
\* timeline tells and nothing else moves.  The signed call may be lost on its way.
Check(s) ==
    /\ sender[s].pc = "check"
    /\ \/ /\ sender[s].choice = "reject" \/ ~RunsSomething(s)
          /\ sender' = [sender EXCEPT ![s].pc = "commit"]
          /\ UNCHANGED <<posted, upsets>>
       \/ /\ Upset /\ Replied(s, "denied")
          /\ UNCHANGED posted
       \/ /\ sender[s].choice = "approve" /\ RunsSomething(s)
          /\ \/ /\ Upset /\ Replied(s, "refused")
                /\ UNCHANGED posted
             \/ /\ sender' = [sender EXCEPT ![s] = [@ EXCEPT !.pc = "wait",
                                                             !.proposal = incident.proposal]]
                /\ \/ posted' = posted \cup {OperationKey(s, incident.proposal)} /\ UNCHANGED upsets
                   \/ UNCHANGED posted /\ Upset
    /\ UNCHANGED <<incident, runs, kept, audited, recorded, decided>>

\* The executor, which goes on whether or not its caller still waits.
ExecutorRuns(k) ==
    /\ k \in posted
    /\ Executor!Run(k)
    /\ UNCHANGED <<incident, sender, posted, audited, recorded, decided, upsets>>

ExecutorSettles(k) ==
    /\ k \in posted
    /\ kept[k] = "open"
    /\ \/ kept' = [kept EXCEPT ![k] = "applied"] /\ UNCHANGED upsets
       \/ kept' = [kept EXCEPT ![k] = "failed"] /\ Upset
    /\ Executor!Settle(k)
    /\ UNCHANGED <<incident, sender, posted, audited, recorded, decided>>

TimeoutTrusted(s) == "commit"

\* Where a call without a usable answer leads: a refusal, and the incident stays as it was.
Unanswered(s) == "reply"

\* The answer is what the key keeps, or nothing usable in time (a lost call, an executor down or
\* slow), whatever the executor does meanwhile.  A success is audited before anything moves; one
\* that cannot be is not answered, and the retry sends the same key.
Answered(s) ==
    LET k == OperationKey(s, sender[s].proposal) IN
    /\ sender[s].pc = "wait"
    /\ \/ /\ kept[k] = "applied"
          /\ audited' = audited \cup {k}
          /\ sender' = [sender EXCEPT ![s].pc = "commit"]
          /\ UNCHANGED upsets
       \/ /\ kept[k] = "applied" /\ Upset
          /\ Replied(s, "failed")
          /\ UNCHANGED audited
       \/ /\ kept[k] = "failed"
          /\ Replied(s, "refused")
          /\ UNCHANGED <<audited, upsets>>
       \/ /\ Upset \/ (k \notin posted /\ UNCHANGED upsets)
          /\ sender' = [sender EXCEPT ![s] = [@ EXCEPT !.pc = Unanswered(s), !.reply = "refused"]]
          /\ UNCHANGED audited
    /\ UNCHANGED <<incident, posted, runs, kept, recorded, decided>>

\* The version precondition of a decision (runtime.execute).
Current(s) == Waits /\ incident.version = sender[s].version

\* runtime.execute: a command on record is replayed, a stale one refused; a commit may fail.
Decides(s) ==
    /\ sender[s].pc = "commit"
    /\ sender[s].command \notin recorded /\ Current(s)
    /\ incident' = [incident EXCEPT
                      !.state = IF sender[s].choice = "approve" THEN "verifying"
                                ELSE "investigating",
                      !.version = @ + 1]
    /\ recorded' = recorded \cup {sender[s].command}
    /\ decided' = decided \cup
         {[proposal |-> incident.proposal, choice |-> sender[s].choice,
           shown |-> sender[s].shown, via |-> sender[s].command[1]]}
    /\ Replied(s, "ok")
    /\ UNCHANGED <<posted, runs, kept, audited, upsets>>

DecidesNothing(s) ==
    /\ sender[s].pc = "commit"
    /\ \/ /\ sender[s].command \in recorded
          /\ Replied(s, "ok")
          /\ UNCHANGED upsets
       \/ /\ sender[s].command \notin recorded /\ ~Current(s)
          /\ Replied(s, "conflict")
          /\ UNCHANGED upsets
       \/ Upset /\ Replied(s, "failed")
    /\ UNCHANGED records

\* The API dies with every request it was carrying out.
ApiDown ==
    /\ Upset
    /\ sender' = [s \in Senders |-> Idle]
    /\ UNCHANGED records

ApiInit ==
    /\ incident = [state |-> "investigating", version |-> 1, proposal |-> 0]
    /\ sender = [s \in Senders |-> Idle]
    /\ posted = {}
    /\ runs = [k \in OperationKeys |-> 0] /\ kept = [k \in OperationKeys |-> "open"]
    /\ audited = {} /\ recorded = {} /\ decided = {}
    /\ upsets = 0

Handles(s) == Check(s) \/ Answered(s)
Executes == \E k \in posted : ExecutorRuns(k) \/ ExecutorSettles(k)

-----------------------------------------------------------------------------
(* Properties *)

\* "Verifying means it ran" (runs.py): an approval whose proposal names an operation is committed
\* only when the executor has kept its success and the audit has it, through lost calls, answers
\* that come late, audits that fail, retries and crashes of the API.
VerifyingMeansItRan ==
    \A d \in decided : d.choice = "approve" /\ d.proposal \in Executable =>
        \E k \in audited : k[1] = d.proposal /\ kept[k] = "applied"

\* A proposal's operation runs at most once, whoever approves it, from the chat or the console,
\* and however often a tap is claimed again or a submission retried.
OneRunPerProposal ==
    \A j, k \in OperationKeys : runs[j] > 0 /\ runs[k] > 0 /\ j[1] = k[1] => j = k
=============================================================================
