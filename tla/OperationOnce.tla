---------------------------- MODULE OperationOnce ----------------------------
(***************************************************************************)
(* What the deploy-executor promises a caller of an operation, whatever    *)
(* Docker, the journal and the process do: a key's operation runs at most  *)
(* once, its outcome is settled at most once and stays, and only a settled *)
(* success is answered as one.                                             *)
(***************************************************************************)
EXTENDS Naturals

CONSTANTS Keys, Targets

VARIABLES runs,     \* key -> how often its operation ran
          kept,     \* key -> the target it reached, failed, or open
          answers   \* the answers sent

onceVars == <<runs, kept, answers>>

OnceInit ==
    /\ runs = [k \in Keys |-> 0]
    /\ kept = [k \in Keys |-> "open"]
    /\ answers = {}

\* What the step answers, if anything: a success only when it is what the key keeps.
Told(k) ==
    /\ answers \subseteq answers'
    /\ \A a \in answers' \ answers : a.key = k /\ (a.status = 200 => kept'[k] = a.target)

\* The operation runs; the request may end in the same step, without an outcome.
Run(k) ==
    /\ runs[k] = 0 /\ kept[k] = "open"
    /\ runs' = [runs EXCEPT ![k] = 1]
    /\ UNCHANGED kept
    /\ Told(k)

\* The outcome is kept: also one reached without a run.
Settle(k) ==
    /\ kept[k] = "open"
    /\ \E outcome \in Targets \cup {"failed"} : kept' = [kept EXCEPT ![k] = outcome]
    /\ UNCHANGED runs
    /\ Told(k)

\* A request is answered from what is kept.
Tell(k) ==
    /\ UNCHANGED <<runs, kept>>
    /\ Told(k)

OnceNext == \E k \in Keys : Tell(k) \/ Run(k) \/ Settle(k)

OnceSpec == OnceInit /\ [][OnceNext]_onceVars
=============================================================================
