--------------------------- MODULE HumanDecisions ---------------------------
(***************************************************************************)
(* Both surfaces a person decides from: the chat (ChatDecisions) and the   *)
(* console (web/incident-console, use-decision.ts), whose submissions keep *)
(* their key while they fail.  The page is taken to show one read of the   *)
(* incident; how its polls come to it is left out.                         *)
(***************************************************************************)
EXTENDS ChatDecisions

CONSTANTS Console,         \* the sender that carries out the console's commands
          MaxSubmissions   \* bound

ASSUME ConsoleAssumption == Console \in Senders \ Workers

VARIABLES submission,      \* the command a manual retry repeats
          submissions

pageVars == <<submission, submissions>>
vars == <<apiVars, chatVars, pageVars>>

NoSubmission == [choice |-> "", version |-> 0]

-----------------------------------------------------------------------------
\* A submission that failed is repeated under its key, while it is the same choice and version.
Repeats(choice) == submission = [choice |-> choice, version |-> incident.version]

decide(choice) ==
    /\ Waits /\ sender[Console] = Idle
    /\ Repeats(choice) \/ submissions < MaxSubmissions
    /\ submissions' = IF Repeats(choice) THEN submissions ELSE submissions + 1
    /\ submission' = [choice |-> choice, version |-> incident.version]
    /\ sender' = [sender EXCEPT ![Console] =
                    Request(choice, incident.version, <<"page", submissions'>>, incident.proposal)]
    /\ UNCHANGED <<records, upsets, chatVars>>

\* The answer ends the submission, unless it failed or never came.
DecisionAnswered ==
    /\ sender[Console].pc = "reply"
    /\ \/ /\ submission' = IF sender[Console].reply \in {"ok", "conflict", "refused"}
                           THEN NoSubmission ELSE submission
          /\ UNCHANGED upsets
       \/ Upset /\ UNCHANGED submission
    /\ sender' = [sender EXCEPT ![Console] = Idle]
    /\ UNCHANGED <<records, chatVars, submissions>>

-----------------------------------------------------------------------------
Init ==
    /\ ApiInit /\ ChatInit
    /\ submission = NoSubmission /\ submissions = 0

Api(s) == (Handles(s) /\ UNCHANGED chatVars) \/ Commit(s)

\* What the delivery loop, the tap workers, the API's handlers and the executor do by themselves.
System ==
    \/ \E s \in Senders : Api(s)
    \/ Executes /\ UNCHANGED chatVars
    \/ Delivery
    \/ \E w \in Workers : Carries(w)

Next ==
    \/ /\ \/ System
          \/ Propose
          \/ Patch /\ UNCHANGED chatVars
          \/ ApiDown /\ UNCHANGED chatVars
          \/ GatewayDown \/ Unlink \/ Link
          \/ \E i \in DOMAIN screen, choice \in Verdicts : Press(i, choice)
       /\ UNCHANGED pageVars
    \/ \E choice \in Verdicts : decide(choice)
    \/ DecisionAnswered

\* The processes go on for as long as one of them can; people, faults and crashes are under no
\* obligation.  Every one of their steps brings a finite amount of work closer to its end, so it
\* does not matter whose turn it is.
Spec == Init /\ [][Next]_vars /\ WF_vars(System /\ UNCHANGED pageVars)
=============================================================================
