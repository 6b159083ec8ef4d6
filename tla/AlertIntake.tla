---------------------------- MODULE AlertIntake ----------------------------
(***************************************************************************)
(* Alert episodes of one service and their triage: Grafana's deliveries    *)
(* (gateway/alert_intake.py), repeated, concurrent and out of order, open  *)
(* or join an incident through the triage command (triage/service.py),     *)
(* which people also send; handlers stop half-way when the process or the  *)
(* database does.                                                          *)
(*                                                                         *)
(* A delivery is one alert's way through receive: recorded, looked up,     *)
(* triaged and marked, each in a transaction of its own.  The triage       *)
(* command is one step: its idempotency row keeps a second claim waiting   *)
(* until the first commits.  Services share no row, so all episodes are of *)
(* one.  An incident's id is derived from the key that declared it.        *)
(***************************************************************************)
EXTENDS Integers, FiniteSets, Sequences

CONSTANTS Episodes,   \* fingerprint and start of an alert
          Handlers,   \* deliveries being handled
          MayStart,   \* whether the intake's operator may start runs
          MaxStops,   \* bound: handlers that stop half-way
          MaxTriage   \* bound: decisions recorded for an alert when a person adds one

ASSUME IntakeAssumption == MayStart \in BOOLEAN /\ MaxStops \in Nat /\ MaxTriage \in Nat

VARIABLES episodes,   \* alert_episodes: episode -> status, incident and run
          triage,     \* alert_triage: episode -> the decision and its version
          bindings,   \* the idempotency record of each episode's intake key
          incidents,  \* the incidents of the service, oldest first
          handler,    \* handler -> the delivery it works on
          dispatched, \* incidents whose run was handed to the dispatcher
          stops

vars == <<episodes, triage, bindings, incidents, handler, dispatched, stops>>

None == <<"none">>
Senders == {"intake", "person"}
IncidentIds == Senders \X Episodes
TERMINAL_STATES == {"dismissed", "linked", "declared"}

\* Triage commands; target is the incident a link names.
Command(op, target) == [op |-> op, target |-> target]
Commands == [op : {"open_triage", "triage_dismiss", "triage_link", "triage_declare"},
             target : IncidentIds \cup {None}]
STATES == [open_triage |-> "open", triage_dismiss |-> "dismissed", triage_link |-> "linked",
           triage_declare |-> "declared"]

Unbound == [bound |-> FALSE, command |-> Command("open_triage", None), incident |-> None]
NoHandler == [pc |-> "idle"]

Declared(i) == \E n \in DOMAIN incidents : incidents[n].id = i
Eligible(i) == \E n \in DOMAIN incidents : incidents[n].id = i /\ incidents[n].open

-----------------------------------------------------------------------------
(* TriageService.execute *)

DecidedNever(e) == FALSE

\* The decision so far is final: dismissed, linked or declared.
Decided(e) == triage[e].status \in TERMINAL_STATES

\* The command runs: the version it expects, no final decision, a target still open, an
\* incident id nobody declared.
Allowed(sender, e, expected, cmd) ==
    /\ triage[e].version = 0 => expected = 1
    /\ triage[e].version # 0 => triage[e].version = expected
    /\ ~Decided(e)
    /\ cmd.op = "triage_link" => Eligible(cmd.target)
    /\ cmd.op = "triage_declare" => ~Declared(<<sender, e>>)

\* The incident a command opens or joins.
IncidentOf(sender, e, cmd) ==
    CASE cmd.op = "triage_declare" -> <<sender, e>>
      [] cmd.op = "triage_link"    -> cmd.target
      [] OTHER                     -> None

\* The decision, the incident with its run, all in one transaction.
Decide(sender, e, cmd) ==
    /\ triage' = [triage EXCEPT ![e] = [status |-> STATES[cmd.op], version |-> @.version + 1,
                                        incident |-> IncidentOf(sender, e, cmd)]]
    /\ incidents' = IF cmd.op = "triage_declare"
                    THEN Append(incidents, [id |-> <<sender, e>>, open |-> TRUE])
                    ELSE incidents

ClaimKept(e, cmd, allowed) ==
    [bound |-> TRUE, command |-> cmd,
     incident |-> IF allowed THEN IncidentOf("intake", e, cmd) ELSE None]

\* claim_or_replay: a refused command rolls its claim back.
Claim(e, cmd, allowed) ==
    IF allowed THEN [bound |-> TRUE, command |-> cmd, incident |-> IncidentOf("intake", e, cmd)]
    ELSE Unbound

-----------------------------------------------------------------------------
(* AlertIntakeService *)

Stops(h) == handler' = [handler EXCEPT ![h] = NoHandler]

\* _UPSERT: a resolved episode stays resolved.
Upsert(row, status) == [row EXCEPT !.status = IF @ = "resolved" THEN @ ELSE status]

Dispatch(i, run) == dispatched' = IF run THEN dispatched \cup {i} ELSE dispatched

\* _record, and what the row it returns leads to.
Deliver(h, e, status) ==
    LET row == Upsert(episodes[e], status) IN
    /\ handler[h] = NoHandler
    /\ episodes' = [episodes EXCEPT ![e] = row]
    /\ IF row.status = "firing" /\ row.incident = None
       THEN /\ handler' = [handler EXCEPT ![h] = [pc |-> "lookup", episode |-> e]]
            /\ UNCHANGED dispatched
       ELSE /\ Dispatch(row.incident, row.status = "firing" /\ row.run)
            /\ UNCHANGED handler
    /\ UNCHANGED <<triage, bindings, incidents, stops>>

\* _TARGET: the oldest incident still open.
Target ==
    LET open == {n \in DOMAIN incidents : incidents[n].open} IN
    IF open = {} THEN None ELSE incidents[CHOOSE n \in open : \A m \in open : n <= m].id

Lookup(h) ==
    LET cmd == IF Target = None THEN Command("triage_declare", None)
               ELSE Command("triage_link", Target) IN
    /\ handler[h].pc = "lookup"
    /\ handler' = [handler EXCEPT ![h] =
                     [pc |-> "triage", episode |-> handler[h].episode, command |-> cmd]]
    /\ UNCHANGED <<episodes, triage, bindings, incidents, dispatched, stops>>

\* The intake's triage command, its result or its refusal.
Triage(h) ==
    LET e == handler[h].episode
        cmd == handler[h].command
        allowed == Allowed("intake", e, 1, cmd)
        marks(i) == handler' = [handler EXCEPT ![h] =
                       [pc |-> "mark", episode |-> e, incident |-> i,
                        run |-> MayStart /\ cmd.op = "triage_declare"]]
    IN
    /\ handler[h].pc = "triage"
    /\ \/ /\ bindings[e].bound /\ bindings[e].command = cmd
          /\ marks(bindings[e].incident)
          /\ UNCHANGED <<triage, incidents, bindings>>
       \/ /\ bindings[e].bound /\ bindings[e].command # cmd
          /\ Stops(h)
          /\ UNCHANGED <<triage, incidents, bindings>>
       \/ /\ ~bindings[e].bound
          /\ bindings' = [bindings EXCEPT ![e] = Claim(e, cmd, allowed)]
          /\ IF allowed THEN Decide("intake", e, cmd) /\ marks(IncidentOf("intake", e, cmd))
             ELSE Stops(h) /\ UNCHANGED <<triage, incidents>>
    /\ UNCHANGED <<episodes, dispatched, stops>>

\* _OPENED, and the dispatch after the response.
Mark(h) ==
    LET w == handler[h] IN
    /\ w.pc = "mark"
    /\ episodes' = [episodes EXCEPT ![w.episode].incident = w.incident, ![w.episode].run = w.run]
    /\ Dispatch(w.incident, w.incident # None /\ w.run)
    /\ Stops(h)
    /\ UNCHANGED <<triage, bindings, incidents, stops>>

\* The process dies, the database fails, or there is no active operator to act for.
Stop(h) ==
    /\ handler[h] # NoHandler /\ stops < MaxStops
    /\ stops' = stops + 1
    /\ Stops(h)
    /\ UNCHANGED <<episodes, triage, bindings, incidents, dispatched>>

-----------------------------------------------------------------------------
(* People *)

\* A person triages the alert from the console, at the version it shows, with a fresh key.
PersonTriages(e, cmd) ==
    LET shown == IF triage[e].version = 0 THEN 1 ELSE triage[e].version IN
    /\ episodes[e].status # "none"
    /\ triage[e].version < MaxTriage
    /\ Allowed("person", e, shown, cmd)
    /\ Decide("person", e, cmd)
    /\ Dispatch(<<"person", e>>, MayStart /\ cmd.op = "triage_declare")
    /\ UNCHANGED <<episodes, bindings, handler, stops>>

\* An incident leaves the states a link may join.
Resolve(n) ==
    /\ incidents[n].open
    /\ incidents' = [incidents EXCEPT ![n].open = FALSE]
    /\ UNCHANGED <<episodes, triage, bindings, handler, dispatched, stops>>

-----------------------------------------------------------------------------
Init ==
    /\ episodes = [e \in Episodes |-> [status |-> "none", incident |-> None, run |-> FALSE]]
    /\ triage = [e \in Episodes |-> [status |-> "none", version |-> 0, incident |-> None]]
    /\ bindings = [e \in Episodes |-> Unbound]
    /\ incidents = <<>>
    /\ handler = [h \in Handlers |-> NoHandler]
    /\ dispatched = {}
    /\ stops = 0

Next ==
    \/ \E h \in Handlers :
        \/ \E e \in Episodes, status \in {"firing", "resolved"} : Deliver(h, e, status)
        \/ Lookup(h) \/ Triage(h) \/ Mark(h) \/ Stop(h)
    \/ \E e \in Episodes, cmd \in Commands :
        (cmd.op = "triage_link") = (cmd.target # None) /\ PersonTriages(e, cmd)
    \/ \E n \in DOMAIN incidents : Resolve(n)

Spec == Init /\ [][Next]_vars

\* A handler goes on, and Grafana repeats an alert for as long as it fires.
Fairness ==
    /\ \A h \in Handlers : WF_vars(Lookup(h)) /\ WF_vars(Triage(h)) /\ WF_vars(Mark(h))
    /\ \A e \in Episodes : SF_vars(episodes[e].status = "firing"
                                     /\ \E h \in Handlers : Deliver(h, e, "firing"))

FairSpec == Spec /\ Fairness

-----------------------------------------------------------------------------
(* Properties *)

\* An alert opens at most one incident, its deliveries and a person's declaration together,
\* and the incident its episode shows is the one its decision names, whoever triages it
\* while deliveries are being handled.
OneIncidentPerAlert ==
    \A e \in Episodes :
        /\ ~(Declared(<<"intake", e>>) /\ Declared(<<"person", e>>))
        /\ episodes[e].incident # None => triage[e].incident = episodes[e].incident

\* While nothing stops half-way, every firing episode gets its incident, unless a person
\* took it up or it resolves: an incident closed in between and a concurrent delivery cost at
\* most a redelivery.
FiringGetsIncident ==
    \A e \in Episodes :
        episodes[e].status = "firing" ~>
            \/ episodes[e].incident # None \/ episodes[e].status = "resolved"
            \/ triage[e].status # "none" /\ ~bindings[e].bound
            \/ stops > 0
=============================================================================
