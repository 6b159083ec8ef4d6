------------------------- MODULE AlertIntakeProofs -------------------------
(***************************************************************************)
(* Proofs about AlertIntake: however many deliveries of an alert are       *)
(* handled at once, repeated or cut off, and whatever people decide in     *)
(* between, the alert opens one incident and shows the one decided.        *)
(***************************************************************************)
EXTENDS AlertIntake, TLAPS

Incidents == IncidentIds \cup {None}
Rows == [status : {"none", "firing", "resolved"}, incident : Incidents, run : BOOLEAN]
Decisions == [status : {"none", "open"} \cup TERMINAL_STATES, version : Nat, incident : Incidents]
IncidentRows == [id : IncidentIds, open : BOOLEAN]

Types ==
    /\ episodes \in [Episodes -> Rows]
    /\ triage \in [Episodes -> Decisions]
    /\ bindings = [e \in Episodes |-> bindings[e]]
    /\ handler = [h \in Handlers |-> handler[h]]
    /\ incidents \in Seq(IncidentRows)

\* The incident is the one the alert's final decision names.
Final(e, i) == Decided(e) /\ triage[e].incident = i

\* A delivery links or declares, and marks what was decided.
HandlerKnows(h) ==
    /\ handler[h].pc \in {"idle", "lookup", "triage", "mark"}
    /\ handler[h].pc # "idle" => handler[h].episode \in Episodes
    /\ handler[h].pc = "triage" => handler[h].command.op \in {"triage_link", "triage_declare"}
    /\ handler[h].pc = "mark" =>
           handler[h].run \in BOOLEAN /\ Final(handler[h].episode, handler[h].incident)

\* The intake's idempotency key is bound by a final decision only.
BoundFinal == \A e \in Episodes : bindings[e].bound => Final(e, bindings[e].incident)

ShownFinal ==
    \A e \in Episodes : episodes[e].incident # None => Final(e, episodes[e].incident)

\* An incident is declared by the alert's final decision.
DeclaredFinal ==
    \A s \in Senders, e \in Episodes : Declared(<<s, e>>) => Final(e, <<s, e>>)

IntakeSafe ==
    /\ Types /\ \A h \in Handlers : HandlerKnows(h)
    /\ BoundFinal /\ ShownFinal /\ DeclaredFinal

-----------------------------------------------------------------------------
\* Nothing has been delivered or decided.
LEMMA InitIntakeSafe == Init => IntakeSafe
<1> SUFFICES ASSUME Init PROVE IntakeSafe
  OBVIOUS
<1>1. Types
  BY DEF Init, Types, Rows, Decisions, Incidents
<1>2. \A h \in Handlers : HandlerKnows(h)
  BY DEF Init, HandlerKnows, NoHandler
<1>3. BoundFinal /\ ShownFinal
  BY DEF Init, BoundFinal, ShownFinal, Unbound
<1>4. DeclaredFinal
  BY DEF Init, DeclaredFinal, Declared
<1> QED  BY <1>1, <1>2, <1>3, <1>4 DEF IntakeSafe

\* A step that decides nothing leaves every final decision and every incident as it is.
LEMMA NothingDecided ==
    ASSUME IntakeSafe, UNCHANGED <<triage, incidents>>, Types',
           \A h \in Handlers : HandlerKnows(h)',
           BoundFinal', ShownFinal'
    PROVE  IntakeSafe'
<1>1. DeclaredFinal'
  BY DEF IntakeSafe, DeclaredFinal, Declared, Final, Decided
<1> QED  BY <1>1 DEF IntakeSafe

\* A decision: the alert had no final one, so the final decisions of all alerts stay, and an
\* incident it declares is the alert's first.
LEMMA DecideKeeps ==
    ASSUME IntakeSafe, NEW s \in Senders, NEW e \in Episodes, NEW cmd, NEW expected,
           cmd.op \in {"open_triage", "triage_dismiss", "triage_link", "triage_declare"},
           Allowed(s, e, expected, cmd), Decide(s, e, cmd)
    PROVE  /\ triage' \in [Episodes -> Decisions] /\ incidents' \in Seq(IncidentRows)
           /\ \A f \in Episodes : \A i : Final(f, i) => Final(f, i)'
           /\ cmd.op \in {"triage_link", "triage_declare"} => Final(e, IncidentOf(s, e, cmd))'
           /\ DeclaredFinal'
<1> DEFINE i == IncidentOf(s, e, cmd)
           decision == [status |-> STATES[cmd.op], version |-> triage[e].version + 1, incident |-> i]
<1>1. triage \in [Episodes -> Decisions] /\ incidents \in Seq(IncidentRows)
  BY DEF IntakeSafe, Types
<1>2. <<s, e>> \in IncidentIds
  BY DEF IncidentIds
<1>3. cmd.op = "triage_link" => cmd.target \in IncidentIds
  <2> SUFFICES ASSUME cmd.op = "triage_link" PROVE cmd.target \in IncidentIds
    OBVIOUS
  <2>1. PICK n \in DOMAIN incidents : incidents[n].id = cmd.target
    BY DEF Allowed, Eligible
  <2>2. incidents[n] \in IncidentRows
    BY <1>1, <2>1
  <2> QED  BY <2>1, <2>2 DEF IncidentRows
<1>4. i \in Incidents
  BY <1>2, <1>3 DEF IncidentOf, Incidents
<1>5. /\ STATES[cmd.op] \in {"open"} \cup TERMINAL_STATES
      /\ cmd.op \in {"triage_link", "triage_declare"} => STATES[cmd.op] \in TERMINAL_STATES
      /\ cmd.op = "triage_declare" => i = <<s, e>>
  BY DEF STATES, TERMINAL_STATES, IncidentOf
<1>6. triage[e].version + 1 \in Nat
  BY <1>1 DEF Decisions
<1>7. decision \in Decisions
  BY <1>4, <1>5, <1>6 DEF Decisions
<1>8. triage' = [triage EXCEPT ![e] = decision]
  BY DEF Decide
<1>9. decision.status = STATES[cmd.op] /\ decision.incident = i
  OBVIOUS
<1> HIDE DEF decision, i
<1>10. triage'[e] = decision /\ \A f \in Episodes : f # e => triage'[f] = triage[f]
  BY <1>1, <1>8
<1>11. \A f \in Episodes : \A j : Final(f, j) => f # e /\ Final(f, j)'
  BY <1>10 DEF Final, Decided, Allowed
<1>12. cmd.op \in {"triage_link", "triage_declare"} => Final(e, i)'
  BY <1>5, <1>9, <1>10 DEF Final, Decided
<1>13. CASE cmd.op = "triage_declare"
  <2> DEFINE row == [id |-> <<s, e>>, open |-> TRUE]
  <2>1. row \in IncidentRows /\ row.id = <<s, e>>
    BY <1>2 DEF IncidentRows
  <2>2. incidents' = Append(incidents, row)
    BY <1>13 DEF Decide
  <2> HIDE DEF row
  <2>3. incidents' \in Seq(IncidentRows)
    BY <1>1, <2>1, <2>2
  <2>4. \A id : Declared(id)' => Declared(id) \/ id = <<s, e>>
    <3>1. /\ DOMAIN incidents' = 1..(Len(incidents) + 1) /\ DOMAIN incidents = 1..Len(incidents)
          /\ Len(incidents) \in Nat /\ incidents'[Len(incidents) + 1] = row
          /\ \A n \in 1..Len(incidents) : incidents'[n] = incidents[n]
      BY <1>1, <2>1, <2>2
    <3>2. \A n \in DOMAIN incidents' : n \in DOMAIN incidents \/ n = Len(incidents) + 1
      BY <3>1
    <3> QED  BY <2>1, <3>1, <3>2 DEF Declared
  <2>5. DeclaredFinal'
    <3> SUFFICES ASSUME NEW r \in Senders, NEW f \in Episodes, Declared(<<r, f>>)'
                 PROVE  Final(f, <<r, f>>)'
      BY DEF DeclaredFinal
    <3>1. CASE Declared(<<r, f>>)
      BY <1>11, <3>1 DEF IntakeSafe, DeclaredFinal
    <3>2. CASE <<r, f>> = <<s, e>>
      BY <1>5, <1>12, <1>13, <3>2
    <3> QED  BY <2>4, <3>1, <3>2
  <2> QED  BY <1>1, <1>7, <1>8, <1>11, <1>12, <2>3, <2>5 DEF i
<1>14. CASE cmd.op # "triage_declare"
  <2>1. incidents' = incidents
    BY <1>14 DEF Decide
  <2>2. DeclaredFinal'
    BY <1>11, <2>1 DEF IntakeSafe, DeclaredFinal, Declared
  <2> QED  BY <1>1, <1>7, <1>8, <1>11, <1>12, <2>1, <2>2 DEF i
<1> QED  BY <1>13, <1>14

\* A handler's own step leaves the others as they are.
LEMMA HandlerMoves ==
    ASSUME Types, NEW h \in Handlers, NEW w, handler' = [handler EXCEPT ![h] = w]
    PROVE  /\ handler' = [g \in Handlers |-> handler'[g]]
           /\ handler'[h] = w /\ \A g \in Handlers : g # h => handler'[g] = handler[g]
<1> QED  BY DEF Types

\* A handler that is over knows nothing.
LEMMA IdleKnows ==
    ASSUME NEW h \in Handlers, handler'[h] = NoHandler PROVE HandlerKnows(h)'
<1> QED  BY DEF HandlerKnows, NoHandler

\* The other handlers, the bindings and the episodes rely on final decisions, which stay.
LEMMA OthersKnow ==
    ASSUME IntakeSafe, NEW h \in Handlers,
           \A g \in Handlers : g # h => handler'[g] = handler[g],
           \A f \in Episodes : \A i : Final(f, i) => Final(f, i)'
    PROVE  \A g \in Handlers : g # h => HandlerKnows(g)'
<1> SUFFICES ASSUME NEW g \in Handlers, g # h PROVE HandlerKnows(g)'
  OBVIOUS
<1>1. HandlerKnows(g) /\ handler'[g] = handler[g]
  BY DEF IntakeSafe
<1> QED  BY <1>1 DEF HandlerKnows

-----------------------------------------------------------------------------
\* Every delivery, decision and stop preserves the inductive invariant.
LEMMA StepIntakeSafe == ASSUME IntakeSafe, [Next]_vars PROVE IntakeSafe'
<1>types. Types
  BY DEF IntakeSafe
<1>same. ASSUME UNCHANGED triage PROVE \A f \in Episodes : \A i : Final(f, i) => Final(f, i)'
  BY <1>same DEF Final, Decided
<1>idle. ASSUME NEW h \in Handlers, Stops(h), UNCHANGED <<episodes, triage, bindings, incidents>>
         PROVE  IntakeSafe'
  <2>1. /\ handler' = [g \in Handlers |-> handler'[g]] /\ handler'[h] = NoHandler
        /\ \A g \in Handlers : g # h => handler'[g] = handler[g]
    BY <1>idle, <1>types, HandlerMoves DEF Stops
  <2>2. \A g \in Handlers : HandlerKnows(g)'
    BY <1>idle, <1>same, <2>1, IdleKnows, OthersKnow
  <2>3. Types' /\ BoundFinal' /\ ShownFinal'
    BY <1>idle, <1>same, <1>types, <2>1 DEF IntakeSafe, Types, BoundFinal, ShownFinal
  <2> QED  BY <1>idle, <2>2, <2>3, NothingDecided
<1>1. ASSUME NEW h \in Handlers, NEW e \in Episodes, NEW status \in {"firing", "resolved"},
             Deliver(h, e, status)
      PROVE  IntakeSafe'
  <2> DEFINE row == Upsert(episodes[e], status)
             w == [pc |-> "lookup", episode |-> e]
  <2>1. row \in Rows /\ row.incident = episodes[e].incident
    BY <1>types DEF Types, Upsert, Rows
  <2>2. episodes' = [episodes EXCEPT ![e] = row] /\ UNCHANGED <<triage, bindings, incidents>>
    BY <1>1 DEF Deliver
  <2>3. handler' = [handler EXCEPT ![h] = w] \/ handler' = handler
    BY <1>1 DEF Deliver
  <2> HIDE DEF row
  <2>4. /\ episodes' \in [Episodes -> Rows]
        /\ \A f \in Episodes : episodes'[f].incident = episodes[f].incident
    BY <1>types, <2>1, <2>2 DEF Types
  <2>5. \A g \in Handlers : HandlerKnows(g)'
    <3>1. CASE handler' = handler
      BY <1>same, <2>2, <3>1, OthersKnow DEF IntakeSafe, HandlerKnows
    <3>2. CASE handler' = [handler EXCEPT ![h] = w]
      <4>1. handler'[h] = w /\ \A g \in Handlers : g # h => handler'[g] = handler[g]
        BY <1>types, <3>2, HandlerMoves
      <4>2. HandlerKnows(h)'
        BY <4>1 DEF HandlerKnows
      <4> QED  BY <1>same, <2>2, <4>1, <4>2, OthersKnow
    <3> QED  BY <2>3, <3>1, <3>2
  <2>6. handler' = [g \in Handlers |-> handler'[g]]
    BY <1>types, <2>3, HandlerMoves DEF Types
  <2>7. Types'
    BY <1>types, <2>2, <2>4, <2>6 DEF Types
  <2>8. BoundFinal' /\ ShownFinal'
    BY <1>same, <2>2, <2>4 DEF IntakeSafe, BoundFinal, ShownFinal
  <2> QED  BY <2>2, <2>5, <2>7, <2>8, NothingDecided
<1>2. ASSUME NEW h \in Handlers, Lookup(h) PROVE IntakeSafe'
  <2>1. handler[h].episode \in Episodes
    BY <1>2 DEF Lookup, IntakeSafe, HandlerKnows
  <2> DEFINE cmd == IF Target = None THEN Command("triage_declare", None)
                    ELSE Command("triage_link", Target)
             w == [pc |-> "triage", episode |-> handler[h].episode, command |-> cmd]
  <2>2. cmd.op \in {"triage_link", "triage_declare"} /\ handler' = [handler EXCEPT ![h] = w]
    BY <1>2 DEF Lookup, Command
  <2>3. UNCHANGED <<episodes, triage, bindings, incidents>>
    BY <1>2 DEF Lookup
  <2> HIDE DEF cmd
  <2>4. /\ handler' = [g \in Handlers |-> handler'[g]] /\ handler'[h] = w
        /\ \A g \in Handlers : g # h => handler'[g] = handler[g]
    BY <1>types, <2>2, HandlerMoves
  <2>5. HandlerKnows(h)'
    BY <2>1, <2>2, <2>4 DEF HandlerKnows
  <2>6. \A g \in Handlers : HandlerKnows(g)'
    BY <1>same, <2>3, <2>4, <2>5, OthersKnow
  <2>7. Types' /\ BoundFinal' /\ ShownFinal'
    BY <1>same, <1>types, <2>3, <2>4 DEF IntakeSafe, Types, BoundFinal, ShownFinal
  <2> QED  BY <2>3, <2>6, <2>7, NothingDecided
<1>3. ASSUME NEW h \in Handlers, Triage(h) PROVE IntakeSafe'
  <2> DEFINE e == handler[h].episode
             cmd == handler[h].command
             allowed == Allowed("intake", e, 1, cmd)
             Marking(i) == [pc |-> "mark", episode |-> e, incident |-> i,
                            run |-> MayStart /\ cmd.op = "triage_declare"]
  <2>1. e \in Episodes /\ cmd.op \in {"triage_link", "triage_declare"}
    BY <1>3 DEF Triage, IntakeSafe, HandlerKnows
  <2>2. UNCHANGED episodes
    BY <1>3 DEF Triage
  <2>3. CASE /\ bindings[e].bound /\ UNCHANGED <<triage, incidents, bindings>>
             /\ handler' = [handler EXCEPT ![h] = Marking(bindings[e].incident)]
    <3>1. /\ handler' = [g \in Handlers |-> handler'[g]]
          /\ handler'[h] = Marking(bindings[e].incident)
          /\ \A g \in Handlers : g # h => handler'[g] = handler[g]
      BY <1>types, <2>3, HandlerMoves
    <3>2. Final(e, bindings[e].incident)
      BY <2>1, <2>3 DEF IntakeSafe, BoundFinal
    <3>3. HandlerKnows(h)'
      <4>1. /\ handler'[h].pc = "mark" /\ handler'[h].episode = e
            /\ handler'[h].incident = bindings[e].incident /\ handler'[h].run \in BOOLEAN
        BY <3>1
      <4>2. PICK f, i : f = e /\ i = bindings[e].incident
        OBVIOUS
      <4>3. Final(f, i)'
        BY <1>same, <2>1, <2>3, <3>2, <4>2
      <4> QED  BY <2>1, <4>1, <4>2, <4>3 DEF HandlerKnows
    <3>4. \A g \in Handlers : HandlerKnows(g)'
      BY <1>same, <2>3, <3>1, <3>3, OthersKnow
    <3>5. Types' /\ BoundFinal' /\ ShownFinal'
      BY <1>same, <1>types, <2>2, <2>3, <3>1 DEF IntakeSafe, Types, BoundFinal, ShownFinal
    <3> QED  BY <2>3, <3>4, <3>5, NothingDecided
  <2>4. CASE Stops(h) /\ UNCHANGED <<triage, incidents, bindings>>
    BY <1>idle, <2>2, <2>4
  <2>5. CASE /\ ~bindings[e].bound /\ ~allowed /\ Stops(h) /\ UNCHANGED <<triage, incidents>>
             /\ bindings' = [bindings EXCEPT ![e] = Unbound]
    <3>1. /\ handler' = [g \in Handlers |-> handler'[g]] /\ handler'[h] = NoHandler
          /\ \A g \in Handlers : g # h => handler'[g] = handler[g]
      BY <2>5, <1>types, HandlerMoves DEF Stops
    <3>2. \A g \in Handlers : HandlerKnows(g)'
      BY <1>same, <2>5, <3>1, IdleKnows, OthersKnow
    <3>3. /\ bindings' = [f \in Episodes |-> bindings'[f]]
          /\ \A f \in Episodes : bindings'[f].bound => bindings'[f] = bindings[f]
      BY <1>types, <2>1, <2>5 DEF Types, Unbound
    <3>4. Types' /\ ShownFinal'
      BY <1>same, <1>types, <2>2, <2>5, <3>1, <3>3 DEF IntakeSafe, Types, ShownFinal
    <3>5. BoundFinal'
      BY <1>same, <2>5, <3>3 DEF IntakeSafe, BoundFinal
    <3> QED  BY <2>5, <3>2, <3>4, <3>5, NothingDecided
  <2>6. CASE /\ ~bindings[e].bound /\ allowed /\ Decide("intake", e, cmd)
             /\ handler' = [handler EXCEPT ![h] = Marking(IncidentOf("intake", e, cmd))]
             /\ bindings' = [bindings EXCEPT ![e] =
                    [bound |-> TRUE, command |-> cmd, incident |-> IncidentOf("intake", e, cmd)]]
    <3>1. PICK f, c, i : f \in Episodes /\ f = e /\ c = cmd /\ i = IncidentOf("intake", f, c)
      BY <2>1
    <3>2. /\ triage' \in [Episodes -> Decisions] /\ incidents' \in Seq(IncidentRows)
          /\ \A g \in Episodes : \A j : Final(g, j) => Final(g, j)'
          /\ c.op \in {"triage_link", "triage_declare"} => Final(f, IncidentOf("intake", f, c))'
          /\ DeclaredFinal'
      <4>1. "intake" \in Senders /\ Allowed("intake", f, 1, c) /\ Decide("intake", f, c)
            /\ c.op \in {"open_triage", "triage_dismiss", "triage_link", "triage_declare"}
        BY <2>1, <2>6, <3>1 DEF Senders
      <4> QED  BY <3>1, <4>1, DecideKeeps
    <3>3. Final(f, i)'
      BY <2>1, <3>1, <3>2
    <3>4. /\ handler' = [g \in Handlers |-> handler'[g]] /\ handler'[h] = Marking(i)
          /\ \A g \in Handlers : g # h => handler'[g] = handler[g]
      BY <1>types, <2>6, <3>1, HandlerMoves
    <3>5. HandlerKnows(h)'
      <4>1. /\ handler'[h].pc = "mark" /\ handler'[h].episode = f
            /\ handler'[h].incident = i /\ handler'[h].run \in BOOLEAN
        BY <3>1, <3>4
      <4> QED  BY <3>1, <3>3, <4>1 DEF HandlerKnows
    <3>6. \A g \in Handlers : HandlerKnows(g)'
      BY <3>2, <3>4, <3>5, OthersKnow
    <3>7. /\ bindings' = [g \in Episodes |-> bindings'[g]] /\ bindings'[f].incident = i
          /\ \A g \in Episodes : g # f => bindings'[g] = bindings[g]
      BY <1>types, <2>6, <3>1 DEF Types
    <3>8. Types'
      BY <1>types, <2>2, <3>2, <3>4, <3>7 DEF Types
    <3>9. BoundFinal' /\ ShownFinal'
      BY <2>2, <3>2, <3>3, <3>7 DEF IntakeSafe, BoundFinal, ShownFinal
    <3> QED  BY <3>2, <3>6, <3>8, <3>9 DEF IntakeSafe
  <2> QED  BY <1>3, <2>3, <2>4, <2>5, <2>6 DEF Triage, Claim
<1>4. ASSUME NEW h \in Handlers, Mark(h) PROVE IntakeSafe'
  <2> DEFINE w == handler[h]
  <2>1. PICK e, i : e \in Episodes /\ e = w.episode /\ i = w.incident /\ Final(e, i)
    BY <1>4 DEF Mark, IntakeSafe, HandlerKnows
  <2>2. i \in Incidents /\ w.run \in BOOLEAN
    BY <1>4, <1>types, <2>1 DEF Mark, IntakeSafe, HandlerKnows, Final, Types, Decisions
  <2>3. /\ episodes' = [episodes EXCEPT ![e].incident = i, ![e].run = w.run]
        /\ Stops(h) /\ UNCHANGED <<triage, bindings, incidents>>
    BY <1>4, <2>1 DEF Mark
  <2>4. /\ episodes' \in [Episodes -> Rows] /\ episodes'[e].incident = i
        /\ \A f \in Episodes : f # e => episodes'[f] = episodes[f]
    <3>1. e \in Episodes /\ episodes \in [Episodes -> Rows]
      BY <1>types, <2>1 DEF Types
    <3> QED  BY <2>2, <2>3, <3>1 DEF Rows
  <2>5. /\ handler' = [g \in Handlers |-> handler'[g]] /\ handler'[h] = NoHandler
        /\ \A g \in Handlers : g # h => handler'[g] = handler[g]
    BY <2>3, <1>types, HandlerMoves DEF Stops
  <2>6. \A g \in Handlers : HandlerKnows(g)'
    BY <1>same, <2>3, <2>5, IdleKnows, OthersKnow
  <2>7. Types' /\ BoundFinal'
    BY <1>same, <1>types, <2>3, <2>4, <2>5 DEF IntakeSafe, Types, BoundFinal
  <2>8. ShownFinal'
    BY <1>same, <2>1, <2>3, <2>4 DEF IntakeSafe, ShownFinal
  <2> QED  BY <2>3, <2>6, <2>7, <2>8, NothingDecided
<1>5. ASSUME NEW h \in Handlers, Stop(h) PROVE IntakeSafe'
  BY <1>5, <1>idle DEF Stop
<1>6. ASSUME NEW e \in Episodes, NEW cmd \in Commands, PersonTriages(e, cmd) PROVE IntakeSafe'
  <2>1. PICK shown : Allowed("person", e, shown, cmd) /\ Decide("person", e, cmd)
    BY <1>6 DEF PersonTriages
  <2>2. "person" \in Senders
        /\ cmd.op \in {"open_triage", "triage_dismiss", "triage_link", "triage_declare"}
    BY DEF Senders, Commands
  <2>3. /\ triage' \in [Episodes -> Decisions] /\ incidents' \in Seq(IncidentRows)
        /\ \A f \in Episodes : \A i : Final(f, i) => Final(f, i)'
        /\ DeclaredFinal'
    BY <2>1, <2>2, DecideKeeps
  <2>4. UNCHANGED <<episodes, bindings, handler>>
    BY <1>6 DEF PersonTriages
  <2>5. Types' /\ BoundFinal' /\ ShownFinal'
    BY <1>types, <2>3, <2>4 DEF IntakeSafe, Types, BoundFinal, ShownFinal
  <2>6. \A h \in Handlers : HandlerKnows(h)'
    BY <2>3, <2>4 DEF IntakeSafe, HandlerKnows
  <2> QED  BY <2>3, <2>5, <2>6 DEF IntakeSafe
<1>7. ASSUME NEW n \in DOMAIN incidents, Resolve(n) PROVE IntakeSafe'
  <2>1. /\ incidents' = [incidents EXCEPT ![n].open = FALSE]
        /\ UNCHANGED <<episodes, triage, bindings, handler>>
    BY <1>7 DEF Resolve
  <2>2. incidents' \in Seq(IncidentRows) /\ DOMAIN incidents' = DOMAIN incidents
        /\ \A m \in DOMAIN incidents : incidents'[m].id = incidents[m].id
    <3> DEFINE row == [incidents[n] EXCEPT !.open = FALSE]
    <3>1. incidents \in Seq(IncidentRows) /\ incidents[n] \in IncidentRows
      BY <1>types DEF Types
    <3>2. row \in IncidentRows /\ row.id = incidents[n].id
      BY <3>1 DEF IncidentRows
    <3>3. incidents' = [incidents EXCEPT ![n] = row]
      BY <2>1
    <3> HIDE DEF row
    <3> QED  BY <3>1, <3>2, <3>3
  <2>3. \A i : Declared(i)' <=> Declared(i)
    BY <2>2 DEF Declared
  <2>4. Types' /\ BoundFinal' /\ ShownFinal' /\ DeclaredFinal'
    BY <1>same, <1>types, <2>1, <2>2, <2>3
       DEF IntakeSafe, Types, BoundFinal, ShownFinal, DeclaredFinal
  <2>5. \A h \in Handlers : HandlerKnows(h)'
    BY <1>same, <2>1 DEF IntakeSafe, HandlerKnows
  <2> QED  BY <2>4, <2>5 DEF IntakeSafe
<1>8. CASE UNCHANGED vars
  <2>1. UNCHANGED <<episodes, triage, bindings, incidents, handler>>
    BY <1>8 DEF vars
  <2>2. Types' /\ BoundFinal' /\ ShownFinal' /\ \A h \in Handlers : HandlerKnows(h)'
    BY <1>same, <2>1 DEF IntakeSafe, Types, BoundFinal, ShownFinal, HandlerKnows
  <2> QED  BY <2>1, <2>2, NothingDecided
<1> QED
  BY <1>1, <1>2, <1>3, <1>4, <1>5, <1>6, <1>7, <1>8 DEF Next

\* The inductive invariant always holds, for any number of deliveries and stops.
THEOREM IntakeDecides == Spec => []IntakeSafe
<1>1. Init => IntakeSafe
  BY InitIntakeSafe
<1>2. IntakeSafe /\ [Next]_vars => IntakeSafe'
  BY StepIntakeSafe
<1> QED  BY <1>1, <1>2, PTL DEF Spec

\* AlertIntakeService.receive and TriageService.execute: an alert opens at most one incident,
\* and its episode shows the incident its decision names.
THEOREM AlertOpensOneIncident == Spec => []OneIncidentPerAlert
<1>1. ASSUME IntakeSafe PROVE OneIncidentPerAlert
  <2>1. \A e \in Episodes : ~(Declared(<<"intake", e>>) /\ Declared(<<"person", e>>))
    <3> SUFFICES ASSUME NEW e \in Episodes, Declared(<<"intake", e>>), Declared(<<"person", e>>)
                 PROVE  FALSE
      OBVIOUS
    <3>1. Final(e, <<"intake", e>>) /\ Final(e, <<"person", e>>)
      BY <1>1 DEF IntakeSafe, DeclaredFinal, Senders
    <3> QED  BY <3>1 DEF Final
  <2>2. \A e \in Episodes : episodes[e].incident # None => triage[e].incident = episodes[e].incident
    BY <1>1 DEF IntakeSafe, ShownFinal, Final
  <2> QED  BY <2>1, <2>2 DEF OneIncidentPerAlert
<1>2. IntakeSafe => OneIncidentPerAlert
  BY <1>1
<1> QED  BY IntakeDecides, <1>2, PTL
=============================================================================
