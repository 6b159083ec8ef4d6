------------------------ MODULE HumanDecisionsProofs ------------------------
(***************************************************************************)
(* What a decision on a mitigation promises, for any number of senders,    *)
(* proposals and messages: an approval that names an operation is          *)
(* committed after it ran, the operation runs once, and a decision from    *)
(* the chat is on the proposal the chat showed.                            *)
(*                                                                         *)
(* The argument is about versions.  Every change of the incident moves its *)
(* version, so whoever still holds the current one has seen the current    *)
(* proposal: a message (OutboxSound), a tap (TapsSound), a request being   *)
(* carried out and what it found out about the operation (SenderSound).    *)
(***************************************************************************)
EXTENDS HumanDecisions, FiniteSetTheorems, SequenceTheorems, TLAPS

-----------------------------------------------------------------------------
(* The inductive invariant *)

States == {"investigating", "mitigating", "verifying"}
IncidentTypes == [state : States, version : Nat \ {0}, proposal : 0 .. MaxProposals]

Replies == {"", "ok", "conflict", "refused", "failed", "denied"}
CommandTypes == {"tap", "page"} \X Nat
RequestTypes ==
    [pc : {"check", "wait", "commit", "reply"}, choice : Verdicts, version : Nat,
     command : CommandTypes, shown : Nat, proposal : Nat, reply : Replies]

Dedups == {"conclusion", "ask", "decided", "note", "tap"} \X Nat \X Nat
Rows ==
    [kind : {"ask", "update", "note"}, dedup : Dedups, proposal : Nat,
     version : Nat, link : Nat, target : Nat, why : {"", "decided", "refused", "stale"},
     status : {"queued", "sent", "dropped"}, attempts : Nat, shownAs : Nat]
Messages == [row : Nat, proposal : Nat, buttons : BOOLEAN]
TapTypes ==
    [row : Nat, choice : Verdicts, shown : Nat, version : Nat,
     status : {"queued", "claimed", "done"}, attempts : Nat, reply : Replies]
Deliveries ==
    [pc : {"send", "edit", "sent", "edited"}, row : Nat, proposal : Nat, buttons : BOOLEAN]

Types ==
    /\ incident \in IncidentTypes
    /\ Waits => incident.proposal \in Proposals
    /\ sender \in [Senders -> {Idle} \cup RequestTypes]
    /\ outbox \in Seq(Rows) /\ screen \in Seq(Messages) /\ taps \in Seq(TapTypes)
    /\ gateway \in {Resting} \cup Deliveries
    /\ link \in Nat /\ links \in Nat /\ submissions \in Nat

\* The executor is asked under the key of a proposal, and runs only what it was asked.
ExecutorSound ==
    /\ posted \subseteq Proposals \X {NoKey}
    /\ audited \subseteq Proposals \X {NoKey}
    /\ runs \in [OperationKeys -> Nat]
    /\ kept \in [OperationKeys -> {"open", "applied", "failed"}]
    /\ \A k \in OperationKeys : runs[k] > 0 => k \in posted

Ran(proposal, log, outcomes) ==
    <<proposal, NoKey>> \in log /\ outcomes[<<proposal, NoKey>>] = "applied"

\* A request on the current version is about the current proposal: it shows it, waits for its
\* operation, and goes to commit an approval of it when that operation ran.
SenderSound(r, inc, log, outcomes) ==
    r # Idle =>
        /\ r.version <= inc.version
        /\ r.pc = "wait" => r.proposal \in Proposals
        /\ r.version = inc.version =>
              /\ r.command[1] = "tap" => r.shown = inc.proposal
              /\ r.pc = "wait" => r.proposal = inc.proposal
              /\ /\ r.pc = "commit" /\ r.choice = "approve"
                 /\ inc.state = "mitigating" /\ inc.proposal \in Executable
                 => Ran(inc.proposal, log, outcomes)

SendersSound ==
    \A s \in Senders :
        /\ SenderSound(sender[s], incident, audited, kept)
        /\ s \in Workers /\ sender[s] # Idle =>
              sender[s].command[2] \in DOMAIN taps

\* A message written for the current version asks about the current proposal.
RowSound(row, rows, inc) ==
    /\ row.version <= inc.version
    /\ row.version = inc.version => row.proposal = inc.proposal
    /\ row.kind = "update" => row.target \in DOMAIN rows

OutboxSound(rows, inc) == \A i \in DOMAIN rows : RowSound(rows[i], rows, inc)

\* A row with an id is what the chat shows under it, and buttons are the row's proposal's.
ScreenSound(rows, shown) ==
    /\ \A i \in DOMAIN rows : rows[i].shownAs # 0 =>
          rows[i].shownAs \in DOMAIN shown /\ shown[rows[i].shownAs].row = i
    /\ \A m \in DOMAIN shown :
          /\ shown[m].row \in DOMAIN rows
          /\ shown[m].buttons => shown[m].proposal = rows[shown[m].row].proposal

GatewaySound(g, rows, shown) ==
    g # Resting =>
        /\ g.row \in DOMAIN rows
        /\ g.pc = "send" /\ g.buttons => g.proposal = rows[g.row].proposal
        /\ g.pc = "edit" =>
              /\ rows[g.row].kind = "update" /\ rows[rows[g.row].target].shownAs # 0
              /\ g.buttons => g.proposal = rows[rows[g.row].target].proposal
        /\ g.pc = "sent" => Len(shown) # 0 /\ shown[Len(shown)].row = g.row

\* A tap decides what its message was written for.
TapsSound(queue, rows) ==
    \A i \in DOMAIN queue :
        /\ queue[i].row \in DOMAIN rows
        /\ queue[i].shown = rows[queue[i].row].proposal
        /\ queue[i].version = rows[queue[i].row].version

ChatSound(rows, shown, g, queue, inc) ==
    /\ OutboxSound(rows, inc)
    /\ ScreenSound(rows, shown)
    /\ GatewaySound(g, rows, shown)
    /\ TapsSound(queue, rows)

DecisionsSafe ==
    /\ Types
    /\ ExecutorSound
    /\ SendersSound
    /\ ChatSound(outbox, screen, gateway, taps, incident)
    /\ VerifyingMeansItRan
    /\ DecidesWhatChatShows

-----------------------------------------------------------------------------
(* The outbox *)

\* Rows are only added, and those that are there keep what they were written for.
Grows(old, new, inc) ==
    /\ new \in Seq(Rows)
    /\ \A i \in DOMAIN old :
          /\ i \in DOMAIN new
          /\ new[i].kind = old[i].kind /\ new[i].target = old[i].target
          /\ new[i].proposal = old[i].proposal /\ new[i].version = old[i].version
          /\ new[i].shownAs = old[i].shownAs
    /\ \A i \in DOMAIN new : i \notin DOMAIN old =>
          RowSound(new[i], new, inc) /\ new[i].shownAs = 0

\* An outbox that grows leaves the chat as sound as it was.
LEMMA GrowsKeeps ==
    ASSUME NEW old, NEW new, NEW shown, NEW g, NEW queue, NEW inc,
           ChatSound(old, shown, g, queue, inc), Grows(old, new, inc)
    PROVE  ChatSound(new, shown, g, queue, inc)
<1>1. OutboxSound(new, inc)
  <2> SUFFICES ASSUME NEW i \in DOMAIN new PROVE RowSound(new[i], new, inc)
    BY DEF OutboxSound
  <2>1. CASE i \in DOMAIN old
    <3>1. RowSound(old[i], old, inc)
      BY <2>1 DEF ChatSound, OutboxSound
    <3> QED  BY <2>1, <3>1 DEF Grows, RowSound
  <2>2. CASE i \notin DOMAIN old
    BY <2>2 DEF Grows
  <2> QED  BY <2>1, <2>2
<1>2. ScreenSound(new, shown)
  BY DEF ChatSound, ScreenSound, Grows
<1>3. GatewaySound(g, new, shown)
  <2>1. g.row \in DOMAIN old /\ old[g.row].kind = "update" => old[g.row].target \in DOMAIN old
    BY DEF ChatSound, OutboxSound, RowSound
  <2> QED  BY <2>1 DEF ChatSound, GatewaySound, Grows
<1>4. TapsSound(queue, new)
  BY DEF ChatSound, TapsSound, Grows
<1> QED  BY <1>1, <1>2, <1>3, <1>4 DEF ChatSound

\* An outbox that is left alone has grown by nothing.
LEMMA GrowsNot ==
    ASSUME NEW rows \in Seq(Rows), NEW inc PROVE Grows(rows, rows, inc)
BY DEF Grows

\* Two growths make one.
LEMMA GrowsTwice ==
    ASSUME NEW a, NEW b, NEW c, NEW inc, Grows(a, b, inc), Grows(b, c, inc)
    PROVE  Grows(a, c, inc)
<1>1. ASSUME NEW i \in DOMAIN c, i \notin DOMAIN a
      PROVE  RowSound(c[i], c, inc) /\ c[i].shownAs = 0
  <2>1. CASE i \in DOMAIN b
    BY <1>1, <2>1 DEF Grows, RowSound
  <2>2. CASE i \notin DOMAIN b
    BY <1>1, <2>2 DEF Grows
  <2> QED  BY <2>1, <2>2
<1> QED  BY <1>1 DEF Grows

\* A row that may be queued.
NewRow(row, rows, inc) == row \in Rows /\ RowSound(row, rows, inc) /\ row.shownAs = 0

\* enqueue adds a new row at the end, or nothing under a dedup key the chat has.
LEMMA EnqueueGrows ==
    ASSUME NEW rows \in Seq(Rows), NEW inc, NEW row, NewRow(row, rows, inc)
    PROVE  Grows(rows, enqueue(rows, row), inc)
<1>1. CASE enqueue(rows, row) = rows
  BY <1>1, GrowsNot
<1>2. CASE enqueue(rows, row) = Append(rows, row)
  <2> DEFINE new == Append(rows, row)
  <2>1. row \in Rows
    BY DEF NewRow
  <2>2. /\ new \in Seq(Rows) /\ DOMAIN new = DOMAIN rows \cup {Len(rows) + 1}
        /\ \A i \in DOMAIN rows : new[i] = rows[i]
        /\ new[Len(rows) + 1] = row
    BY <2>1
  <2> HIDE DEF new
  <2>3. RowSound(row, new, inc)
    BY <2>2 DEF NewRow, RowSound
  <2> QED  BY <1>2, <2>2, <2>3 DEF Grows, NewRow, new
<1> QED  BY <1>1, <1>2 DEF enqueue

\* What is queued.
LEMMA RowFacts ==
    ASSUME NEW kind \in {"ask", "update", "note"}, NEW dedup \in Dedups
    PROVE  /\ Row(kind, dedup) \in Rows /\ Row(kind, dedup).kind = kind
           /\ Row(kind, dedup).version = 0 /\ Row(kind, dedup).proposal = 0
           /\ Row(kind, dedup).shownAs = 0
BY DEF Row, Rows

\* An update names the row of the message it rewrites and no version.
LEMMA UpdateFacts ==
    ASSUME NEW target \in Nat, NEW why \in {"decided", "refused", "stale"},
           NEW dedup \in Dedups
    PROVE  LET row == Update(target, why, dedup)
           IN /\ row \in Rows /\ row.version = 0 /\ row.target = target /\ row.shownAs = 0
<1> DEFINE r == Row("update", dedup)
           q == [r EXCEPT !.target = target]
<1>1. r \in Rows /\ r.version = 0 /\ r.shownAs = 0
  BY RowFacts
<1> HIDE DEF r
<1>2. q \in Rows /\ q.version = 0 /\ q.shownAs = 0 /\ q.target = target
  BY <1>1 DEF Rows
<1>3. Update(target, why, dedup) = [q EXCEPT !.why = why]
  BY DEF Update, r
<1> HIDE DEF q
<1> QED  BY <1>2, <1>3 DEF Rows

\* A question carries the proposal and the version that it was written for.
LEMMA AskFacts ==
    ASSUME NEW proposal \in Nat, NEW version \in Nat, NEW at \in Nat,
           NEW dedup \in Dedups
    PROVE  LET row == Ask(proposal, version, at, dedup)
           IN /\ row \in Rows /\ row.kind = "ask" /\ row.version = version
              /\ row.proposal = proposal /\ row.shownAs = 0
<1> DEFINE r == Row("ask", dedup)
           q == [r EXCEPT !.proposal = proposal]
           t == [q EXCEPT !.version = version]
<1>1. r \in Rows /\ r.kind = "ask" /\ r.shownAs = 0
  BY RowFacts
<1> HIDE DEF r
<1>2. q \in Rows /\ q.kind = "ask" /\ q.shownAs = 0 /\ q.proposal = proposal
  BY <1>1 DEF Rows
<1>3. Ask(proposal, version, at, dedup) = [t EXCEPT !.link = at]
  BY DEF Ask, r
<1> HIDE DEF q
<1>4. t \in Rows /\ t.kind = "ask" /\ t.shownAs = 0 /\ t.proposal = proposal
      /\ t.version = version
  BY <1>2 DEF Rows
<1> HIDE DEF t
<1> QED  BY <1>3, <1>4 DEF Rows

\* A row written for no version is older than any incident.
LEMMA UnversionedNew ==
    ASSUME NEW row \in Rows, NEW rows, NEW inc \in IncidentTypes, row.version = 0,
           row.shownAs = 0, row.kind = "update" => row.target \in DOMAIN rows
    PROVE  NewRow(row, rows, inc)
<1>1. inc.version \in Nat /\ inc.version # 0
  BY DEF IncidentTypes
<1> QED  BY <1>1 DEF NewRow, RowSound

\* A question about the current version and proposal is sound to add.
LEMMA AskNew ==
    ASSUME NEW row \in Rows, NEW rows, NEW inc \in IncidentTypes, row.version = inc.version,
           row.proposal = inc.proposal, row.shownAs = 0, row.kind = "ask"
    PROVE  NewRow(row, rows, inc)
<1>1. inc.version \in Nat
  BY DEF IncidentTypes
<1> QED  BY <1>1 DEF NewRow, RowSound

\* The set of updates is queued as one sequence of them.
LEMMA SetToSeqFacts ==
    ASSUME NEW S, IsFiniteSet(S)
    PROVE  SetToSeq(S) \in Seq(S)
<1>1. Cardinality(S) \in Nat /\ ExistsBijection(1..Cardinality(S), S)
  BY FS_CardinalityType
<1>2. \E f \in [1..Cardinality(S) -> S] : IsInjective(f)
  <2>1. PICK f \in Bijection(1..Cardinality(S), S) : TRUE
    BY <1>1 DEF ExistsBijection
  <2>2. f \in [1..Cardinality(S) -> S] /\ IsInjective(f)
    BY <2>1 DEF Bijection, Injection, Surjection, IsInjective
  <2> QED  BY <2>2
<1>3. SetToSeq(S) \in [1..Cardinality(S) -> S]
  BY <1>2 DEF SetToSeq
<1> QED  BY <1>1, <1>3

\* Anything that may be queued may be queued behind the rest.
LEMMA AppendGrows ==
    ASSUME NEW rows \in Seq(Rows), NEW inc, NEW more \in Seq(Rows),
           \A n \in DOMAIN more : NewRow(more[n], rows, inc)
    PROVE  Grows(rows, rows \o more, inc)
<1> DEFINE new == rows \o more
<1>1. /\ new \in Seq(Rows) /\ Len(new) = Len(rows) + Len(more)
      /\ \A i \in DOMAIN rows : i \in DOMAIN new /\ new[i] = rows[i]
      /\ \A i \in DOMAIN new : i \notin DOMAIN rows =>
            i - Len(rows) \in DOMAIN more /\ new[i] = more[i - Len(rows)]
  OBVIOUS
<1> HIDE DEF new
<1>2. ASSUME NEW i \in DOMAIN new, i \notin DOMAIN rows
      PROVE  RowSound(new[i], new, inc) /\ new[i].shownAs = 0
  <2>1. NewRow(new[i], rows, inc)
    BY <1>1, <1>2
  <2> QED  BY <1>1, <2>1 DEF NewRow, RowSound
<1> QED  BY <1>1, <1>2 DEF Grows, new

-----------------------------------------------------------------------------
(* Versions *)

\* Once the incident has moved on, nothing that was written or sent is current.
LEMMA ChatMoves ==
    ASSUME NEW rows \in Seq(Rows), NEW shown, NEW g, NEW queue, NEW inc \in IncidentTypes,
           NEW next \in IncidentTypes, next.version > inc.version,
           ChatSound(rows, shown, g, queue, inc)
    PROVE  ChatSound(rows, shown, g, queue, next)
<1>1. inc.version \in Nat /\ next.version \in Nat /\ \A i \in DOMAIN rows : rows[i].version \in Nat
  <2>1. \A row \in Rows : row.version \in Nat
    BY DEF Rows
  <2>2. \A i \in DOMAIN rows : rows[i] \in Rows
    OBVIOUS
  <2>3. inc.version \in Nat /\ next.version \in Nat
    BY DEF IncidentTypes
  <2> QED  BY <2>1, <2>2, <2>3
<1>2. OutboxSound(rows, next)
  BY <1>1 DEF ChatSound, OutboxSound, RowSound
<1> QED  BY <1>2 DEF ChatSound

\* A new version of the incident makes every request that is under way an old one.
LEMMA SenderMoves ==
    ASSUME NEW r \in {Idle} \cup RequestTypes, NEW inc \in IncidentTypes,
           NEW next \in IncidentTypes, next.version > inc.version, NEW log, NEW outcomes,
           SenderSound(r, inc, log, outcomes)
    PROVE  SenderSound(r, next, log, outcomes)
<1>1. r # Idle => r.version \in Nat
  BY DEF RequestTypes
<1>2. inc.version \in Nat /\ next.version \in Nat
  BY DEF IncidentTypes
<1> QED  BY <1>1, <1>2 DEF SenderSound

\* What a request found out about its operation stays true as the audit grows.
LEMMA SenderLearns ==
    ASSUME NEW r, NEW inc, NEW log, NEW outcomes, NEW log2, NEW outcomes2, log \subseteq log2,
           \A k \in log : outcomes[k] = "applied" => outcomes2[k] = "applied",
           SenderSound(r, inc, log, outcomes)
    PROVE  SenderSound(r, inc, log2, outcomes2)
BY DEF SenderSound, Ran

-----------------------------------------------------------------------------
(* A request *)

\* What a request's steps leave of it.
Carried(r, next) ==
    /\ next \in RequestTypes
    /\ next.version = r.version /\ next.command = r.command /\ next.shown = r.shown
    /\ next.choice = r.choice

Steps == {"check", "wait", "commit", "reply"}

\* A request that goes on is the same request.
LEMMA CarriedTo ==
    ASSUME NEW r \in RequestTypes, NEW pc \in Steps
    PROVE  LET next == [r EXCEPT !.pc = pc]
           IN Carried(r, next) /\ next.pc = pc /\ next.proposal = r.proposal
BY DEF RequestTypes, Carried, Steps

\* So is a request that is answered,
LEMMA CarriedReply ==
    ASSUME NEW r \in RequestTypes, NEW reply \in Replies
    PROVE  LET next == [r EXCEPT !.pc = "reply", !.reply = reply]
           IN Carried(r, next) /\ next.pc = "reply"
<1> DEFINE q == [r EXCEPT !.pc = "reply"]
<1>1. Carried(r, q) /\ q.pc = "reply"
  BY CarriedTo DEF Steps
<1>2. [r EXCEPT !.pc = "reply", !.reply = reply] = [q EXCEPT !.reply = reply]
  OBVIOUS
<1> HIDE DEF q
<1> QED  BY <1>1, <1>2 DEF RequestTypes, Carried

\* and one that waits for its operation.
LEMMA CarriedWait ==
    ASSUME NEW r \in RequestTypes, NEW n \in Nat
    PROVE  LET next == [r EXCEPT !.pc = "wait", !.proposal = n]
           IN Carried(r, next) /\ next.pc = "wait" /\ next.proposal = n
<1> DEFINE q == [r EXCEPT !.pc = "wait"]
<1>1. Carried(r, q) /\ q.pc = "wait"
  BY CarriedTo DEF Steps
<1>2. [r EXCEPT !.pc = "wait", !.proposal = n] = [q EXCEPT !.proposal = n]
  OBVIOUS
<1> HIDE DEF q
<1> QED  BY <1>1, <1>2 DEF RequestTypes, Carried

\* Who is under way has a request.
LEMMA UnderWay ==
    ASSUME DecisionsSafe, NEW s \in Senders, sender[s].pc \in Steps
    PROVE  /\ sender[s] \in RequestTypes /\ sender[s] # Idle
           /\ sender[s].version \in Nat
           /\ SenderSound(sender[s], incident, audited, kept)
<1>1. sender[s] \in {Idle} \cup RequestTypes
  BY DEF DecisionsSafe, Types
<1>2. sender[s] # Idle
  BY DEF Idle, Steps
<1> QED  BY <1>1, <1>2 DEF RequestTypes, DecisionsSafe, SendersSound

\* One sender moves; the others know what they knew.
LEMMA SenderSteps ==
    ASSUME DecisionsSafe, NEW s \in Senders, NEW next,
           sender' = [sender EXCEPT ![s] = next],
           \/ next = Idle
           \/ /\ next \in RequestTypes
              /\ SenderSound(next, incident', audited', kept')
              /\ s \in Workers => next.command[2] \in DOMAIN taps',
           DOMAIN taps \subseteq DOMAIN taps',
           \A t \in Senders : t # s => SenderSound(sender[t], incident', audited', kept')
    PROVE  /\ sender' \in [Senders -> {Idle} \cup RequestTypes]
           /\ SendersSound'
<1>1. sender \in [Senders -> {Idle} \cup RequestTypes]
  BY DEF DecisionsSafe, Types
<1>2. /\ sender' \in [Senders -> {Idle} \cup RequestTypes]
      /\ sender'[s] = next /\ \A t \in Senders : t # s => sender'[t] = sender[t]
  BY <1>1
<1>3. ASSUME NEW t \in Senders
      PROVE  /\ SenderSound(sender[t], incident, audited, kept)'
             /\ t \in Workers /\ sender'[t] # Idle =>
                   sender'[t].command[2] \in DOMAIN taps'
  <2>1. CASE t = s
    BY <1>2, <2>1 DEF SenderSound
  <2>2. CASE t # s
    BY <1>2, <2>2 DEF DecisionsSafe, SendersSound
  <2> QED  BY <2>1, <2>2
<1> QED  BY <1>2, <1>3 DEF SendersSound

\* A carried request at a worker is still about its tap.
LEMMA CarriedTap ==
    ASSUME DecisionsSafe, NEW s \in Workers, s \in Senders, NEW next,
           sender[s] # Idle, Carried(sender[s], next)
    PROVE  next.command[2] \in DOMAIN taps
BY DEF DecisionsSafe, SendersSound, Carried

\* A step of the API that leaves the incident and the chat alone.
LEMMA ApiKeeps ==
    ASSUME DecisionsSafe, UNCHANGED <<incident, decided, chatVars, submissions>>,
           sender' \in [Senders -> {Idle} \cup RequestTypes],
           SendersSound', ExecutorSound', audited \subseteq audited',
           \A k \in audited : kept[k] = "applied" => kept'[k] = "applied"
    PROVE  DecisionsSafe'
<1>1. UNCHANGED <<outbox, screen, gateway, taps, link, links>>
  BY DEF chatVars
<1>2. Types'
  BY <1>1 DEF DecisionsSafe, Types, Waits
<1>3. ChatSound(outbox, screen, gateway, taps, incident)'
  BY <1>1 DEF DecisionsSafe
<1>4. VerifyingMeansItRan'
  BY DEF DecisionsSafe, VerifyingMeansItRan
<1>5. DecidesWhatChatShows'
  BY DEF DecisionsSafe, DecidesWhatChatShows
<1> QED  BY <1>2, <1>3, <1>4, <1>5 DEF DecisionsSafe

\* A reply is as sound as what it answers.
LEMMA RepliedKeeps ==
    ASSUME DecisionsSafe, NEW s \in Senders, sender[s].pc \in Steps, NEW reply \in Replies,
           Replied(s, reply), DOMAIN taps \subseteq DOMAIN taps',
           \A t \in Senders : SenderSound(sender[t], incident', audited', kept')
    PROVE  /\ sender' \in [Senders -> {Idle} \cup RequestTypes]
           /\ SendersSound'
<1> DEFINE next == [sender[s] EXCEPT !.pc = "reply", !.reply = reply]
<1>1. sender' = [sender EXCEPT ![s] = next]
  BY DEF Replied
<1>2. Carried(sender[s], next) /\ next.pc = "reply"
  BY UnderWay, CarriedReply
<1> HIDE DEF next
<1>3. next \in RequestTypes
  BY <1>2 DEF Carried
<1>4. SenderSound(next, incident', audited', kept')
  BY <1>2, UnderWay DEF SenderSound, Carried
<1>5. s \in Workers => next.command[2] \in DOMAIN taps'
  BY <1>2, UnderWay, CarriedTap
<1> QED  BY <1>1, <1>3, <1>4, <1>5, SenderSteps

\* What is known stays known while the incident, the audit and the executor stay.
LEMMA StillSound ==
    ASSUME DecisionsSafe, UNCHANGED <<incident, audited, kept>>
    PROVE  \A t \in Senders : SenderSound(sender[t], incident', audited', kept')
BY DEF DecisionsSafe, SendersSound

\* Proposals are asked for by number.
LEMMA ProposalNumbers ==
    ASSUME DecisionsSafe
    PROVE  /\ Proposals \subseteq Nat /\ incident.proposal \in Nat /\ incident.version \in Nat
           /\ Proposals \X {NoKey} \subseteq OperationKeys
<1>1. incident \in IncidentTypes
  BY DEF DecisionsSafe, Types
<1>2. Proposals \subseteq Nat /\ incident.proposal \in Nat /\ incident.version \in Nat
  BY <1>1, ProposalsAssumption DEF Proposals, IncidentTypes
<1> QED  BY <1>2 DEF OperationKeys

\* The handler reads the incident and refuses, asks the executor, or goes on to commit.
LEMMA CheckKeeps ==
    ASSUME DecisionsSafe, NEW s \in Senders, Check(s), UNCHANGED <<chatVars, pageVars>>
    PROVE  DecisionsSafe'
<1>1. /\ sender[s].pc = "check" /\ UNCHANGED <<incident, runs, kept, audited, decided>>
      /\ UNCHANGED <<taps, submissions>>
  BY DEF Check, chatVars, pageVars
<1>2. sender[s].pc \in Steps
  BY <1>1 DEF Steps
<1>3. \A t \in Senders : SenderSound(sender[t], incident', audited', kept')
  BY <1>1, StillSound
<1>4. ASSUME UNCHANGED posted,
             sender' \in [Senders -> {Idle} \cup RequestTypes],
             SendersSound'
      PROVE  DecisionsSafe'
  <2>1. ExecutorSound'
    BY <1>1, <1>4 DEF DecisionsSafe, ExecutorSound
  <2> QED  BY <1>1, <1>4, <2>1, ApiKeeps
<1>5. ASSUME NEW reply \in {"denied", "refused"}, Replied(s, reply), UNCHANGED posted
      PROVE  DecisionsSafe'
  <2>1. reply \in Replies
    BY DEF Replies
  <2> QED  BY <1>1, <1>2, <1>3, <1>4, <1>5, <2>1, RepliedKeeps
<1>6. ASSUME sender[s].choice = "reject" \/ ~RunsSomething(s),
             sender' = [sender EXCEPT ![s].pc = "commit"], UNCHANGED posted
      PROVE  DecisionsSafe'
  <2> DEFINE next == [sender[s] EXCEPT !.pc = "commit"]
  <2>1. sender' = [sender EXCEPT ![s] = next]
    BY <1>6
  <2>2. Carried(sender[s], next) /\ next.pc = "commit"
    BY <1>2, UnderWay, CarriedTo DEF Steps
  <2> HIDE DEF next
  <2>3. next \in RequestTypes
    BY <2>2 DEF Carried
  <2>4. SenderSound(next, incident', audited', kept')
    BY <1>1, <1>2, <1>3, <1>6, <2>2, UnderWay DEF SenderSound, Carried, RunsSomething, Waits
  <2>5. s \in Workers => next.command[2] \in DOMAIN taps'
    BY <1>1, <1>2, <2>2, UnderWay, CarriedTap
  <2>6. /\ sender' \in [Senders -> {Idle} \cup RequestTypes]
        /\ SendersSound'
    BY <1>1, <1>3, <2>1, <2>3, <2>4, <2>5, SenderSteps
  <2> QED  BY <1>4, <1>6, <2>6
<1>7. ASSUME RunsSomething(s),
             sender' = [sender EXCEPT ![s] = [@ EXCEPT !.pc = "wait",
                                                       !.proposal = incident.proposal]],
             posted' = posted \cup {OperationKey(s, incident.proposal)} \/ UNCHANGED posted
      PROVE  DecisionsSafe'
  <2> DEFINE next == [sender[s] EXCEPT !.pc = "wait", !.proposal = incident.proposal]
  <2>1. sender' = [sender EXCEPT ![s] = next]
    BY <1>7
  <2>2. incident.proposal \in Nat
    BY ProposalNumbers
  <2>3. Carried(sender[s], next) /\ next.pc = "wait" /\ next.proposal = incident.proposal
    BY <1>2, <2>2, UnderWay, CarriedWait
  <2> HIDE DEF next
  <2>4. incident.proposal \in Proposals
    BY <1>7 DEF RunsSomething, DecisionsSafe, Types
  <2>5. next \in RequestTypes
    BY <2>3 DEF Carried
  <2>6. SenderSound(next, incident', audited', kept')
    BY <1>1, <1>2, <1>3, <2>3, <2>4, UnderWay DEF SenderSound, Carried
  <2>7. s \in Workers => next.command[2] \in DOMAIN taps'
    BY <1>1, <1>2, <2>3, UnderWay, CarriedTap
  <2>8. /\ sender' \in [Senders -> {Idle} \cup RequestTypes]
        /\ SendersSound'
    BY <1>1, <1>3, <2>1, <2>5, <2>6, <2>7, SenderSteps
  <2>9. ExecutorSound'
    BY <1>1, <1>7, <2>4 DEF DecisionsSafe, ExecutorSound, OperationKey
  <2> QED  BY <1>1, <2>8, <2>9, ApiKeeps
<1> QED  BY <1>5, <1>6, <1>7 DEF Check

\* The executor's answer is audited and the approval goes on, or it is refused.
LEMMA AnsweredKeeps ==
    ASSUME DecisionsSafe, NEW s \in Senders, Answered(s), UNCHANGED <<chatVars, pageVars>>
    PROVE  DecisionsSafe'
<1> DEFINE k == OperationKey(s, sender[s].proposal)
<1>1. /\ sender[s].pc = "wait" /\ UNCHANGED <<incident, posted, runs, kept, decided>>
      /\ UNCHANGED <<taps, submissions>>
  BY DEF Answered, chatVars, pageVars
<1>2. sender[s].pc \in Steps
  BY <1>1 DEF Steps
<1>3. k = <<sender[s].proposal, NoKey>> /\ sender[s].proposal \in Proposals
  BY <1>1, <1>2, UnderWay DEF OperationKey, SenderSound
<1>4. ASSUME NEW reply \in {"failed", "refused"}, Replied(s, reply), UNCHANGED audited
      PROVE  DecisionsSafe'
  <2>1. reply \in Replies
    BY DEF Replies
  <2>2. \A t \in Senders : SenderSound(sender[t], incident', audited', kept')
    BY <1>1, <1>4, StillSound
  <2>3. ExecutorSound'
    BY <1>1, <1>4 DEF DecisionsSafe, ExecutorSound
  <2> QED  BY <1>1, <1>2, <1>4, <2>1, <2>2, <2>3, RepliedKeeps, ApiKeeps
<1>5. ASSUME kept[k] = "applied", audited' = audited \cup {k},
             sender' = [sender EXCEPT ![s].pc = "commit"]
      PROVE  DecisionsSafe'
  <2> DEFINE next == [sender[s] EXCEPT !.pc = "commit"]
  <2>1. sender' = [sender EXCEPT ![s] = next]
    BY <1>5
  <2>2. Carried(sender[s], next) /\ next.pc = "commit"
    BY <1>2, UnderWay, CarriedTo DEF Steps
  <2> HIDE DEF next, k
  <2>3. next \in RequestTypes
    BY <2>2 DEF Carried
  <2>4. \A t \in Senders : SenderSound(sender[t], incident', audited', kept')
    BY <1>1, <1>5, SenderLearns DEF DecisionsSafe, SendersSound
  <2>5. sender[s].version = incident.version => Ran(incident.proposal, audited', kept')
    BY <1>1, <1>2, <1>3, <1>5, UnderWay DEF SenderSound, Ran
  <2>6. SenderSound(next, incident', audited', kept')
    BY <1>1, <1>2, <2>2, <2>4, <2>5, UnderWay DEF SenderSound, Carried
  <2>7. s \in Workers => next.command[2] \in DOMAIN taps'
    BY <1>1, <1>2, <2>2, UnderWay, CarriedTap
  <2>8. /\ sender' \in [Senders -> {Idle} \cup RequestTypes]
        /\ SendersSound'
    BY <1>1, <2>1, <2>3, <2>4, <2>6, <2>7, SenderSteps
  <2>9. ExecutorSound'
    BY <1>1, <1>3, <1>5 DEF DecisionsSafe, ExecutorSound
  <2> QED  BY <1>1, <1>5, <2>8, <2>9, ApiKeeps
<1>6. ASSUME sender' = [sender EXCEPT ![s] = [@ EXCEPT !.pc = Unanswered(s), !.reply = "refused"]],
             UNCHANGED audited
      PROVE  DecisionsSafe'
  BY <1>4, <1>6 DEF Replied, Unanswered
<1> QED  BY <1>4, <1>5, <1>6 DEF Answered

\* The executor runs an operation that it was asked, and settles it once.
LEMMA ExecutorKeeps ==
    ASSUME DecisionsSafe, Executes, UNCHANGED <<chatVars, pageVars>> PROVE DecisionsSafe'
<1>1. PICK k \in posted : ExecutorRuns(k) \/ ExecutorSettles(k)
  BY DEF Executes
<1>2. k \in OperationKeys
  BY <1>1, ProposalNumbers DEF DecisionsSafe, ExecutorSound
<1>3. UNCHANGED <<incident, sender, posted, audited, decided, taps, submissions>>
  BY <1>1 DEF ExecutorRuns, ExecutorSettles, chatVars, pageVars
<1>4. /\ runs' \in [OperationKeys -> Nat]
      /\ kept' \in [OperationKeys -> {"open", "applied", "failed"}]
      /\ \A j \in OperationKeys : runs'[j] > 0 => j \in posted
      /\ \A j \in OperationKeys : kept[j] = "applied" => kept'[j] = "applied"
  <2>1. CASE ExecutorRuns(k)
    <3>1. runs' = [runs EXCEPT ![k] = 1] /\ kept' = kept
      BY <2>1 DEF ExecutorRuns, Executor!Run
    <3> QED  BY <1>1, <1>2, <3>1 DEF DecisionsSafe, ExecutorSound
  <2>2. CASE ExecutorSettles(k)
    <3>1. /\ kept[k] = "open" /\ runs' = runs
          /\ \E outcome \in {"applied", "failed"} : kept' = [kept EXCEPT ![k] = outcome]
      BY <2>2 DEF ExecutorSettles, Executor!Settle
    <3> QED  BY <1>2, <3>1 DEF DecisionsSafe, ExecutorSound
  <2> QED  BY <1>1, <2>1, <2>2
<1>5. ExecutorSound'
  BY <1>3, <1>4 DEF DecisionsSafe, ExecutorSound
<1>6. \A j \in audited : kept[j] = "applied" => kept'[j] = "applied"
  BY <1>4, ProposalNumbers DEF DecisionsSafe, ExecutorSound
<1>7. \A t \in Senders : SenderSound(sender[t], incident', audited', kept')
  BY <1>3, <1>6, SenderLearns DEF DecisionsSafe, SendersSound
<1>8. SendersSound' /\ sender' \in [Senders -> {Idle} \cup RequestTypes]
  BY <1>3, <1>7 DEF DecisionsSafe, SendersSound, Types
<1> QED  BY <1>3, <1>5, <1>6, <1>8, ApiKeeps

-----------------------------------------------------------------------------
(* The incident moves *)

\* A step that moves the incident's version leaves nothing current but what it writes itself.
LEMMA MovedKeeps ==
    ASSUME DecisionsSafe, incident' \in IncidentTypes,
           incident'.version = incident.version + 1, Waits' => incident'.proposal \in Proposals,
           UNCHANGED <<posted, runs, kept, audited, screen, gateway, taps, link, links,
                       submissions>>,
           Grows(outbox, outbox', incident'),
           sender' \in [Senders -> {Idle} \cup RequestTypes],
           SendersSound', VerifyingMeansItRan', DecidesWhatChatShows'
    PROVE  DecisionsSafe'
<1>1. Types'
  BY DEF DecisionsSafe, Types, Grows
<1>2. ExecutorSound'
  BY DEF DecisionsSafe, ExecutorSound
<1>3. ChatSound(outbox, screen, gateway, taps, incident')
  <2>1. incident \in IncidentTypes /\ outbox \in Seq(Rows) /\ incident'.version > incident.version
    BY ProposalNumbers DEF DecisionsSafe, Types
  <2> QED  BY <2>1, ChatMoves DEF DecisionsSafe
<1>4. ChatSound(outbox, screen, gateway, taps, incident)'
  BY <1>3, GrowsKeeps
<1> QED  BY <1>1, <1>2, <1>4 DEF DecisionsSafe

\* Requests that were sent before are not about the new version.
LEMMA SendersMove ==
    ASSUME DecisionsSafe, incident' \in IncidentTypes,
           incident'.version = incident.version + 1, UNCHANGED <<audited, kept>>
    PROVE  \A t \in Senders : SenderSound(sender[t], incident', audited', kept')
<1>1. incident \in IncidentTypes /\ incident'.version > incident.version
  BY ProposalNumbers DEF DecisionsSafe, Types
<1> QED
  BY <1>1, SenderMoves DEF DecisionsSafe, SendersSound, Types

\* The commit of a decision on the version it was made for.
LEMMA DecidesKeeps ==
    ASSUME DecisionsSafe, NEW s \in Senders, Decides(s), UNCHANGED pageVars,
           outbox' = outbox \o
             SetToSeq({Update(i, "decided", <<"decided", i, incident.version>>) :
                         i \in {j \in DOMAIN outbox : link # 0 /\ Told(j)}}),
           UNCHANGED <<policy, link, links, screen, gateway, taps, presses>>
    PROVE  DecisionsSafe'
<1> DEFINE r == sender[s]
           d == [proposal |-> incident.proposal, choice |-> r.choice, shown |-> r.shown,
                 via |-> r.command[1]]
<1>1. /\ r.pc = "commit" /\ Current(s)
      /\ incident' = [incident EXCEPT
                        !.state = IF r.choice = "approve" THEN "verifying" ELSE "investigating",
                        !.version = @ + 1]
      /\ decided' = decided \cup {d}
      /\ Replied(s, "ok") /\ UNCHANGED <<posted, runs, kept, audited, submissions, taps>>
  BY DEF Decides, pageVars
<1>2. incident \in IncidentTypes
  BY DEF DecisionsSafe, Types
<1>3. /\ incident' \in IncidentTypes /\ incident'.version = incident.version + 1
      /\ incident'.state # "mitigating"
  <2> DEFINE i == [incident EXCEPT
                     !.state = IF r.choice = "approve" THEN "verifying" ELSE "investigating"]
  <2>1. incident' = [i EXCEPT !.version = incident.version + 1]
    BY <1>1
  <2>2. i \in IncidentTypes /\ i.state # "mitigating"
    BY <1>2 DEF IncidentTypes, States
  <2>3. incident.version + 1 \in Nat \ {0}
    BY <1>2 DEF IncidentTypes
  <2> HIDE DEF i
  <2> QED  BY <2>1, <2>2, <2>3 DEF IncidentTypes
<1>4. SenderSound(r, incident, audited, kept) /\ r # Idle
  BY <1>1, UnderWay DEF Steps
<1>5. /\ sender' \in [Senders -> {Idle} \cup RequestTypes]
      /\ SendersSound'
  <2>1. \A t \in Senders : SenderSound(sender[t], incident', audited', kept')
    BY <1>1, <1>3, SendersMove
  <2>2. r.pc \in Steps /\ "ok" \in Replies
    BY <1>1 DEF Steps, Replies
  <2> QED  BY <1>1, <2>1, <2>2, RepliedKeeps
\* The version precondition makes the approval's operation, and what the chat showed, current.
<1>6. VerifyingMeansItRan'
  <2>1. d.choice = "approve" /\ d.proposal \in Executable =>
           Ran(incident.proposal, audited, kept)
    BY <1>1, <1>4 DEF SenderSound, Current, Waits
  <2>2. d.choice = "approve" /\ d.proposal \in Executable =>
           \E k \in audited : k[1] = d.proposal /\ kept[k] = "applied"
    BY <2>1 DEF Ran
  <2> HIDE DEF d
  <2> QED  BY <1>1, <2>2 DEF DecisionsSafe, VerifyingMeansItRan
<1>7. DecidesWhatChatShows'
  <2>1. d.via = "tap" => d.shown = d.proposal
    BY <1>1, <1>4 DEF SenderSound, Current
  <2> HIDE DEF d
  <2> QED  BY <1>1, <2>1 DEF DecisionsSafe, DecidesWhatChatShows
<1>8. Grows(outbox, outbox', incident')
  <2> DEFINE S == {j \in DOMAIN outbox : link # 0 /\ Told(j)}
             U(i) == Update(i, "decided", <<"decided", i, incident.version>>)
             T == {U(i) : i \in S}
  <2>1. outbox \in Seq(Rows)
    BY DEF DecisionsSafe, Types
  <2>2. incident.version \in Nat
    BY ProposalNumbers
  <2>3. ASSUME NEW i \in S PROVE NewRow(U(i), outbox, incident')
    <3>1. i \in Nat /\ i \in DOMAIN outbox
      BY <2>1
    <3>dedup. <<"decided", i, incident.version>> \in Dedups
      BY <2>2, <3>1 DEF Dedups
    <3>2. /\ U(i) \in Rows /\ U(i).version = 0 /\ U(i).target = i /\ U(i).shownAs = 0
      BY <3>dedup, <3>1, UpdateFacts
    <3> HIDE DEF U
    <3> QED  BY <1>3, <3>1, <3>2, UnversionedNew
  <2>4. IsFiniteSet(T)
    <3>1. IsFiniteSet(DOMAIN outbox)
      BY <2>1, FS_Interval
    <3>2. IsFiniteSet(S)
      BY <3>1, FS_Subset
    <3> HIDE DEF S, U
    <3>3. [i \in S |-> U(i)] \in Surjection(S, T)
      BY DEF Surjection
    <3> QED  BY <3>2, <3>3, FS_Surjection
  <2>5. SetToSeq(T) \in Seq(T)
    BY <2>4, SetToSeqFacts
  <2>6. outbox' = outbox \o SetToSeq(T)
    OBVIOUS
  <2>7. \A row \in T : NewRow(row, outbox, incident')
    BY <2>3
  <2> HIDE DEF T
  <2>8. /\ SetToSeq(T) \in Seq(Rows)
        /\ \A n \in DOMAIN SetToSeq(T) : NewRow(SetToSeq(T)[n], outbox, incident')
    BY <2>5, <2>7 DEF NewRow
  <2> QED  BY <2>1, <2>6, <2>8, AppendGrows
<1>9. Waits' => incident'.proposal \in Proposals
  BY <1>3 DEF Waits
<1> QED  BY <1>1, <1>3, <1>5, <1>6, <1>7, <1>8, <1>9, MovedKeeps

\* A commit that finds another version, or the command already there.
LEMMA DecidesNothingKeeps ==
    ASSUME DecisionsSafe, NEW s \in Senders, DecidesNothing(s), UNCHANGED <<chatVars, pageVars>>
    PROVE  DecisionsSafe'
<1>1. /\ sender[s].pc = "commit"
      /\ UNCHANGED <<incident, posted, runs, kept, audited, decided, taps, submissions>>
      /\ \E reply \in {"ok", "conflict", "failed"} : Replied(s, reply)
  BY DEF DecidesNothing, records, chatVars, pageVars
<1>2. sender[s].pc \in Steps /\ {"ok", "conflict", "failed"} \subseteq Replies
  BY <1>1 DEF Steps, Replies
<1>3. \A t \in Senders : SenderSound(sender[t], incident', audited', kept')
  BY <1>1, StillSound
<1>4. /\ sender' \in [Senders -> {Idle} \cup RequestTypes]
      /\ SendersSound'
  BY <1>1, <1>2, <1>3, RepliedKeeps
<1>5. ExecutorSound'
  BY <1>1 DEF DecisionsSafe, ExecutorSound
<1> QED  BY <1>1, <1>4, <1>5, ApiKeeps

\* The API dies: the requests that it was handling end without an answer.
LEMMA ApiDownKeeps ==
    ASSUME DecisionsSafe, ApiDown, UNCHANGED <<chatVars, pageVars>> PROVE DecisionsSafe'
<1>1. /\ UNCHANGED <<incident, posted, runs, kept, audited, decided, submissions>>
      /\ sender' = [s \in Senders |-> Idle]
  BY DEF ApiDown, records, pageVars
<1>2. /\ sender' \in [Senders -> {Idle} \cup RequestTypes]
      /\ SendersSound'
  BY <1>1 DEF SendersSound, SenderSound
<1>3. ExecutorSound'
  BY <1>1 DEF DecisionsSafe, ExecutorSound
<1> QED  BY <1>1, <1>2, <1>3, ApiKeeps

\* The console changes the incident: its version moves.
LEMMA PatchKeeps ==
    ASSUME DecisionsSafe, Patch, UNCHANGED <<chatVars, pageVars>> PROVE DecisionsSafe'
<1>1. /\ Waits /\ incident' = [incident EXCEPT !.version = @ + 1]
      /\ UNCHANGED <<sender, posted, runs, kept, audited, decided, submissions>>
      /\ UNCHANGED <<outbox, screen, gateway, taps, link, links>>
  BY DEF Patch, chatVars, pageVars
<1>2. incident \in IncidentTypes /\ incident.proposal \in Proposals
  BY <1>1 DEF DecisionsSafe, Types
<1>3. /\ incident' \in IncidentTypes /\ incident'.version = incident.version + 1
      /\ incident'.proposal = incident.proposal
  BY <1>1, <1>2 DEF IncidentTypes
<1>4. \A t \in Senders : SenderSound(sender[t], incident', audited', kept')
  BY <1>1, <1>3, SendersMove
<1>5. SendersSound' /\ sender' \in [Senders -> {Idle} \cup RequestTypes]
  BY <1>1, <1>4 DEF DecisionsSafe, SendersSound, Types
<1>6. Grows(outbox, outbox', incident')
  BY <1>1, GrowsNot DEF DecisionsSafe, Types
<1>7. VerifyingMeansItRan' /\ DecidesWhatChatShows'
  BY <1>1 DEF DecisionsSafe, VerifyingMeansItRan, DecidesWhatChatShows
<1> QED  BY <1>1, <1>2, <1>3, <1>5, <1>6, <1>7, MovedKeeps

\* The investigation proposes a mitigation and the chat is asked about it.
LEMMA ProposeKeeps ==
    ASSUME DecisionsSafe, Propose, UNCHANGED pageVars PROVE DecisionsSafe'
<1> DEFINE p == incident'.proposal
           v == incident'.version
           told == IF Requested THEN enqueue(outbox, Conclusion) ELSE outbox
           ask == Ask(p, v, link, <<"ask", p, 0>>)
<1>1. /\ incident.proposal < MaxProposals
      /\ incident' = [state |-> "mitigating", version |-> incident.version + 1,
                      proposal |-> incident.proposal + 1]
      /\ UNCHANGED <<sender, posted, runs, kept, audited, decided, submissions>>
      /\ UNCHANGED <<screen, gateway, taps, link, links>>
      /\ outbox' \in {outbox, told, enqueue(told, ask)}
  BY DEF Propose, Proposed, pageVars
<1>2. incident \in IncidentTypes /\ outbox \in Seq(Rows) /\ link \in Nat
  BY DEF DecisionsSafe, Types
<1>3. /\ incident' \in IncidentTypes /\ v = incident.version + 1 /\ p \in Proposals
      /\ v \in Nat /\ p \in Nat
  BY <1>1, <1>2, ProposalsAssumption DEF IncidentTypes, States, Proposals
<1>4. Grows(outbox, told, incident')
  <2>1. Conclusion \in Rows /\ Conclusion.version = 0 /\ Conclusion.shownAs = 0
        /\ Conclusion.kind = "note"
    <3>1. <<"conclusion", 0, 0>> \in Dedups
      BY DEF Dedups
    <3> QED  BY <3>1, RowFacts DEF Conclusion
  <2>2. NewRow(Conclusion, outbox, incident')
    BY <1>3, <2>1, UnversionedNew
  <2> QED  BY <1>2, <2>2, EnqueueGrows, GrowsNot
<1>5. told \in Seq(Rows)
  BY <1>4 DEF Grows
<1>6. Grows(told, enqueue(told, ask), incident')
  <2>1. /\ ask \in Rows /\ ask.kind = "ask" /\ ask.version = v /\ ask.proposal = p
        /\ ask.shownAs = 0
    <3>1. <<"ask", p, 0>> \in Dedups
      BY <1>3 DEF Dedups
    <3> HIDE DEF p, v
    <3>2. link \in Nat /\ p \in Nat /\ v \in Nat
      BY <1>2, <1>3
    <3>3. \A x, y, l \in Nat, d \in Dedups :
             LET row == Ask(x, y, l, d)
             IN /\ row \in Rows /\ row.kind = "ask" /\ row.version = y
                /\ row.proposal = x /\ row.shownAs = 0
      BY AskFacts
    <3> QED  BY <3>1, <3>2, <3>3
  <2> HIDE DEF ask, told
  <2>2. NewRow(ask, told, incident')
    BY <1>3, <2>1, AskNew
  <2> QED  BY <1>5, <2>2, EnqueueGrows
<1> HIDE DEF told, ask
<1>7. Grows(outbox, outbox', incident')
  BY <1>1, <1>2, <1>4, <1>6, GrowsNot, GrowsTwice
<1>8. \A t \in Senders : SenderSound(sender[t], incident', audited', kept')
  BY <1>1, <1>3, SendersMove
<1>9. SendersSound' /\ sender' \in [Senders -> {Idle} \cup RequestTypes]
  BY <1>1, <1>8 DEF DecisionsSafe, SendersSound, Types
<1>10. VerifyingMeansItRan' /\ DecidesWhatChatShows'
  BY <1>1 DEF DecisionsSafe, VerifyingMeansItRan, DecidesWhatChatShows
<1> QED  BY <1>1, <1>3, <1>7, <1>9, <1>10, MovedKeeps

-----------------------------------------------------------------------------
(* The chat *)

\* A step of the chat moves neither the incident nor the executor.
LEMMA ChatKeeps ==
    ASSUME DecisionsSafe, UNCHANGED <<incident, posted, runs, kept, audited, decided>>,
           sender' \in [Senders -> {Idle} \cup RequestTypes],
           SendersSound',
           outbox' \in Seq(Rows), screen' \in Seq(Messages), taps' \in Seq(TapTypes),
           gateway' \in {Resting} \cup Deliveries, link' \in Nat, links' \in Nat,
           submissions' \in Nat,
           ChatSound(outbox', screen', gateway', taps', incident)
    PROVE  DecisionsSafe'
<1>1. Types'
  BY DEF DecisionsSafe, Types, Waits
<1>2. ExecutorSound'
  BY DEF DecisionsSafe, ExecutorSound
<1>3. VerifyingMeansItRan' /\ DecidesWhatChatShows'
  BY DEF DecisionsSafe, VerifyingMeansItRan, DecidesWhatChatShows
<1> QED  BY <1>1, <1>2, <1>3 DEF DecisionsSafe

\* The requests do not look at the chat, but for the taps they carry.
LEMMA SendersStay ==
    ASSUME DecisionsSafe, UNCHANGED <<incident, audited, kept, sender>>,
           DOMAIN taps \subseteq DOMAIN taps'
    PROVE  /\ sender' \in [Senders -> {Idle} \cup RequestTypes]
           /\ SendersSound'
BY DEF DecisionsSafe, Types, SendersSound

\* A row's attempts and status may change.
LEMMA RewriteGrows ==
    ASSUME NEW rows \in Seq(Rows), NEW i \in DOMAIN rows, NEW row \in Rows, NEW inc,
           row.kind = rows[i].kind, row.target = rows[i].target,
           row.proposal = rows[i].proposal, row.version = rows[i].version,
           row.shownAs = rows[i].shownAs
    PROVE  Grows(rows, [rows EXCEPT ![i] = row], inc)
BY DEF Grows

\* What a step of the chat starts from.
LEMMA ChatFacts ==
    ASSUME DecisionsSafe
    PROVE  /\ incident \in IncidentTypes /\ outbox \in Seq(Rows) /\ screen \in Seq(Messages)
           /\ taps \in Seq(TapTypes) /\ gateway \in {Resting} \cup Deliveries
           /\ link \in Nat /\ links \in Nat /\ submissions \in Nat
           /\ ChatSound(outbox, screen, gateway, taps, incident)
BY DEF DecisionsSafe, Types

\* A message is rendered with the buttons of the proposal it was written for.
LEMMA RenderedFacts ==
    ASSUME DecisionsSafe, NEW i \in DOMAIN outbox, Rendered(i).pc # "skip"
    PROVE  Rendered(i) \in Deliveries /\ GatewaySound(Rendered(i), outbox, screen)
<1> DEFINE row == outbox[i]
           of == IF row.kind = "ask" THEN row ELSE outbox[row.target]
           asks == row.kind # "note" /\ Asks(of)
           pc == CASE row.kind # "update"                   -> "send"
                   [] asks /\ row.why = "decided"           -> "skip"
                   [] row.kind = "update" /\ of.shownAs = 0 -> "skip"
                   [] OTHER                                 -> "edit"
           buttons == asks /\ row.why # "stale"
           g == Rendered(i)
<1>1. g = [pc |-> pc, row |-> i, proposal |-> incident.proposal, buttons |-> buttons]
  BY DEF Rendered
<1>2. /\ i \in Nat /\ row \in Rows /\ incident.proposal \in Nat
  BY ChatFacts, ProposalNumbers
<1>3. row.kind \in {"ask", "update", "note"}
  BY <1>2 DEF Rows
<1>4. asks => incident.proposal = of.proposal
  BY DEF Asks
<1>5. row.kind # "update" => row.why # "decided" \/ pc = "send" \/ pc = "skip"
  OBVIOUS
<1>6. /\ pc \in {"send", "skip", "edit"}
      /\ pc = "send" => row.kind # "update"
      /\ pc = "edit" => row.kind = "update" /\ of.shownAs # 0
  OBVIOUS
<1>7. asks \in BOOLEAN /\ buttons \in BOOLEAN
  BY Zenon DEF Asks, Waits
<1>8. buttons => asks
  OBVIOUS
<1> HIDE DEF pc, buttons, asks
<1>9. g.pc = pc /\ g.row = i /\ g.proposal = incident.proposal /\ g.buttons = buttons
  BY <1>1
<1>10. pc # "skip"
  BY <1>9
<1>11. g \in Deliveries
  BY <1>1, <1>2, <1>6, <1>7, <1>10 DEF Deliveries
<1>12. g.pc = "send" /\ g.buttons => g.proposal = outbox[g.row].proposal
  <2>1. CASE g.pc = "send" /\ g.buttons
    <3>1. row.kind = "ask"
      BY <1>3, <1>6, <1>8, <1>9, <2>1 DEF asks
    <3> QED  BY <1>4, <1>8, <1>9, <2>1, <3>1
  <2> QED  BY <2>1
<1>13. g.pc = "edit" =>
          /\ outbox[g.row].kind = "update" /\ outbox[outbox[g.row].target].shownAs # 0
          /\ g.buttons => g.proposal = outbox[outbox[g.row].target].proposal
  BY <1>4, <1>6, <1>8, <1>9
<1> QED  BY <1>6, <1>9, <1>11, <1>12, <1>13 DEF GatewaySound

\* There is an oldest message among those due.
LEMMA LeastNatural ==
    ASSUME NEW T, T \subseteq Nat, T # {} PROVE \E n \in T : \A m \in T : n <= m
<1> DEFINE R == {ss \in Nat \X Nat : ss[1] < ss[2]}
<1>1. IsWellFoundedOn(R, Nat)
  BY NatLessThanWellFounded DEF OpToRel
<1> HIDE DEF R
<1>2. PICK n \in T : \A m \in T : ~(<<m, n>> \in R)
  BY <1>1, WFMin
<1>3. ASSUME NEW m \in T PROVE n <= m
  <2>1. m \in Nat /\ n \in Nat /\ ~(<<m, n>> \in R)
    BY <1>2
  <2>2. ~(m < n)
    BY <2>1 DEF R
  <2> QED  BY <2>1, <2>2
<1> QED  BY <1>3

\* The gateway takes the oldest row and renders what it shows now.
LEMMA RenderKeeps ==
    ASSUME DecisionsSafe, Render, UNCHANGED pageVars PROVE DecisionsSafe'
<1> DEFINE i == CHOOSE n \in Due : \A m \in Due : n <= m
<1>1. /\ UNCHANGED <<incident, posted, runs, kept, audited, decided, sender>>
      /\ UNCHANGED <<screen, taps, link, links, submissions>> /\ Due # {} /\ gateway = Resting
  BY DEF Render, apiVars, apiRest, records, pageVars
<1>2. i \in DOMAIN outbox
  <2>1. Due \subseteq Nat /\ Due \subseteq DOMAIN outbox
    BY ChatFacts DEF Due
  <2>2. \E n \in Due : \A m \in Due : n <= m
    BY <1>1, <2>1, LeastNatural
  <2> QED  BY <2>1, <2>2
<1>3. \/ /\ outbox' = [outbox EXCEPT ![i].status = "sent"] /\ UNCHANGED gateway
      \/ /\ Rendered(i).pc # "skip"
         /\ gateway' = Rendered(i)
         /\ UNCHANGED outbox
  BY DEF Render
<1> HIDE DEF i
<1>4. /\ sender' \in [Senders -> {Idle} \cup RequestTypes]
      /\ SendersSound'
  BY <1>1, SendersStay
<1>5. CASE outbox' = [outbox EXCEPT ![i].status = "sent"] /\ UNCHANGED gateway
  <2> DEFINE row == [outbox[i] EXCEPT !.status = "sent"]
  <2>1. outbox' = [outbox EXCEPT ![i] = row]
    BY <1>5
  <2>2. /\ row \in Rows /\ row.kind = outbox[i].kind /\ row.target = outbox[i].target
        /\ row.proposal = outbox[i].proposal /\ row.version = outbox[i].version
        /\ row.shownAs = outbox[i].shownAs
    <3>1. outbox[i] \in Rows
      BY <1>2, ChatFacts
    <3> QED  BY <3>1 DEF Rows
  <2> HIDE DEF row
  <2>3. Grows(outbox, outbox', incident)
    BY <1>2, <2>1, <2>2, ChatFacts, RewriteGrows
  <2>4. outbox' \in Seq(Rows) /\ ChatSound(outbox', screen', gateway', taps', incident)
    BY <1>1, <1>5, <2>3, ChatFacts, GrowsKeeps DEF Grows
  <2> QED  BY <1>1, <1>4, <1>5, <2>4, ChatFacts, ChatKeeps
<1>6. CASE Rendered(i).pc # "skip" /\ gateway' = Rendered(i) /\ UNCHANGED outbox
  <2>1. gateway' \in Deliveries /\ GatewaySound(gateway', outbox, screen)
    BY <1>2, <1>6, RenderedFacts
  <2>2. ChatSound(outbox', screen', gateway', taps', incident)
    BY <1>1, <1>6, <2>1, ChatFacts DEF ChatSound
  <2> QED  BY <1>1, <1>4, <1>6, <2>1, <2>2, ChatFacts, ChatKeeps
<1> QED  BY <1>3, <1>5, <1>6

\* What Telegram shows after the call: a copy of the row, or the message edited.
LEMMA ShownFacts ==
    ASSUME DecisionsSafe, gateway.pc \in {"send", "edit"}
    PROVE  /\ Shown \in Seq(Messages) /\ ScreenSound(outbox, Shown)
           /\ gateway.row \in DOMAIN outbox
           /\ gateway.pc = "send" => Len(Shown) # 0 /\ Shown[Len(Shown)].row = gateway.row
<1> DEFINE message == [row |-> gateway.row, proposal |-> gateway.proposal,
                       buttons |-> gateway.buttons]
           of == outbox[gateway.row].target
           at == outbox[of].shownAs
<1>1. gateway # Resting /\ gateway \in Deliveries
  BY ChatFacts DEF Resting
<1>2. GatewaySound(gateway, outbox, screen) /\ ScreenSound(outbox, screen)
      /\ OutboxSound(outbox, incident)
  BY ChatFacts DEF ChatSound
<1>3. /\ gateway.row \in DOMAIN outbox
      /\ gateway.row \in Nat /\ gateway.proposal \in Nat /\ gateway.buttons \in BOOLEAN
  BY <1>1, <1>2 DEF GatewaySound, Deliveries
<1>4. outbox \in Seq(Rows) /\ screen \in Seq(Messages)
  BY ChatFacts
<1>5. CASE gateway.pc = "send"
  <2>1. /\ message \in Messages /\ message.row = gateway.row
        /\ message.proposal = gateway.proposal /\ message.buttons = gateway.buttons
    BY <1>3 DEF Messages
  <2>2. Shown = Append(screen, message)
    BY <1>5 DEF Shown
  <2> HIDE DEF message
  <2>3. /\ Shown \in Seq(Messages) /\ Len(Shown) = Len(screen) + 1 /\ Len(screen) \in Nat
        /\ DOMAIN Shown = DOMAIN screen \cup {Len(Shown)}
        /\ Shown[Len(Shown)] = message
        /\ \A m \in DOMAIN screen : Shown[m] = screen[m]
    BY <1>4, <2>1, <2>2
  <2>4. message.buttons => message.proposal = outbox[message.row].proposal
    BY <1>1, <1>2, <1>5, <2>1 DEF GatewaySound
  <2>5. ScreenSound(outbox, Shown)
    <3>1. \A i \in DOMAIN outbox : outbox[i].shownAs # 0 =>
             outbox[i].shownAs \in DOMAIN Shown /\ Shown[outbox[i].shownAs].row = i
      BY <1>2, <2>3 DEF ScreenSound
    <3>2. \A m \in DOMAIN Shown :
             /\ Shown[m].row \in DOMAIN outbox
             /\ Shown[m].buttons => Shown[m].proposal = outbox[Shown[m].row].proposal
      BY <1>2, <1>3, <2>1, <2>3, <2>4 DEF ScreenSound
    <3> QED  BY <3>1, <3>2 DEF ScreenSound
  <2> QED  BY <1>3, <2>1, <2>3, <2>5
<1>6. CASE gateway.pc = "edit"
  <2>1. /\ outbox[gateway.row].kind = "update" /\ at # 0
        /\ gateway.buttons => gateway.proposal = outbox[of].proposal
    BY <1>1, <1>2, <1>6 DEF GatewaySound
  <2>2. of \in DOMAIN outbox
    BY <1>2, <1>3, <2>1 DEF OutboxSound, RowSound
  <2>3. at \in DOMAIN screen /\ screen[at].row = of
    BY <1>2, <2>1, <2>2 DEF ScreenSound
  <2> DEFINE m0 == [screen[at] EXCEPT !.proposal = gateway.proposal]
             new == [m0 EXCEPT !.buttons = gateway.buttons]
  <2>4. Shown = [screen EXCEPT ![at] = new]
    BY <1>6 DEF Shown
  <2>5. screen[at] \in Messages
    BY <1>4, <2>3
  <2>6. m0 \in Messages /\ m0.row = screen[at].row /\ m0.proposal = gateway.proposal
    BY <1>3, <2>5 DEF Messages
  <2> HIDE DEF m0
  <2>7. /\ new \in Messages /\ new.row = screen[at].row /\ new.proposal = gateway.proposal
        /\ new.buttons = gateway.buttons
    BY <1>3, <2>6 DEF Messages
  <2> HIDE DEF new, at, of
  <2>8. /\ Shown \in Seq(Messages) /\ DOMAIN Shown = DOMAIN screen /\ Shown[at] = new
        /\ \A m \in DOMAIN screen : m # at => Shown[m] = screen[m]
    BY <1>4, <2>3, <2>4, <2>7
  <2>9. \A m \in DOMAIN screen : Shown[m].row = screen[m].row
    BY <2>7, <2>8
  <2>10. ScreenSound(outbox, Shown)
    <3>1. \A i \in DOMAIN outbox : outbox[i].shownAs # 0 =>
             outbox[i].shownAs \in DOMAIN Shown /\ Shown[outbox[i].shownAs].row = i
      BY <1>2, <2>8, <2>9 DEF ScreenSound
    <3>2. \A m \in DOMAIN Shown :
             /\ Shown[m].row \in DOMAIN outbox
             /\ Shown[m].buttons => Shown[m].proposal = outbox[Shown[m].row].proposal
      BY <1>2, <2>1, <2>3, <2>7, <2>8, <2>9 DEF ScreenSound
    <3> QED  BY <3>1, <3>2 DEF ScreenSound
  <2> QED  BY <1>3, <1>6, <2>8, <2>10
<1> QED  BY <1>5, <1>6

\* One attempt less changes nothing that anything else relies on.
LEMMA FailedGrows ==
    ASSUME DecisionsSafe, gateway.row \in DOMAIN outbox, NEW final \in BOOLEAN, Failed(final)
    PROVE  Grows(outbox, outbox', incident)
<1> DEFINE row == outbox[gateway.row]
           more == [row EXCEPT !.attempts = row.attempts + 1]
           status == IF final \/ row.attempts + 1 >= MaxAttempts THEN "dropped" ELSE "queued"
           new == [more EXCEPT !.status = status]
<1>1. outbox' = [outbox EXCEPT ![gateway.row] = new]
  BY DEF Failed
<1>seq. outbox \in Seq(Rows)
  BY ChatFacts
<1>2. row \in Rows
  BY <1>seq
<1> HIDE DEF row
<1>3. /\ more \in Rows /\ more.kind = row.kind /\ more.target = row.target
      /\ more.proposal = row.proposal /\ more.version = row.version
      /\ more.shownAs = row.shownAs
  <2> DEFINE n == row.attempts + 1
  <2>0. row.attempts \in Nat
    BY <1>2 DEF Rows
  <2>1. n \in Nat
    BY <2>0
  <2>2. more = [row EXCEPT !.attempts = n]
    OBVIOUS
  <2> HIDE DEF n, more
  <2> QED  BY <1>2, <2>1, <2>2 DEF Rows
<1>4. status \in {"queued", "dropped"}
  OBVIOUS
<1> HIDE DEF more, status
<1>5. /\ new \in Rows /\ new.kind = row.kind /\ new.target = row.target
      /\ new.proposal = row.proposal /\ new.version = row.version
      /\ new.shownAs = row.shownAs
  BY <1>3, <1>4 DEF Rows
<1> HIDE DEF new
<1> QED  BY <1>1, <1>seq, <1>5, RewriteGrows DEF row

\* The call to Telegram shows the message, and may be lost on its way back.
LEMMA DeliverKeeps ==
    ASSUME DecisionsSafe, Deliver, UNCHANGED pageVars PROVE DecisionsSafe'
<1>1. /\ gateway.pc \in {"send", "edit"}
      /\ UNCHANGED <<incident, posted, runs, kept, audited, decided, sender>>
      /\ UNCHANGED <<taps, link, links, submissions>>
  BY DEF Deliver, apiRest, records, pageVars
<1>2. /\ sender' \in [Senders -> {Idle} \cup RequestTypes]
      /\ SendersSound'
  BY <1>1, SendersStay
<1>3. gateway \in Deliveries
  BY <1>1, ChatFacts DEF Resting
<1>4. CASE /\ screen' = Shown /\ UNCHANGED outbox
           /\ gateway' = [gateway EXCEPT !.pc = IF gateway.pc = "send" THEN "sent" ELSE "edited"]
  <2>1. /\ gateway' \in Deliveries /\ gateway'.row = gateway.row
        /\ gateway'.pc \in {"sent", "edited"}
        /\ gateway'.pc = "sent" => gateway.pc = "send"
    BY <1>3, <1>4 DEF Deliveries
  <2>2. GatewaySound(gateway', outbox, screen')
    BY <1>1, <1>4, <2>1, ShownFacts DEF GatewaySound
  <2>3. ScreenSound(outbox, screen') /\ screen' \in Seq(Messages)
    BY <1>1, <1>4, ShownFacts
  <2>4. ChatSound(outbox', screen', gateway', taps', incident)
    BY <1>1, <1>4, <2>2, <2>3, ChatFacts DEF ChatSound
  <2> QED  BY <1>1, <1>2, <1>4, <2>1, <2>3, <2>4, ChatFacts, ChatKeeps
<1>5. ASSUME gateway' = Resting, NEW final \in BOOLEAN, Failed(final),
             screen' = screen \/ screen' = Shown
      PROVE  DecisionsSafe'
  <2>1. gateway.row \in DOMAIN outbox
    BY <1>1, ShownFacts
  <2>2. Grows(outbox, outbox', incident)
    BY <1>5, <2>1, FailedGrows
  <2>3. screen' \in Seq(Messages) /\ ScreenSound(outbox, screen')
    BY <1>1, <1>5, ShownFacts, ChatFacts DEF ChatSound
  <2>4. GatewaySound(gateway', outbox, screen')
    BY <1>5 DEF GatewaySound
  <2>5. ChatSound(outbox, screen', gateway', taps', incident)
    BY <1>1, <2>3, <2>4, ChatFacts DEF ChatSound
  <2>6. ChatSound(outbox', screen', gateway', taps', incident) /\ outbox' \in Seq(Rows)
    BY <2>2, <2>5, GrowsKeeps DEF Grows
  <2> QED  BY <1>1, <1>2, <1>5, <2>3, <2>6, ChatFacts, ChatKeeps
<1> QED  BY <1>4, <1>5 DEF Deliver

\* What was sent is recorded under the number of its message.
LEMMA RecordKeeps ==
    ASSUME DecisionsSafe, Record, UNCHANGED pageVars PROVE DecisionsSafe'
<1> DEFINE i == gateway.row
           id == IF gateway.pc = "sent" THEN Len(screen) ELSE 0
           sent == [outbox[i] EXCEPT !.status = "sent"]
           row == [sent EXCEPT !.shownAs = id]
<1>1. /\ gateway.pc \in {"sent", "edited"} /\ gateway' = Resting
      /\ UNCHANGED <<incident, posted, runs, kept, audited, decided, sender>>
      /\ UNCHANGED <<screen, taps, link, links, submissions>>
      /\ outbox' = [outbox EXCEPT ![i] = row]
  BY DEF Record, apiVars, apiRest, records, pageVars
<1>2. /\ sender' \in [Senders -> {Idle} \cup RequestTypes]
      /\ SendersSound'
  BY <1>1, SendersStay
<1>3. /\ outbox \in Seq(Rows) /\ screen \in Seq(Messages)
      /\ OutboxSound(outbox, incident) /\ ScreenSound(outbox, screen)
      /\ TapsSound(taps, outbox)
      /\ i \in DOMAIN outbox
      /\ gateway.pc = "sent" => Len(screen) # 0 /\ screen[Len(screen)].row = i
  <2>1. gateway # Resting
    BY <1>1 DEF Resting
  <2> QED  BY <2>1, ChatFacts DEF ChatSound, GatewaySound
<1>4. outbox[i] \in Rows /\ id \in Nat
  BY <1>3
<1>5. /\ sent \in Rows /\ sent.kind = outbox[i].kind /\ sent.target = outbox[i].target
      /\ sent.proposal = outbox[i].proposal /\ sent.version = outbox[i].version
  BY <1>4 DEF Rows
<1>6. id # 0 => id \in DOMAIN screen /\ screen[id].row = i
  BY <1>3
<1> HIDE DEF sent, id
<1>7. /\ row \in Rows /\ row.kind = outbox[i].kind /\ row.target = outbox[i].target
      /\ row.proposal = outbox[i].proposal /\ row.version = outbox[i].version
      /\ row.shownAs = id
  BY <1>4, <1>5 DEF Rows
<1> HIDE DEF row, i
<1>8. /\ outbox' \in Seq(Rows) /\ DOMAIN outbox' = DOMAIN outbox /\ outbox'[i] = row
      /\ \A j \in DOMAIN outbox : j # i => outbox'[j] = outbox[j]
  BY <1>1, <1>3, <1>7
<1>9. \A j \in DOMAIN outbox :
         /\ outbox'[j].kind = outbox[j].kind /\ outbox'[j].target = outbox[j].target
         /\ outbox'[j].proposal = outbox[j].proposal /\ outbox'[j].version = outbox[j].version
  BY <1>7, <1>8
<1>10. OutboxSound(outbox', incident)
  BY <1>3, <1>8, <1>9 DEF OutboxSound, RowSound
<1>11. ScreenSound(outbox', screen)
  <2>1. \A j \in DOMAIN outbox' : outbox'[j].shownAs # 0 =>
           outbox'[j].shownAs \in DOMAIN screen /\ screen[outbox'[j].shownAs].row = j
    BY <1>3, <1>6, <1>7, <1>8 DEF ScreenSound
  <2> QED  BY <1>3, <1>8, <1>9, <2>1 DEF ScreenSound
<1>12. TapsSound(taps, outbox')
  BY <1>3, <1>8, <1>9 DEF TapsSound
<1>13. ChatSound(outbox', screen', gateway', taps', incident)
  BY <1>1, <1>10, <1>11, <1>12 DEF ChatSound, GatewaySound
<1> QED  BY <1>1, <1>2, <1>8, <1>13, ChatFacts, ChatKeeps

\* The gateway dies between a call and its record.
LEMMA GatewayDownKeeps ==
    ASSUME DecisionsSafe, GatewayDown, UNCHANGED pageVars PROVE DecisionsSafe'
<1>1. /\ UNCHANGED <<incident, posted, runs, kept, audited, decided, sender>>
      /\ UNCHANGED <<outbox, screen, taps, link, links, submissions>> /\ gateway' = Resting
  BY DEF GatewayDown, apiRest, records, pageVars
<1>2. /\ sender' \in [Senders -> {Idle} \cup RequestTypes]
      /\ SendersSound'
  BY <1>1, SendersStay
<1>3. ChatSound(outbox', screen', gateway', taps', incident)
  BY <1>1, ChatFacts DEF ChatSound, GatewaySound
<1> QED  BY <1>1, <1>2, <1>3, ChatFacts, ChatKeeps

\* The chat is unlinked: what waited for it is dropped.
LEMMA UnlinkKeeps ==
    ASSUME DecisionsSafe, Unlink, UNCHANGED pageVars PROVE DecisionsSafe'
<1>1. /\ UNCHANGED <<incident, posted, runs, kept, audited, decided, sender>>
      /\ UNCHANGED <<screen, gateway, taps, links, submissions>> /\ link' = 0
      /\ outbox' = [i \in DOMAIN outbox |->
                      IF outbox[i].status = "queued" THEN [outbox[i] EXCEPT !.status = "dropped"]
                      ELSE outbox[i]]
  BY DEF Unlink, apiRest, records, pageVars
<1>2. /\ sender' \in [Senders -> {Idle} \cup RequestTypes]
      /\ SendersSound'
  BY <1>1, SendersStay
<1>3. outbox \in Seq(Rows)
  BY ChatFacts
<1>4. ASSUME NEW i \in DOMAIN outbox
      PROVE  /\ outbox'[i] \in Rows
             /\ outbox'[i].kind = outbox[i].kind /\ outbox'[i].target = outbox[i].target
             /\ outbox'[i].proposal = outbox[i].proposal
             /\ outbox'[i].version = outbox[i].version /\ outbox'[i].shownAs = outbox[i].shownAs
  <2>1. outbox[i] \in Rows
    BY <1>3
  <2>2. outbox'[i] = outbox[i] \/ outbox'[i] = [outbox[i] EXCEPT !.status = "dropped"]
    BY <1>1
  <2> QED  BY <2>1, <2>2 DEF Rows
<1>5. outbox' \in Seq(Rows) /\ DOMAIN outbox' = DOMAIN outbox
  <2>1. DOMAIN outbox = 1 .. Len(outbox) /\ Len(outbox) \in Nat
    BY <1>3
  <2>2. outbox' \in [1 .. Len(outbox) -> Rows]
    BY <1>1, <1>4, <2>1
  <2> QED  BY <2>1, <2>2
<1>6. Grows(outbox, outbox', incident)
  BY <1>4, <1>5 DEF Grows
<1>7. ChatSound(outbox', screen', gateway', taps', incident)
  BY <1>1, <1>6, ChatFacts, GrowsKeeps
<1> QED  BY <1>1, <1>2, <1>5, <1>7, ChatFacts, ChatKeeps

\* A chat is linked, and is sent a first note.
LEMMA LinkKeeps ==
    ASSUME DecisionsSafe, Link, UNCHANGED pageVars PROVE DecisionsSafe'
<1> DEFINE note == Row("note", <<"note", links + 1, 0>>)
<1>1. /\ UNCHANGED <<incident, posted, runs, kept, audited, decided, sender>>
      /\ UNCHANGED <<screen, gateway, taps, submissions>>
      /\ links' = links + 1 /\ link' \in {link, links + 1}
      /\ outbox' = enqueue(outbox, note)
  BY DEF Link, apiRest, records, pageVars
<1>2. /\ sender' \in [Senders -> {Idle} \cup RequestTypes]
      /\ SendersSound'
  BY <1>1, SendersStay
<1>3. link' \in Nat /\ links' \in Nat /\ links + 1 \in Nat
  BY <1>1, ChatFacts
<1>4. Grows(outbox, outbox', incident)
  <2>1. <<"note", links + 1, 0>> \in Dedups
    BY <1>3 DEF Dedups
  <2>2. note \in Rows /\ note.version = 0 /\ note.shownAs = 0 /\ note.kind = "note"
    BY <2>1, RowFacts
  <2> HIDE DEF note
  <2>3. NewRow(note, outbox, incident)
    BY <2>2, ChatFacts, UnversionedNew
  <2> QED  BY <1>1, <2>3, ChatFacts, EnqueueGrows
<1>5. outbox' \in Seq(Rows) /\ ChatSound(outbox', screen', gateway', taps', incident)
  BY <1>1, <1>4, ChatFacts, GrowsKeeps DEF Grows
<1> QED  BY <1>1, <1>2, <1>3, <1>5, ChatFacts, ChatKeeps

-----------------------------------------------------------------------------
(* Taps *)

\* A tap that is queued again, claimed or done is about what it was about.
LEMMA TapsKeep ==
    ASSUME DecisionsSafe, NEW queue \in Seq(TapTypes), DOMAIN queue = DOMAIN taps,
           \A i \in DOMAIN taps : queue[i].row = taps[i].row /\ queue[i].shown = taps[i].shown
                                  /\ queue[i].version = taps[i].version
    PROVE  TapsSound(queue, outbox)
BY ChatFacts DEF ChatSound, TapsSound

\* A person presses a button: the tap carries what the message was written for.
LEMMA PressKeeps ==
    ASSUME DecisionsSafe, NEW i \in DOMAIN screen, NEW choice \in Verdicts, Press(i, choice),
           UNCHANGED pageVars
    PROVE  DecisionsSafe'
<1> DEFINE row == screen[i].row
           new == TapRow(row, choice, screen[i].proposal)
           mine == {j \in DOMAIN taps : taps[j].row = row /\ taps[j].choice = choice}
           again(j) == [taps[j] EXCEPT !.status = "queued", !.attempts = 0, !.reply = ""]
<1>1. /\ UNCHANGED <<incident, posted, runs, kept, audited, decided, sender>>
      /\ UNCHANGED <<outbox, screen, gateway, link, links, submissions>>
      /\ screen[i].buttons /\ queue_tap(row, choice, screen[i].proposal)
  BY DEF Press, apiVars, apiRest, records, pageVars
<1>2. /\ taps \in Seq(TapTypes) /\ outbox \in Seq(Rows) /\ screen \in Seq(Messages)
      /\ TapsSound(taps, outbox)
      /\ row \in DOMAIN outbox /\ screen[i].proposal = outbox[row].proposal
  BY <1>1, ChatFacts DEF ChatSound, ScreenSound
<1>3. /\ taps' \in Seq(TapTypes) /\ DOMAIN taps \subseteq DOMAIN taps'
      /\ TapsSound(taps', outbox)
  <2>1. CASE mine = {}
    <3>1. taps' = Append(taps, new)
      BY <1>1, <2>1 DEF queue_tap
    <3>2. /\ row \in Nat /\ outbox[row] \in Rows /\ screen[i] \in Messages
      BY <1>2
    <3>3. /\ new \in TapTypes /\ new.row = row /\ new.shown = screen[i].proposal
          /\ new.version = outbox[row].version
      BY <3>2 DEF TapRow, TapVersion, TapTypes, Rows, Messages, Replies
    <3> HIDE DEF new
    <3>4. /\ taps' \in Seq(TapTypes) /\ DOMAIN taps' = DOMAIN taps \cup {Len(taps) + 1}
          /\ taps'[Len(taps) + 1] = new /\ \A j \in DOMAIN taps : taps'[j] = taps[j]
      BY <1>2, <3>1, <3>3
    <3> QED  BY <1>2, <3>3, <3>4 DEF TapsSound
  <2>2. CASE mine # {}
    <3>1. taps' = [j \in DOMAIN taps |->
                     IF j \in mine /\ taps[j].status = "done" /\ taps[j].reply # "ok"
                     THEN again(j) ELSE taps[j]]
      BY <1>1, <2>2 DEF queue_tap
    <3>2. ASSUME NEW j \in DOMAIN taps
          PROVE  /\ taps'[j] \in TapTypes /\ taps'[j].row = taps[j].row
                 /\ taps'[j].shown = taps[j].shown /\ taps'[j].version = taps[j].version
      <4>1. taps[j] \in TapTypes
        BY <1>2
      <4> DEFINE a == [taps[j] EXCEPT !.status = "queued"]
                 b == [a EXCEPT !.attempts = 0]
                 c == [b EXCEPT !.reply = ""]
      <4>2. taps'[j] = taps[j] \/ taps'[j] = c
        BY <3>1
      <4>3. /\ a \in TapTypes /\ a.row = taps[j].row
            /\ a.shown = taps[j].shown /\ a.version = taps[j].version
        BY <4>1 DEF TapTypes
      <4> HIDE DEF a
      <4>4. /\ b \in TapTypes /\ b.row = taps[j].row
            /\ b.shown = taps[j].shown /\ b.version = taps[j].version
        BY <4>3 DEF TapTypes
      <4> HIDE DEF b
      <4>5. /\ c \in TapTypes /\ c.row = taps[j].row
            /\ c.shown = taps[j].shown /\ c.version = taps[j].version
        BY <4>4 DEF TapTypes, Replies
      <4> HIDE DEF c
      <4> QED  BY <4>1, <4>2, <4>5
    <3>3. taps' \in Seq(TapTypes) /\ DOMAIN taps' = DOMAIN taps
      <4>1. DOMAIN taps = 1 .. Len(taps) /\ Len(taps) \in Nat
        BY <1>2
      <4>2. taps' \in [1 .. Len(taps) -> TapTypes]
        BY <3>1, <3>2, <4>1
      <4> QED  BY <4>1, <4>2
    <3> QED  BY <3>2, <3>3, TapsKeep
  <2> QED  BY <2>1, <2>2
<1>4. /\ sender' \in [Senders -> {Idle} \cup RequestTypes]
      /\ SendersSound'
  BY <1>1, <1>3, SendersStay
<1>5. ChatSound(outbox', screen', gateway', taps', incident)
  BY <1>1, <1>3, ChatFacts DEF ChatSound
<1> QED  BY <1>1, <1>3, <1>4, <1>5, ChatFacts, ChatKeeps

\* A worker claims the oldest tap and sends its decision.
LEMMA ClaimKeeps ==
    ASSUME DecisionsSafe, NEW w \in Workers, Claim(w), UNCHANGED pageVars PROVE DecisionsSafe'
<1> DEFINE due == {n \in DOMAIN taps : Claimable(n)}
           i == CHOOSE n \in due : \A m \in due : n <= m
           tap == taps[i]
           r == Request(tap.choice, tap.version, <<"tap", i>>, tap.shown)
           one == [tap EXCEPT !.status = "claimed"]
           claimed == [one EXCEPT !.attempts = tap.attempts + 1]
<1>1. /\ UNCHANGED <<incident, posted, runs, kept, audited, decided>>
      /\ UNCHANGED <<outbox, screen, gateway, link, links, submissions>> /\ due # {}
      /\ taps' = [taps EXCEPT ![i] = claimed]
      /\ sender' = [sender EXCEPT ![w] = r]
  BY DEF Claim, records, pageVars
<1>2. /\ taps \in Seq(TapTypes) /\ outbox \in Seq(Rows) /\ TapsSound(taps, outbox)
      /\ OutboxSound(outbox, incident)
  BY ChatFacts DEF ChatSound
<1>3. i \in DOMAIN taps /\ i \in Nat
  <2>1. due \subseteq Nat /\ due \subseteq DOMAIN taps
    BY <1>2
  <2>2. \E n \in due : \A m \in due : n <= m
    BY <1>1, <2>1, LeastNatural
  <2> HIDE DEF due
  <2> QED  BY <2>1, <2>2
<1> HIDE DEF i
<1>4. tap \in TapTypes
  BY <1>2, <1>3
<1>5. /\ tap.row \in DOMAIN outbox /\ tap.shown = outbox[tap.row].proposal
      /\ tap.version = outbox[tap.row].version
  BY <1>2, <1>3 DEF TapsSound
<1>6. /\ tap.version <= incident.version
      /\ tap.version = incident.version => tap.shown = incident.proposal
  BY <1>2, <1>5 DEF OutboxSound, RowSound
<1> HIDE DEF tap
<1>7. /\ tap.choice \in Verdicts /\ tap.version \in Nat /\ tap.shown \in Nat
  BY <1>4 DEF TapTypes
<1>8. /\ r \in RequestTypes /\ r.command[2] = i /\ r.version = tap.version
      /\ r.pc = "check" /\ r.shown = tap.shown
  <2> DEFINE c == <<"tap", i>>
  <2>1. c \in CommandTypes /\ c[2] = i
    BY <1>3 DEF CommandTypes
  <2> HIDE DEF c
  <2> QED  BY <1>7, <2>1 DEF Request, RequestTypes, Replies, c
<1> HIDE DEF r
<1>9. /\ one \in TapTypes /\ one.row = tap.row /\ one.shown = tap.shown
      /\ one.version = tap.version /\ tap.attempts \in Nat
  BY <1>4 DEF TapTypes
<1> HIDE DEF one
<1>10. /\ claimed \in TapTypes /\ claimed.row = tap.row /\ claimed.shown = tap.shown
       /\ claimed.version = tap.version
  BY <1>9 DEF TapTypes
<1> HIDE DEF claimed
<1>11. /\ taps' \in Seq(TapTypes) /\ DOMAIN taps' = DOMAIN taps
       /\ \A j \in DOMAIN taps : taps'[j].row = taps[j].row /\ taps'[j].shown = taps[j].shown
                                 /\ taps'[j].version = taps[j].version
  BY <1>1, <1>2, <1>3, <1>10 DEF tap
<1>12. SenderSound(r, incident', audited', kept')
  BY <1>1, <1>6, <1>8 DEF SenderSound
<1>13. \A t \in Senders : SenderSound(sender[t], incident', audited', kept')
  BY <1>1, StillSound
<1>14. w \in Senders
  BY WorkersAssumption
<1>15. /\ sender' \in [Senders -> {Idle} \cup RequestTypes]
       /\ SendersSound'
  BY <1>1, <1>3, <1>8, <1>11, <1>12, <1>13, <1>14, SenderSteps
<1>16. ChatSound(outbox', screen', gateway', taps', incident)
  BY <1>1, <1>11, ChatFacts, TapsKeep DEF ChatSound
<1> QED  BY <1>1, <1>11, <1>15, <1>16, ChatFacts, ChatKeeps

\* What a tap that decided nothing tells the chat is about the message it came from.
LEMMA FollowUpGrows ==
    ASSUME DecisionsSafe, NEW i \in DOMAIN taps, NEW reply
    PROVE  Grows(outbox, FollowUp(i, reply), incident)
<1> DEFINE at == taps[i].row
           row == outbox[at]
           d == <<"tap", i, 0>>
           e == <<"ask", row.proposal, incident.version>>
           refused == Update(at, "refused", d)
           stale == Update(at, "stale", d)
           ask == Ask(row.proposal, incident.version, row.link, e)
           told == enqueue(outbox, stale)
<1>1. /\ taps \in Seq(TapTypes) /\ outbox \in Seq(Rows) /\ incident \in IncidentTypes
      /\ at \in DOMAIN outbox
  BY ChatFacts DEF ChatSound, TapsSound
<1>2. i \in Nat /\ at \in Nat /\ row \in Rows /\ incident.version \in Nat
  BY <1>1, ProposalNumbers
<1>3. row.proposal \in Nat /\ row.link \in Nat
  BY <1>2 DEF Rows
<1>4. d \in Dedups /\ e \in Dedups
  BY <1>2, <1>3 DEF Dedups
<1>5. /\ \/ FollowUp(i, reply) = enqueue(outbox, refused)
         \/ Asks(row) /\ FollowUp(i, reply) = enqueue(told, ask)
         \/ FollowUp(i, reply) = outbox
  BY DEF FollowUp
<1> HIDE DEF d, e
<1>6. NewRow(refused, outbox, incident) /\ NewRow(stale, outbox, incident)
  <2>1. /\ refused \in Rows /\ refused.version = 0 /\ refused.target = at
        /\ refused.shownAs = 0
    BY <1>2, <1>4, UpdateFacts
  <2>2. /\ stale \in Rows /\ stale.version = 0 /\ stale.target = at /\ stale.shownAs = 0
    BY <1>2, <1>4, UpdateFacts
  <2> HIDE DEF refused, stale
  <2> QED  BY <1>1, <2>1, <2>2, UnversionedNew
<1>7. Asks(row) => NewRow(ask, told, incident)
  <2>1. \A x, y, l \in Nat, dd \in Dedups :
           LET a == Ask(x, y, l, dd)
           IN /\ a \in Rows /\ a.kind = "ask" /\ a.version = y
              /\ a.proposal = x /\ a.shownAs = 0
    BY AskFacts
  <2>2. /\ ask \in Rows /\ ask.kind = "ask" /\ ask.version = incident.version
        /\ ask.proposal = row.proposal /\ ask.shownAs = 0
    <3> DEFINE x == row.proposal
               l == row.link
               v == incident.version
    <3>1. x \in Nat /\ l \in Nat /\ v \in Nat /\ e \in Dedups
      BY <1>2, <1>3, <1>4
    <3>2. ask = Ask(x, v, l, e)
      OBVIOUS
    <3> HIDE DEF x, l, v
    <3>3. LET a == Ask(x, v, l, e)
          IN /\ a \in Rows /\ a.kind = "ask" /\ a.version = v
             /\ a.proposal = x /\ a.shownAs = 0
      BY <2>1, <3>1
    <3> QED  BY <3>2, <3>3 DEF x, v
  <2> HIDE DEF ask, told
  <2> QED  BY <1>1, <2>2, AskNew DEF Asks
<1> HIDE DEF refused, stale, ask
<1>8. Grows(outbox, enqueue(outbox, refused), incident) /\ Grows(outbox, told, incident)
  BY <1>1, <1>6, EnqueueGrows
<1>9. told \in Seq(Rows)
  BY <1>8 DEF Grows
<1> HIDE DEF told
<1>10. Asks(row) => Grows(told, enqueue(told, ask), incident)
  BY <1>7, <1>9, EnqueueGrows
<1> QED  BY <1>1, <1>5, <1>8, <1>10, GrowsTwice, GrowsNot

\* The tap is done, and the chat is told what its decision came to.
LEMMA TapDoneKeeps ==
    ASSUME DecisionsSafe, NEW w \in Workers, TapDone(w), UNCHANGED pageVars PROVE DecisionsSafe'
<1> DEFINE i == sender[w].command[2]
           tap == taps[i]
           one == [tap EXCEPT !.status = "done"]
           done == [one EXCEPT !.reply = sender[w].reply]
<1>1. /\ UNCHANGED <<incident, posted, runs, kept, audited, decided>>
      /\ UNCHANGED <<screen, gateway, link, links, submissions>>
      /\ sender[w].pc = "reply"
      /\ outbox' = FollowUp(i, sender[w].reply)
      /\ taps' = [taps EXCEPT ![i] = done]
      /\ sender' = [sender EXCEPT ![w] = Idle]
  BY DEF TapDone, records, pageVars
<1>2. w \in Senders
  BY WorkersAssumption
<1>3. sender[w] # Idle
  BY <1>1 DEF Idle
<1>4. i \in DOMAIN taps /\ sender[w] \in RequestTypes
  BY <1>2, <1>3 DEF DecisionsSafe, SendersSound, Types
<1>5. sender[w].reply \in Replies
  BY <1>4 DEF RequestTypes
<1>6. taps \in Seq(TapTypes)
  BY ChatFacts
<1>7. tap \in TapTypes
  BY <1>4, <1>6
<1> HIDE DEF i, tap
<1>8. /\ one \in TapTypes /\ one.row = tap.row /\ one.shown = tap.shown
      /\ one.version = tap.version
  BY <1>7 DEF TapTypes
<1> HIDE DEF one
<1>9. /\ done \in TapTypes /\ done.row = tap.row /\ done.shown = tap.shown
      /\ done.version = tap.version
  BY <1>5, <1>8 DEF TapTypes
<1> HIDE DEF done
<1>10. /\ taps' \in Seq(TapTypes) /\ DOMAIN taps' = DOMAIN taps
       /\ \A j \in DOMAIN taps : taps'[j].row = taps[j].row /\ taps'[j].shown = taps[j].shown
                                 /\ taps'[j].version = taps[j].version
  BY <1>1, <1>4, <1>6, <1>9 DEF tap
<1>11. \A t \in Senders : SenderSound(sender[t], incident', audited', kept')
  BY <1>1, StillSound
<1>12. /\ sender' \in [Senders -> {Idle} \cup RequestTypes]
       /\ SendersSound'
  BY <1>1, <1>2, <1>10, <1>11, SenderSteps
<1>13. ChatSound(outbox, screen', gateway', taps', incident)
  BY <1>1, <1>10, ChatFacts, TapsKeep DEF ChatSound
<1>14. Grows(outbox, outbox', incident)
  BY <1>1, <1>4, FollowUpGrows
<1>15. outbox' \in Seq(Rows) /\ ChatSound(outbox', screen', gateway', taps', incident)
  BY <1>13, <1>14, GrowsKeeps DEF Grows
<1> QED  BY <1>1, <1>10, <1>12, <1>15, ChatFacts, ChatKeeps

-----------------------------------------------------------------------------
(* The console *)

\* A person decides on the page, on the version that the page shows.
LEMMA DecideKeeps ==
    ASSUME DecisionsSafe, NEW choice \in Verdicts, decide(choice) PROVE DecisionsSafe'
<1> DEFINE r == Request(choice, incident.version, <<"page", submissions'>>, incident.proposal)
<1>1. /\ UNCHANGED <<incident, posted, runs, kept, audited, decided>>
      /\ UNCHANGED <<outbox, screen, gateway, taps, link, links>>
      /\ submissions' \in {submissions, submissions + 1}
      /\ sender' = [sender EXCEPT ![Console] = r]
  BY DEF decide, records, chatVars
<1>2. submissions' \in Nat
  BY <1>1, ChatFacts
<1>3. incident.version \in Nat /\ incident.proposal \in Nat
  BY ProposalNumbers
<1>4. /\ r \in RequestTypes /\ r.version = incident.version /\ r.pc = "check"
      /\ r.shown = incident.proposal
  <2>1. <<"page", submissions'>> \in CommandTypes
    BY <1>2 DEF CommandTypes
  <2> QED  BY <1>3, <2>1 DEF Request, RequestTypes, Replies
<1> HIDE DEF r
<1>5. SenderSound(r, incident', audited', kept')
  BY <1>1, <1>3, <1>4 DEF SenderSound
<1>6. \A t \in Senders : SenderSound(sender[t], incident', audited', kept')
  BY <1>1, StillSound
<1>7. Console \in Senders /\ Console \notin Workers
  BY ConsoleAssumption
<1>8. /\ sender' \in [Senders -> {Idle} \cup RequestTypes]
      /\ SendersSound'
  BY <1>1, <1>4, <1>5, <1>6, <1>7, SenderSteps
<1> QED  BY <1>1, <1>2, <1>8, ChatFacts, ChatKeeps

\* The page gets its answer.
LEMMA DecisionAnsweredKeeps ==
    ASSUME DecisionsSafe, DecisionAnswered PROVE DecisionsSafe'
<1>1. /\ UNCHANGED <<incident, posted, runs, kept, audited, decided, submissions>>
      /\ UNCHANGED <<outbox, screen, gateway, taps, link, links>>
      /\ sender' = [sender EXCEPT ![Console] = Idle]
  BY DEF DecisionAnswered, records, chatVars
<1>2. \A t \in Senders : SenderSound(sender[t], incident', audited', kept')
  BY <1>1, StillSound
<1>3. Console \in Senders
  BY ConsoleAssumption
<1>4. /\ sender' \in [Senders -> {Idle} \cup RequestTypes]
      /\ SendersSound'
  BY <1>1, <1>2, <1>3, SenderSteps
<1> QED  BY <1>1, <1>4, ChatFacts, ChatKeeps

-----------------------------------------------------------------------------
(* Theorems *)

\* Nobody has proposed, written or decided anything yet.
LEMMA InitDecisions == Init => DecisionsSafe
<1> SUFFICES ASSUME Init PROVE DecisionsSafe
  OBVIOUS
<1>1. Types
  <2>1. incident \in IncidentTypes /\ ~Waits
    BY ProposalsAssumption DEF Init, ApiInit, IncidentTypes, States, Waits
  <2>2. sender \in [Senders -> {Idle} \cup RequestTypes]
    BY DEF Init, ApiInit
  <2>3. outbox \in Seq(Rows) /\ screen \in Seq(Messages) /\ taps \in Seq(TapTypes)
    <3>1. outbox = <<>> /\ screen = <<>> /\ taps = <<>>
      BY DEF Init, ChatInit
    <3> QED  BY <3>1, EmptySeq
  <2>4. gateway \in {Resting} \cup Deliveries
    BY DEF Init, ChatInit
  <2>5. link \in Nat /\ links \in Nat /\ submissions \in Nat
    BY DEF Init, ChatInit
  <2> QED  BY <2>1, <2>2, <2>3, <2>4, <2>5 DEF Types
<1>2. ExecutorSound
  BY DEF Init, ApiInit, ExecutorSound
<1>3. SendersSound
  BY DEF Init, ApiInit, SendersSound, SenderSound
<1>4. ChatSound(outbox, screen, gateway, taps, incident)
  <2>1. /\ DOMAIN outbox = {} /\ DOMAIN screen = {} /\ DOMAIN taps = {}
        /\ gateway = Resting
    <3>1. outbox = <<>> /\ screen = <<>> /\ taps = <<>> /\ gateway = Resting
      BY DEF Init, ChatInit
    <3> QED  BY <3>1, EmptySeq
  <2>2. GatewaySound(gateway, outbox, screen)
    BY <2>1 DEF GatewaySound, Resting
  <2> QED  BY <2>1, <2>2 DEF ChatSound, OutboxSound, ScreenSound, TapsSound
<1>5. VerifyingMeansItRan /\ DecidesWhatChatShows
  BY DEF Init, ApiInit, VerifyingMeansItRan, DecidesWhatChatShows
<1> QED  BY <1>1, <1>2, <1>3, <1>4, <1>5 DEF DecisionsSafe

\* Every step of people, processes and faults keeps the invariant.
LEMMA StepDecisions == DecisionsSafe /\ [Next]_vars => DecisionsSafe'
<1> SUFFICES ASSUME DecisionsSafe, [Next]_vars PROVE DecisionsSafe'
  OBVIOUS
<1>1. CASE System /\ UNCHANGED pageVars
  <2>1. ASSUME NEW s \in Senders, Api(s) PROVE DecisionsSafe'
    <3>1. CASE Handles(s) /\ UNCHANGED chatVars
      BY <1>1, <3>1, CheckKeeps, AnsweredKeeps DEF Handles
    <3>2. CASE Commit(s)
      BY <1>1, <3>2, DecidesKeeps, DecidesNothingKeeps DEF Commit
    <3> QED  BY <2>1, <3>1, <3>2 DEF Api
  <2>2. CASE Executes /\ UNCHANGED chatVars
    BY <1>1, <2>2, ExecutorKeeps
  <2>3. CASE Delivery
    BY <1>1, <2>3, RenderKeeps, DeliverKeeps, RecordKeeps DEF Delivery
  <2>4. ASSUME NEW w \in Workers, Carries(w) PROVE DecisionsSafe'
    BY <1>1, <2>4, ClaimKeeps, TapDoneKeeps DEF Carries
  <2> QED  BY <1>1, <2>1, <2>2, <2>3, <2>4 DEF System
<1>2. CASE (Propose \/ (Patch /\ UNCHANGED chatVars) \/ (ApiDown /\ UNCHANGED chatVars))
           /\ UNCHANGED pageVars
  BY <1>2, ProposeKeeps, PatchKeeps, ApiDownKeeps
<1>3. CASE (GatewayDown \/ Unlink \/ Link) /\ UNCHANGED pageVars
  BY <1>3, GatewayDownKeeps, UnlinkKeeps, LinkKeeps
<1>4. CASE (\E i \in DOMAIN screen, choice \in Verdicts : Press(i, choice)) /\ UNCHANGED pageVars
  BY <1>4, PressKeeps
<1>5. CASE \E choice \in Verdicts : decide(choice)
  BY <1>5, DecideKeeps
<1>6. CASE DecisionAnswered
  BY <1>6, DecisionAnsweredKeeps
<1>7. CASE UNCHANGED vars
  <2>1. /\ UNCHANGED <<incident, posted, runs, kept, audited, decided, sender, submissions>>
        /\ UNCHANGED <<outbox, screen, gateway, taps, link, links>>
    BY <1>7 DEF vars, apiVars, apiRest, records, chatVars, pageVars
  <2>2. /\ sender' \in [Senders -> {Idle} \cup RequestTypes]
        /\ SendersSound'
    BY <2>1, SendersStay
  <2> QED  BY <2>1, <2>2, ChatFacts, ChatKeeps
<1> QED  BY <1>1, <1>2, <1>3, <1>4, <1>5, <1>6, <1>7 DEF Next

\* The inductive invariant always holds.
THEOREM DecisionsKnown == Spec => []DecisionsSafe
BY InitDecisions, StepDecisions, PTL DEF Spec

\* RunCommandService.send: an approval that names an operation is on record only once the
\* executor keeps its success and the audit has it.
THEOREM ApprovedMeansItRan == Spec => []VerifyingMeansItRan
<1>1. DecisionsSafe => VerifyingMeansItRan
  BY DEF DecisionsSafe
<1> QED  BY <1>1, DecisionsKnown, PTL

\* OperationExecutor.run: a proposal's operation runs under one key, whoever approves it.
THEOREM ProposalRunsOnce == Spec => []OneRunPerProposal
<1>1. ASSUME DecisionsSafe PROVE OneRunPerProposal
  <2>1. ASSUME NEW j \in OperationKeys, NEW k \in OperationKeys, runs[j] > 0, runs[k] > 0,
               j[1] = k[1]
        PROVE  j = k
    <3>1. j \in Proposals \X {NoKey} /\ k \in Proposals \X {NoKey}
      BY <1>1, <2>1 DEF DecisionsSafe, ExecutorSound
    <3> QED  BY <2>1, <3>1
  <2> QED  BY <2>1 DEF OneRunPerProposal
<1>2. DecisionsSafe => OneRunPerProposal
  BY <1>1
<1> QED  BY <1>2, DecisionsKnown, PTL

\* queue_tap and its worker: a decision from the chat is on the proposal the chat showed.
THEOREM ChatDecidesWhatItShows == Spec => []DecidesWhatChatShows
<1>1. DecisionsSafe => DecidesWhatChatShows
  BY DEF DecisionsSafe
<1> QED  BY <1>1, DecisionsKnown, PTL
=============================================================================
