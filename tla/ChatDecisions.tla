---------------------------- MODULE ChatDecisions ----------------------------
(***************************************************************************)
(* Decisions from a linked chat: the outbox and its delivery               *)
(* (chat/outbox.py, chat/telegram.py), the buttons (chat/decisions.py),    *)
(* the queue of taps and its worker in the API (chat/taps.py), and the     *)
(* triggers that queue the messages (migrations 20261030_07, 20261030_08,  *)
(* 20261102_01).                                                           *)
(*                                                                         *)
(* One chat.  A message is queued with the proposal, the version and the   *)
(* link it was written for, and rendered when it is sent; the screen is    *)
(* what Telegram shows, copies left by a send that was not recorded        *)
(* included.  Texts are abstracted to the proposal they tell.              *)
(***************************************************************************)
EXTENDS MitigationApproval, SequencesExt

CONSTANTS Requested,      \* whether a person asked for the run, or the system started it
          Workers,        \* tap workers, one in each API process
          MaxAttempts,    \* MAX_ATTEMPTS of a message
          MaxTapAttempts, \* MAX_TAP_ATTEMPTS
          MaxPresses      \* bound

ASSUME WorkersAssumption == Workers \subseteq Senders

VARIABLES policy,    \* whether the run's outcome interrupts people, once decided
          link,      \* the chat's link, 0 when it has none
          links,     \* links made so far
          outbox,    \* the queued messages, oldest first
          screen,    \* what the chat shows
          gateway,   \* the delivery under way
          taps,      \* the queued taps, oldest first
          presses

chatVars == <<policy, link, links, outbox, screen, gateway, taps, presses>>

Resting == [pc |-> "idle"]

-----------------------------------------------------------------------------
(* The outbox *)

Row(kind, dedup) ==
    [kind |-> kind, dedup |-> dedup, proposal |-> 0, version |-> 0, link |-> 0, target |-> 0,
     why |-> "", status |-> "queued", attempts |-> 0, shownAs |-> 0]

Ask(proposal, version, at, dedup) ==
    [Row("ask", dedup) EXCEPT !.proposal = proposal, !.version = version, !.link = at]
Update(target, why, dedup) == [Row("update", dedup) EXCEPT !.target = target, !.why = why]

\* enqueue: a dedup key the chat already has queues nothing.
enqueue(rows, row) ==
    IF \E i \in DOMAIN rows : rows[i].dedup = row.dedup THEN rows ELSE Append(rows, row)

\* mitigation_decision: a message asks while its proposal is the current one and waits.
Asks(row) == Waits /\ incident.proposal = row.proposal

\* enqueue_dispatch_chat_messages: whether an investigation's end interrupts anybody.
verdict(recovered, pending) ==
    CASE Requested                              -> "interrupt"
      [] ~Requested /\ recovered                -> "digest"
      [] ~Requested /\ ~recovered /\ pending    -> "interrupt"
      [] ~Requested /\ ~recovered /\ ~pending   -> "digest"

Conclusion == Row("note", <<"conclusion", 0, 0>>)

\* The proposal's commit.  The policy decides once for the run; a run that a person asked for is
\* told how it ended, and a proposal of a run that interrupts asks every linked chat
\* (enqueue_mitigation_decision).
Propose ==
    /\ Proposed
    /\ \E recovered \in BOOLEAN :
        /\ IF recovered THEN policy = "" /\ Upset ELSE UNCHANGED upsets
        /\ policy' = IF policy = "" THEN verdict(recovered, TRUE) ELSE policy
    /\ LET told == IF Requested THEN enqueue(outbox, Conclusion) ELSE outbox
           ask == Ask(incident'.proposal, incident'.version, link, <<"ask", incident'.proposal, 0>>)
       IN outbox' = CASE link = 0                       -> outbox
                      [] link # 0 /\ policy' = "digest" -> told
                      [] OTHER                          -> enqueue(told, ask)
    /\ UNCHANGED <<link, links, screen, gateway, taps, presses>>

ToldIfSent(i) == outbox[i].kind = "ask" /\ outbox[i].link = link /\ outbox[i].status = "sent"

\* enqueue_decision_updates: which messages a decision is edited into, sent or still queued.
Told(i) == outbox[i].kind = "ask" /\ outbox[i].link = link

\* The decisions trigger runs in the transaction of the decision.
Commit(s) ==
    \/ /\ Decides(s)
       /\ outbox' = outbox \o
            SetToSeq({Update(i, "decided", <<"decided", i, incident.version>>) :
                        i \in {j \in DOMAIN outbox : link # 0 /\ Told(j)}})
       /\ UNCHANGED <<policy, link, links, screen, gateway, taps, presses>>
    \/ DecidesNothing(s) /\ UNCHANGED chatVars

\* The oldest message still to send: a chat is told things in order.
Due == {i \in DOMAIN outbox : outbox[i].status = "queued"}

\* What the message reads when it is rendered, and what is done with it.
Rendered(i) ==
    LET row == outbox[i]
        of == IF row.kind = "ask" THEN row ELSE outbox[row.target]
        asks == row.kind # "note" /\ Asks(of)
    IN [pc |-> CASE row.kind # "update"                  -> "send"
                 [] asks /\ row.why = "decided"          -> "skip"     \* still pending
                 [] row.kind = "update" /\ of.shownAs = 0 -> "skip"    \* nothing to edit
                 [] OTHER                                -> "edit",
        row |-> i, proposal |-> incident.proposal,
        buttons |-> asks /\ row.why # "stale"]

\* deliver_next takes the row's lock and renders it; a row with nothing to do counts as sent.
Render ==
    LET i == CHOOSE n \in Due : \A m \in Due : n <= m IN
    /\ gateway = Resting /\ Due # {}
    /\ \/ /\ Rendered(i).pc = "skip"
          /\ outbox' = [outbox EXCEPT ![i].status = "sent"]
          /\ UNCHANGED gateway
       \/ /\ Rendered(i).pc # "skip"
          /\ gateway' = Rendered(i)
          /\ UNCHANGED outbox
    /\ UNCHANGED <<apiVars, policy, link, links, screen, taps, presses>>

\* _failed: one attempt less, or none left for an error no retry mends.
Failed(final) ==
    LET row == outbox[gateway.row] IN
    outbox' = [outbox EXCEPT ![gateway.row] =
                 [row EXCEPT !.attempts = @ + 1,
                             !.status = IF final \/ row.attempts + 1 >= MaxAttempts
                                        THEN "dropped" ELSE "queued"]]

\* What Telegram shows after the call.
Shown ==
    LET message == [row |-> gateway.row, proposal |-> gateway.proposal, buttons |-> gateway.buttons]
    IN IF gateway.pc = "send" THEN Append(screen, message)
       ELSE LET at == outbox[outbox[gateway.row].target].shownAs
            IN [screen EXCEPT ![at] = [@ EXCEPT !.proposal = gateway.proposal,
                                                !.buttons = gateway.buttons]]

\* The call to Telegram: done, refused for good, or failed, perhaps after it took effect.
Deliver ==
    /\ gateway.pc \in {"send", "edit"}
    /\ \/ /\ screen' = Shown
          /\ gateway' = [gateway EXCEPT !.pc = IF gateway.pc = "send" THEN "sent" ELSE "edited"]
          /\ UNCHANGED <<outbox, upsets>>
       \/ /\ Upset
          /\ gateway' = Resting
          /\ \/ \E final \in BOOLEAN : Failed(final) /\ UNCHANGED screen
             \/ Failed(FALSE) /\ screen' = Shown
    /\ UNCHANGED <<apiRest, policy, link, links, taps, presses>>

\* The send is recorded, with the id a later edit needs.
Record ==
    /\ gateway.pc \in {"sent", "edited"}
    /\ outbox' = [outbox EXCEPT ![gateway.row] =
                    [@ EXCEPT !.status = "sent",
                              !.shownAs = IF gateway.pc = "sent" THEN Len(screen) ELSE 0]]
    /\ gateway' = Resting
    /\ UNCHANGED <<apiVars, policy, link, links, screen, taps, presses>>

\* The gateway dies in the middle of a delivery: the row's lock goes, and it is sent again.
GatewayDown ==
    /\ gateway # Resting /\ Upset
    /\ gateway' = Resting
    /\ UNCHANGED <<apiRest, policy, link, links, outbox, screen, taps, presses>>

-----------------------------------------------------------------------------
(* Links *)

\* unlink waits for the row under delivery, and drops what is still queued.
Unlink ==
    /\ link # 0 /\ gateway = Resting /\ Upset
    /\ link' = 0
    /\ outbox' = [i \in DOMAIN outbox |->
                    IF outbox[i].status = "queued" THEN [outbox[i] EXCEPT !.status = "dropped"]
                    ELSE outbox[i]]
    /\ UNCHANGED <<apiRest, policy, links, screen, gateway, taps, presses>>

\* A code issued for a person is used once; a chat that has a link keeps it (receive).
Link ==
    /\ Upset
    /\ links' = links + 1
    /\ link' = IF link = 0 THEN links + 1 ELSE link
    /\ outbox' = enqueue(outbox, Row("note", <<"note", links + 1, 0>>))
    /\ UNCHANGED <<apiRest, policy, screen, gateway, taps, presses>>

-----------------------------------------------------------------------------
(* Taps *)

VersionNow(row) == incident.version

\* The version a tap decides on: the one its message was written for.
TapVersion(row) == row.version

TapRow(row, choice, shown) ==
    [row |-> row, choice |-> choice, shown |-> shown, version |-> TapVersion(outbox[row]),
     status |-> "queued", attempts |-> 0, reply |-> ""]

\* queue_tap: the same button pressed again waits for its first outcome, unless that one decided
\* nothing: then it is sent again.
queue_tap(row, choice, shown) ==
    LET mine == {i \in DOMAIN taps : taps[i].row = row /\ taps[i].choice = choice} IN
    IF mine = {} THEN taps' = Append(taps, TapRow(row, choice, shown))
    ELSE taps' = [i \in DOMAIN taps |->
                    IF i \in mine /\ taps[i].status = "done" /\ taps[i].reply # "ok"
                    THEN [taps[i] EXCEPT !.status = "queued", !.attempts = 0, !.reply = ""]
                    ELSE taps[i]]

\* A button is pressed, and its update handled once or again after a restart.  A message of
\* another link decides nothing.
Press(i, choice) ==
    LET row == screen[i].row IN
    /\ presses < MaxPresses /\ screen[i].buttons
    /\ link # 0 /\ outbox[row].link = link
    /\ presses' = presses + 1
    /\ queue_tap(row, choice, screen[i].proposal)
    /\ UNCHANGED <<apiVars, policy, link, links, outbox, screen, gateway>>

\* A tap that is not done, with attempts left, that nobody holds or whose claim is two minutes
\* old: its worker died, or is still at it.
Claimable(i) == taps[i].status # "done" /\ taps[i].attempts < MaxTapAttempts

Claim(w) ==
    LET due == {i \in DOMAIN taps : Claimable(i)}
        i == CHOOSE n \in due : \A m \in due : n <= m
        tap == taps[i]
    IN
    /\ sender[w] = Idle /\ due # {}
    /\ taps' = [taps EXCEPT ![i] = [tap EXCEPT !.status = "claimed",
                                              !.attempts = tap.attempts + 1]]
    /\ sender' = [sender EXCEPT ![w] =
                    Request(tap.choice, tap.version, <<"tap", i>>, tap.shown)]
    /\ UNCHANGED <<records, upsets, policy, link, links, outbox, screen, gateway, presses>>

\* _follow_up: what the chat must see of a tap that decided nothing.
FollowUp(i, reply) ==
    LET tap == taps[i]
        row == outbox[tap.row]
    IN CASE reply = "refused" ->
              enqueue(outbox, Update(tap.row, "refused", <<"tap", i, 0>>))
         [] reply = "conflict" /\ Asks(row) /\ incident.version # row.version ->
              enqueue(enqueue(outbox, Update(tap.row, "stale", <<"tap", i, 0>>)),
                      Ask(row.proposal, incident.version, row.link,
                          <<"ask", row.proposal, incident.version>>))
         [] OTHER -> outbox

\* A transaction of its own, after the one that decided (Commit): a worker that dies between
\* the two leaves a tap that is claimed again.
TapDone(w) ==
    LET i == sender[w].command[2] IN
    /\ sender[w].pc = "reply"
    /\ outbox' = FollowUp(i, sender[w].reply)
    /\ taps' = [taps EXCEPT ![i] = [@ EXCEPT !.status = "done", !.reply = sender[w].reply]]
    /\ sender' = [sender EXCEPT ![w] = Idle]
    /\ UNCHANGED <<records, upsets, policy, link, links, screen, gateway, presses>>

-----------------------------------------------------------------------------
ChatInit ==
    /\ policy = "" /\ link = 1 /\ links = 1
    /\ outbox = <<>> /\ screen = <<>> /\ gateway = Resting /\ taps = <<>>
    /\ presses = 0

Delivery == Render \/ Deliver \/ Record
Carries(w) == Claim(w) \/ TapDone(w)

-----------------------------------------------------------------------------
(* Properties *)

\* A decision from the chat is on the proposal the person had in front of them when they pressed
\* the button, though the message is rendered, sent and pressed while other people decide, the
\* incident is proposed a new mitigation, and the tap waits in its queue.
DecidesWhatChatShows ==
    \A d \in decided : d.via = "tap" => d.shown = d.proposal

\* A message on record that still offers buttons for a proposal nobody waits on.
Lingers(i) ==
    /\ outbox[i].kind = "ask" /\ outbox[i].shownAs # 0
    /\ screen[outbox[i].shownAs].buttons /\ ~Asks(outbox[i])
    /\ outbox[i].link = link
    /\ ~\E j \in DOMAIN outbox : outbox[j].target = i /\ outbox[j].status = "dropped"

Unsettled ==
    \/ \E i \in DOMAIN taps : taps[i].status # "done"
    \/ \E i \in DOMAIN outbox : Lingers(i)

\* The chat comes to rest: a tap is carried out to an outcome, through crashes of the API, and
\* once a proposal is decided, on any surface and while its message is still being sent, the
\* buttons of the message go; unless Telegram refuses the edit for good or the chat is unlinked.
ChatSettles == Unsettled ~> ~Unsettled
=============================================================================
