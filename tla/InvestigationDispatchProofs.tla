-------------------- MODULE InvestigationDispatchProofs --------------------
(***************************************************************************)
(* What the dispatcher's receipts and histories promise, for any number of *)
(* runs and API processes, any crashes, database errors and lost dispatch  *)
(* locks.                                                                  *)
(*                                                                         *)
(* No argument here is about the dispatch lock: a receipt is written under *)
(* the run's event lock by a transaction that looks at the receipts there  *)
(* are, and that is enough for one outcome.  What it needs is that a       *)
(* verification follows an investigation that ended (VerifiesAfter): the   *)
(* claim of an investigation takes any receipt of the run for its own.     *)
(*                                                                         *)
(* The rows agree with the history because every unit of work writes both  *)
(* (Shaped says which rows a step may write, and with which events), and   *)
(* because one run at most may still write what the incident says of it    *)
(* (Lively): a citation of a run's own replaces nothing a later run wrote. *)
(*                                                                         *)
(* A read holds because a log only grows and every write to a row adds an  *)
(* event to it (Lengthens): whoever read a state and then the log has at   *)
(* least the events that state reflects (Watching).  The inbox offers the  *)
(* run that was created last, which is the one that may still wait         *)
(* (Offered).                                                              *)
(***************************************************************************)
EXTENDS IncidentReads, FiniteSetTheorems, SequenceTheorems, WellFoundedInduction, TLAPS

-----------------------------------------------------------------------------
(* The inductive invariant *)

RunRows == [doc : RunDocs, version : Nat]

\* A run's log, as a sequence of whatever it holds.
IsLog(s) == s \in Seq(Range(s))

StoreTypes ==
    /\ runs \in [Runs -> RunRows]
    /\ events = [r \in Runs |-> events[r]]
    /\ \A r \in Runs : IsLog(events[r])

Ended(r) == HasReceipt(r, "investigate", "outcome")

\* A run has events once it is there; it runs until its investigation ends, and a mitigation
\* and a verification come after that.
VerifiesAfter(r) ==
    /\ events[r] # <<>> => Exists(r)
    /\ Exists(r) /\ ~Ended(r) => runs[r].doc.status = "running"
    /\ runs[r].doc.current \in {"mitigating", "verifying"} => Ended(r)
    /\ \A phase \in {"intent", "outcome"} : HasReceipt(r, "verify", phase) => Ended(r)

\* A log holds a receipt at most once, and an outcome after its intent.
ReceiptsOnce(r) ==
    \A d \in Dispatches :
        /\ \A phase \in {"intent", "outcome"} : \A i, j \in Receipts(r, d, phase) : i = j
        /\ \A o \in Receipts(r, d, "outcome") : \E i \in Receipts(r, d, "intent") : i < o

WorkerFields == {"pc", "run", "dispatch", "view", "locked"}
IsWorker(w) ==
    /\ w = [f \in WorkerFields |-> w[f]]
    /\ w.pc \in {"claim", "endclaim", "read", "work", "finish", "endfinish"}
    /\ w.run \in Runs /\ w.dispatch \in Dispatches /\ w.locked \in BOOLEAN

\* A fallback has an error behind it and a sweep a crash; a verification an investigation.
WorkerSound(w) ==
    w # Idle =>
        /\ IsWorker(w)
        /\ Exists(w.run)
        /\ w.dispatch = "verify" => Ended(w.run)
        /\ w.pc \in {"claim", "endclaim"} => ~w.locked
        /\ w.pc \in {"endclaim", "endfinish"} => failures > 0 \/ crashes > 0

HookSound(h) ==
    /\ h.run \in Runs /\ Exists(h.run)
    /\ h.kind = "verify" => Ended(h.run)

Processing ==
    /\ process = [p \in Processes |-> process[p]]
    /\ worker = [p \in Processes |-> worker[p]]
    /\ hooks = [p \in Processes |-> hooks[p]]
    /\ sweep = [p \in Processes |-> sweep[p]]
    /\ crashes \in Nat /\ failures \in Nat
    /\ \A p \in Processes :
          /\ WorkerSound(worker[p])
          /\ process[p] # "up" => crashes > 0
          /\ \A h \in hooks[p] : HookSound(h)
          /\ \A r \in sweep[p] : r \in Runs /\ Exists(r)

\* A commit names a run that is there.
CommitsRun == \A k \in commits : k.run \in Runs /\ Exists(k.run)

\* The inductive invariant.
DispatchSafe ==
    /\ StoreTypes
    /\ CommitsRun
    /\ \A r \in Runs : VerifiesAfter(r) /\ ReceiptsOnce(r)
    /\ Processing
    /\ InvestigationsOwned

-----------------------------------------------------------------------------
(* Logs *)

\* The receipts of a dispatch in a log.
At(s, d, phase) ==
    {i \in DOMAIN s : /\ s[i].kind = "dispatch_receipt"
                      /\ s[i].dispatch = d
                      /\ s[i].phase = phase}
LogOnce(s) ==
    \A d \in Dispatches :
        /\ \A phase \in {"intent", "outcome"} : \A i, j \in At(s, d, phase) : i = j
        /\ \A o \in At(s, d, "outcome") : \E i \in At(s, d, "intent") : i < o

\* Events that hold no receipt, and events that hold one.
NoReceipt(log) == \A d, phase : At(log, d, phase) = {}
Writes(log, d0, phase0) ==
    /\ \A d, phase : At(log, d, phase) # {} => d = d0 /\ phase = phase0
    /\ At(log, d0, phase0) # {}
    /\ \A i, j \in At(log, d0, phase0) : i = j

\* The receipts of a run are those of its log.
LEMMA ReceiptsAt ==
    \A r : /\ \A d, phase : /\ Receipts(r, d, phase) = At(events[r], d, phase)
                            /\ HasReceipt(r, d, phase) <=> At(events[r], d, phase) # {}
           /\ ReceiptsOnce(r) <=> LogOnce(events[r])
BY DEF Receipts, HasReceipt, At, ReceiptsOnce, LogOnce

\* What is appended comes after what is there.
LEMMA LogGrows ==
    ASSUME NEW s, NEW log, IsLog(s), IsLog(log)
    PROVE  /\ IsLog(s \o log) /\ Len(s) \in Nat
           /\ s \o log = <<>> => s = <<>> /\ log = <<>>
           /\ \A d, phase :
                 /\ At(s, d, phase) \subseteq 1..Len(s)
                 /\ At(log, d, phase) \subseteq 1..Len(log)
                 /\ At(s \o log, d, phase) =
                       At(s, d, phase) \cup {Len(s) + k : k \in At(log, d, phase)}
<1> DEFINE S == Range(s) \cup Range(log)
<1>1. s \in Seq(S) /\ log \in Seq(S)
  BY SeqMonotonic DEF IsLog
<1>2. /\ Len(s) \in Nat /\ DOMAIN s = 1..Len(s)
      /\ Len(log) \in Nat /\ DOMAIN log = 1..Len(log)
  BY <1>1, LenProperties
<1> HIDE DEF S
<1>3. /\ s \o log \in Seq(S) /\ Len(s \o log) = Len(s) + Len(log)
      /\ \A i \in 1..(Len(s) + Len(log)) :
            (s \o log)[i] = IF i <= Len(s) THEN s[i] ELSE log[i - Len(s)]
  BY <1>1, ConcatProperties
<1>4. DOMAIN (s \o log) = 1..(Len(s) + Len(log))
  BY <1>3, LenProperties
<1>5. IsLog(s \o log)
  BY <1>3, SeqOfRange DEF IsLog
<1>6. s \o log = <<>> => s = <<>> /\ log = <<>>
  BY <1>1, <1>2, <1>3, EmptySeq
<1>7. ASSUME NEW d, NEW phase
      PROVE  /\ At(s, d, phase) \subseteq 1..Len(s)
             /\ At(log, d, phase) \subseteq 1..Len(log)
             /\ At(s \o log, d, phase) =
                   At(s, d, phase) \cup {Len(s) + k : k \in At(log, d, phase)}
  <2>1. At(s, d, phase) \subseteq 1..Len(s) /\ At(log, d, phase) \subseteq 1..Len(log)
    BY <1>2 DEF At
  <2>2. ASSUME NEW i \in At(s \o log, d, phase)
        PROVE  i \in At(s, d, phase) \cup {Len(s) + k : k \in At(log, d, phase)}
    <3>1. i \in 1..(Len(s) + Len(log))
      BY <1>4 DEF At
    <3>2. CASE i <= Len(s)
      BY <1>2, <1>3, <3>1, <3>2 DEF At
    <3>3. CASE ~(i <= Len(s))
      <4>1. i - Len(s) \in 1..Len(log) /\ i = Len(s) + (i - Len(s))
        BY <1>2, <3>1, <3>3
      <4>2. i - Len(s) \in At(log, d, phase)
        BY <1>2, <1>3, <3>1, <3>3, <4>1 DEF At
      <4> QED  BY <4>1, <4>2
    <3> QED  BY <3>2, <3>3
  <2>3. ASSUME NEW i \in At(s, d, phase) PROVE i \in At(s \o log, d, phase)
    BY <1>2, <1>3, <1>4 DEF At
  <2>4. ASSUME NEW k \in At(log, d, phase) PROVE Len(s) + k \in At(s \o log, d, phase)
    <3>1. k \in 1..Len(log)
      BY <2>1
    <3>2. /\ Len(s) + k \in 1..(Len(s) + Len(log)) /\ ~(Len(s) + k <= Len(s))
          /\ (Len(s) + k) - Len(s) = k
      BY <1>2, <3>1
    <3> QED  BY <1>3, <1>4, <3>2 DEF At
  <2> QED  BY <2>1, <2>2, <2>3, <2>4
<1> QED  BY <1>2, <1>5, <1>6, <1>7

\* Events without a receipt leave the receipts as they are.
LEMMA QuietLog ==
    ASSUME NEW s, NEW log, IsLog(s), IsLog(log), NoReceipt(log)
    PROVE  /\ \A d, phase : At(s \o log, d, phase) = At(s, d, phase)
           /\ LogOnce(s) => LogOnce(s \o log)
<1>1. ASSUME NEW d, NEW phase PROVE At(s \o log, d, phase) = At(s, d, phase)
  <2>1. At(s \o log, d, phase) = At(s, d, phase) \cup {Len(s) + k : k \in At(log, d, phase)}
    BY LogGrows
  <2>2. At(log, d, phase) = {}
    BY DEF NoReceipt
  <2> QED  BY <2>1, <2>2
<1> QED  BY <1>1 DEF LogOnce

\* A receipt that was not there, an outcome's after the intent's, comes last.
LEMMA ReceiptLog ==
    ASSUME NEW s, NEW log, IsLog(s), IsLog(log), LogOnce(s),
           NEW d0 \in Dispatches, NEW phase0 \in {"intent", "outcome"}, Writes(log, d0, phase0),
           At(s, d0, phase0) = {}, phase0 = "outcome" => At(s, d0, "intent") # {}
    PROVE  /\ LogOnce(s \o log)
           /\ \A d, phase : At(s \o log, d, phase) # {} <=>
                 At(s, d, phase) # {} \/ (d = d0 /\ phase = phase0)
<1> DEFINE new(d, phase) == {Len(s) + k : k \in At(log, d, phase)}
<1>1. /\ Len(s) \in Nat
      /\ \A d, phase : /\ At(s, d, phase) \subseteq 1..Len(s)
                       /\ At(log, d, phase) \subseteq 1..Len(log)
                       /\ At(s \o log, d, phase) = At(s, d, phase) \cup new(d, phase)
  BY LogGrows
<1>2. Len(log) \in Nat
  BY LenProperties DEF IsLog
<1>3. \A d, phase : new(d, phase) # {} <=> d = d0 /\ phase = phase0
  <2>1. \A d, phase : new(d, phase) # {} <=> At(log, d, phase) # {}
    OBVIOUS
  <2>2. \A d, phase : At(log, d, phase) # {} <=> d = d0 /\ phase = phase0
    BY DEF Writes
  <2> QED  BY <2>1, <2>2
<1>4. \A i, j \in new(d0, phase0) : i = j
  <2>1. \A i, j \in At(log, d0, phase0) : i = j
    BY DEF Writes
  <2> QED  BY <2>1
<1>5. \A d, phase : \A i \in At(s, d, phase) : i \in Nat /\ i <= Len(s)
  BY <1>1
<1>6. \A i \in new(d0, phase0) : i \in Nat /\ i > Len(s)
  BY <1>1, <1>2
<1> HIDE DEF new
<1>7. ASSUME NEW d \in Dispatches, NEW phase \in {"intent", "outcome"},
             NEW i \in At(s \o log, d, phase), NEW j \in At(s \o log, d, phase)
      PROVE  i = j
  <2>1. CASE d = d0 /\ phase = phase0
    BY <1>1, <1>4, <2>1
  <2>2. CASE ~(d = d0 /\ phase = phase0)
    BY <1>1, <1>3, <2>2 DEF LogOnce
  <2> QED  BY <2>1, <2>2
<1>8. ASSUME NEW d \in Dispatches, NEW o \in At(s \o log, d, "outcome")
      PROVE  \E i \in At(s \o log, d, "intent") : i < o
  <2>1. CASE o \in At(s, d, "outcome")
    BY <1>1, <2>1 DEF LogOnce
  <2>2. CASE o \in new(d, "outcome")
    <3>1. d = d0 /\ phase0 = "outcome"
      BY <1>3, <2>2
    <3>2. PICK i \in At(s, d, "intent") : TRUE
      BY <3>1
    <3>3. i < o
      BY <1>1, <1>5, <1>6, <2>2, <3>1
    <3> QED  BY <1>1, <3>2, <3>3
  <2> QED  BY <1>1, <2>1, <2>2
<1>9. LogOnce(s \o log)
  BY <1>7, <1>8 DEF LogOnce
<1>10. \A d, phase : At(s \o log, d, phase) # {} <=>
          At(s, d, phase) # {} \/ (d = d0 /\ phase = phase0)
  BY <1>1, <1>3
<1> QED  BY <1>9, <1>10

\* The events that a dispatcher writes.
LEMMA LogsWritten ==
    ASSUME NEW d, NEW phase, NEW status, NEW patch, NEW t, NEW doc, NEW run, NEW cites, NEW verdict
    PROVE  /\ IsLog(<<>>) /\ NoReceipt(<<>>)
           /\ LET log == <<StateChange(t, doc, run)>> IN IsLog(log) /\ NoReceipt(log)
           /\ LET log == <<InvestigationResult(cites, verdict)>> IN IsLog(log) /\ NoReceipt(log)
           /\ LET log == <<Receipt(d, phase, status)>> IN IsLog(log) /\ Writes(log, d, phase)
           /\ LET log == Ending(d, status, patch) IN IsLog(log) /\ Writes(log, d, "outcome")
           /\ LET log == <<InvestigationResult(cites, verdict), Receipt(d, phase, status)>>
              IN IsLog(log) /\ Writes(log, d, phase)
           /\ LET log == <<InvestigationResult(cites, verdict), Receipt(d, phase, status),
                           RunTerminated(patch)>>
              IN IsLog(log) /\ Writes(log, d, phase)
<1> DEFINE r == Receipt(d, phase, status)
           o == Receipt(d, "outcome", status)
           i == InvestigationResult(cites, verdict)
           e == RunTerminated(patch)
           c == StateChange(t, doc, run)
<1>1. /\ r.kind = "dispatch_receipt" /\ r.dispatch = d /\ r.phase = phase
      /\ o.kind = "dispatch_receipt" /\ o.dispatch = d /\ o.phase = "outcome"
      /\ i.kind # "dispatch_receipt" /\ e.kind # "dispatch_receipt" /\ c.kind # "dispatch_receipt"
  BY DEF Receipt, InvestigationResult, RunTerminated, StateChange
<1> HIDE DEF r, o, i, e, c
<1>2. /\ IsLog(<<>>) /\ IsLog(<<c>>) /\ IsLog(<<i>>) /\ IsLog(<<r>>) /\ IsLog(<<o, e>>)
      /\ IsLog(<<i, r>>) /\ IsLog(<<i, r, e>>)
  BY DEF IsLog, Range
<1>3. NoReceipt(<<>>) /\ NoReceipt(<<c>>) /\ NoReceipt(<<i>>)
  BY <1>1 DEF NoReceipt, At
<1>4. /\ \A q, p : At(<<r>>, q, p) = IF q = d /\ p = phase THEN {1} ELSE {}
      /\ \A q, p : At(<<o, e>>, q, p) = IF q = d /\ p = "outcome" THEN {1} ELSE {}
      /\ \A q, p : At(<<i, r>>, q, p) = IF q = d /\ p = phase THEN {2} ELSE {}
      /\ \A q, p : At(<<i, r, e>>, q, p) = IF q = d /\ p = phase THEN {2} ELSE {}
  BY <1>1 DEF At
<1>5. /\ Writes(<<r>>, d, phase) /\ Writes(<<o, e>>, d, "outcome") /\ Writes(<<i, r>>, d, phase)
      /\ Writes(<<i, r, e>>, d, phase)
  BY <1>4 DEF Writes
<1> QED  BY <1>2, <1>3, <1>5 DEF r, o, i, e, c, Ending

-----------------------------------------------------------------------------
(* Writes of a run *)

Phases == {"intent", "outcome"}
StoreSafe == StoreTypes /\ CommitsRun /\ \A r \in Runs : VerifiesAfter(r) /\ ReceiptsOnce(r)

\* A step wrote to the log of r, and no receipt but perhaps phase0 of d0.
Writing(r, d0, phase0) ==
    /\ events' = [q \in Runs |-> events'[q]]
    /\ \A q \in Runs : IsLog(events'[q])
    /\ \A q \in Runs : q # r => events'[q] = events[q]
    /\ events'[r] # <<>>
    /\ LogOnce(events'[r])
    /\ \A d \in Dispatches, phase \in Phases : At(events'[r], d, phase) # {} <=>
          At(events[r], d, phase) # {} \/ (d = d0 /\ phase = phase0)

\* What every step leaves: runs and receipts stay.
Grows ==
    \A q \in Runs : /\ Exists(q) => Exists(q)'
                    /\ \A d \in Dispatches, phase \in Phases :
                          HasReceipt(q, d, phase) => HasReceipt(q, d, phase)'
NoneOpens ==
    \A q \in Runs : DispatchOpen(q, "investigate")' => DispatchOpen(q, "investigate")

\* The receipts after a step.
LEMMA ReceiptsAtNext ==
    \A r : /\ \A d, phase : HasReceipt(r, d, phase)' <=> At(events'[r], d, phase) # {}
           /\ ReceiptsOnce(r)' <=> LogOnce(events'[r])
BY DEF Receipts, HasReceipt, At, ReceiptsOnce, LogOnce

\* An append of a receipt.
LEMMA AppendWrites ==
    ASSUME StoreSafe, NEW r \in Runs, NEW log, IsLog(log),
           events' = [events EXCEPT ![r] = events[r] \o log],
           NEW d0 \in Dispatches, NEW phase0 \in {"intent", "outcome"}, Writes(log, d0, phase0),
           ~HasReceipt(r, d0, phase0), phase0 = "outcome" => HasReceipt(r, d0, "intent")
    PROVE  Writing(r, d0, phase0)
<1>1. /\ IsLog(events[r]) /\ LogOnce(events[r]) /\ At(events[r], d0, phase0) = {}
      /\ phase0 = "outcome" => At(events[r], d0, "intent") # {}
  BY ReceiptsAt DEF StoreSafe, StoreTypes
<1>2. events'[r] = events[r] \o log /\ \A q \in Runs : q # r => events'[q] = events[q]
  BY DEF StoreSafe, StoreTypes
<1>3. events' = [q \in Runs |-> events'[q]]
  BY DEF StoreSafe, StoreTypes
<1>4. /\ LogOnce(events'[r])
      /\ \A d, phase : At(events'[r], d, phase) # {} <=>
            At(events[r], d, phase) # {} \/ (d = d0 /\ phase = phase0)
  <2>1. /\ LogOnce(events[r] \o log)
        /\ \A d, phase : At(events[r] \o log, d, phase) # {} <=>
              At(events[r], d, phase) # {} \/ (d = d0 /\ phase = phase0)
    BY <1>1, ReceiptLog
  <2> QED  BY <1>2, <2>1
<1>5. IsLog(events'[r]) /\ events'[r] # <<>>
  <2>1. log # <<>>
    BY DEF Writes, At
  <2> QED  BY <1>1, <1>2, <2>1, LogGrows
<1>6. \A q \in Runs : IsLog(events'[q])
  BY <1>2, <1>5 DEF StoreSafe, StoreTypes
<1> QED  BY <1>2, <1>3, <1>4, <1>5, <1>6 DEF Writing

\* The events of a transition: its state change and what its command carries.
LEMMA TransitionWrites ==
    ASSUME StoreSafe, NEW r \in Runs, NEW log, IsLog(log), NEW t, NEW doc, NEW run,
           events' = [events EXCEPT ![r] = events[r] \o <<StateChange(t, doc, run)>> \o log]
    PROVE  /\ NoReceipt(log) => Writing(r, "none", "none")
           /\ \A d0 \in Dispatches : Writes(log, d0, "outcome") /\ DispatchOpen(r, d0) =>
                 Writing(r, d0, "outcome")
<1> DEFINE s == events[r] \o <<StateChange(t, doc, run)>>
<1>1. IsLog(events[r]) /\ LogOnce(events[r])
  BY ReceiptsAt DEF StoreSafe, StoreTypes
<1>2. /\ IsLog(<<StateChange(t, doc, run)>>) /\ NoReceipt(<<StateChange(t, doc, run)>>)
  BY LogsWritten
<1>3. /\ IsLog(s) /\ LogOnce(s) /\ s # <<>>
      /\ \A d, phase : At(s, d, phase) = At(events[r], d, phase)
  BY <1>1, <1>2, LogGrows, QuietLog
<1>4. events'[r] = s \o log /\ \A q \in Runs : q # r => events'[q] = events[q]
  BY DEF StoreSafe, StoreTypes
<1>5. events' = [q \in Runs |-> events'[q]]
  BY DEF StoreSafe, StoreTypes
<1> HIDE DEF s
<1>6. IsLog(events'[r]) /\ events'[r] # <<>>
  <2>1. IsLog(s \o log) /\ s \o log # <<>>
    BY <1>3, LogGrows
  <2> QED  BY <1>4, <2>1
<1>7. \A q \in Runs : IsLog(events'[q])
  BY <1>4, <1>6 DEF StoreSafe, StoreTypes
<1>8. ASSUME NoReceipt(log) PROVE Writing(r, "none", "none")
  <2>1. LogOnce(events'[r]) /\ \A d, phase : At(events'[r], d, phase) = At(events[r], d, phase)
    <3>1. LogOnce(s \o log) /\ \A d, phase : At(s \o log, d, phase) = At(s, d, phase)
      BY <1>3, <1>8, QuietLog
    <3> QED  BY <1>3, <1>4, <3>1
  <2>2. \A d \in Dispatches : d # "none"
    BY DEF Dispatches
  <2> QED  BY <1>4, <1>5, <1>6, <1>7, <2>1, <2>2 DEF Writing
<1>9. ASSUME NEW d0 \in Dispatches, Writes(log, d0, "outcome"), DispatchOpen(r, d0)
      PROVE  Writing(r, d0, "outcome")
  <2>1. At(s, d0, "outcome") = {} /\ At(s, d0, "intent") # {}
    BY <1>3, <1>9, ReceiptsAt DEF DispatchOpen
  <2>2. /\ LogOnce(events'[r])
        /\ \A d, phase : At(events'[r], d, phase) # {} <=>
              At(events[r], d, phase) # {} \/ (d = d0 /\ phase = "outcome")
    <3>1. /\ LogOnce(s \o log)
          /\ \A d, phase : At(s \o log, d, phase) # {} <=>
                At(s, d, phase) # {} \/ (d = d0 /\ phase = "outcome")
      BY <1>3, <1>9, <2>1, ReceiptLog
    <3> QED  BY <1>3, <1>4, <3>1
  <2> QED  BY <1>4, <1>5, <1>6, <1>7, <2>2 DEF Writing
<1> QED  BY <1>8, <1>9

\* A write of one run keeps the others; its own run is looked at where it is written.
LEMMA WritingSafe ==
    ASSUME StoreSafe, NEW r \in Runs, NEW d0, NEW phase0, Writing(r, d0, phase0),
           runs' \in [Runs -> RunRows], \A q \in Runs : q # r => runs'[q] = runs[q],
           Exists(r)', VerifiesAfter(r)', \A k \in commits' : k \in commits \/ k.run = r
    PROVE  /\ StoreSafe' /\ Grows
           /\ ~(d0 = "investigate" /\ phase0 = "intent") => NoneOpens
<1>1. \A q \in Runs : q # r => events'[q] = events[q]
  BY DEF Writing
<1>2. StoreTypes'
  BY DEF Writing, StoreTypes
<1>3. ASSUME NEW q \in Runs PROVE VerifiesAfter(q)' /\ ReceiptsOnce(q)'
  <2>1. CASE q = r
    BY <2>1, ReceiptsAtNext DEF Writing
  <2>2. CASE q # r
    <3>1. events'[q] = events[q] /\ runs'[q] = runs[q]
      BY <1>1, <2>2
    <3>2. VerifiesAfter(q) /\ ReceiptsOnce(q)
      BY DEF StoreSafe
    <3>3. ReceiptsOnce(q)'
      BY <3>1, <3>2, ReceiptsAt, ReceiptsAtNext
    <3>4. VerifiesAfter(q)'
      BY <3>1, <3>2 DEF VerifiesAfter, Ended, Exists, HasReceipt
    <3> QED  BY <3>3, <3>4
  <2> QED  BY <2>1, <2>2
<1>4. Grows
  <2> SUFFICES ASSUME NEW q \in Runs
               PROVE  /\ Exists(q) => Exists(q)'
                      /\ \A d \in Dispatches, phase \in Phases :
                            HasReceipt(q, d, phase) => HasReceipt(q, d, phase)'
    BY DEF Grows
  <2>1. CASE q = r
    BY <2>1, ReceiptsAt, ReceiptsAtNext DEF Writing
  <2>2. CASE q # r
    BY <1>1, <2>2 DEF Exists, HasReceipt
  <2> QED  BY <2>1, <2>2
<1>5. ASSUME ~(d0 = "investigate" /\ phase0 = "intent") PROVE NoneOpens
  <2> SUFFICES ASSUME NEW q \in Runs, DispatchOpen(q, "investigate")'
               PROVE  DispatchOpen(q, "investigate")
    BY DEF NoneOpens
  <2>1. CASE q = r
    <3>1. "investigate" \in Dispatches /\ {"intent", "outcome"} = Phases
      BY DEF Dispatches, Phases
    <3>2. At(events'[r], "investigate", "intent") # {} /\ At(events'[r], "investigate", "outcome") = {}
      BY <2>1, ReceiptsAtNext DEF DispatchOpen
    <3>3. At(events[r], "investigate", "intent") # {} /\ At(events[r], "investigate", "outcome") = {}
      BY <1>5, <3>1, <3>2 DEF Writing
    <3> QED  BY <2>1, <3>3, ReceiptsAt DEF DispatchOpen
  <2>2. CASE q # r
    BY <1>1, <2>2 DEF DispatchOpen, HasReceipt
  <2> QED  BY <2>1, <2>2
<1>6. CommitsRun'
  BY <1>4 DEF StoreSafe, CommitsRun, Grows
<1> QED  BY <1>2, <1>3, <1>4, <1>5, <1>6 DEF StoreSafe

\* The transitions that the dispatcher and the people around it send.
Sent == {"start_investigation", "continue_investigation", "propose_mitigation",
         "apply_mitigation", "reject_mitigation", "verification_failed", "verification_passed"}

\* Where they lead and what they leave of the run.
LEMMA RunMoves ==
    ASSUME NEW cmd, cmd.transition \in Sent, NEW run \in RunDocs
    PROVE  LET t == cmd.transition
               moved == ReduceRun(cmd, run)
           IN /\ moved \in RunDocs
              /\ moved.current = Workflow[t].to
              /\ moved.status # "absent"
              /\ t \notin {"propose_mitigation", "reject_mitigation", "verification_failed"} =>
                    moved.status = "running"
              /\ Workflow[t].to \in {"mitigating", "verifying"} =>
                    t \in {"propose_mitigation", "apply_mitigation"}
              /\ t \in {"apply_mitigation", "reject_mitigation", "verification_failed"} =>
                    Workflow[t].from \in {"mitigating", "verifying"}
<1> DEFINE t == cmd.transition
<1>1. /\ Workflow[t] = EdgeOf(t) /\ t \in Transitions
  BY DEF Workflow, Transitions, Sent
<1>2. /\ EdgeOf(t).to \in States \ TerminalStates
      /\ EdgeOf(t).to \in {"mitigating", "verifying"} =>
            t \in {"propose_mitigation", "apply_mitigation"}
      /\ t \in {"apply_mitigation", "reject_mitigation", "verification_failed"} =>
            EdgeOf(t).from \in {"mitigating", "verifying"}
      /\ EdgeOf(t).to = "mitigating" => t = "propose_mitigation"
  BY DEF Sent, EdgeOf, Edge, States, TerminalStates
<1>3. LET patch == ReduceRunPatch(cmd, run)
      IN /\ patch \in [status : RunStatuses, pending : PendingCommands, reason : TerminatedReasons]
         /\ patch.status # "absent"
         /\ t \notin {"propose_mitigation", "reject_mitigation", "verification_failed"} =>
               patch.status = "running"
  BY <1>1, <1>2 DEF ReduceRunPatch, RunPatch, Termination, RunDocs, RunStatuses, LiveRunStatuses,
         PendingCommands, TerminatedReasons, ReturnsToInvestigation
<1>4. ReduceRun(cmd, run) = PatchRun([run EXCEPT !.current = Workflow[t].to], ReduceRunPatch(cmd, run))
  BY DEF ReduceRun
<1> HIDE DEF t
<1>5. /\ ReduceRun(cmd, run) \in RunDocs
      /\ ReduceRun(cmd, run).current = Workflow[t].to
      /\ ReduceRun(cmd, run).status = ReduceRunPatch(cmd, run).status
  BY <1>1, <1>2, <1>3, <1>4 DEF PatchRun, RunDocs
<1> QED  BY <1>1, <1>2, <1>3, <1>5 DEF t

\* A transition that the runtime commits, with the outcome of a dispatch or with none.
LEMMA ApplySafe ==
    ASSUME StoreSafe, NEW cmd, cmd.run \in Runs, cmd.transition \in Sent,
           NEW run \in RunRows, NEW log, IsLog(log), Apply(cmd, run, log),
           \/ run = runs[cmd.run]
           \/ cmd.transition \in {"start_investigation", "continue_investigation"},
           \/ NoReceipt(log) /\ cmd.transition # "propose_mitigation"
           \/ /\ cmd.dispatch \in Dispatches /\ Writes(log, cmd.dispatch, "outcome")
              /\ cmd.transition = "propose_mitigation" => cmd.dispatch = "investigate"
    PROVE  /\ StoreSafe' /\ Grows /\ NoneOpens /\ Exists(cmd.run)'
           /\ ~NoReceipt(log) => Ended(cmd.run)'
           /\ cmd.transition = "apply_mitigation" => Ended(cmd.run)'
<1> DEFINE r == cmd.run
           t == cmd.transition
           moved == ReduceRun(cmd, run.doc)
<1>1. /\ Aligned(incident.doc, run.doc) /\ Validate(cmd, incident)
      /\ cmd.dispatch # "none" => DispatchOpen(r, cmd.dispatch)
      /\ PersistTransition(cmd, incident, run, log)
  BY DEF Apply, Accepts
<1>2. run.doc.current = Workflow[t].from
  BY <1>1 DEF Aligned, Validate
<1>3. runs' = [runs EXCEPT ![r] = [doc |-> moved, version |-> run.version + 1]]
  BY <1>1 DEF PersistTransition
<1>4. PICK doc : events' = [events EXCEPT ![r] = events[r] \o <<StateChange(t, doc, moved)>> \o log]
  BY <1>1 DEF PersistTransition
<1>5. run.doc \in RunDocs /\ run.version \in Nat
  BY DEF RunRows
<1>6. /\ moved \in RunDocs /\ moved.current = Workflow[t].to /\ moved.status # "absent"
      /\ t \notin {"propose_mitigation", "reject_mitigation", "verification_failed"} =>
            moved.status = "running"
      /\ Workflow[t].to \in {"mitigating", "verifying"} =>
            t \in {"propose_mitigation", "apply_mitigation"}
      /\ t \in {"apply_mitigation", "reject_mitigation", "verification_failed"} =>
            Workflow[t].from \in {"mitigating", "verifying"}
  BY <1>5, RunMoves
<1> HIDE DEF moved
<1>7. /\ runs' \in [Runs -> RunRows] /\ runs'[r].doc = moved
      /\ \A q \in Runs : q # r => runs'[q] = runs[q]
  BY <1>3, <1>5, <1>6 DEF StoreSafe, StoreTypes, RunRows
<1>8. Exists(r)' /\ \A k \in commits' : k \in commits \/ k.run = r
  BY <1>1, <1>6, <1>7 DEF Exists, PersistTransition, CommitRecord
<1>9. t \in {"apply_mitigation", "reject_mitigation", "verification_failed"} => Ended(r)
  <2>1. SUFFICES ASSUME t \in {"apply_mitigation", "reject_mitigation", "verification_failed"}
                 PROVE  Ended(r)
    OBVIOUS
  <2>2. runs[r].doc.current \in {"mitigating", "verifying"}
    BY <1>2, <1>6, <2>1
  <2>3. VerifiesAfter(r)
    BY DEF StoreSafe
  <2> QED  BY <2>2, <2>3 DEF VerifiesAfter
<1>10. \A phase \in Phases : HasReceipt(r, "verify", phase) => Ended(r)
  BY DEF StoreSafe, VerifiesAfter, Phases
<1>11. CASE NoReceipt(log) /\ t # "propose_mitigation"
  <2>1. Writing(r, "none", "none")
    BY <1>4, <1>11, TransitionWrites
  <2>2. \A d \in Dispatches, phase \in Phases : HasReceipt(r, d, phase)' <=> HasReceipt(r, d, phase)
    <3>1. \A d \in Dispatches : d # "none"
      BY DEF Dispatches
    <3>2. \A d \in Dispatches, phase \in Phases :
             At(events'[r], d, phase) # {} <=> At(events[r], d, phase) # {}
      BY <2>1, <3>1 DEF Writing
    <3> QED  BY <3>2, ReceiptsAt, ReceiptsAtNext
  <2>3. Ended(r)' <=> Ended(r)
    BY <2>2 DEF Ended, Dispatches, Phases
  <2>4. VerifiesAfter(r)'
    <3>1. Exists(r)' /\ ~Ended(r)' => runs'[r].doc.status = "running"
      BY <1>6, <1>7, <1>9, <1>11, <2>3
    <3>2. runs'[r].doc.current \in {"mitigating", "verifying"} => Ended(r)'
      BY <1>6, <1>7, <1>9, <1>11, <2>3
    <3>3. \A phase \in {"intent", "outcome"} : HasReceipt(r, "verify", phase)' => Ended(r)'
      BY <1>10, <2>2, <2>3 DEF Dispatches, Phases
    <3> QED  BY <1>8, <3>1, <3>2, <3>3 DEF VerifiesAfter
  <2> QED  BY <1>7, <1>8, <1>9, <1>11, <2>1, <2>3, <2>4, WritingSafe
<1>12. CASE /\ cmd.dispatch \in Dispatches /\ Writes(log, cmd.dispatch, "outcome")
            /\ t = "propose_mitigation" => cmd.dispatch = "investigate"
  <2>1. DispatchOpen(r, cmd.dispatch)
    BY <1>1, <1>12 DEF Dispatches
  <2>2. Writing(r, cmd.dispatch, "outcome")
    BY <1>4, <1>12, <2>1, TransitionWrites
  <2>3. Ended(r)'
    <3>1. \A d \in Dispatches, phase \in Phases : HasReceipt(r, d, phase)' <=>
             HasReceipt(r, d, phase) \/ (d = cmd.dispatch /\ phase = "outcome")
      BY <2>2, ReceiptsAt, ReceiptsAtNext DEF Writing
    <3>2. cmd.dispatch = "verify" => Ended(r)
      BY <1>10, <2>1 DEF DispatchOpen, Phases
    <3> QED  BY <1>12, <3>1, <3>2 DEF Ended, Dispatches, Phases
  <2>4. VerifiesAfter(r)'
    BY <1>8, <2>3 DEF VerifiesAfter
  <2> QED  BY <1>7, <1>8, <2>2, <2>3, <2>4, WritingSafe
<1> QED  BY <1>11, <1>12

\* An open dispatch ends with its outcome, and its run with it.
LEMMA EndSafe ==
    ASSUME StoreSafe, NEW r \in Runs, NEW d \in Dispatches, DispatchOpen(r, d),
           NEW log, IsLog(log), Writes(log, d, "outcome"), AppendEvents(r, log),
           NEW reason \in TerminatedReasons,
           runs' = [runs EXCEPT ![r].doc = PatchRun(@, Termination(reason))], UNCHANGED commits
    PROVE  StoreSafe' /\ Grows /\ NoneOpens /\ Ended(r)'
<1>1. events' = [events EXCEPT ![r] = events[r] \o log]
  BY DEF AppendEvents, StoreSafe, StoreTypes
<1>2. "outcome" \in {"intent", "outcome"} /\ ~HasReceipt(r, d, "outcome") /\ HasReceipt(r, d, "intent")
  BY DEF DispatchOpen
<1>3. Writing(r, d, "outcome")
  BY <1>1, <1>2, AppendWrites
<1>4. runs[r] \in RunRows /\ runs[r].doc \in RunDocs
  BY DEF StoreSafe, StoreTypes, RunRows
<1> DEFINE doc == PatchRun(runs[r].doc, Termination(reason))
<1>5. doc \in RunDocs /\ doc.status # "absent"
  BY <1>4 DEF PatchRun, Termination, RunPatch, RunDocs, RunStatuses, LiveRunStatuses, PendingCommands
<1>6. runs' = [runs EXCEPT ![r] = [runs[r] EXCEPT !.doc = doc]]
  BY DEF StoreSafe, StoreTypes
<1> HIDE DEF doc
<1>7. /\ runs' \in [Runs -> RunRows] /\ runs'[r].doc = doc
      /\ \A q \in Runs : q # r => runs'[q] = runs[q]
  BY <1>4, <1>5, <1>6 DEF StoreSafe, StoreTypes, RunRows
<1>8. Exists(r)'
  BY <1>5, <1>7 DEF Exists
<1>9. Ended(r)'
  <2>1. \A c \in Dispatches, phase \in Phases : HasReceipt(r, c, phase)' <=>
           HasReceipt(r, c, phase) \/ (c = d /\ phase = "outcome")
    BY <1>3, ReceiptsAt, ReceiptsAtNext DEF Writing
  <2>2. d = "verify" => Ended(r)
    BY <1>2 DEF StoreSafe, VerifiesAfter
  <2> QED  BY <2>1, <2>2 DEF Ended, Dispatches, Phases
<1>10. VerifiesAfter(r)'
  BY <1>8, <1>9 DEF VerifiesAfter
<1> QED  BY <1>3, <1>7, <1>8, <1>9, <1>10, WritingSafe

\* What the claim answers is so: an interrupted dispatch is open, a new one has no intent,
\* a complete one has its outcome.
LEMMA ClaimAnswers ==
    ASSUME StoreSafe, NEW r \in Runs, NEW d \in Dispatches
    PROVE  /\ ClaimOf(r, d) = "interrupted" => DispatchOpen(r, d)
           /\ ClaimOf(r, d) = "claimed" => ~HasReceipt(r, d, "intent")
           /\ ClaimOf(r, d) = "complete" => HasReceipt(r, d, "outcome")
           /\ ClaimOf(r, d) # "active"
<1> DEFINE counted == IF d = "investigate" THEN Dispatches ELSE {d}
           some == \E q \in counted, phase \in {"intent", "outcome"} : HasReceipt(r, q, phase)
<1>1. /\ ClaimOf(r, d) = "interrupted" => ~HasReceipt(r, d, "outcome") /\ some
      /\ ClaimOf(r, d) = "claimed" => ~some
      /\ ClaimOf(r, d) = "complete" => HasReceipt(r, d, "outcome")
      /\ ClaimOf(r, d) # "active"
  BY DEF ClaimOf
<1>2. d \in counted
  OBVIOUS
<1>3. VerifiesAfter(r)
  BY DEF StoreSafe
<1>4. ASSUME ~HasReceipt(r, d, "outcome"), some PROVE HasReceipt(r, d, "intent")
  <2>1. PICK q \in counted, phase \in {"intent", "outcome"} : HasReceipt(r, q, phase)
    BY <1>4
  <2>2. CASE q = d
    BY <1>4, <2>1, <2>2
  <2>3. CASE q # d
    <3>1. d = "investigate" /\ q = "verify"
      BY <2>1, <2>3 DEF Dispatches
    <3> QED  BY <1>3, <1>4, <2>1, <3>1 DEF VerifiesAfter, Ended
  <2> QED  BY <2>2, <2>3
<1> QED  BY <1>1, <1>2, <1>4 DEF DispatchOpen

\* A new dispatch has its intent written.
LEMMA ClaimSafe ==
    ASSUME StoreSafe, NEW r \in Runs, NEW d \in Dispatches, ClaimOf(r, d) = "claimed",
           Exists(r), d = "verify" => Ended(r),
           AppendEvents(r, <<Receipt(d, "intent", "pending")>>), UNCHANGED <<runs, commits>>
    PROVE  /\ StoreSafe' /\ Grows
           /\ \A q \in Runs : q # r /\ DispatchOpen(q, "investigate")' => DispatchOpen(q, "investigate")
<1> DEFINE log == <<Receipt(d, "intent", "pending")>>
<1>1. events' = [events EXCEPT ![r] = events[r] \o log]
  BY DEF AppendEvents, StoreSafe, StoreTypes
<1>2. IsLog(log) /\ Writes(log, d, "intent")
  BY LogsWritten
<1> HIDE DEF log
<1>3. "intent" \in {"intent", "outcome"} /\ "intent" # "outcome" /\ ~HasReceipt(r, d, "intent")
  BY ClaimAnswers
<1>4. Writing(r, d, "intent")
  BY <1>1, <1>2, <1>3, AppendWrites
<1>5. /\ runs' \in [Runs -> RunRows] /\ \A q \in Runs : q # r => runs'[q] = runs[q]
      /\ Exists(r)'
  BY DEF StoreSafe, StoreTypes, Exists
<1>6. \A c \in Dispatches, phase \in Phases : HasReceipt(r, c, phase)' <=>
         HasReceipt(r, c, phase) \/ (c = d /\ phase = "intent")
  BY <1>4, ReceiptsAt, ReceiptsAtNext DEF Writing
<1>7. Ended(r)' <=> Ended(r)
  BY <1>6 DEF Ended, Dispatches, Phases
<1>8. VerifiesAfter(r)'
  <2>1. VerifiesAfter(r)
    BY DEF StoreSafe
  <2>2. \A phase \in {"intent", "outcome"} : HasReceipt(r, "verify", phase)' => Ended(r)'
    BY <1>6, <1>7, <2>1 DEF VerifiesAfter, Dispatches, Phases
  <2> QED  BY <1>5, <1>7, <2>1, <2>2 DEF VerifiesAfter
<1>9. \A q \in Runs : q # r /\ DispatchOpen(q, "investigate")' => DispatchOpen(q, "investigate")
  BY <1>4 DEF Writing, DispatchOpen, HasReceipt
<1> QED  BY <1>4, <1>5, <1>8, <1>9, WritingSafe

\* Steps that write nothing.
LEMMA StoreStays ==
    ASSUME StoreSafe, UNCHANGED <<runs, events, commits>>
    PROVE  StoreSafe' /\ Grows /\ NoneOpens
<1>1. StoreSafe'
  BY DEF StoreSafe, StoreTypes, CommitsRun, VerifiesAfter, ReceiptsOnce, Receipts, Ended, Exists,
         HasReceipt
<1>2. Grows /\ NoneOpens
  BY DEF Grows, NoneOpens, DispatchOpen, Exists, HasReceipt
<1> QED  BY <1>1, <1>2

-----------------------------------------------------------------------------
(* Processes *)

\* What a process holds stays sound while others write.
LEMMA SoundStays ==
    ASSUME Grows, failures \in Nat, crashes \in Nat, failures' \in Nat, crashes' \in Nat,
           failures <= failures', crashes <= crashes'
    PROVE  /\ \A w : WorkerSound(w) => WorkerSound(w)'
           /\ \A h : HookSound(h) => HookSound(h)'
           /\ \A r \in Runs : Exists(r) => Exists(r)'
<1>1. \A r \in Runs : (Exists(r) => Exists(r)') /\ (Ended(r) => Ended(r)')
  BY DEF Grows, Ended, Dispatches, Phases
<1>2. ASSUME NEW w, WorkerSound(w), w # Idle PROVE WorkerSound(w)'
  <2>1. w.run \in Runs
    BY <1>2 DEF WorkerSound, IsWorker
  <2>2. w.pc \in {"endclaim", "endfinish"} => failures > 0 \/ crashes > 0
    BY <1>2 DEF WorkerSound
  <2>3. failures > 0 \/ crashes > 0 => failures' > 0 \/ crashes' > 0
    OBVIOUS
  <2>4. /\ IsWorker(w) /\ Exists(w.run)' /\ (w.dispatch = "verify" => Ended(w.run)')
        /\ w.pc \in {"claim", "endclaim"} => ~w.locked
    BY <1>1, <1>2, <2>1 DEF WorkerSound
  <2> QED  BY <2>2, <2>3, <2>4 DEF WorkerSound, IsWorker
<1>3. \A w : w = Idle => WorkerSound(w)'
  BY DEF WorkerSound, Idle
<1>4. ASSUME NEW h, HookSound(h) PROVE HookSound(h)'
  BY <1>1, <1>4 DEF HookSound
<1> QED  BY <1>1, <1>2, <1>3, <1>4

\* An open investigation is left to nobody only where an end may have failed.
Cared(p, w) ==
    \/ EndMayHaveFailed'
    \/ \A q \in Runs : DispatchOpen(q, "investigate")' =>
          \/ DispatchOpen(q, "investigate") /\ ~(worker[p] # Idle /\ worker[p].run = q)
          \/ w # Idle /\ w.run = q
          \/ \E o \in Processes : o # p /\ Busy(o, q)

\* A process takes a step of its dispatch.
LEMMA WorkKeeps ==
    ASSUME DispatchSafe, StoreSafe', Grows, NEW p \in Processes, NEW w, NEW hs,
           worker' = [worker EXCEPT ![p] = w], WorkerSound(w)', Cared(p, w),
           hooks' = [hooks EXCEPT ![p] = hs], \A h \in hs : HookSound(h)',
           UNCHANGED <<process, sweep, crashes>>, failures' \in {failures, failures + 1}
    PROVE  DispatchSafe'
<1>1. /\ failures \in Nat /\ crashes \in Nat /\ failures' \in Nat /\ crashes' \in Nat
      /\ failures <= failures' /\ crashes <= crashes'
  BY DEF DispatchSafe, Processing
<1>2. /\ \A x : WorkerSound(x) => WorkerSound(x)'
      /\ \A h : HookSound(h) => HookSound(h)'
      /\ \A r \in Runs : Exists(r) => Exists(r)'
  BY <1>1, SoundStays
<1>3. /\ worker'[p] = w /\ \A o \in Processes : o # p => worker'[o] = worker[o]
      /\ worker' = [o \in Processes |-> worker'[o]]
      /\ hooks'[p] = hs /\ \A o \in Processes : o # p => hooks'[o] = hooks[o]
      /\ hooks' = [o \in Processes |-> hooks'[o]]
  BY DEF DispatchSafe, Processing
<1>4. Processing'
  <2>1. ASSUME NEW o \in Processes
        PROVE  /\ WorkerSound(worker[o])'
               /\ process'[o] # "up" => crashes' > 0
               /\ \A h \in hooks'[o] : HookSound(h)'
               /\ \A r \in sweep'[o] : r \in Runs /\ Exists(r)'
    <3>1. /\ WorkerSound(worker[o]) /\ (process[o] # "up" => crashes > 0)
          /\ \A h \in hooks[o] : HookSound(h)
          /\ \A r \in sweep[o] : r \in Runs /\ Exists(r)
      BY DEF DispatchSafe, Processing
    <3>2. CASE o = p
      <4>1. worker'[o] = w /\ hooks'[o] = hs
        BY <1>3, <3>2
      <4>2. WorkerSound(worker[o])'
        BY <4>1 DEF WorkerSound
      <4> QED  BY <1>2, <3>1, <4>1, <4>2
    <3>3. CASE o # p
      <4>1. worker'[o] = worker[o] /\ hooks'[o] = hooks[o]
        BY <1>3, <3>3
      <4>2. PICK x : x = worker[o]
        OBVIOUS
      <4>3. WorkerSound(x)'
        BY <1>2, <3>1, <4>2
      <4>4. WorkerSound(worker[o])'
        BY <4>1, <4>2, <4>3 DEF WorkerSound
      <4> QED  BY <1>2, <3>1, <4>1, <4>4
    <3> QED  BY <3>2, <3>3
  <2> QED  BY <1>1, <1>3, <2>1 DEF DispatchSafe, Processing
<1>5. InvestigationsOwned'
  <2> SUFFICES ASSUME ~EndMayHaveFailed', NEW q \in Runs, DispatchOpen(q, "investigate")'
               PROVE  Owned(q)'
    BY DEF InvestigationsOwned
  <2>1. ~EndMayHaveFailed
    BY <1>1 DEF EndMayHaveFailed
  <2>2. CASE DispatchOpen(q, "investigate") /\ ~(worker[p] # Idle /\ worker[p].run = q)
    <3>1. Owned(q)
      BY <2>1, <2>2 DEF DispatchSafe, InvestigationsOwned
    <3>2. PICK o \in Processes : Busy(o, q) \/ q \in sweep[o] \/ process[o] = "down"
      BY <3>1 DEF Owned
    <3>3. CASE Busy(o, q)
      <4>1. worker[o] # Idle /\ worker[o].run = q
        BY <3>3 DEF Busy, Idle
      <4>2. o # p
        BY <2>2, <4>1
      <4> QED  BY <1>3, <3>3, <4>2 DEF Owned, Busy
    <3>4. CASE q \in sweep[o] \/ process[o] = "down"
      BY <3>4 DEF Owned
    <3> QED  BY <3>2, <3>3, <3>4
  <2>3. CASE w # Idle /\ w.run = q
    <3>1. w.pc # "idle"
      BY <2>3 DEF WorkerSound, IsWorker
    <3> QED  BY <1>3, <2>3, <3>1 DEF Owned, Busy
  <2>4. CASE \E o \in Processes : o # p /\ Busy(o, q)
    BY <1>3, <2>4 DEF Owned, Busy
  <2> QED  BY <2>2, <2>3, <2>4 DEF Cared
<1> QED  BY <1>4, <1>5 DEF DispatchSafe, StoreSafe

\* The dispatch a process runs.
LEMMA WorkerFacts ==
    ASSUME DispatchSafe, NEW p \in Processes, worker[p].pc # "idle"
    PROVE  LET w == worker[p]
           IN /\ w # Idle /\ IsWorker(w) /\ w.run \in Runs /\ w.dispatch \in Dispatches
              /\ Exists(w.run)
              /\ w.dispatch = "verify" => Ended(w.run)
              /\ w.pc \in {"claim", "endclaim"} => ~w.locked
              /\ w.pc \in {"endclaim", "endfinish"} => failures > 0 \/ crashes > 0
              /\ ~DispatchOpen(w.run, w.dispatch) => ~DispatchOpen(w.run, "investigate")
              /\ runs[w.run] \in RunRows /\ StoreSafe
<1>1. worker[p] # Idle
  BY DEF Idle
<1>2. WorkerSound(worker[p])
  BY DEF DispatchSafe, Processing
<1>3. runs[worker[p].run] \in RunRows /\ StoreSafe
  BY <1>1, <1>2 DEF WorkerSound, IsWorker, DispatchSafe, StoreSafe, StoreTypes
<1> QED  BY <1>1, <1>2, <1>3 DEF WorkerSound, IsWorker, DispatchOpen, Ended, Dispatches

\* The process goes on with its dispatch.
LEMMA GoesOn ==
    ASSUME DispatchSafe, StoreSafe', Grows, NEW p \in Processes, worker[p].pc # "idle", NEW w,
           worker' = [worker EXCEPT ![p] = w], IsWorker(w), w.run = worker[p].run,
           w.dispatch = worker[p].dispatch, w.pc \in {"claim", "endclaim"} => ~w.locked,
           w.pc \in {"endclaim", "endfinish"} => failures' > 0 \/ crashes > 0,
           \A q \in Runs : q # w.run /\ DispatchOpen(q, "investigate")'
                              => DispatchOpen(q, "investigate"),
           UNCHANGED <<process, hooks, sweep, crashes>>, failures' \in {failures, failures + 1}
    PROVE  DispatchSafe'
<1>1. /\ worker[p] # Idle /\ w.run \in Runs /\ Exists(w.run)
      /\ w.dispatch = "verify" => Ended(w.run)
  BY WorkerFacts
<1>2. Exists(w.run)' /\ (Ended(w.run) => Ended(w.run)')
  BY <1>1 DEF Grows, Ended, Dispatches, Phases
<1>3. WorkerSound(w)'
  BY <1>1, <1>2 DEF WorkerSound, IsWorker
<1>4. w # Idle
  BY DEF IsWorker, Idle
<1>5. Cared(p, w)
  BY <1>1, <1>4 DEF Cared
<1>6. hooks' = [hooks EXCEPT ![p] = hooks[p]] /\ \A h \in hooks[p] : HookSound(h)'
  <2>1. \A h \in hooks[p] : HookSound(h)
    BY DEF DispatchSafe, Processing
  <2>2. \A r \in Runs : (Exists(r) => Exists(r)') /\ (Ended(r) => Ended(r)')
    BY DEF Grows, Ended, Dispatches, Phases
  <2> QED  BY <2>1, <2>2 DEF HookSound, DispatchSafe, Processing
<1> QED  BY <1>3, <1>5, <1>6, WorkKeeps

\* The process is done with its dispatch.
LEMMA Leaves ==
    ASSUME DispatchSafe, StoreSafe', Grows, NEW p \in Processes, worker[p].pc # "idle",
           worker' = [worker EXCEPT ![p] = Idle], NoneOpens, NEW r, r = worker[p].run,
           \/ EndMayHaveFailed'
           \/ ~DispatchOpen(r, "investigate")'
           \/ \E o \in Processes : o # p /\ Busy(o, r),
           UNCHANGED <<process, sweep, crashes>>, failures' \in {failures, failures + 1},
           UNCHANGED hooks \/ AddHook(p, Hook("reinvestigate", r))
    PROVE  DispatchSafe'
<1>1. worker[p] # Idle /\ r \in Runs /\ Exists(r)
  BY WorkerFacts
<1>2. WorkerSound(Idle)'
  BY DEF WorkerSound
<1>3. Cared(p, Idle)
  BY <1>1 DEF Cared, NoneOpens
<1>4. \A q \in Runs : (Exists(q) => Exists(q)') /\ (Ended(q) => Ended(q)')
  BY DEF Grows, Ended, Dispatches, Phases
<1>5. \A h \in hooks[p] : HookSound(h)'
  BY <1>4 DEF HookSound, DispatchSafe, Processing
<1>6. HookSound(Hook("reinvestigate", r))'
  BY <1>1, <1>4 DEF HookSound, Hook
<1>7. PICK hs : hooks' = [hooks EXCEPT ![p] = hs] /\ \A h \in hs : HookSound(h)'
  <2>1. CASE UNCHANGED hooks
    <3>1. hooks' = [hooks EXCEPT ![p] = hooks[p]]
      BY <2>1 DEF DispatchSafe, Processing
    <3> QED  BY <1>5, <3>1
  <2>2. CASE AddHook(p, Hook("reinvestigate", r))
    <3>1. hooks' = [hooks EXCEPT ![p] = hooks[p] \cup {Hook("reinvestigate", r)}]
      BY <2>2 DEF AddHook
    <3> QED  BY <1>5, <1>6, <3>1
  <2> QED  BY <2>1, <2>2
<1> QED  BY <1>2, <1>3, <1>7, WorkKeeps

-----------------------------------------------------------------------------
(* The steps of a dispatch *)

\* EndRun, where the dispatch is open.
LEMMA EndRunSafe ==
    ASSUME StoreSafe, NEW r \in Runs, NEW d \in Dispatches, DispatchOpen(r, d), NEW status,
           NEW reason \in TerminatedReasons, EndRun(r, d, status, reason)
    PROVE  StoreSafe' /\ Grows /\ NoneOpens /\ ~DispatchOpen(r, "investigate")'
<1>1. /\ IsLog(Ending(d, status, Termination(reason)))
      /\ Writes(Ending(d, status, Termination(reason)), d, "outcome")
  BY LogsWritten
<1>2. /\ AppendEvents(r, Ending(d, status, Termination(reason)))
      /\ runs' = [runs EXCEPT ![r].doc = PatchRun(@, Termination(reason))] /\ UNCHANGED commits
  BY DEF EndRun
<1>3. StoreSafe' /\ Grows /\ NoneOpens /\ Ended(r)'
  BY <1>1, <1>2, EndSafe
<1> QED  BY <1>3 DEF Ended, DispatchOpen

\* A claim: somebody else has the dispatch, it is over, it is ended, or it begins.
LEMMA ClaimKeeps ==
    ASSUME DispatchSafe, NEW p \in Processes, Claim(p)
    PROVE  DispatchSafe'
<1>1. PICK next \in {"read", "endfinish"} :
         /\ worker[p].pc \in {"claim", "endclaim"}
         /\ next = "endfinish" => worker[p].pc = "endclaim"
         /\ ClaimDispatch(p, next)
  BY DEF Claim
<1>2. UNCHANGED <<process, hooks, sweep, crashes, failures>>
  BY DEF Claim
<1>3. PICK w : w = worker[p]
  OBVIOUS
<1>4. PICK r : r = w.run
  OBVIOUS
<1>5. /\ w # Idle /\ IsWorker(w) /\ r \in Runs /\ w.dispatch \in Dispatches
      /\ Exists(r) /\ (w.dispatch = "verify" => Ended(r)) /\ ~w.locked
      /\ w.pc = "endclaim" => failures > 0 \/ crashes > 0
      /\ ~DispatchOpen(r, w.dispatch) => ~DispatchOpen(r, "investigate")
      /\ StoreSafe /\ w.pc # "idle"
  BY <1>1, <1>3, <1>4, WorkerFacts
<1> DEFINE answer == IF DispatchLocked(r) THEN "active" ELSE ClaimOf(r, w.dispatch)
<1>6. CASE /\ answer \in {"active", "complete"} /\ worker' = [worker EXCEPT ![p] = Idle]
           /\ UNCHANGED <<storeVars, mover>>
  <2>1. StoreSafe' /\ Grows /\ NoneOpens
    BY <1>5, <1>6, StoreStays DEF storeVars
  <2>2. CASE DispatchLocked(r)
    <3>1. PICK o \in Processes : Busy(o, r) /\ worker[o].locked
      BY <2>2 DEF DispatchLocked
    <3>2. o # p
      BY <1>3, <1>5, <3>1
    <3> QED  BY <1>2, <1>3, <1>4, <1>5, <1>6, <2>1, <3>1, <3>2, Leaves
  <2>3. CASE ~DispatchLocked(r)
    <3>1. ~DispatchOpen(r, w.dispatch)
      BY <1>5, <1>6, <2>3, ClaimAnswers DEF DispatchOpen
    <3>2. ~DispatchOpen(r, "investigate")'
      BY <1>5, <2>1, <3>1 DEF NoneOpens
    <3> QED  BY <1>2, <1>3, <1>4, <1>5, <1>6, <2>1, <3>2, Leaves
  <2> QED  BY <2>2, <2>3
<1>7. CASE /\ answer = "interrupted" /\ EndRun(r, w.dispatch, "unknown", "needs_human")
           /\ worker' = [worker EXCEPT ![p] = Idle]
  <2>1. DispatchOpen(r, w.dispatch)
    BY <1>5, <1>7, ClaimAnswers
  <2>2. "needs_human" \in TerminatedReasons
    BY DEF TerminatedReasons
  <2>3. StoreSafe' /\ Grows /\ NoneOpens /\ ~DispatchOpen(r, "investigate")'
    BY <1>5, <1>7, <2>1, <2>2, EndRunSafe
  <2> QED  BY <1>2, <1>3, <1>4, <1>5, <1>7, <2>3, Leaves
<1>8. CASE /\ answer = "claimed"
           /\ AppendEvents(r, <<Receipt(w.dispatch, "intent", "pending")>>)
           /\ worker' = [worker EXCEPT ![p].pc = next, ![p].locked = TRUE]
           /\ UNCHANGED <<incident, runs, snapshots, commits, postmortem, mover>>
  <2>1. ClaimOf(r, w.dispatch) = "claimed"
    BY <1>8
  <2>2. /\ StoreSafe' /\ Grows
        /\ \A q \in Runs : q # r /\ DispatchOpen(q, "investigate")' => DispatchOpen(q, "investigate")
    BY <1>5, <1>8, <2>1, ClaimSafe
  <2>3. PICK v : v = [w EXCEPT !.pc = next, !.locked = TRUE]
    OBVIOUS
  <2>4. /\ IsWorker(v) /\ v.run = r /\ v.dispatch = w.dispatch /\ v.pc = next
    BY <1>1, <1>4, <1>5, <2>3 DEF IsWorker, WorkerFields
  <2>5. worker' = [worker EXCEPT ![p] = v]
    BY <1>3, <1>8, <2>3 DEF DispatchSafe, Processing
  <2> QED  BY <1>1, <1>2, <1>3, <1>4, <1>5, <2>2, <2>4, <2>5, GoesOn
<1> QED  BY <1>1, <1>3, <1>4, <1>6, <1>7, <1>8 DEF ClaimDispatch

\* A process that changes where it stands and writes nothing.
LEMMA Moves ==
    ASSUME DispatchSafe, NEW p \in Processes, worker[p].pc # "idle", NEW w,
           worker' = [worker EXCEPT ![p] = w], IsWorker(w), w.run = worker[p].run,
           w.dispatch = worker[p].dispatch, w.pc \in {"claim", "endclaim"} => ~w.locked,
           w.pc \in {"endclaim", "endfinish"} => failures' > 0 \/ crashes > 0,
           UNCHANGED storeVars,
           UNCHANGED <<process, hooks, sweep, crashes>>, failures' \in {failures, failures + 1}
    PROVE  DispatchSafe'
<1>1. StoreSafe' /\ Grows /\ NoneOpens
  BY StoreStays DEF DispatchSafe, StoreSafe, storeVars
<1> QED  BY <1>1, GoesOn DEF NoneOpens

\* A claim meets an error.
LEMMA ClaimFailsKeeps ==
    ASSUME DispatchSafe, NEW p \in Processes, ClaimFails(p)
    PROVE  DispatchSafe'
<1>1. /\ UNCHANGED storeVars /\ UNCHANGED <<process, hooks, sweep, crashes>>
      /\ failures' = failures + 1
  BY DEF ClaimFails
<1>2. failures \in Nat /\ crashes \in Nat
  BY DEF DispatchSafe, Processing
<1>3. CASE worker[p].pc = "claim" /\ worker' = [worker EXCEPT ![p].pc = "endclaim"]
  <2>1. PICK w : w = [worker[p] EXCEPT !.pc = "endclaim"]
    OBVIOUS
  <2>2. IsWorker(worker[p]) /\ ~worker[p].locked
    BY <1>3, WorkerFacts
  <2>3. /\ IsWorker(w) /\ w.run = worker[p].run /\ w.dispatch = worker[p].dispatch
        /\ ~w.locked
    BY <2>1, <2>2 DEF IsWorker, WorkerFields
  <2>4. worker' = [worker EXCEPT ![p] = w]
    BY <1>3, <2>1 DEF DispatchSafe, Processing
  <2>5. failures' > 0
    BY <1>1, <1>2
  <2> QED  BY <1>1, <1>3, <2>3, <2>4, <2>5, Moves
<1>4. CASE worker[p].pc = "endclaim" /\ worker' = [worker EXCEPT ![p] = Idle]
  <2>1. EndMayHaveFailed'
    <3>1. failures > 0 \/ crashes > 0
      BY <1>4, WorkerFacts
    <3> QED  BY <1>1, <1>2, <3>1 DEF EndMayHaveFailed
  <2>2. StoreSafe' /\ Grows /\ NoneOpens
    BY <1>1, StoreStays DEF DispatchSafe, StoreSafe, storeVars
  <2> QED  BY <1>1, <1>4, <2>1, <2>2, Leaves
<1> QED  BY <1>3, <1>4 DEF ClaimFails

\* The rows are read.
LEMMA ReadKeeps ==
    ASSUME DispatchSafe, NEW p \in Processes, Read(p)
    PROVE  DispatchSafe'
<1>1. /\ worker[p].pc = "read" /\ UNCHANGED storeVars
      /\ UNCHANGED <<process, hooks, sweep, crashes, failures>>
  BY DEF Read
<1>2. PICK next \in {"work", "finish"} :
         worker' = [worker EXCEPT ![p].pc = next, ![p].view = incident.version]
  BY DEF Read
<1>3. PICK w : w = [worker[p] EXCEPT !.pc = next, !.view = incident.version]
  OBVIOUS
<1>4. IsWorker(worker[p])
  BY <1>1, WorkerFacts
<1>5. IsWorker(w) /\ w.run = worker[p].run /\ w.dispatch = worker[p].dispatch /\ w.pc = next
  BY <1>3, <1>4 DEF IsWorker, WorkerFields
<1>6. worker' = [worker EXCEPT ![p] = w]
  BY <1>2, <1>3 DEF DispatchSafe, Processing
<1> QED  BY <1>1, <1>5, <1>6, Moves

\* The dispatch ends, or was ended: by _finish, or by an investigation without a result.
LEMMA EndKeeps ==
    ASSUME DispatchSafe, NEW p \in Processes, worker[p].pc # "idle",
           worker' = [worker EXCEPT ![p] = Idle],
           NEW status, NEW reason \in TerminatedReasons,
           IF DispatchOpen(worker[p].run, worker[p].dispatch)
           THEN EndRun(worker[p].run, worker[p].dispatch, status, reason)
           ELSE UNCHANGED storeVars,
           UNCHANGED <<process, hooks, sweep, crashes, failures>>
    PROVE  DispatchSafe'
<1>1. PICK r, d : r = worker[p].run /\ d = worker[p].dispatch
  OBVIOUS
<1>2. /\ r \in Runs /\ d \in Dispatches /\ StoreSafe
      /\ ~DispatchOpen(r, d) => ~DispatchOpen(r, "investigate")
  BY <1>1, WorkerFacts
<1>3. StoreSafe' /\ Grows /\ NoneOpens /\ ~DispatchOpen(r, "investigate")'
  <2>1. CASE DispatchOpen(r, d)
    BY <1>1, <1>2, <2>1, EndRunSafe
  <2>2. CASE ~DispatchOpen(r, d)
    <3>1. StoreSafe' /\ Grows /\ NoneOpens
      BY <1>1, <1>2, <2>2, StoreStays DEF storeVars
    <3> QED  BY <1>2, <2>2, <3>1 DEF NoneOpens
  <2> QED  BY <2>1, <2>2
<1> QED  BY <1>1, <1>3, Leaves

\* _finish.
LEMMA FinishKeeps ==
    ASSUME DispatchSafe, NEW p \in Processes, Finish(p)
    PROVE  DispatchSafe'
<1>1. "needs_human" \in TerminatedReasons
  BY DEF TerminatedReasons
<1> QED  BY <1>1, EndKeeps DEF Finish

\* An investigation without a result.
LEMMA EndsWithoutResultKeeps ==
    ASSUME DispatchSafe, NEW p \in Processes, EndsWithoutResult(p)
    PROVE  DispatchSafe'
<1>1. PICK reason \in EndReasons, status \in {"unknown", "confirmed_failure"} :
         IF DispatchOpen(worker[p].run, worker[p].dispatch)
         THEN EndRun(worker[p].run, worker[p].dispatch, status, reason)
         ELSE UNCHANGED storeVars
  BY DEF EndsWithoutResult
<1>2. reason \in TerminatedReasons
  BY DispatchAssumption
<1> QED  BY <1>1, <1>2, EndKeeps DEF EndsWithoutResult

\* The completion meets an error.
LEMMA FinishFailsKeeps ==
    ASSUME DispatchSafe, NEW p \in Processes, FinishFails(p)
    PROVE  DispatchSafe'
<1>1. /\ UNCHANGED storeVars /\ UNCHANGED <<process, hooks, sweep, crashes>>
      /\ failures' = failures + 1 /\ worker[p].pc \in {"work", "finish", "endfinish"}
  BY DEF FinishFails
<1>2. failures \in Nat /\ crashes \in Nat
  BY DEF DispatchSafe, Processing
<1>3. CASE worker[p].pc # "endfinish"
  <2>1. PICK w : w = Busied(p, "endclaim", worker[p].run, worker[p].dispatch)
    OBVIOUS
  <2>2. worker' = [worker EXCEPT ![p] = w]
    BY <1>3, <2>1 DEF FinishFails
  <2>3. worker[p].run \in Runs /\ worker[p].dispatch \in Dispatches
    BY <1>1, WorkerFacts
  <2>4. /\ IsWorker(w) /\ w.run = worker[p].run /\ w.dispatch = worker[p].dispatch
        /\ ~w.locked
    BY <2>1, <2>3 DEF IsWorker, WorkerFields, Busied
  <2>5. failures' > 0
    BY <1>1, <1>2
  <2> QED  BY <1>1, <2>2, <2>4, <2>5, Moves
<1>4. CASE worker[p].pc = "endfinish"
  <2>1. EndMayHaveFailed'
    <3>1. failures > 0 \/ crashes > 0
      BY <1>4, WorkerFacts
    <3> QED  BY <1>1, <1>2, <3>1 DEF EndMayHaveFailed
  <2>2. StoreSafe' /\ Grows /\ NoneOpens
    BY <1>1, StoreStays DEF DispatchSafe, StoreSafe, storeVars
  <2>3. worker' = [worker EXCEPT ![p] = Idle]
    BY <1>4 DEF FinishFails
  <2> QED  BY <1>1, <1>4, <2>1, <2>2, <2>3, Leaves
<1> QED  BY <1>3, <1>4

\* A hypothesis with steps left: the run goes on.
LEMMA ContinueKeeps ==
    ASSUME DispatchSafe, NEW p \in Processes, Continue(p)
    PROVE  DispatchSafe'
<1> DEFINE r == worker[p].run
<1>1. PICK cmd : cmd = HarnessCommand(p, "continue_investigation", Key("turn", r, incident.version))
  OBVIOUS
<1>2. /\ worker[p].pc = "work" /\ UNCHANGED <<process, hooks, sweep, crashes, failures>>
  BY DEF Continue
<1>3. /\ IsWorker(worker[p]) /\ r \in Runs /\ runs[r] \in RunRows /\ StoreSafe
  BY <1>2, WorkerFacts
<1>4. PICK next \in {"read", "finish"} :
         /\ worker' = [worker EXCEPT ![p].pc = next]
         /\ \/ Apply(cmd, runs[r], <<InvestigationResult(FALSE, "none")>>)
            \/ UNCHANGED storeVars
  BY <1>1 DEF Continue
<1>5. PICK w : w = [worker[p] EXCEPT !.pc = next]
  OBVIOUS
<1>6. IsWorker(w) /\ w.run = worker[p].run /\ w.dispatch = worker[p].dispatch /\ w.pc = next
  BY <1>3, <1>5 DEF IsWorker, WorkerFields
<1>7. worker' = [worker EXCEPT ![p] = w]
  BY <1>4, <1>5 DEF DispatchSafe, Processing
<1>8. CASE Apply(cmd, runs[r], <<InvestigationResult(FALSE, "none")>>)
  <2>1. cmd.run = r /\ cmd.transition = "continue_investigation"
    BY <1>1 DEF HarnessCommand, Command
  <2>2. /\ IsLog(<<InvestigationResult(FALSE, "none")>>)
        /\ NoReceipt(<<InvestigationResult(FALSE, "none")>>)
    BY LogsWritten
  <2>3. StoreSafe' /\ Grows /\ NoneOpens
    BY <1>3, <1>8, <2>1, <2>2, ApplySafe DEF Sent
  <2> QED  BY <1>2, <1>6, <1>7, <2>3, GoesOn DEF NoneOpens
<1>9. CASE UNCHANGED storeVars
  BY <1>2, <1>6, <1>7, <1>9, Moves
<1> QED  BY <1>4, <1>8, <1>9

\* An outcome with a transition, whose commit may be uncertain.
LEMMA OutcomeKeeps ==
    ASSUME DispatchSafe, NEW p \in Processes, NEW t \in Sent, NEW verdict, Outcome(p, t, verdict),
           t = "propose_mitigation" => worker[p].dispatch = "investigate"
    PROVE  DispatchSafe'
<1>1. PICK r, d : r = worker[p].run /\ d = worker[p].dispatch
  OBVIOUS
<1>2. PICK cmd : cmd = [HarnessCommand(p, t, Key(d, r, 0)) EXCEPT
                          !.dispatch = d, !.operation = (t = "propose_mitigation")]
  OBVIOUS
<1>3. PICK log : log = <<InvestigationResult(FALSE, verdict), Receipt(d, "outcome", "success")>>
  OBVIOUS
<1>4. worker[p].pc = "work" /\ UNCHANGED <<process, sweep, crashes>>
  BY DEF Outcome
<1>5. /\ IsWorker(worker[p]) /\ r \in Runs /\ d \in Dispatches /\ runs[r] \in RunRows
      /\ StoreSafe
  BY <1>1, <1>4, WorkerFacts
<1>6. cmd.run = r /\ cmd.transition = t /\ cmd.dispatch = d
  BY <1>1, <1>2 DEF HarnessCommand, Command
<1>7. IsLog(log) /\ Writes(log, d, "outcome")
  BY <1>3, LogsWritten
<1>8. ~NoReceipt(log)
  BY <1>7 DEF NoReceipt, Writes
<1>9. ASSUME Apply(cmd, runs[r], log)
      PROVE  StoreSafe' /\ Grows /\ NoneOpens /\ Ended(r)'
  BY <1>1, <1>5, <1>6, <1>7, <1>8, <1>9, ApplySafe
<1>10. PICK w : w = [worker[p] EXCEPT !.pc = "finish"]
  OBVIOUS
<1>11. IsWorker(w) /\ w.run = worker[p].run /\ w.dispatch = worker[p].dispatch /\ w.pc = "finish"
  BY <1>5, <1>10 DEF IsWorker, WorkerFields
<1>12. worker' = [worker EXCEPT ![p].pc = "finish"] => worker' = [worker EXCEPT ![p] = w]
  BY <1>10 DEF DispatchSafe, Processing
<1>13. CASE /\ Apply(cmd, runs[r], log)
            /\ worker' = [worker EXCEPT ![p] = Idle]
            /\ UNCHANGED hooks \/ AddHook(p, Hook("reinvestigate", r))
            /\ UNCHANGED failures
  <2>1. StoreSafe' /\ Grows /\ NoneOpens /\ ~DispatchOpen(r, "investigate")'
    BY <1>9, <1>13 DEF Ended, DispatchOpen
  <2> QED  BY <1>1, <1>4, <1>13, <2>1, Leaves
<1>14. CASE /\ Apply(cmd, runs[r], log)
            /\ worker' = [worker EXCEPT ![p].pc = "finish"]
            /\ failures' = failures + 1 /\ UNCHANGED hooks
  <2>1. StoreSafe' /\ Grows /\ NoneOpens
    BY <1>9, <1>14
  <2> QED  BY <1>4, <1>11, <1>12, <1>14, <2>1, GoesOn DEF NoneOpens
<1>15. CASE /\ worker' = [worker EXCEPT ![p].pc = "finish"]
            /\ UNCHANGED storeVars /\ UNCHANGED <<hooks, failures>>
  BY <1>4, <1>11, <1>12, <1>15, Moves
<1> QED  BY <1>1, <1>2, <1>3, <1>13, <1>14, <1>15 DEF Outcome

\* The outcomes of an investigation and of a verification.
LEMMA ProposesKeep ==
    ASSUME DispatchSafe, NEW p \in Processes, ProposeMitigation(p) \/ VerifyMitigation(p)
    PROVE  DispatchSafe'
<1>1. PICK t, verdict :
         /\ t \in Sent
         /\ Outcome(p, t, verdict)
         /\ t = "propose_mitigation" => worker[p].dispatch = "investigate"
  BY DEF ProposeMitigation, VerifyMitigation, Sent
<1> QED  BY <1>1, OutcomeKeeps

\* An outcome without a transition.
LEMMA EndsWithResultKeeps ==
    ASSUME DispatchSafe, NEW p \in Processes, EndsWithResult(p)
    PROVE  DispatchSafe'
<1>1. PICK r, d : r = worker[p].run /\ d = worker[p].dispatch
  OBVIOUS
<1>2. worker[p].pc = "work" /\ UNCHANGED <<process, hooks, sweep, crashes, failures>>
  BY DEF EndsWithResult
<1>3. /\ IsWorker(worker[p]) /\ r \in Runs /\ d \in Dispatches /\ StoreSafe
      /\ ~DispatchOpen(r, d) => ~DispatchOpen(r, "investigate")
  BY <1>1, <1>2, WorkerFacts
<1>4. CASE /\ DispatchOpen(r, d) /\ worker' = [worker EXCEPT ![p] = Idle] /\ UNCHANGED commits
           /\ \E reason, cites :
                 /\ reason \in TerminatedReasons
                 /\ AppendEvents(r, <<InvestigationResult(cites, "none"),
                                      Receipt(d, "outcome", "success"),
                                      RunTerminated(Termination(reason))>>)
                 /\ runs' = [runs EXCEPT ![r].doc = PatchRun(@, Termination(reason))]
  <2>1. PICK reason, cites :
           /\ reason \in TerminatedReasons
           /\ AppendEvents(r, <<InvestigationResult(cites, "none"),
                                Receipt(d, "outcome", "success"),
                                RunTerminated(Termination(reason))>>)
           /\ runs' = [runs EXCEPT ![r].doc = PatchRun(@, Termination(reason))]
    BY <1>4
  <2>2. PICK log : log = <<InvestigationResult(cites, "none"), Receipt(d, "outcome", "success"),
                           RunTerminated(Termination(reason))>>
    OBVIOUS
  <2>3. IsLog(log) /\ Writes(log, d, "outcome")
    BY <2>2, LogsWritten
  <2>4. StoreSafe' /\ Grows /\ NoneOpens /\ Ended(r)'
    BY <1>3, <1>4, <2>1, <2>2, <2>3, EndSafe
  <2>5. ~DispatchOpen(r, "investigate")'
    BY <2>4 DEF Ended, DispatchOpen
  <2> QED  BY <1>1, <1>2, <1>4, <2>4, <2>5, Leaves
<1>5. CASE ~DispatchOpen(r, d) /\ worker' = [worker EXCEPT ![p] = Idle] /\ UNCHANGED storeVars
  <2>1. StoreSafe' /\ Grows /\ NoneOpens
    BY <1>3, <1>5, StoreStays DEF storeVars
  <2>2. ~DispatchOpen(r, "investigate")'
    BY <1>3, <1>5, <2>1 DEF NoneOpens
  <2> QED  BY <1>1, <1>2, <1>5, <2>1, <2>2, Leaves
<1>6. CASE worker' = [worker EXCEPT ![p].pc = "finish"] /\ UNCHANGED storeVars
  <2>1. PICK w : w = [worker[p] EXCEPT !.pc = "finish"]
    OBVIOUS
  <2>2. IsWorker(w) /\ w.run = worker[p].run /\ w.dispatch = worker[p].dispatch /\ w.pc = "finish"
    BY <1>3, <2>1 DEF IsWorker, WorkerFields
  <2>3. worker' = [worker EXCEPT ![p] = w]
    BY <1>6, <2>1 DEF DispatchSafe, Processing
  <2> QED  BY <1>2, <1>6, <2>2, <2>3, Moves
<1>7. {"completed", "max_steps", "needs_human"} \subseteq TerminatedReasons
  BY DEF TerminatedReasons
<1> QED  BY <1>1, <1>4, <1>5, <1>6, <1>7 DEF EndsWithResult

-----------------------------------------------------------------------------
(* Hand-offs *)

\* A process is handed work, or work it was handed goes.
LEMMA Handed ==
    ASSUME DispatchSafe, StoreSafe', Grows, NoneOpens, NEW p \in Processes, NEW hs,
           hooks' = [hooks EXCEPT ![p] = hs], \A h \in hs : h \in hooks[p] \/ HookSound(h)',
           UNCHANGED <<process, worker, sweep, crashes>>, failures' \in {failures, failures + 1}
    PROVE  DispatchSafe'
<1>1. PICK w : w = worker[p]
  OBVIOUS
<1>2. worker' = [worker EXCEPT ![p] = w]
  BY <1>1 DEF DispatchSafe, Processing
<1>3. /\ failures \in Nat /\ crashes \in Nat /\ failures' \in Nat /\ crashes' \in Nat
      /\ failures <= failures' /\ crashes <= crashes'
  BY DEF DispatchSafe, Processing
<1>4. /\ \A x : WorkerSound(x) => WorkerSound(x)'
      /\ \A h : HookSound(h) => HookSound(h)'
  BY <1>3, SoundStays
<1>5. WorkerSound(w)'
  BY <1>1, <1>4 DEF DispatchSafe, Processing
<1>6. \A h \in hs : HookSound(h)'
  BY <1>4 DEF DispatchSafe, Processing
<1>7. Cared(p, w)
  BY <1>1 DEF Cared, NoneOpens
<1> QED  BY <1>2, <1>5, <1>6, <1>7, WorkKeeps

\* A transition leaves a declared state, so a new run is one.
LEMMA NewRunType ==
    ASSUME NEW cmd, cmd.transition \in Sent, Validate(cmd, incident)
    PROVE  NewRun(incident.doc.state) \in RunRows
<1>1. incident.doc.state = Workflow[cmd.transition].from
  BY DEF Validate
<1>2. Workflow[cmd.transition].from \in States
  BY DEF Workflow, EdgeOf, Edge, Sent, Transitions, States
<1> QED  BY <1>1, <1>2 DEF NewRun, RunRows, RunDocs, RunStatuses, LiveRunStatuses,
                           PendingCommands, TerminatedReasons

\* A new run, opened by a person or by the retry of a failed mitigation.
LEMMA OpensSafe ==
    ASSUME DispatchSafe, NEW cmd, cmd.run \in Runs,
           cmd.transition \in {"start_investigation", "continue_investigation"},
           Apply(cmd, NewRun(incident.doc.state), <<>>)
    PROVE  StoreSafe' /\ Grows /\ NoneOpens /\ HookSound(Hook("dispatch", cmd.run))'
<1>1. cmd.transition \in Sent /\ cmd.transition # "propose_mitigation"
  BY DEF Sent
<1>2. Validate(cmd, incident)
  BY DEF Apply, Accepts
<1>3. NewRun(incident.doc.state) \in RunRows
  BY <1>1, <1>2, NewRunType
<1>4. IsLog(<<>>) /\ NoReceipt(<<>>)
  BY LogsWritten
<1>5. StoreSafe' /\ Grows /\ NoneOpens /\ Exists(cmd.run)'
  BY <1>1, <1>3, <1>4, ApplySafe DEF DispatchSafe, StoreSafe
<1> QED  BY <1>5 DEF HookSound, Hook

\* A run is started, or its start repeated.
LEMMA StartKeeps ==
    ASSUME DispatchSafe, NEW p \in Processes, StartInvestigation(p)
    PROVE  DispatchSafe'
<1>1. UNCHANGED <<process, worker, sweep, crashes, failures>>
  BY DEF StartInvestigation
<1>2. CASE \E r, t, retry :
              /\ r \in Runs /\ t \in {"start_investigation", "continue_investigation"}
              /\ Apply([Command(Key("start", r, 0), r, t, "human") EXCEPT !.retry = retry],
                       NewRun(incident.doc.state), <<>>)
              /\ AddHook(p, Hook("dispatch", r))
  <2>1. PICK r, t, retry :
              /\ r \in Runs /\ t \in {"start_investigation", "continue_investigation"}
              /\ Apply([Command(Key("start", r, 0), r, t, "human") EXCEPT !.retry = retry],
                       NewRun(incident.doc.state), <<>>)
              /\ AddHook(p, Hook("dispatch", r))
    BY <1>2
  <2>2. PICK cmd : cmd = [Command(Key("start", r, 0), r, t, "human") EXCEPT !.retry = retry]
    OBVIOUS
  <2>3. cmd.run = r /\ cmd.transition = t
    BY <2>2 DEF Command
  <2>4. Apply(cmd, NewRun(incident.doc.state), <<>>)
    BY <2>1, <2>2
  <2>5. StoreSafe' /\ Grows /\ NoneOpens /\ HookSound(Hook("dispatch", r))'
    BY <2>1, <2>3, <2>4, OpensSafe
  <2>6. hooks' = [hooks EXCEPT ![p] = hooks[p] \cup {Hook("dispatch", r)}]
    BY <2>1 DEF AddHook
  <2> QED  BY <1>1, <2>5, <2>6, Handed
<1>3. CASE \E r \in Runs : /\ Investigates(r) /\ AddHook(p, Hook("dispatch", r))
                           /\ UNCHANGED storeVars
  <2>1. PICK r \in Runs : /\ Investigates(r) /\ AddHook(p, Hook("dispatch", r))
                          /\ UNCHANGED storeVars
    BY <1>3
  <2>2. Exists(r)
    BY <2>1 DEF Investigates, DispatchSafe, VerifiesAfter
  <2>3. StoreSafe' /\ Grows /\ NoneOpens
    BY <2>1, StoreStays DEF DispatchSafe, StoreSafe, storeVars
  <2>4. HookSound(Hook("dispatch", r))'
    BY <2>2, <2>3 DEF HookSound, Hook, Grows
  <2>5. hooks' = [hooks EXCEPT ![p] = hooks[p] \cup {Hook("dispatch", r)}]
    BY <2>1 DEF AddHook
  <2> QED  BY <1>1, <2>3, <2>4, <2>5, Handed
<1> QED  BY <1>2, <1>3 DEF StartInvestigation

\* A person answers.
LEMMA AnswerKeeps ==
    ASSUME DispatchSafe, NEW p \in Processes, Answer(p)
    PROVE  DispatchSafe'
<1> DEFINE send(r, t, executed) ==
              [Command(Key("human", r, incident.version), r, t, "human") EXCEPT
                 !.approval = (t = "apply_mitigation"), !.expected = incident.version,
                 !.outcome = IF t = "reject_mitigation" THEN "reject" ELSE "default",
                 !.executed = executed]
           answers == {"apply_mitigation", "reject_mitigation", "verification_passed",
                       "verification_failed"}
<1>1. UNCHANGED <<process, worker, sweep, crashes, failures>>
  BY DEF Answer
<1>2. PICK r \in Runs, t \in answers, executed \in BOOLEAN :
         /\ executed => t = "apply_mitigation"
         /\ Apply(send(r, t, executed), runs[r], <<>>)
         /\ CASE executed                   -> AddHook(p, Hook("verify", r))
              [] t = "verification_failed"  -> AddHook(p, Hook("reinvestigate", r))
              [] OTHER                      -> UNCHANGED hooks
  BY DEF Answer
<1>3. PICK cmd : cmd = send(r, t, executed)
  OBVIOUS
<1>4. cmd.run = r /\ cmd.transition = t
  BY <1>3 DEF Command
<1>5. Apply(cmd, runs[r], <<>>)
  BY <1>2, <1>3
<1>6. IsLog(<<>>) /\ NoReceipt(<<>>)
  BY LogsWritten
<1>7. runs[r] \in RunRows /\ StoreSafe
  BY DEF DispatchSafe, StoreSafe, StoreTypes
<1>8. /\ StoreSafe' /\ Grows /\ NoneOpens /\ Exists(r)'
      /\ t = "apply_mitigation" => Ended(r)'
  <2>1. t \in Sent /\ t # "propose_mitigation"
    BY DEF Sent
  <2> QED  BY <1>4, <1>5, <1>6, <1>7, <2>1, ApplySafe
<1>9. HookSound(Hook("reinvestigate", r))' /\ (executed => HookSound(Hook("verify", r))')
  BY <1>2, <1>8 DEF HookSound, Hook
<1>10. CASE executed
  <2>1. hooks' = [hooks EXCEPT ![p] = hooks[p] \cup {Hook("verify", r)}]
    BY <1>2, <1>10 DEF AddHook
  <2> QED  BY <1>1, <1>8, <1>9, <1>10, <2>1, Handed
<1>11. CASE ~executed
  <2>1. CASE hooks' = [hooks EXCEPT ![p] = hooks[p] \cup {Hook("reinvestigate", r)}]
    BY <1>1, <1>8, <1>9, <2>1, Handed
  <2>2. CASE UNCHANGED hooks
    <3>1. hooks' = [hooks EXCEPT ![p] = hooks[p]]
      BY <2>2 DEF DispatchSafe, Processing
    <3> QED  BY <1>1, <1>8, <3>1, Handed
  <2> QED  BY <1>2, <1>11, <2>1, <2>2 DEF AddHook
<1> QED  BY <1>10, <1>11

\* A failed mitigation is looked into again, or given up.
LEMMA ReinvestigateKeeps ==
    ASSUME DispatchSafe, NEW p \in Processes, Reinvestigate(p)
    PROVE  DispatchSafe'
<1>1. UNCHANGED <<process, worker, sweep, crashes, failures>>
  BY DEF Reinvestigate
<1>2. PICK id : id = Key("reinvestigate", DeclarationRun, Failures)
  OBVIOUS
<1>3. PICK hook \in hooks[p] :
         \/ hooks' = [hooks EXCEPT ![p] = hooks[p] \ {hook}] /\ UNCHANGED storeVars
         \/ \E r \in Runs :
               /\ Apply([Command(id, r, "continue_investigation", "system") EXCEPT !.retry = TRUE],
                        NewRun(incident.doc.state), <<>>)
               /\ hooks' = [hooks EXCEPT ![p] = (hooks[p] \ {hook}) \cup {Hook("dispatch", r)}]
         \/ \E k \in commits :
               /\ hooks' = [hooks EXCEPT ![p] = (hooks[p] \ {hook}) \cup {Hook("dispatch", k.run)}]
               /\ UNCHANGED storeVars
  BY <1>2 DEF Reinvestigate
<1>4. CASE hooks' = [hooks EXCEPT ![p] = hooks[p] \ {hook}] /\ UNCHANGED storeVars
  <2>1. StoreSafe' /\ Grows /\ NoneOpens
    BY <1>4, StoreStays DEF DispatchSafe, StoreSafe, storeVars
  <2> QED  BY <1>1, <1>4, <2>1, Handed
<1>5. ASSUME NEW r \in Runs,
             Apply([Command(id, r, "continue_investigation", "system") EXCEPT !.retry = TRUE],
                   NewRun(incident.doc.state), <<>>),
             hooks' = [hooks EXCEPT ![p] = (hooks[p] \ {hook}) \cup {Hook("dispatch", r)}]
      PROVE  DispatchSafe'
  <2>1. PICK cmd :
           cmd = [Command(id, r, "continue_investigation", "system") EXCEPT !.retry = TRUE]
    OBVIOUS
  <2>2. cmd.run = r /\ cmd.transition = "continue_investigation"
    BY <2>1 DEF Command
  <2>3. Apply(cmd, NewRun(incident.doc.state), <<>>)
    BY <1>5, <2>1
  <2>4. StoreSafe' /\ Grows /\ NoneOpens /\ HookSound(Hook("dispatch", r))'
    BY <2>2, <2>3, OpensSafe
  <2> QED  BY <1>1, <1>5, <2>4, Handed
<1>6. ASSUME NEW k \in commits,
             hooks' = [hooks EXCEPT ![p] = (hooks[p] \ {hook}) \cup {Hook("dispatch", k.run)}],
             UNCHANGED storeVars
      PROVE  DispatchSafe'
  <2>1. StoreSafe' /\ Grows /\ NoneOpens
    BY <1>6, StoreStays DEF DispatchSafe, StoreSafe, storeVars
  <2>2. k.run \in Runs /\ Exists(k.run)
    BY DEF DispatchSafe, CommitsRun
  <2>3. HookSound(Hook("dispatch", k.run))'
    BY <2>1, <2>2 DEF HookSound, Hook, Grows
  <2> QED  BY <1>1, <1>6, <2>1, <2>3, Handed
<1> QED  BY <1>3, <1>4, <1>5, <1>6

\* Its error.
LEMMA ReinvestigateFailsKeeps ==
    ASSUME DispatchSafe, NEW p \in Processes, ReinvestigateFails(p)
    PROVE  DispatchSafe'
<1>1. /\ UNCHANGED storeVars /\ UNCHANGED <<process, worker, sweep, crashes>>
      /\ failures' = failures + 1
  BY DEF ReinvestigateFails
<1>2. PICK hook : hooks' = [hooks EXCEPT ![p] = hooks[p] \ {hook}]
  BY DEF ReinvestigateFails
<1>3. StoreSafe' /\ Grows /\ NoneOpens
  BY <1>1, StoreStays DEF DispatchSafe, StoreSafe, storeVars
<1> QED  BY <1>1, <1>2, <1>3, Handed

\* A hand-off begins.
LEMMA HandOffKeeps ==
    ASSUME DispatchSafe, NEW p \in Processes, HandOff(p)
    PROVE  DispatchSafe'
<1>1. /\ worker[p] = Idle /\ UNCHANGED storeVars
      /\ UNCHANGED <<process, sweep, crashes, failures>>
  BY DEF HandOff
<1>2. PICK hook, w :
         /\ hook \in hooks[p]
         /\ hooks' = [hooks EXCEPT ![p] = hooks[p] \ {hook}]
         /\ worker' = [worker EXCEPT ![p] = w]
         /\ \/ w = Busied(p, "claim", hook.run, "investigate")
            \/ w = Busied(p, "claim", hook.run, "verify") /\ hook.kind = "verify"
            \/ w = Idle
  BY DEF HandOff
<1>3. StoreSafe' /\ Grows /\ NoneOpens
  BY <1>1, StoreStays DEF DispatchSafe, StoreSafe, storeVars
<1>4. \A r \in Runs : (Exists(r) => Exists(r)') /\ (Ended(r) => Ended(r)')
  BY <1>3 DEF Grows, Ended, Dispatches, Phases
<1>5. HookSound(hook) /\ \A h \in hooks[p] : HookSound(h)
  BY <1>2 DEF DispatchSafe, Processing
<1>6. \A h \in hooks[p] \ {hook} : HookSound(h)'
  BY <1>4, <1>5 DEF HookSound
<1>7. WorkerSound(w)'
  <2>1. CASE w = Idle
    BY <2>1 DEF WorkerSound
  <2>2. CASE w # Idle
    <3>1. /\ IsWorker(w) /\ w.run = hook.run /\ w.pc = "claim" /\ ~w.locked
          /\ w.dispatch = "verify" => hook.kind = "verify"
      <4>1. hook.run \in Runs
        BY <1>5 DEF HookSound
      <4>2. PICK d \in Dispatches :
               w = Busied(p, "claim", hook.run, d) /\ (d = "verify" => hook.kind = "verify")
        BY <1>2, <2>2 DEF Dispatches
      <4>3. w = [pc |-> "claim", run |-> hook.run, dispatch |-> d, view |-> 0, locked |-> FALSE]
        BY <4>2 DEF Busied
      <4>4. IsWorker(w)
        BY <4>1, <4>3 DEF IsWorker, WorkerFields
      <4> QED  BY <4>2, <4>3, <4>4
    <3>2. Exists(w.run)' /\ (w.dispatch = "verify" => Ended(w.run)')
      BY <1>4, <1>5, <3>1 DEF HookSound
    <3> QED  BY <3>1, <3>2 DEF WorkerSound, IsWorker
  <2> QED  BY <2>1, <2>2
<1>8. Cared(p, w)
  BY <1>1, <1>3 DEF Cared, NoneOpens
<1> QED  BY <1>1, <1>2, <1>3, <1>6, <1>7, <1>8, WorkKeeps

-----------------------------------------------------------------------------
(* Faults *)

\* A process dies, starts, sweeps or serves; it writes nothing in the step.
LEMMA ProcessKeeps ==
    ASSUME DispatchSafe, UNCHANGED storeVars, UNCHANGED failures, crashes' \in {crashes, crashes + 1},
           NEW p \in Processes, NEW x, NEW w, NEW hs, NEW ss,
           process' = [process EXCEPT ![p] = x], worker' = [worker EXCEPT ![p] = w],
           hooks' = [hooks EXCEPT ![p] = hs], sweep' = [sweep EXCEPT ![p] = ss],
           x # "up" => crashes' > 0, WorkerSound(w)', hs \subseteq hooks[p],
           \A r \in ss : r \in Runs /\ Exists(r),
           \A q \in Runs : DispatchOpen(q, "investigate") =>
              \/ x = "down" \/ q \in ss \/ (w # Idle /\ w.run = q)
              \/ ~Busy(p, q) /\ q \notin sweep[p] /\ process[p] # "down"
    PROVE  DispatchSafe'
<1>1. StoreSafe' /\ Grows /\ NoneOpens
  BY StoreStays DEF DispatchSafe, StoreSafe, storeVars
<1>2. /\ failures \in Nat /\ crashes \in Nat /\ failures' \in Nat /\ crashes' \in Nat
      /\ failures <= failures' /\ crashes <= crashes'
  BY DEF DispatchSafe, Processing
<1>3. /\ \A v : WorkerSound(v) => WorkerSound(v)'
      /\ \A h : HookSound(h) => HookSound(h)'
      /\ \A r \in Runs : Exists(r) => Exists(r)'
  BY <1>1, <1>2, SoundStays
<1>4. /\ process'[p] = x /\ worker'[p] = w /\ hooks'[p] = hs /\ sweep'[p] = ss
      /\ \A o \in Processes : o # p =>
            /\ process'[o] = process[o] /\ worker'[o] = worker[o]
            /\ hooks'[o] = hooks[o] /\ sweep'[o] = sweep[o]
  BY DEF DispatchSafe, Processing
<1>5. /\ process' = [o \in Processes |-> process'[o]] /\ worker' = [o \in Processes |-> worker'[o]]
      /\ hooks' = [o \in Processes |-> hooks'[o]] /\ sweep' = [o \in Processes |-> sweep'[o]]
  BY DEF DispatchSafe, Processing
<1>6. Processing'
  <2>1. ASSUME NEW o \in Processes
        PROVE  /\ WorkerSound(worker[o])'
               /\ process'[o] # "up" => crashes' > 0
               /\ \A h \in hooks'[o] : HookSound(h)'
               /\ \A r \in sweep'[o] : r \in Runs /\ Exists(r)'
    <3>1. /\ WorkerSound(worker[o]) /\ (process[o] # "up" => crashes > 0)
          /\ \A h \in hooks[o] : HookSound(h)
          /\ \A r \in sweep[o] : r \in Runs /\ Exists(r)
      BY DEF DispatchSafe, Processing
    <3>2. CASE o = p
      <4>1. /\ process'[o] = x /\ worker'[o] = w /\ hooks'[o] = hs /\ sweep'[o] = ss
        BY <1>4, <3>2
      <4>2. WorkerSound(worker[o])'
        BY <4>1 DEF WorkerSound
      <4> QED  BY <1>3, <3>1, <3>2, <4>1, <4>2
    <3>3. CASE o # p
      <4>1. /\ process'[o] = process[o] /\ worker'[o] = worker[o]
            /\ hooks'[o] = hooks[o] /\ sweep'[o] = sweep[o]
        BY <1>4, <3>3
      <4>2. PICK v : v = worker[o]
        OBVIOUS
      <4>3. WorkerSound(v)'
        BY <1>3, <3>1, <4>2
      <4>4. WorkerSound(worker[o])'
        BY <4>1, <4>2, <4>3 DEF WorkerSound
      <4>5. crashes > 0 => crashes' > 0
        BY <1>2
      <4> QED  BY <1>3, <3>1, <4>1, <4>4, <4>5
    <3> QED  BY <3>2, <3>3
  <2> QED  BY <1>2, <1>5, <2>1 DEF Processing
<1>7. InvestigationsOwned'
  <2> SUFFICES ASSUME ~EndMayHaveFailed', NEW q \in Runs, DispatchOpen(q, "investigate")'
               PROVE  Owned(q)'
    BY DEF InvestigationsOwned
  <2>1. ~EndMayHaveFailed
    BY <1>2 DEF EndMayHaveFailed
  <2>2. DispatchOpen(q, "investigate")
    BY <1>1 DEF NoneOpens
  <2>3. CASE x = "down" \/ q \in ss
    BY <1>4, <2>3 DEF Owned
  <2>4. CASE w # Idle /\ w.run = q
    <3>1. w.pc # "idle"
      BY <2>4 DEF WorkerSound, IsWorker
    <3> QED  BY <1>4, <2>4, <3>1 DEF Owned, Busy
  <2>5. CASE ~Busy(p, q) /\ q \notin sweep[p] /\ process[p] # "down"
    <3>1. PICK o \in Processes : Busy(o, q) \/ q \in sweep[o] \/ process[o] = "down"
      BY <2>1, <2>2 DEF DispatchSafe, InvestigationsOwned, Owned
    <3>2. o # p
      BY <2>5, <3>1
    <3> QED  BY <1>4, <3>1, <3>2 DEF Owned, Busy
  <2> QED  BY <2>2, <2>3, <2>4, <2>5
<1> QED  BY <1>1, <1>6, <1>7 DEF DispatchSafe, StoreSafe

\* A process dies.
LEMMA CrashKeeps ==
    ASSUME DispatchSafe, NEW p \in Processes, Crash(p)
    PROVE  DispatchSafe'
<1>1. /\ process' = [process EXCEPT ![p] = "down"] /\ worker' = [worker EXCEPT ![p] = Idle]
      /\ hooks' = [hooks EXCEPT ![p] = {}] /\ sweep' = [sweep EXCEPT ![p] = {}]
      /\ crashes' = crashes + 1 /\ UNCHANGED storeVars /\ UNCHANGED failures
  BY DEF Crash
<1>2. crashes' > 0
  BY <1>1 DEF DispatchSafe, Processing
<1>3. PICK x, w, none : x = "down" /\ w = Idle /\ none = {}
  OBVIOUS
<1>4. WorkerSound(w)'
  BY <1>3 DEF WorkerSound
<1>5. /\ process' = [process EXCEPT ![p] = x] /\ worker' = [worker EXCEPT ![p] = w]
      /\ hooks' = [hooks EXCEPT ![p] = none] /\ sweep' = [sweep EXCEPT ![p] = none]
  BY <1>1, <1>3
<1>6. none \subseteq hooks[p] /\ \A r \in none : r \in Runs /\ Exists(r)
  BY <1>3
<1>7. /\ UNCHANGED storeVars /\ UNCHANGED failures /\ crashes' \in {crashes, crashes + 1}
      /\ \A q \in Runs : x = "down"
  BY <1>1, <1>3
<1> QED  BY <1>2, <1>4, <1>5, <1>6, <1>7, ProcessKeeps

\* A process starts: every open investigation is one its sweep will end.
LEMMA RestartKeeps ==
    ASSUME DispatchSafe, NEW p \in Processes, Restart(p)
    PROVE  DispatchSafe'
<1>1. /\ process[p] = "down" /\ process' = [process EXCEPT ![p] = "sweeping"]
      /\ sweep' = [sweep EXCEPT ![p] = Interrupted]
      /\ UNCHANGED storeVars /\ UNCHANGED <<worker, hooks, crashes, failures>>
  BY DEF Restart
<1>2. crashes' > 0 /\ crashes \in Nat /\ failures \in Nat
  BY <1>1 DEF DispatchSafe, Processing
<1>3. PICK w, hs : w = worker[p] /\ hs = hooks[p]
  OBVIOUS
<1>4. worker' = [worker EXCEPT ![p] = w] /\ hooks' = [hooks EXCEPT ![p] = hs]
  BY <1>1, <1>3 DEF DispatchSafe, Processing
<1>5. StoreSafe /\ Grows
  BY <1>1, StoreStays DEF DispatchSafe, StoreSafe, storeVars
<1>6. WorkerSound(w)'
  <2>1. WorkerSound(w)
    BY <1>3 DEF DispatchSafe, Processing
  <2> QED  BY <1>1, <1>2, <1>5, <2>1, SoundStays
<1>7. ASSUME NEW q \in Runs, DispatchOpen(q, "investigate") PROVE q \in Interrupted
  <2>1. VerifiesAfter(q)
    BY DEF DispatchSafe
  <2>2. HasReceipt(q, "investigate", "intent") /\ ~Ended(q)
    BY <1>7 DEF DispatchOpen, Ended
  <2>3. events[q] # <<>>
    BY <2>2 DEF HasReceipt
  <2>4. runs[q].doc.status = "running"
    BY <2>1, <2>2, <2>3 DEF VerifiesAfter
  <2>5. \A d \in Dispatches : ~HasReceipt(q, d, "outcome")
    BY <2>1, <2>2 DEF VerifiesAfter, Ended, Dispatches
  <2> QED  BY <2>2, <2>4, <2>5 DEF Interrupted, Dispatches
<1>8. \A r \in Interrupted : r \in Runs /\ Exists(r)
  BY DEF Interrupted, Exists
<1>9. PICK ss : ss = Interrupted
  OBVIOUS
<1> QED  BY <1>1, <1>2, <1>3, <1>4, <1>6, <1>7, <1>8, <1>9, ProcessKeeps

\* The sweep takes up a run, or is over.
LEMMA SweepKeeps ==
    ASSUME DispatchSafe, NEW p \in Processes, Sweep(p)
    PROVE  DispatchSafe'
<1>1. /\ process[p] = "sweeping" /\ worker[p] = Idle
      /\ UNCHANGED storeVars /\ UNCHANGED <<hooks, crashes, failures>>
  BY DEF Sweep
<1>2. crashes > 0 /\ crashes \in Nat /\ failures \in Nat
  BY <1>1 DEF DispatchSafe, Processing
<1>3. PICK hs : hs = hooks[p]
  OBVIOUS
<1>4. hooks' = [hooks EXCEPT ![p] = hs]
  BY <1>1, <1>3 DEF DispatchSafe, Processing
<1>5. \A q : ~Busy(p, q)
  BY <1>1 DEF Busy, Idle
<1>6. \A r \in sweep[p] : r \in Runs /\ Exists(r)
  BY DEF DispatchSafe, Processing
<1>7. ASSUME NEW r \in sweep[p], sweep' = [sweep EXCEPT ![p] = @ \ {r}],
             worker' = [worker EXCEPT ![p] = Busied(p, "endclaim", r, "investigate")],
             UNCHANGED process
      PROVE  DispatchSafe'
  <2>1. PICK w, ss : w = Busied(p, "endclaim", r, "investigate") /\ ss = sweep[p] \ {r}
    OBVIOUS
  <2>2. /\ IsWorker(w) /\ w.run = r /\ ~w.locked /\ w.dispatch = "investigate" /\ w # Idle
    BY <1>6, <1>7, <2>1 DEF IsWorker, WorkerFields, Busied, Dispatches, Idle
  <2>3. Exists(r)'
    BY <1>1, <1>6, <1>7 DEF storeVars, Exists
  <2>4. WorkerSound(w)'
    BY <1>1, <1>2, <2>2, <2>3 DEF WorkerSound, IsWorker
  <2>5. PICK x : x = "sweeping"
    OBVIOUS
  <2>6. /\ process' = [process EXCEPT ![p] = x] /\ worker' = [worker EXCEPT ![p] = w]
        /\ sweep' = [sweep EXCEPT ![p] = ss]
    BY <1>1, <1>7, <2>1, <2>5 DEF DispatchSafe, Processing
  <2>7. crashes' \in {crashes, crashes + 1} /\ crashes' > 0 /\ hs \subseteq hooks[p]
    BY <1>1, <1>2, <1>3
  <2>8. \A s \in ss : s \in Runs /\ Exists(s)
    BY <1>6, <2>1
  <2>9. \A q \in Runs : \/ q \in ss \/ (w # Idle /\ w.run = q)
                        \/ ~Busy(p, q) /\ q \notin sweep[p] /\ process[p] # "down"
    BY <1>1, <1>5, <2>1, <2>2
  <2> QED  BY <1>1, <1>4, <2>4, <2>6, <2>7, <2>8, <2>9, ProcessKeeps
<1>8. CASE sweep[p] = {} /\ process' = [process EXCEPT ![p] = "up"] /\ UNCHANGED <<sweep, worker>>
  <2>1. PICK x, w, none : x = "up" /\ w = Idle /\ none = {}
    OBVIOUS
  <2>2. WorkerSound(w)'
    BY <2>1 DEF WorkerSound
  <2>3. /\ process' = [process EXCEPT ![p] = x] /\ worker' = [worker EXCEPT ![p] = w]
        /\ sweep' = [sweep EXCEPT ![p] = none]
    BY <1>1, <1>8, <2>1 DEF DispatchSafe, Processing
  <2>4. crashes' \in {crashes, crashes + 1} /\ hs \subseteq hooks[p]
    BY <1>1, <1>3
  <2>5. \A r \in none : r \in Runs /\ Exists(r)
    BY <2>1
  <2>6. \A q \in Runs : ~Busy(p, q) /\ q \notin sweep[p] /\ process[p] # "down"
    BY <1>1, <1>5, <1>8
  <2> QED  BY <1>1, <1>4, <2>1, <2>2, <2>3, <2>4, <2>5, <2>6, ProcessKeeps
<1> QED  BY <1>7, <1>8 DEF Sweep

\* A dispatch lock is lost.
LEMMA LoseLockKeeps ==
    ASSUME DispatchSafe, NEW p \in Processes, LoseLock(p)
    PROVE  DispatchSafe'
<1>1. /\ worker[p] # Idle /\ worker' = [worker EXCEPT ![p].locked = FALSE]
      /\ UNCHANGED storeVars /\ UNCHANGED <<process, hooks, sweep, crashes, failures>>
  BY DEF LoseLock
<1>2. WorkerSound(worker[p])
  BY DEF DispatchSafe, Processing
<1>3. worker[p].pc # "idle"
  BY <1>1, <1>2 DEF WorkerSound, IsWorker
<1>4. PICK w : w = [worker[p] EXCEPT !.locked = FALSE]
  OBVIOUS
<1>5. /\ IsWorker(w) /\ w.run = worker[p].run /\ w.dispatch = worker[p].dispatch
      /\ w.pc = worker[p].pc /\ ~w.locked
  BY <1>1, <1>2, <1>4 DEF WorkerSound, IsWorker, WorkerFields
<1>6. worker' = [worker EXCEPT ![p] = w]
  BY <1>1, <1>4 DEF DispatchSafe, Processing
<1>7. w.pc \in {"endclaim", "endfinish"} => failures' > 0 \/ crashes > 0
  BY <1>1, <1>2, <1>5 DEF WorkerSound
<1> QED  BY <1>1, <1>3, <1>5, <1>6, <1>7, Moves

-----------------------------------------------------------------------------
(* Theorems *)

\* A declared incident and idle processes.
LEMMA InitDispatch == Init => DispatchSafe
<1> SUFFICES ASSUME Init PROVE DispatchSafe
  OBVIOUS
<1> USE DEF Init, Declared
<1>1. /\ NewRun("active").doc \in RunDocs /\ NewRun("active").version = 0
      /\ NewRun("active") = [doc |-> NewRun("active").doc, version |-> 0]
      /\ NewRun("active").doc.status = "running" /\ NewRun("active").doc.current = "active"
      /\ AbsentRun.doc \in RunDocs /\ AbsentRun = [doc |-> AbsentRun.doc, version |-> 0]
      /\ AbsentRun.doc.status = "absent" /\ AbsentRun.doc.current = "detected"
  BY DEF NewRun, AbsentRun, RunDocs, RunStatuses, LiveRunStatuses, States, PendingCommands,
         TerminatedReasons
<1>2. runs \in [Runs -> RunRows]
  BY <1>1 DEF RunRows
<1>3. PICK log : log = <<StateChange("triage_declare", DeclaredDoc, NewRun("active").doc)>>
  OBVIOUS
<1>4. IsLog(log) /\ NoReceipt(log) /\ IsLog(<<>>) /\ NoReceipt(<<>>) /\ log # <<>>
  BY <1>3, LogsWritten
<1>5. events = [r \in Runs |-> IF r = DeclarationRun THEN log ELSE <<>>]
  BY <1>3
<1>6. StoreTypes
  BY <1>2, <1>4, <1>5 DEF StoreTypes
<1>7. \A r \in Runs : NoReceipt(events[r])
  BY <1>4, <1>5
<1>8. \A r \in Runs : \A d, phase : ~HasReceipt(r, d, phase) /\ Receipts(r, d, phase) = {}
  BY <1>7, ReceiptsAt DEF NoReceipt
<1>9. ASSUME NEW r \in Runs PROVE VerifiesAfter(r)
  <2>1. events[r] # <<>> => r = DeclarationRun
    BY <1>5
  <2>2. r = DeclarationRun => /\ runs[r].doc.status = "running"
                              /\ runs[r].doc.current = "active"
    BY <1>1
  <2>3. r # DeclarationRun => /\ runs[r].doc.status = "absent"
                              /\ runs[r].doc.current = "detected"
    BY <1>1
  <2> QED  BY <1>8, <2>1, <2>2, <2>3 DEF VerifiesAfter, Exists
<1>10. \A r \in Runs : ReceiptsOnce(r)
  BY <1>8 DEF ReceiptsOnce
<1>11. CommitsRun
  BY DEF CommitsRun
<1>12. Processing
  BY DEF Processing, WorkerSound
<1>13. InvestigationsOwned
  BY <1>8 DEF InvestigationsOwned, DispatchOpen
<1> QED  BY <1>6, <1>9, <1>10, <1>11, <1>12, <1>13 DEF DispatchSafe

\* Every step of every process.
LEMMA NextDispatch == DispatchSafe /\ [Next]_vars => DispatchSafe'
<1> SUFFICES ASSUME DispatchSafe, [Next]_vars PROVE DispatchSafe'
  OBVIOUS
<1>1. ASSUME NEW p \in Processes, Work(p) PROVE DispatchSafe'
  BY <1>1, ClaimKeeps, ReadKeeps, FinishKeeps, EndsWithoutResultKeeps, ContinueKeeps,
     ProposesKeep, EndsWithResultKeeps DEF Work
<1>2. ASSUME NEW p \in Processes,
             \/ HandOff(p) \/ Reinvestigate(p) \/ StartInvestigation(p) \/ Answer(p)
      PROVE  DispatchSafe'
  BY <1>2, HandOffKeeps, ReinvestigateKeeps, StartKeeps, AnswerKeeps
<1>3. ASSUME NEW p \in Processes,
             \/ Restart(p) \/ Sweep(p) \/ ClaimFails(p) \/ FinishFails(p) \/ ReinvestigateFails(p)
             \/ Crash(p) \/ LoseLock(p)
      PROVE  DispatchSafe'
  BY <1>3, RestartKeeps, SweepKeeps, ClaimFailsKeeps, FinishFailsKeeps, ReinvestigateFailsKeeps,
     CrashKeeps, LoseLockKeeps
<1>4. CASE UNCHANGED vars
  <2>1. StoreSafe'
    BY <1>4, StoreStays DEF vars, DispatchSafe, StoreSafe
  <2>2. Processing'
    BY <1>4 DEF vars, DispatchSafe, Processing, WorkerSound, IsWorker, HookSound, Exists, Ended,
                HasReceipt
  <2>3. InvestigationsOwned'
    BY <1>4 DEF vars, DispatchSafe, InvestigationsOwned, EndMayHaveFailed, DispatchOpen,
                HasReceipt, Owned, Busy
  <2> QED  BY <2>1, <2>2, <2>3 DEF DispatchSafe, StoreSafe
<1> QED  BY <1>1, <1>2, <1>3, <1>4 DEF Next

\* The runs, their receipts and the processes are as DispatchSafe says, whatever crashes,
\* fails or loses its dispatch lock.
THEOREM DispatchKnown == Spec => []DispatchSafe
<1> QED  BY InitDispatch, NextDispatch, PTL DEF Spec

\* An intent and an outcome per dispatch, in this order, though hand-offs, fallbacks and
\* startup sweeps of several processes meet on a run (gateway/investigation.py).
THEOREM DispatchEndsOnce == Spec => []OneOutcomePerDispatch
<1>1. DispatchSafe => OneOutcomePerDispatch
  <2> SUFFICES ASSUME DispatchSafe, NEW r \in Runs, NEW d \in Dispatches
               PROVE  /\ Cardinality(Receipts(r, d, "intent")) <= 1
                      /\ Cardinality(Receipts(r, d, "outcome")) <= 1
                      /\ \A o \in Receipts(r, d, "outcome") :
                            \E i \in Receipts(r, d, "intent") : i < o
    BY DEF OneOutcomePerDispatch
  <2>1. ReceiptsOnce(r)
    BY DEF DispatchSafe
  <2>2. ASSUME NEW phase \in {"intent", "outcome"}
        PROVE  Cardinality(Receipts(r, d, phase)) <= 1
    <3>1. \A i, j \in Receipts(r, d, phase) : i = j
      BY <2>1 DEF ReceiptsOnce
    <3>2. CASE Receipts(r, d, phase) = {}
      BY <3>2, FS_EmptySet
    <3>3. CASE \E i : i \in Receipts(r, d, phase)
      <4>1. PICK i : Receipts(r, d, phase) = {i}
        BY <3>1, <3>3
      <4>2. Cardinality({i}) = 1
        BY FS_Singleton
      <4> QED  BY <4>1, <4>2
    <3> QED  BY <3>2, <3>3
  <2> QED  BY <2>1, <2>2 DEF ReceiptsOnce
<1> QED  BY <1>1, DispatchKnown, PTL

\* An open investigation has a process that runs it or a startup that will end it, unless
\* its end has itself met a fault: the dispatch lock plays no part in it.
THEOREM InvestigationsAreOwned == Spec => []InvestigationsOwned
<1>1. DispatchSafe => InvestigationsOwned
  BY DEF DispatchSafe
<1> QED  BY <1>1, DispatchKnown, PTL

-----------------------------------------------------------------------------
(* Least members, and folds of a log *)

\* The order that well-founded induction runs on.
LessNat == {p \in Nat \X Nat : p[1] < p[2]}

\* A nonempty set of naturals has a least member: inductions below look for the least
\* counterexample.
LEMMA LeastNat == ASSUME NEW T, T \subseteq Nat, T # {} PROVE \E x \in T : \A y \in T : x <= y
<1>1. IsWellFoundedOn(LessNat, Nat)
  BY NatLessThanWellFounded, Zenon DEF LessNat, OpToRel
<1>2. \E x \in T : \A y \in T : ~(<<y, x>> \in LessNat)
  BY <1>1, WFMin
<1>3. PICK x \in T : \A y \in T : ~(<<y, x>> \in LessNat)
  BY <1>2
<1>4. \A y \in T : x <= y
  <2> TAKE y \in T
  <2>1. x \in Nat /\ y \in Nat
    OBVIOUS
  <2>2. ~(y < x)
    BY <1>3, <2>1 DEF LessNat
  <2> QED  BY <2>1, <2>2
<1> QED  BY <1>4

\* The greatest of some of the first n numbers.
LEMMA MaxFacts ==
    ASSUME NEW n \in Nat, NEW S, S \subseteq 0..n, S # {}
    PROVE  Max(S) \in S /\ \A y \in S : Max(S) >= y
<1> DEFINE T == {n - x : x \in S}
<1>1. T \subseteq Nat /\ T # {}
  <2>1. \A x \in S : x \in 0..n
    OBVIOUS
  <2>2. \A x \in S : n - x \in Nat
    BY <2>1
  <2> QED  BY <2>2
<1>2. PICK t \in T : \A u \in T : t <= u
  <2> HIDE DEF T
  <2> QED  BY <1>1, LeastNat
<1>3. PICK x \in S : t = n - x
  BY <1>2
<1>4. \A y \in S : n - x <= n - y
  BY <1>2, <1>3
<1>5. \A y \in S : x >= y
  BY <1>4
<1> QED  BY <1>5 DEF Max

\* The function FoldLeft recurs by, over some positions of a log.
Replays(iter, base, log, S) ==
    iter = [s \in SUBSET S |-> IF s = {} THEN base
                               ELSE ReplayEvent(iter[s \ {Max(s)}], log[Max(s)])]

\* Two such functions agree where the logs do.
LEMMA ReplaysOnce ==
    ASSUME NEW base, NEW f, NEW h, NEW m \in Nat, NEW n \in Nat, m <= n,
           \A i \in 1..m : f[i] = h[i],
           NEW g, NEW k, Replays(g, base, f, 1..m), Replays(k, base, h, 1..n)
    PROVE  g[1..m] = k[1..m]
<1> PICK A, B : A = 1..m /\ B = 1..n
  OBVIOUS
<1>0. A \subseteq B /\ A \subseteq 0..m /\ A \in SUBSET A /\ \A i \in A : i \in Nat /\ f[i] = h[i]
  OBVIOUS
<1> DEFINE Bad == {s \in SUBSET A : g[s] # k[s]}
           Tops == {Max(s) : s \in Bad}
<1> SUFFICES ASSUME Bad # {} PROVE FALSE
  BY <1>0
<1>1. {} \notin Bad
  BY DEF Replays
<1>2. ASSUME NEW s \in Bad
      PROVE  Max(s) \in s /\ (\A y \in s : Max(s) >= y) /\ Max(s) \in Nat
  <2>1. s # {} /\ s \subseteq 0..m
    BY <1>0, <1>1
  <2>2. Max(s) \in s /\ \A y \in s : Max(s) >= y
    BY <2>1, MaxFacts
  <2>3. \A y \in s : y \in Nat
    BY <1>0
  <2> QED  BY <2>2, <2>3
<1>3. Tops \subseteq Nat /\ Tops # {}
  <2> HIDE DEF Bad
  <2> QED  BY <1>2
<1>4. PICK t \in Tops : \A u \in Tops : t <= u
  <2> HIDE DEF Tops
  <2> QED  BY <1>3, LeastNat
<1>5. PICK s \in Bad : t = Max(s)
  BY <1>4
<1>6. PICK x : x = Max(s)
  OBVIOUS
<1>7. x \in s /\ (\A y \in s : x >= y) /\ x \in A
  BY <1>2, <1>5, <1>6
<1>8. PICK u : u = s \ {x}
  OBVIOUS
<1>9. u \in SUBSET A /\ s \in SUBSET A /\ s \in SUBSET B /\ s # {}
  BY <1>0, <1>1, <1>5, <1>8
<1>10. g[s] = ReplayEvent(g[u], f[x]) /\ k[s] = ReplayEvent(k[u], h[x])
  BY <1>6, <1>8, <1>9 DEF Replays
<1>11. u \in Bad
  BY <1>0, <1>5, <1>7, <1>9, <1>10
<1>12. Max(u) \in Tops /\ Max(u) \in u
  BY <1>2, <1>11
<1>13. Max(u) # x /\ Max(u) <= x /\ x <= Max(u) /\ Max(u) \in Nat /\ x \in Nat
  <2> HIDE DEF Tops, Bad
  <2> QED  BY <1>0, <1>3, <1>4, <1>5, <1>6, <1>7, <1>8, <1>12
<1> QED  BY <1>13

Iter(base, log, S) == CHOOSE g : Replays(g, base, log, S)

\* There is one over the positions of every log.
LEMMA ReplaysExists ==
    ASSUME NEW base, NEW log, NEW n \in Nat
    PROVE  \E g : Replays(g, base, log, 1..n)
<1> DEFINE Bad == {k \in 0..n : ~\E g : Replays(g, base, log, 1..k)}
<1> SUFFICES ASSUME Bad # {} PROVE FALSE
  OBVIOUS
<1>1. Bad \subseteq Nat
  OBVIOUS
<1>2. PICK k \in Bad : \A j \in Bad : k <= j
  <2> HIDE DEF Bad
  <2> QED  BY <1>1, LeastNat
<1>3. k \in Nat /\ k <= n
  BY <1>2
<1>4. k # 0
  <2>1. ASSUME k = 0 PROVE Replays([s \in {{}} |-> base], base, log, 1..k)
    <3>1. 1..k = {} /\ SUBSET (1..k) = {{}}
      BY <2>1
    <3> QED  BY <3>1 DEF Replays
  <2> QED  BY <1>2, <2>1
<1>5. k - 1 \in 0..n /\ k - 1 \notin Bad
  BY <1>2, <1>3, <1>4
<1>6. PICK h : Replays(h, base, log, 1..(k - 1))
  BY <1>5
<1> DEFINE below(s) == IF s = {} THEN base ELSE ReplayEvent(h[s \ {Max(s)}], log[Max(s)])
           G == [s \in SUBSET (1..k) |-> below(s)]
<1>7. ASSUME NEW s \in SUBSET (1..k), s # {}
      PROVE  Max(s) \in s /\ s \ {Max(s)} \in SUBSET (1..(k - 1)) /\ s \ {Max(s)} \in SUBSET (1..k)
  <2>1. s \subseteq 0..k
    BY <1>3
  <2>2. PICK x : x = Max(s)
    OBVIOUS
  <2>3. x \in s /\ (\A y \in s : x >= y) /\ x \in 1..k
    BY <1>3, <1>7, <2>1, <2>2, MaxFacts
  <2>4. \A y \in s \ {x} : y \in 1..k /\ x >= y /\ x # y
    BY <2>3
  <2>5. \A y \in s \ {x} : y \in 1..(k - 1)
    BY <1>3, <2>3, <2>4
  <2> QED  BY <2>2, <2>3, <2>5
<1>8. \A u \in SUBSET (1..(k - 1)) : h[u] = G[u]
  <2>1. \A u \in SUBSET (1..(k - 1)) : h[u] = below(u)
    BY <1>6 DEF Replays
  <2>2. 1..(k - 1) \subseteq 1..k
    BY <1>3
  <2> HIDE DEF below
  <2> QED  BY <2>1, <2>2
<1>9. \A s \in SUBSET (1..k) :
         G[s] = IF s = {} THEN base ELSE ReplayEvent(G[s \ {Max(s)}], log[Max(s)])
  <2> TAKE s \in SUBSET (1..k)
  <2>1. G[s] = below(s)
    OBVIOUS
  <2> HIDE DEF G
  <2>2. CASE s = {}
    BY <2>1, <2>2
  <2>3. CASE s # {}
    BY <1>7, <1>8, <2>1, <2>3
  <2> QED  BY <2>2, <2>3
<1>10. G = [s \in SUBSET (1..k) |-> G[s]]
  OBVIOUS
<1> HIDE DEF G
<1>11. Replays(G, base, log, 1..k)
  BY <1>9, <1>10, Zenon DEF Replays
<1> QED  BY <1>2, <1>11

\* What the replay of a log is.
LEMMA FoldIsIter ==
    ASSUME NEW base, NEW log
    PROVE  FoldLeft(ReplayEvent, base, log) = Iter(base, log, DOMAIN log)[DOMAIN log]
BY DEF FoldLeft, MapThenFoldSet, Iter, Replays

\* The replay of no event is the view it starts from.
LEMMA ReplayNone == ASSUME NEW base PROVE FoldLeft(ReplayEvent, base, <<>>) = base
<1>1. DOMAIN <<>> = 1..0
  OBVIOUS
<1>2. Replays(Iter(base, <<>>, 1..0), base, <<>>, 1..0)
  BY ReplaysExists DEF Iter
<1>3. {} \in SUBSET (1..0) /\ 1..0 = {}
  OBVIOUS
<1>4. Iter(base, <<>>, 1..0)[{}] = base
  BY <1>2, <1>3 DEF Replays
<1> QED  BY <1>1, <1>3, <1>4, FoldIsIter

\* The replay of one event more is a step of the replay.
LEMMA ReplayMore ==
    ASSUME NEW base, NEW s, IsLog(s), NEW e
    PROVE  FoldLeft(ReplayEvent, base, s \o <<e>>) = ReplayEvent(FoldLeft(ReplayEvent, base, s), e)
<1> PICK n, t : n = Len(s) /\ t = s \o <<e>>
  OBVIOUS
<1>1. n \in Nat /\ DOMAIN s = 1..n
  BY LenProperties DEF IsLog
<1>2. DOMAIN t = 1..(n + 1) /\ t[n + 1] = e /\ \A i \in 1..n : s[i] = t[i]
  <2> DEFINE S == Range(s) \cup {e}
  <2>1. s \in Seq(S) /\ <<e>> \in Seq(S) /\ Len(<<e>>) = 1 /\ <<e>>[1] = e
    BY SeqMonotonic DEF IsLog
  <2> HIDE DEF S
  <2>2. /\ t \in Seq(S) /\ Len(t) = n + 1
        /\ \A i \in 1..(n + 1) : t[i] = IF i <= n THEN s[i] ELSE <<e>>[i - n]
    BY <2>1, ConcatProperties
  <2>3. DOMAIN t = 1..(n + 1)
    BY <2>2, LenProperties
  <2>4. n + 1 \in 1..(n + 1) /\ ~(n + 1 <= n) /\ (n + 1) - n = 1
    BY <1>1
  <2> QED  BY <1>1, <2>1, <2>2, <2>3, <2>4
<1> PICK m \in Nat : m = n + 1
  BY <1>1
<1> PICK R, S : R = 1..n /\ S = 1..m
  OBVIOUS
<1> PICK g, h : g = Iter(base, s, R) /\ h = Iter(base, t, S)
  OBVIOUS
<1>3. Replays(g, base, s, R) /\ Replays(h, base, t, S)
  <2>1. (\E k : Replays(k, base, s, R)) /\ (\E k : Replays(k, base, t, S))
    BY <1>1, ReplaysExists
  <2> QED  BY <2>1, Zenon DEF Iter
<1>4. Max(S) = m
  <2>1. S \subseteq 0..m /\ S # {} /\ m \in S
    BY <1>1
  <2>2. Max(S) \in S /\ Max(S) >= m
    BY <2>1, MaxFacts
  <2> QED  BY <2>2
<1>5. S \ {m} = R /\ S # {} /\ S \in SUBSET S
  BY <1>1
<1>6. h[S] = ReplayEvent(h[R], e)
  <2>1. h[S] = ReplayEvent(h[S \ {Max(S)}], t[Max(S)])
    BY <1>3, <1>5, Zenon DEF Replays
  <2> QED  BY <1>2, <1>4, <1>5, <2>1
<1>7. g[R] = h[R]
  <2>1. n <= m /\ \A i \in 1..n : s[i] = t[i]
    BY <1>1, <1>2
  <2>2. Replays(g, base, s, 1..n) /\ Replays(h, base, t, 1..m)
    BY <1>3
  <2>3. g[1..n] = h[1..n]
    BY ONLY n \in Nat, m \in Nat, <2>1, <2>2, ReplaysOnce, SMT
  <2> QED  BY <2>3
<1>8. FoldLeft(ReplayEvent, base, s) = g[R] /\ FoldLeft(ReplayEvent, base, t) = h[S]
  <2>1. DOMAIN s = R /\ DOMAIN t = S
    BY <1>1, <1>2
  <2> QED  BY <2>1, FoldIsIter, Zenon
<1> QED  BY <1>6, <1>7, <1>8, Zenon

-----------------------------------------------------------------------------
(* Parts of a log *)

\* Tuples are concatenations.
LEMMA Tuples ==
    ASSUME NEW S, NEW v \in Seq(S), NEW z \in Seq(S), NEW w \in Seq(S),
           Len(w) = Len(v) + Len(z), \A i \in 1..Len(v) : w[i] = v[i],
           \A i \in 1..Len(z) : w[Len(v) + i] = z[i]
    PROVE  w = v \o z
<1>1. /\ v \o z \in Seq(S) /\ Len(v \o z) = Len(v) + Len(z)
      /\ \A i \in 1..(Len(v) + Len(z)) :
            (v \o z)[i] = IF i <= Len(v) THEN v[i] ELSE z[i - Len(v)]
  BY ConcatProperties
<1>2. PICK m \in Nat, n \in Nat : m = Len(v) /\ n = Len(z)
  BY LenProperties
<1>3. \A i \in 1..(m + n) : w[i] = (v \o z)[i]
  <2> TAKE i \in 1..(m + n)
  <2>1. CASE i <= m
    BY <1>1, <1>2, <2>1
  <2>2. CASE i > m
    <3>1. i - m \in 1..n /\ i = m + (i - m)
      BY ONLY m \in Nat, n \in Nat, i \in 1..(m + n), <2>2
    <3>2. PICK j \in 1..n : i = m + j /\ j = i - m
      BY <3>1
    <3> QED  BY <1>1, <1>2, <2>2, <3>2
  <2> QED  BY <1>2, <2>1, <2>2
<1> QED  BY <1>1, <1>2, <1>3, SeqEqual

\* Appending one part after the other.
LEMMA Appends ==
    \A S : \A s, t, u \in Seq(S) : s \o t \in Seq(S) /\ (s \o t) \o u = s \o (t \o u)
<1> TAKE S
<1> TAKE s, t, u \in Seq(S)
<1>1. s \o t \in Seq(S)
  BY ConcatProperties
<1>2. (s \o t) \o u = s \o (t \o u)
  BY ConcatAssociative
<1> QED  BY <1>1, <1>2

\* The events of a step, one, two or three of them, and a log with one more.
One(a) == <<a>>
Two(a, b) == <<a, b>>
Three(a, b, c) == <<a, b, c>>
Then(s, e) == s \o <<e>>

\* Several events are one after the other.
LEMMA AppendOne ==
    ASSUME NEW s, IsLog(s), NEW a
    PROVE  IsLog(Then(s, a)) /\ s \o One(a) = Then(s, a)
<1> PICK S, e : S = Range(s) \cup {a} /\ e = <<a>>
  OBVIOUS
<1>1. s \in Seq(S) /\ e \in Seq(S)
  BY SeqMonotonic DEF IsLog
<1>2. s \o e \in Seq(S)
  BY <1>1, ConcatProperties
<1>3. IsLog(s \o e)
  BY <1>2, SeqOfRange DEF IsLog
<1> QED  BY <1>3 DEF One, Then

LEMMA AppendTwo ==
    ASSUME NEW s, IsLog(s), NEW a, NEW b
    PROVE  s \o Two(a, b) = Then(Then(s, a), b)
<1> PICK S, e, f, v : S = Range(s) \cup {a, b} /\ e = <<a>> /\ f = <<b>> /\ v = <<a, b>>
  OBVIOUS
<1>1. s \in Seq(S) /\ e \in Seq(S) /\ f \in Seq(S) /\ v \in Seq(S)
  BY SeqMonotonic DEF IsLog
<1>2. /\ Len(v) = Len(e) + Len(f) /\ (\A i \in 1..Len(e) : v[i] = e[i])
      /\ \A i \in 1..Len(f) : v[Len(e) + i] = f[i]
  <2>1. /\ Len(e) = 1 /\ e[1] = a /\ Len(f) = 1 /\ f[1] = b
        /\ Len(v) = 2 /\ v[1] = a /\ v[2] = b
    OBVIOUS
  <2> QED  BY ONLY <2>1
<1>3. v = e \o f
  BY ONLY <1>1, <1>2, Tuples
<1>4. (s \o e) \o f = s \o (e \o f)
  BY <1>1, Appends, SMT
<1> QED  BY <1>3, <1>4 DEF Two, Then

LEMMA AppendThree ==
    ASSUME NEW s, IsLog(s), NEW a, NEW b, NEW c
    PROVE  s \o Three(a, b, c) = Then(Then(Then(s, a), b), c)
<1> PICK S, g, v, w : S = Range(s) \cup {a, b, c} /\ g = <<c>> /\ v = <<a, b>> /\ w = <<a, b, c>>
  OBVIOUS
<1>1. s \in Seq(S) /\ g \in Seq(S) /\ v \in Seq(S) /\ w \in Seq(S)
  BY SeqMonotonic DEF IsLog
<1>2. /\ Len(w) = Len(v) + Len(g) /\ (\A i \in 1..Len(v) : w[i] = v[i])
      /\ \A i \in 1..Len(g) : w[Len(v) + i] = g[i]
  OBVIOUS
<1>3. w = v \o g
  BY ONLY <1>1, <1>2, Tuples
<1>4. (s \o v) \o g = s \o (v \o g)
  BY <1>1, Appends, SMT
<1>5. s \o v = Then(Then(s, a), b)
  BY AppendTwo DEF Two
<1> QED  BY <1>3, <1>4, <1>5 DEF Three, Then

\* What is appended comes after a position, and leaves what is before it.
LEMMA PartsGrow ==
    ASSUME NEW s, NEW log, IsLog(s), IsLog(log), NEW k \in 0..Len(s)
    PROVE  /\ IsLog(SubSeq(s, k + 1, Len(s))) /\ IsLog(SubSeq(s, 1, k))
           /\ SubSeq(s \o log, k + 1, Len(s \o log)) = SubSeq(s, k + 1, Len(s)) \o log
           /\ SubSeq(s \o log, 1, k) = SubSeq(s, 1, k)
           /\ Len(s \o log) = Len(s) + Len(log) /\ Len(s) \in Nat /\ Len(log) \in Nat
<1> PICK S : S = Range(s) \cup Range(log)
  OBVIOUS
<1>1. s \in Seq(S) /\ log \in Seq(S)
  BY SeqMonotonic DEF IsLog
<1>2. PICK m, n, u : m = Len(s) /\ n = Len(log) /\ u = s \o log
  OBVIOUS
<1>3. /\ u \in Seq(S) /\ Len(u) = m + n /\ m \in Nat /\ n \in Nat /\ k \in Nat /\ k <= m
      /\ DOMAIN s = 1..m
  BY <1>1, <1>2, ConcatProperties, LenProperties
<1>4. \A i \in (k + 1)..m : s[i] \in S
  BY <1>1, <1>2, <1>3, ElementOfSeq
<1>5. \A i \in 1..k : s[i] \in S
  BY <1>1, <1>2, <1>3, ElementOfSeq
<1>6. SubSeq(s, k + 1, m) \in Seq(S) /\ SubSeq(s, 1, k) \in Seq(S)
  BY <1>3, <1>4, <1>5, SubSeqProperties
<1>7. IsLog(SubSeq(s, k + 1, m)) /\ IsLog(SubSeq(s, 1, k))
  BY <1>6, SeqOfRange DEF IsLog
<1>8. SubSeq(u, 1, k) = SubSeq(s, 1, k) /\ SubSeq(u, k + 1, m) = SubSeq(s, k + 1, m)
  BY <1>1, <1>2, <1>3, SubSeqOfConcat1
<1>9. SubSeq(u, m + 1, m + n) = log
  <2>1. SubSeq(u, m + 1, m + n) = SubSeq(log, (m + 1) - m, (m + n) - m)
    BY <1>1, <1>2, <1>3, SubSeqOfConcat2
  <2>2. (m + 1) - m = 1 /\ (m + n) - m = n
    BY <1>3
  <2> QED  BY <1>1, <1>2, <2>1, <2>2, SubSeqFull
<1>10. SubSeq(u, k + 1, m) \o SubSeq(u, m + 1, m + n) = SubSeq(u, k + 1, m + n)
  BY <1>3, ConcatAdjacentSubSeq
<1> QED  BY <1>2, <1>3, <1>7, <1>8, <1>9, <1>10

-----------------------------------------------------------------------------
(* What the events of a step do to the replay *)

Views == [incident : Docs, run : RunDocs, moves : Nat]
Replay(base, log) == FoldLeft(ReplayEvent, base, log)

\* The replay of up to three events more.
LEMMA ReplayThen ==
    ASSUME NEW base, NEW s, IsLog(s), NEW e
    PROVE  Replay(base, Then(s, e)) = ReplayEvent(Replay(base, s), e)
BY ReplayMore DEF Replay, Then

LEMMA ReplayZero ==
    ASSUME NEW base, NEW s, IsLog(s)
    PROVE  Replay(base, s \o <<>>) = Replay(base, s)
<1>1. s \o <<>> = s
  BY ConcatEmptySeq DEF IsLog
<1> QED  BY <1>1

LEMMA ReplayOne ==
    ASSUME NEW base, NEW s, IsLog(s), NEW a
    PROVE  Replay(base, s \o One(a)) = ReplayEvent(Replay(base, s), a)
<1>1. s \o One(a) = Then(s, a)
  BY AppendOne
<1> QED  BY <1>1, ReplayThen

LEMMA ReplayTwo ==
    ASSUME NEW base, NEW s, IsLog(s), NEW a, NEW b
    PROVE  Replay(base, s \o Two(a, b)) = ReplayEvent(ReplayEvent(Replay(base, s), a), b)
<1> PICK t : t = Then(s, a)
  OBVIOUS
<1>1. IsLog(t)
  BY AppendOne
<1>2. s \o Two(a, b) = Then(t, b)
  BY AppendTwo
<1>3. Replay(base, t) = ReplayEvent(Replay(base, s), a)
  BY ReplayThen
<1>4. Replay(base, Then(t, b)) = ReplayEvent(Replay(base, t), b)
  BY <1>1, ReplayThen
<1> QED  BY <1>2, <1>3, <1>4

LEMMA ReplayThree ==
    ASSUME NEW base, NEW s, IsLog(s), NEW a, NEW b, NEW c
    PROVE  Replay(base, s \o Three(a, b, c)) =
              ReplayEvent(ReplayEvent(ReplayEvent(Replay(base, s), a), b), c)
<1> PICK t : t = Then(s, a)
  OBVIOUS
<1> PICK u : u = Then(t, b)
  OBVIOUS
<1>1. IsLog(t)
  BY AppendOne
<1>2. IsLog(u)
  BY <1>1, AppendOne
<1>3. s \o Three(a, b, c) = Then(u, c)
  BY AppendThree
<1>4. Replay(base, t) = ReplayEvent(Replay(base, s), a)
  BY ReplayThen
<1>5. Replay(base, u) = ReplayEvent(Replay(base, t), b)
  BY <1>1, ReplayThen
<1>6. Replay(base, Then(u, c)) = ReplayEvent(Replay(base, u), c)
  BY <1>2, ReplayThen
<1> QED  BY <1>3, <1>4, <1>5, <1>6

\* What one event does.
LEMMA ReceiptReplayed ==
    ASSUME NEW v, NEW d, NEW phase, NEW status
    PROVE  ReplayEvent(v, Receipt(d, phase, status)) = v
BY DEF ReplayEvent, Receipt

LEMMA ChangeReplayed ==
    ASSUME NEW v, NEW t, NEW doc, NEW run
    PROVE  ReplayEvent(v, StateChange(t, doc, run)) =
              [incident |-> doc, run |-> run, moves |-> v.moves + 1]
BY DEF ReplayEvent, StateChange

LEMMA EndingReplayed ==
    ASSUME NEW v \in Views, NEW patch
    PROVE  ReplayEvent(v, RunTerminated(patch)) =
              [incident |-> v.incident, run |-> PatchRun(v.run, patch), moves |-> v.moves]
<1>1. v = [incident |-> v.incident, run |-> v.run, moves |-> v.moves]
  BY DEF Views
<1> QED  BY <1>1 DEF ReplayEvent, RunTerminated

Cites(doc, cites) == IF cites THEN [doc EXCEPT !.cited = TRUE] ELSE doc

LEMMA ResultReplayed ==
    ASSUME NEW v \in Views, NEW cites \in BOOLEAN, NEW verdict
    PROVE  ReplayEvent(v, InvestigationResult(cites, verdict)) =
              [incident |-> Cites(v.incident, cites), run |-> v.run, moves |-> v.moves]
<1>1. v = [incident |-> v.incident, run |-> v.run, moves |-> v.moves] /\ v.incident \in Docs
  BY DEF Views
<1> PICK i : i = v.incident
  OBVIOUS
<1>2. /\ i = [state |-> i.state, cited |-> i.cited, mitigation |-> i.mitigation,
              postmortem |-> i.postmortem]
      /\ i.cited \in BOOLEAN
  BY <1>1 DEF Docs
<1>3. ReplayEvent(v, InvestigationResult(cites, verdict)) = [v EXCEPT !.incident.cited = @ \/ cites]
  BY DEF ReplayEvent, InvestigationResult
<1>4. PICK j : j = [i EXCEPT !.cited = (i.cited \/ cites)]
  OBVIOUS
<1>5. j = Cites(i, cites)
  <2>1. CASE cites
    BY <1>4, <2>1 DEF Cites
  <2>2. CASE ~cites
    <3>1. (i.cited \/ cites) = i.cited
      BY <1>2, <2>2
    <3>2. [i EXCEPT !.cited = i.cited] = i
      BY <1>2
    <3> QED  BY <1>4, <2>2, <3>1, <3>2 DEF Cites
  <2> QED  BY <2>1, <2>2
<1>6. [v EXCEPT !.incident.cited = @ \/ cites] = [v EXCEPT !.incident = j]
  BY <1>4
<1>7. [v EXCEPT !.incident = j] = [incident |-> j, run |-> v.run, moves |-> v.moves]
  BY <1>1
<1> QED  BY <1>3, <1>5, <1>6, <1>7

LEMMA QuietReplayed ==
    ASSUME NEW v \in Views, NEW verdict
    PROVE  ReplayEvent(v, InvestigationResult(FALSE, verdict)) = v
<1>1. ReplayEvent(v, InvestigationResult(FALSE, verdict)) =
         [incident |-> Cites(v.incident, FALSE), run |-> v.run, moves |-> v.moves]
  BY ResultReplayed
<1>2. v = [incident |-> v.incident, run |-> v.run, moves |-> v.moves]
  BY DEF Views
<1> QED  BY <1>1, <1>2 DEF Cites

\* The events that end a run with a result, and those a command carries beside its state change.
Resulting(cites, d, patch) ==
    <<InvestigationResult(cites, "none"), Receipt(d, "outcome", "success"), RunTerminated(patch)>>
Carried(log) ==
    \/ log = <<>>
    \/ \E verdict : log = <<InvestigationResult(FALSE, verdict)>>
    \/ \E verdict, d : log = <<InvestigationResult(FALSE, verdict), Receipt(d, "outcome", "success")>>

\* An intent tells nothing; an ending ends the run, and a result may cite its hypothesis.
LEMMA EndReplayed ==
    ASSUME NEW base, NEW s, IsLog(s), Replay(base, s) \in Views
    PROVE  LET v == Replay(base, s)
           IN /\ \A d, status : Replay(base, s \o <<Receipt(d, "intent", status)>>) = v
              /\ \A d, status, patch : Replay(base, s \o Ending(d, status, patch)) =
                    [incident |-> v.incident, run |-> PatchRun(v.run, patch), moves |-> v.moves]
              /\ \A cites \in BOOLEAN : \A d, patch : Replay(base, s \o Resulting(cites, d, patch)) =
                    [incident |-> Cites(v.incident, cites), run |-> PatchRun(v.run, patch),
                     moves |-> v.moves]
<1> PICK v : v = Replay(base, s)
  OBVIOUS
<1>1. v \in Views
  OBVIOUS
<1>2. ASSUME NEW d, NEW status PROVE Replay(base, s \o <<Receipt(d, "intent", status)>>) = v
  <2>1. PICK e : e = Receipt(d, "intent", status)
    OBVIOUS
  <2>2. Replay(base, s \o One(e)) = ReplayEvent(v, e)
    BY ReplayOne
  <2>3. ReplayEvent(v, e) = v
    BY <2>1, ReceiptReplayed
  <2> QED  BY <2>1, <2>2, <2>3 DEF One
<1>3. ASSUME NEW d, NEW status, NEW patch
      PROVE  Replay(base, s \o Ending(d, status, patch)) =
                [incident |-> v.incident, run |-> PatchRun(v.run, patch), moves |-> v.moves]
  <2>1. PICK e, f : e = Receipt(d, "outcome", status) /\ f = RunTerminated(patch)
    OBVIOUS
  <2>2. Replay(base, s \o Two(e, f)) = ReplayEvent(ReplayEvent(v, e), f)
    BY ReplayTwo
  <2>3. ReplayEvent(v, e) = v
    BY <2>1, ReceiptReplayed
  <2>4. ReplayEvent(v, f) = [incident |-> v.incident, run |-> PatchRun(v.run, patch), moves |-> v.moves]
    BY <1>1, <2>1, EndingReplayed
  <2>5. Ending(d, status, patch) = Two(e, f)
    BY <2>1 DEF Ending, Two
  <2> QED  BY <2>2, <2>3, <2>4, <2>5
<1>4. ASSUME NEW cites \in BOOLEAN, NEW d, NEW patch
      PROVE  Replay(base, s \o Resulting(cites, d, patch)) =
                [incident |-> Cites(v.incident, cites), run |-> PatchRun(v.run, patch),
                 moves |-> v.moves]
  <2>1. PICK e, f, g : /\ e = InvestigationResult(cites, "none") /\ g = RunTerminated(patch)
                       /\ f = Receipt(d, "outcome", "success")
    OBVIOUS
  <2>2. Replay(base, s \o Three(e, f, g)) = ReplayEvent(ReplayEvent(ReplayEvent(v, e), f), g)
    BY ReplayThree
  <2>3. PICK w : w = [incident |-> Cites(v.incident, cites), run |-> v.run, moves |-> v.moves]
    OBVIOUS
  <2>4. w \in Views
    <3>1. v.incident \in Docs /\ v.run \in RunDocs /\ v.moves \in Nat
      BY <1>1 DEF Views
    <3>2. [v.incident EXCEPT !.cited = TRUE] \in Docs
      BY <3>1 DEF Docs
    <3>3. Cites(v.incident, cites) \in Docs
      BY <3>1, <3>2 DEF Cites
    <3> QED  BY <2>3, <3>1, <3>3 DEF Views
  <2>5. ReplayEvent(v, e) = w
    BY <1>1, <2>1, <2>3, ResultReplayed
  <2>6. ReplayEvent(w, f) = w
    BY <2>1, ReceiptReplayed
  <2>7. ReplayEvent(w, g) = [incident |-> w.incident, run |-> PatchRun(w.run, patch), moves |-> w.moves]
    BY <2>1, <2>4, EndingReplayed
  <2>8. Resulting(cites, d, patch) = Three(e, f, g)
    BY <2>1 DEF Resulting, Three
  <2> QED  BY <2>2, <2>3, <2>5, <2>6, <2>7, <2>8
<1> QED  BY <1>2, <1>3, <1>4

\* After a state change the replay is what the change says.
LEMMA MoveReplayed ==
    ASSUME NEW base, NEW s, IsLog(s), Replay(base, s) \in Views, NEW log, Carried(log), NEW t,
           NEW doc \in Docs, NEW run \in RunDocs
    PROVE  /\ IsLog(s \o <<StateChange(t, doc, run)>>)
           /\ Replay(base, (s \o <<StateChange(t, doc, run)>>) \o log) =
                 [incident |-> doc, run |-> run, moves |-> Replay(base, s).moves + 1]
<1> PICK v, w, e : /\ v = Replay(base, s) /\ e = StateChange(t, doc, run)
                   /\ w = [incident |-> doc, run |-> run, moves |-> v.moves + 1]
  OBVIOUS
<1> PICK u : u = Then(s, e)
  OBVIOUS
<1>1. v \in Views /\ w \in Views
  BY DEF Views
<1>2. IsLog(u) /\ s \o One(e) = u
  BY AppendOne
<1>3. Replay(base, u) = w
  <2>1. Replay(base, s \o One(e)) = ReplayEvent(v, e)
    BY ReplayOne
  <2>2. ReplayEvent(v, e) = w
    BY ChangeReplayed
  <2> QED  BY <1>2, <2>1, <2>2
<1>4. Replay(base, u \o log) = w
  <2>1. CASE log = <<>>
    BY <1>2, <1>3, <2>1, ReplayZero
  <2>2. ASSUME NEW verdict, log = <<InvestigationResult(FALSE, verdict)>>
        PROVE  Replay(base, u \o log) = w
    <3>1. PICK f : f = InvestigationResult(FALSE, verdict)
      OBVIOUS
    <3>2. ReplayEvent(w, f) = w
      BY <1>1, <3>1, QuietReplayed
    <3>3. Replay(base, u \o One(f)) = ReplayEvent(w, f)
      BY <1>2, <1>3, ReplayOne
    <3> QED  BY <2>2, <3>1, <3>2, <3>3 DEF One
  <2>3. ASSUME NEW verdict, NEW d,
               log = <<InvestigationResult(FALSE, verdict), Receipt(d, "outcome", "success")>>
        PROVE  Replay(base, u \o log) = w
    <3>1. PICK f, g : f = InvestigationResult(FALSE, verdict) /\ g = Receipt(d, "outcome", "success")
      OBVIOUS
    <3>2. ReplayEvent(w, f) = w
      BY <1>1, <3>1, QuietReplayed
    <3>4. ReplayEvent(w, g) = w
      BY <3>1, ReceiptReplayed
    <3>3. Replay(base, u \o Two(f, g)) = ReplayEvent(ReplayEvent(w, f), g)
      BY <1>2, <1>3, ReplayTwo
    <3> QED  BY <2>3, <3>1, <3>2, <3>3, <3>4 DEF Two
  <2> QED  BY <2>1, <2>2, <2>3 DEF Carried
<1> QED  BY <1>2, <1>4 DEF Then, One

-----------------------------------------------------------------------------
(* The rows of a run and its log *)

Snapshots == [incident : Docs, run : RunDocs, version : Nat, upto : Nat]

Base(r) == [incident |-> snapshots[r].incident, run |-> snapshots[r].run, moves |-> 0]
AfterBase(r) == SubSeq(events[r], snapshots[r].upto + 1, Len(events[r]))
Blank == [incident |-> DeclaredDoc, run |-> AbsentRun.doc, moves |-> 0]

\* A run's whole log, replayed from nothing.
History(r) == Replay(Blank, events[r])

\* The rows of a run, its latest snapshot with what came after it, and its whole log say the
\* same of the run and of the incident as the run left it.
Rebuilt(r) ==
    /\ snapshots[r] \in Snapshots
    /\ snapshots[r].upto <= Len(events[r])
    /\ SnapshotIsHistory(r, project_snapshot(r))
    /\ History(r) \in Views
    /\ Reconstruct(r) \in Views
    /\ Reconstruct(r).incident = History(r).incident
    /\ Reconstruct(r).run = History(r).run
    /\ Reconstruct(r).moves + snapshots[r].version = History(r).moves
    /\ runs[r].version = History(r).moves
    /\ runs[r].doc = History(r).run
    /\ runs[r].version <= incident.version
    /\ IF Exists(r)
       THEN snapshots[r].version # 0 /\ History(r).incident.state = runs[r].doc.current
       ELSE snapshots[r].version = 0 /\ runs[r].version = 0 /\ events[r] = <<>>

LEMMA ReconstructIs == \A r : Reconstruct(r) = Replay(Base(r), AfterBase(r))
BY SMTT(30) DEF Reconstruct, Replay, Base, AfterBase

\* The replays of a log that grows, where the snapshot stays.
LEMMA ReplaysGrow ==
    ASSUME StoreTypes, NEW r \in Runs, Rebuilt(r), NEW log, IsLog(log),
           events'[r] = events[r] \o log, snapshots'[r] = snapshots[r]
    PROVE  /\ History(r)' = Replay(Blank, events[r] \o log)
           /\ Reconstruct(r)' = Replay(Base(r), AfterBase(r) \o log)
           /\ SnapshotIsHistory(r, project_snapshot(r))'
           /\ IsLog(AfterBase(r)) /\ IsLog(events[r])
           /\ snapshots'[r].upto <= Len(events'[r])
           /\ Len(events'[r]) = Len(events[r]) + Len(log)
<1> PICK s, k, t : s = events[r] /\ k = snapshots[r].upto /\ t = s \o log
  OBVIOUS
<1>1. IsLog(s) /\ Len(s) \in Nat
  BY LenProperties DEF StoreTypes, IsLog
<1>2. k \in 0..Len(s)
  BY <1>1 DEF Rebuilt, Snapshots
<1>3. /\ IsLog(SubSeq(s, k + 1, Len(s)))
      /\ SubSeq(t, k + 1, Len(t)) = SubSeq(s, k + 1, Len(s)) \o log
      /\ SubSeq(t, 1, k) = SubSeq(s, 1, k)
      /\ Len(t) = Len(s) + Len(log) /\ Len(log) \in Nat
  BY <1>1, <1>2, PartsGrow
<1>4. events'[r] = t /\ snapshots'[r].upto = k /\ snapshots'[r] = snapshots[r]
  OBVIOUS
<1>5. History(r)' = Replay(Blank, t)
  BY <1>4 DEF History, Replay, Blank
<1>6. Reconstruct(r)' = Replay(Base(r), SubSeq(t, k + 1, Len(t)))
  BY <1>4 DEF Reconstruct, Replay, Base
<1>7. SnapshotIsHistory(r, project_snapshot(r))'
  <2>1. SnapshotIsHistory(r, project_snapshot(r))
    BY DEF Rebuilt
  <2>2. SubSeq(events'[r], 1, snapshots'[r].upto) = SubSeq(events[r], 1, snapshots[r].upto)
    BY <1>3, <1>4
  <2> QED  BY <1>4, <2>1, <2>2 DEF SnapshotIsHistory, project_snapshot
<1>8. AfterBase(r) = SubSeq(s, k + 1, Len(s))
  BY DEF AfterBase
<1>9. k <= Len(t)
  BY <1>1, <1>2, <1>3
<1> QED  BY <1>1, <1>3, <1>4, <1>5, <1>6, <1>7, <1>8, <1>9

\* A run that a step leaves alone.
LEMMA OthersStay ==
    ASSUME NEW r \in Runs, Rebuilt(r), events'[r] = events[r], snapshots'[r] = snapshots[r],
           runs'[r] = runs[r], incident.version <= incident'.version,
           incident.version \in Nat, incident'.version \in Nat
    PROVE  Rebuilt(r)' /\ History(r)' = History(r)
<1>1. /\ History(r)' = History(r) /\ Reconstruct(r)' = Reconstruct(r)
      /\ SnapshotIsHistory(r, project_snapshot(r))' <=> SnapshotIsHistory(r, project_snapshot(r))
      /\ Exists(r)' <=> Exists(r)
  BY DEF History, Reconstruct, Blank, Replay, SnapshotIsHistory, project_snapshot, Exists
<1>2. runs'[r].version <= incident'.version
  <2>1. runs[r].version \in Nat /\ runs[r].version <= incident.version
    BY DEF Rebuilt, Views
  <2> QED  BY <2>1
<1> QED  BY <1>1, <1>2 DEF Rebuilt

\* The log is the end of a run that leaves it doc, and the incident cited or as it was.
Told(r, cites, doc, log) ==
    \A base, s : IsLog(s) /\ Replay(base, s) \in Views /\ Replay(base, s).run = runs[r].doc =>
        Replay(base, s \o log) = [incident |-> Cites(Replay(base, s).incident, cites),
                                  run |-> doc, moves |-> Replay(base, s).moves]

\* A run whose log says its end, or an intent: the incident as the run left it may be cited.
LEMMA EndRebuilds ==
    ASSUME StoreTypes, NEW r \in Runs, Rebuilt(r), Exists(r), NEW log, IsLog(log),
           events'[r] = events[r] \o log, snapshots'[r] = snapshots[r],
           incident.version <= incident'.version,
           incident.version \in Nat, incident'.version \in Nat,
           NEW doc, NEW cites \in BOOLEAN, runs'[r] = [doc |-> doc, version |-> runs[r].version],
           doc \in RunDocs, doc.current = runs[r].doc.current, doc.status # "absent",
           Told(r, cites, doc, log)
    PROVE  Rebuilt(r)' /\ History(r)'.incident = Cites(History(r).incident, cites)
<1>1. /\ History(r)' = Replay(Blank, events[r] \o log)
      /\ Reconstruct(r)' = Replay(Base(r), AfterBase(r) \o log)
      /\ SnapshotIsHistory(r, project_snapshot(r))'
      /\ IsLog(AfterBase(r)) /\ IsLog(events[r])
      /\ snapshots'[r].upto <= Len(events'[r])
  BY ReplaysGrow
<1> PICK h, v : h = History(r) /\ v = Reconstruct(r)
  OBVIOUS
<1>2. /\ h \in Views /\ v \in Views /\ h.run = runs[r].doc /\ v.run = runs[r].doc
      /\ h.incident = v.incident /\ h.incident.state = runs[r].doc.current
      /\ v.moves + snapshots[r].version = h.moves /\ runs[r].version = h.moves
      /\ snapshots[r].version # 0 /\ snapshots[r] \in Snapshots
      /\ runs[r].version <= incident.version
  BY DEF Rebuilt
<1>3. /\ h = Replay(Blank, events[r]) /\ v = Replay(Base(r), AfterBase(r))
  BY ReconstructIs DEF History
<1> PICK j : j = Cites(h.incident, cites)
  OBVIOUS
<1>4. History(r)' = [incident |-> j, run |-> doc, moves |-> h.moves]
  BY <1>1, <1>2, <1>3 DEF Told
<1>5. Reconstruct(r)' = [incident |-> j, run |-> doc, moves |-> v.moves]
  BY <1>1, <1>2, <1>3 DEF Told
<1>6. j \in Docs /\ j.state = h.incident.state
  <2>1. h.incident \in Docs
    BY <1>2 DEF Views
  <2> QED  BY <2>1 DEF Cites, Docs
<1>7. h.moves \in Nat /\ v.moves \in Nat
  BY <1>2 DEF Views
<1>8. History(r)' \in Views /\ Reconstruct(r)' \in Views
  BY <1>4, <1>5, <1>6, <1>7 DEF Views
<1>9. Exists(r)' /\ runs'[r].version <= incident'.version
  BY <1>2, <1>7 DEF Exists
<1> QED  BY <1>1, <1>2, <1>4, <1>5, <1>6, <1>8, <1>9 DEF Rebuilt

\* Three parts of a log.
LEMMA LogParts ==
    ASSUME NEW a, NEW b, NEW c, IsLog(a), IsLog(b), IsLog(c)
    PROVE  (a \o b) \o c = a \o (b \o c) /\ IsLog(b \o c)
<1> PICK S : S = Range(a) \cup Range(b) \cup Range(c)
  OBVIOUS
<1>1. a \in Seq(S) /\ b \in Seq(S) /\ c \in Seq(S)
  BY SeqMonotonic DEF IsLog
<1>2. (a \o b) \o c = a \o (b \o c) /\ b \o c \in Seq(S)
  BY <1>1, Appends, SMTT(30)
<1> QED  BY <1>2, SeqOfRange DEF IsLog

\* A run that a transition moved: the incident as the run left it is the incident.
LEMMA MoveRebuilds ==
    ASSUME StoreTypes, NEW r \in Runs, Rebuilt(r), NEW log, IsLog(log), Carried(log), NEW t,
           NEW doc \in Docs, NEW moved \in RunDocs, moved.status # "absent", moved.current = doc.state,
           events'[r] = (events[r] \o <<StateChange(t, doc, moved)>>) \o log,
           runs'[r] = [doc |-> moved, version |-> runs[r].version + 1],
           incident.version \in Nat, incident'.version = incident.version + 1,
           NEW due \in BOOLEAN,
           snapshots'[r] = IF due
                           THEN [incident |-> doc, run |-> moved, version |-> runs[r].version + 1,
                                 upto |-> Len(events'[r])]
                           ELSE snapshots[r],
           snapshots[r].version = 0 => due
    PROVE  Rebuilt(r)' /\ History(r)'.incident = doc
<1> PICK h, v, e : h = History(r) /\ v = Reconstruct(r) /\ e = <<StateChange(t, doc, moved)>>
  OBVIOUS
<1> PICK s : s = events[r]
  OBVIOUS
<1>1. /\ h \in Views /\ v \in Views
      /\ v.moves + snapshots[r].version = h.moves /\ runs[r].version = h.moves
      /\ snapshots[r] \in Snapshots /\ runs[r].version <= incident.version
      /\ h = Replay(Blank, s)
  BY DEF Rebuilt, History
<1>2. h.moves \in Nat /\ v.moves \in Nat
  BY <1>1 DEF Views
<1>3. IsLog(s)
  BY DEF StoreTypes
<1>4. /\ IsLog(s \o e)
      /\ Replay(Blank, (s \o e) \o log) = [incident |-> doc, run |-> moved, moves |-> h.moves + 1]
  BY <1>1, <1>3, MoveReplayed
<1> PICK l : l = (s \o e) \o log
  OBVIOUS
<1>5. IsLog(l) /\ Len(l) \in Nat /\ l = SubSeq(l, 1, Len(l)) /\ SubSeq(l, Len(l) + 1, Len(l)) = <<>>
  <2> PICK u : u = s \o e
    OBVIOUS
  <2> PICK S : S = Range(u) \cup Range(log)
    OBVIOUS
  <2>1. u \in Seq(S) /\ log \in Seq(S)
    BY <1>4, SeqMonotonic DEF IsLog
  <2>2. l \in Seq(S)
    BY <2>1, ConcatProperties
  <2>3. IsLog(l) /\ Len(l) \in Nat
    BY <2>2, SeqOfRange, LenProperties DEF IsLog
  <2>4. l = SubSeq(l, 1, Len(l))
    BY <2>2, SubSeqFull
  <2>5. SubSeq(l, Len(l) + 1, Len(l)) = <<>>
    BY <2>2, <2>3, SubSeqEmpty
  <2> QED  BY <2>3, <2>4, <2>5
<1>6. events'[r] = l
  OBVIOUS
<1>11. IsLog(e)
  <2>1. e \in Seq({StateChange(t, doc, moved)})
    OBVIOUS
  <2> QED  BY <2>1, SeqOfRange DEF IsLog
<1> PICK w : w = [incident |-> doc, run |-> moved, moves |-> h.moves + 1]
  OBVIOUS
<1>7. History(r)' = w /\ w \in Views
  BY <1>2, <1>4, <1>6 DEF History, Replay, Blank, Views
<1>8. /\ Exists(r)' /\ runs'[r].version <= incident'.version /\ runs'[r].version = w.moves
      /\ runs'[r].doc = w.run /\ w.incident.state = runs'[r].doc.current
  BY <1>1, <1>2 DEF Exists
<1>9. CASE due
  <2>1. snapshots'[r] = [incident |-> doc, run |-> moved, version |-> h.moves + 1, upto |-> Len(l)]
    BY <1>1, <1>6, <1>9
  <2> PICK b : b = [incident |-> doc, run |-> moved, moves |-> 0]
    OBVIOUS
  <2>2. Reconstruct(r)' = b
    <3>1. Reconstruct(r)' = FoldLeft(ReplayEvent, b, SubSeq(l, Len(l) + 1, Len(l)))
      BY <1>6, <2>1 DEF Reconstruct
    <3> QED  BY <1>5, <3>1, ReplayNone
  <2>3. b \in Views
    BY DEF Views
  <2>4. SnapshotIsHistory(r, project_snapshot(r))'
    <3>2. snapshots'[r].upto = Len(l)
      BY <2>1
    <3>3. SubSeq(events'[r], 1, snapshots'[r].upto) = l
      BY <1>5, <1>6, <3>2
    <3>1. FoldLeft(ReplayEvent, Blank, SubSeq(events'[r], 1, snapshots'[r].upto)) = w
      BY <1>4, <3>3 DEF Replay
    <3> QED  BY <2>1, <3>1 DEF SnapshotIsHistory, project_snapshot, Blank
  <2>5. snapshots'[r] \in Snapshots /\ snapshots'[r].upto <= Len(events'[r])
        /\ snapshots'[r].version # 0
    BY <1>2, <1>5, <1>6, <2>1 DEF Snapshots
  <2> QED  BY <1>2, <1>7, <1>8, <2>1, <2>2, <2>3, <2>4, <2>5 DEF Rebuilt
<1>10. CASE ~due
  <2>1. snapshots'[r] = snapshots[r] /\ snapshots[r].version # 0
    BY <1>10
  <2> PICK x : x = e \o log
    OBVIOUS
  <2>2. IsLog(x) /\ l = s \o x
    <3>0. IsLog(s) /\ IsLog(e) /\ IsLog(log)
      BY <1>3, <1>11
    <3>1. (s \o e) \o log = s \o (e \o log) /\ IsLog(e \o log)
      BY ONLY <3>0, LogParts
    <3> QED  BY <3>1
  <2>3. /\ Reconstruct(r)' = Replay(Base(r), AfterBase(r) \o x)
        /\ SnapshotIsHistory(r, project_snapshot(r))'
        /\ IsLog(AfterBase(r)) /\ snapshots'[r].upto <= Len(events'[r])
    BY <1>6, <2>1, <2>2, ReplaysGrow
  <2> PICK a : a = AfterBase(r)
    OBVIOUS
  <2>4. v = Replay(Base(r), a)
    BY ReconstructIs
  <2>5. Replay(Base(r), (a \o e) \o log) = [incident |-> doc, run |-> moved, moves |-> v.moves + 1]
    BY <1>1, <2>3, <2>4, MoveReplayed
  <2>6. (a \o e) \o log = a \o x
    BY <1>11, <2>3, LogParts, SMTT(30)
  <2> PICK y : y = [incident |-> doc, run |-> moved, moves |-> v.moves + 1]
    OBVIOUS
  <2>7. Reconstruct(r)' = y /\ y \in Views
    <3>1. Reconstruct(r)' = y
      BY <2>3, <2>5, <2>6
    <3> QED  BY <1>2, <3>1 DEF Views
  <2>8. y.moves + snapshots'[r].version = w.moves
    <3>1. PICK n : n = snapshots[r].version
      OBVIOUS
    <3>2. n \in Nat /\ v.moves + n = h.moves
      BY <1>1, <3>1 DEF Snapshots
    <3>3. (v.moves + 1) + n = h.moves + 1
      BY <1>2, <3>2
    <3> QED  BY <2>1, <3>1, <3>3
  <2>9. /\ w.incident = doc /\ w.run = moved /\ y.incident = doc /\ y.run = moved
        /\ snapshots'[r] \in Snapshots
    BY <1>1, <2>1
  <2>10. /\ History(r)' \in Views /\ Reconstruct(r)' \in Views
         /\ Reconstruct(r).incident' = History(r).incident' /\ Reconstruct(r).run' = runs[r].doc'
         /\ History(r).run' = runs[r].doc'
         /\ History(r).incident.state' = runs[r].doc.current'
    BY <1>7, <1>8, <2>7, <2>9
  <2> QED  BY <1>7, <1>8, <2>1, <2>3, <2>7, <2>8, <2>9, <2>10 DEF Rebuilt
<1> QED  BY <1>7, <1>9, <1>10

-----------------------------------------------------------------------------
(* The steps, by what they write *)

Incidents == [doc : Docs, version : Nat]
RowTypes ==
    /\ incident \in Incidents
    /\ snapshots = [r \in Runs |-> snapshots[r]]
    /\ mover \in Runs

SentCommand(cmd) ==
    /\ cmd.run \in Runs /\ cmd.transition \in Sent
    /\ cmd.operation \in BOOLEAN /\ cmd.executed \in BOOLEAN

\* An intent is written.
Claims(r) ==
    /\ \E d : AppendEvents(r, <<Receipt(d, "intent", "pending")>>)
    /\ UNCHANGED <<incident, runs, snapshots, commits, mover>>

\* A dispatch ends its run without a result.
EndsRun(r) ==
    \E d, status, reason :
        /\ reason \in TerminatedReasons \ {"none"}
        /\ EndRun(r, d, status, reason)

\* A dispatch ends its run with a result; a hypothesis of an open investigation may be cited.
ResultsIn(r) ==
    \E d, reason, cites :
        /\ reason \in TerminatedReasons \ {"none"} /\ cites \in BOOLEAN
        /\ cites => DispatchOpen(r, "investigate")
        /\ incident' = IF cites THEN [doc |-> [incident.doc EXCEPT !.cited = TRUE],
                                      version |-> incident.version + 1]
                       ELSE incident
        /\ mover' = IF cites THEN r ELSE mover
        /\ AppendEvents(r, Resulting(cites, d, Termination(reason)))
        /\ runs' = [runs EXCEPT ![r].doc = PatchRun(@, Termination(reason))]
        /\ UNCHANGED <<snapshots, commits>>

\* A transition moves a run, or opens one.
MovesRun(r) ==
    \E cmd, log :
        /\ SentCommand(cmd) /\ cmd.run = r
        /\ Exists(r) /\ cmd.transition # "start_investigation"
        /\ cmd.transition = "propose_mitigation" => DispatchOpen(r, "investigate")
        /\ IsLog(log) /\ Carried(log)
        /\ Apply(cmd, runs[r], log)

OpensRun(r) ==
    \E cmd :
        /\ SentCommand(cmd) /\ cmd.run = r
        /\ ~Exists(r)
        /\ \/ cmd.transition = "start_investigation"
           \/ cmd.transition = "continue_investigation" /\ ~BesideLiveRun(incident.doc)
        /\ Apply(cmd, NewRun(incident.doc.state), <<>>)

Ends(r) == (EndsRun(r) \/ ResultsIn(r)) /\ runs[r].doc.current # "mitigating"
Advances(r) == MovesRun(r) \/ OpensRun(r)
Stands == UNCHANGED <<incident, runs, events, snapshots, commits, mover>>

Shaped ==
    \/ Stands
    \/ \E r \in Runs \ {DeclarationRun} : (Exists(r) /\ (Claims(r) \/ Ends(r))) \/ Advances(r)

\* The run of the declaration stays as it was declared, and what is handed over is another
\* run, whose mitigation, once it is to be verified, has been answered.
DeclarationStands ==
    /\ Exists(DeclarationRun) /\ runs[DeclarationRun].doc.current = "active"
    /\ events[DeclarationRun] = <<StateChange("triage_declare", DeclaredDoc, NewRun("active").doc)>>

Placed(r, kind) ==
    r # DeclarationRun /\ (kind = "verify" => runs[r].doc.current # "mitigating")

Placing ==
    /\ DeclarationStands
    /\ \A p \in Processes : /\ worker[p] # Idle => Placed(worker[p].run, worker[p].dispatch)
                            /\ \A h \in hooks[p] : Placed(h.run, h.kind)
                            /\ DeclarationRun \notin sweep[p]
    /\ \A k \in commits : k.run # DeclarationRun

\* The investigation of a declaration was never claimed.
LEMMA DeclarationUnclaimed ==
    ASSUME DeclarationStands
    PROVE  /\ \A d, phase : ~HasReceipt(DeclarationRun, d, phase)
           /\ ~Investigates(DeclarationRun)
<1> PICK log : log = <<StateChange("triage_declare", DeclaredDoc, NewRun("active").doc)>>
  OBVIOUS
<1>1. NoReceipt(log) /\ events[DeclarationRun] = log
  BY LogsWritten DEF DeclarationStands
<1>2. log[1].transition = "triage_declare"
  BY DEF StateChange
<1> QED  BY <1>1, <1>2, ReceiptsAt DEF NoReceipt, Investigates

\* A dispatch that is open, or that a claim finds interrupted, is not of a mitigation that
\* still waits.
LEMMA EndsAnswered ==
    ASSUME DispatchSafe, NEW r \in Runs, NEW d \in Dispatches, Placed(r, d),
           ~HasReceipt(r, d, "outcome")
    PROVE  runs[r].doc.current # "mitigating"
<1>1. VerifiesAfter(r)
  BY DEF DispatchSafe
<1>2. d = "investigate" \/ d = "verify"
  BY DEF Dispatches
<1> QED  BY <1>1, <1>2 DEF VerifiesAfter, Ended, Placed

LEMMA WorkerPlaced ==
    ASSUME DispatchSafe, Placing, NEW p \in Processes, worker[p].pc # "idle"
    PROVE  Placed(worker[p].run, worker[p].dispatch)
BY WorkerFacts DEF Placing

LEMMA ClaimShaped ==
    ASSUME DispatchSafe, Placing, NEW p \in Processes, Claim(p)
    PROVE  Shaped
<1>1. PICK next \in {"read", "endfinish"} :
         /\ worker[p].pc \in {"claim", "endclaim"}
         /\ ClaimDispatch(p, next)
  BY DEF Claim
<1>3. PICK w : w = worker[p]
  OBVIOUS
<1>4. PICK r : r = w.run
  OBVIOUS
<1>5. r \in Runs /\ w.dispatch \in Dispatches /\ Exists(r) /\ Placed(r, w.dispatch)
  <2>1. worker[p].pc # "idle"
    BY <1>1
  <2> QED  BY <1>3, <1>4, <2>1, WorkerFacts, WorkerPlaced
<1>2. r \in Runs \ {DeclarationRun}
  BY <1>5 DEF Placed
<1> DEFINE answer == IF DispatchLocked(r) THEN "active" ELSE ClaimOf(r, w.dispatch)
<1>6. CASE UNCHANGED <<storeVars, mover>>
  BY <1>6 DEF Shaped, Stands, storeVars
<1>7. CASE answer = "interrupted" /\ EndRun(r, w.dispatch, "unknown", "needs_human")
  <2>1. DispatchOpen(r, w.dispatch)
    BY <1>5, <1>7, ClaimAnswers, WorkerFacts, <1>1, <1>3
  <2>2. runs[r].doc.current # "mitigating"
    BY <1>5, <2>1, EndsAnswered DEF DispatchOpen
  <2>3. EndsRun(r)
    BY <1>7 DEF EndsRun, TerminatedReasons
  <2> QED  BY <1>2, <1>5, <2>2, <2>3 DEF Shaped, Ends
<1>8. CASE /\ AppendEvents(r, <<Receipt(w.dispatch, "intent", "pending")>>)
           /\ UNCHANGED <<incident, runs, snapshots, commits, postmortem, mover>>
  <2>1. Claims(r)
    BY <1>8 DEF Claims
  <2> QED  BY <1>2, <1>5, <2>1 DEF Shaped
<1> QED  BY <1>1, <1>3, <1>4, <1>6, <1>7, <1>8 DEF ClaimDispatch

LEMMA EndShaped ==
    ASSUME DispatchSafe, Placing, NEW p \in Processes, worker[p].pc # "idle",
           DispatchOpen(worker[p].run, worker[p].dispatch),
           EndsRun(worker[p].run) \/ ResultsIn(worker[p].run)
    PROVE  Shaped
<1> PICK r, d : r = worker[p].run /\ d = worker[p].dispatch
  OBVIOUS
<1>1. r \in Runs /\ d \in Dispatches /\ Exists(r) /\ Placed(r, d)
  BY WorkerFacts, WorkerPlaced
<1>2. runs[r].doc.current # "mitigating"
  BY <1>1, EndsAnswered DEF DispatchOpen
<1> QED  BY <1>1, <1>2 DEF Shaped, Ends, Placed

LEMMA FinishShaped ==
    ASSUME DispatchSafe, Placing, NEW p \in Processes, Finish(p) \/ EndsWithoutResult(p)
    PROVE  Shaped
<1>1. worker[p].pc # "idle"
  BY DEF Finish, EndsWithoutResult
<1>2. CASE UNCHANGED <<storeVars, mover>>
  BY <1>2 DEF Shaped, Stands, storeVars
<1> PICK r, d : r = worker[p].run /\ d = worker[p].dispatch
  OBVIOUS
<1>3. CASE DispatchOpen(r, d) /\ \E status, reason : /\ reason \in TerminatedReasons \ {"none"}
                                                    /\ EndRun(r, d, status, reason)
  <2>1. EndsRun(r)
    BY <1>3 DEF EndsRun
  <2> QED  BY <1>1, <1>3, <2>1, EndShaped
<1>4. "needs_human" \in TerminatedReasons \ {"none"}
  BY DEF TerminatedReasons
<1>5. CASE Finish(p)
  BY <1>2, <1>3, <1>4, <1>5 DEF Finish
<1>6. CASE EndsWithoutResult(p)
  BY <1>2, <1>3, <1>6, DispatchAssumption, SMTT(30) DEF EndsWithoutResult
<1> QED  BY <1>5, <1>6

LEMMA EndsWithResultShaped ==
    ASSUME DispatchSafe, Placing, NEW p \in Processes, EndsWithResult(p)
    PROVE  Shaped
<1>1. worker[p].pc # "idle"
  BY DEF EndsWithResult
<1>2. CASE UNCHANGED <<storeVars, mover>>
  BY <1>2 DEF Shaped, Stands, storeVars
<1> PICK r, d : r = worker[p].run /\ d = worker[p].dispatch
  OBVIOUS
<1>3. ASSUME NEW reason \in IF d = "verify" THEN {"needs_human"}
                            ELSE {"completed", "max_steps", "needs_human"},
             NEW cites, cites = (reason = "max_steps"),
             DispatchOpen(r, d),
             incident' = IF cites THEN [doc |-> [incident.doc EXCEPT !.cited = TRUE],
                                        version |-> incident.version + 1]
                         ELSE incident,
             mover' = IF cites THEN r ELSE mover,
             AppendEvents(r, <<InvestigationResult(cites, "none"),
                               Receipt(d, "outcome", "success"),
                               RunTerminated(Termination(reason))>>),
             runs' = [runs EXCEPT ![r].doc = PatchRun(@, Termination(reason))],
             UNCHANGED <<snapshots, commits, postmortem>>
      PROVE  Shaped
  <2>1. d \in Dispatches
    BY <1>1, WorkerFacts
  <2>2. cites => DispatchOpen(r, "investigate")
    BY <1>3, <2>1 DEF Dispatches
  <2>3. cites \in BOOLEAN /\ reason \in TerminatedReasons \ {"none"}
    BY <1>3 DEF TerminatedReasons
  <2>4. AppendEvents(r, Resulting(cites, d, Termination(reason)))
    BY <1>3 DEF Resulting
  <2>5. ResultsIn(r)
    BY <1>3, <2>2, <2>3, <2>4 DEF ResultsIn
  <2> QED  BY <1>1, <1>3, <2>5, EndShaped
<1> QED  BY <1>2, <1>3 DEF EndsWithResult

LEMMA ContinueShaped ==
    ASSUME DispatchSafe, Placing, NEW p \in Processes, Continue(p)
    PROVE  Shaped
<1> PICK r : r = worker[p].run
  OBVIOUS
<1> PICK cmd : cmd = HarnessCommand(p, "continue_investigation", Key("turn", r, incident.version))
  OBVIOUS
<1>1. worker[p].pc # "idle"
  BY DEF Continue
<1>2. r \in Runs /\ Exists(r) /\ r # DeclarationRun
  BY <1>1, WorkerFacts, WorkerPlaced DEF Placed
<1>3. CASE UNCHANGED <<storeVars, mover>>
  BY <1>3 DEF Shaped, Stands, storeVars
<1>4. CASE Apply(cmd, runs[r], <<InvestigationResult(FALSE, "none")>>)
  <2> PICK log : log = <<InvestigationResult(FALSE, "none")>>
    OBVIOUS
  <2>1. IsLog(log) /\ Carried(log)
    BY LogsWritten DEF Carried
  <2>2. SentCommand(cmd) /\ cmd.run = r /\ cmd.transition = "continue_investigation"
    BY <1>2 DEF SentCommand, Sent, HarnessCommand, Command
  <2>3. MovesRun(r)
    BY <1>2, <1>4, <2>1, <2>2 DEF MovesRun
  <2> QED  BY <1>2, <2>3 DEF Shaped, Advances
<1> QED  BY <1>3, <1>4 DEF Continue

LEMMA OutcomeShaped ==
    ASSUME DispatchSafe, Placing, NEW p \in Processes, ProposeMitigation(p) \/ VerifyMitigation(p)
    PROVE  Shaped
<1>1. PICK t, verdict :
         /\ t \in {"propose_mitigation", "verification_passed", "verification_failed"}
         /\ Outcome(p, t, verdict)
         /\ t = "propose_mitigation" => worker[p].dispatch = "investigate"
  BY DEF ProposeMitigation, VerifyMitigation
<1> PICK r, d : r = worker[p].run /\ d = worker[p].dispatch
  OBVIOUS
<1> PICK cmd : cmd = [HarnessCommand(p, t, Key(d, r, 0)) EXCEPT
                        !.dispatch = d, !.operation = (t = "propose_mitigation")]
  OBVIOUS
<1> PICK log : log = <<InvestigationResult(FALSE, verdict), Receipt(d, "outcome", "success")>>
  OBVIOUS
<1>2. worker[p].pc # "idle"
  BY <1>1 DEF Outcome
<1>3. r \in Runs /\ Exists(r) /\ r # DeclarationRun
  BY <1>2, WorkerFacts, WorkerPlaced DEF Placed
<1>4. CASE UNCHANGED <<storeVars, mover>>
  BY <1>4 DEF Shaped, Stands, storeVars
<1>5. CASE Apply(cmd, runs[r], log)
  <2>1. IsLog(log) /\ Carried(log)
    BY LogsWritten DEF Carried
  <2>2. /\ cmd.run = r /\ cmd.transition = t /\ cmd.dispatch = d
        /\ cmd.operation = (t = "propose_mitigation") /\ cmd.executed = FALSE
    BY DEF HarnessCommand, Command
  <2>3. SentCommand(cmd)
    BY <1>1, <1>3, <2>2 DEF SentCommand, Sent
  <2>4. t = "propose_mitigation" => DispatchOpen(r, "investigate")
    BY <1>1, <1>5, <2>2 DEF Apply, Accepts
  <2>5. MovesRun(r)
    BY <1>1, <1>3, <1>5, <2>1, <2>2, <2>3, <2>4 DEF MovesRun
  <2> QED  BY <1>3, <2>5 DEF Shaped, Advances
<1> QED  BY <1>1, <1>4, <1>5 DEF Outcome

LEMMA StartShaped ==
    ASSUME DispatchSafe, Placing, NEW p \in Processes, StartInvestigation(p)
    PROVE  Shaped
<1>1. CASE UNCHANGED <<storeVars, mover>>
  BY <1>1 DEF Shaped, Stands, storeVars
<1>2. ASSUME NEW r \in Runs, NEW t, NEW retry,
             t = IF retry THEN "continue_investigation" ELSE "start_investigation",
             ~Exists(r), retry => ~BesideLiveRun(incident.doc),
             Apply([Command(Key("start", r, 0), r, t, "human") EXCEPT !.retry = retry],
                   NewRun(incident.doc.state), <<>>)
      PROVE  Shaped
  <2> PICK cmd : cmd = [Command(Key("start", r, 0), r, t, "human") EXCEPT !.retry = retry]
    OBVIOUS
  <2>1. /\ cmd.run = r /\ cmd.transition = t /\ SentCommand(cmd)
    BY <1>2 DEF Command, SentCommand, Sent
  <2>2. Apply(cmd, NewRun(incident.doc.state), <<>>)
    BY <1>2
  <2>3. OpensRun(r)
    BY <1>2, <2>1, <2>2 DEF OpensRun
  <2>4. r # DeclarationRun
    BY <1>2 DEF Placing, DeclarationStands
  <2> QED  BY <2>3, <2>4 DEF Shaped, Advances
<1> QED  BY <1>1, <1>2 DEF StartInvestigation

LEMMA AnswerShaped ==
    ASSUME DispatchSafe, Placing, NEW p \in Processes, Answer(p)
    PROVE  Shaped
<1> DEFINE send(r, t, executed) ==
              [Command(Key("human", r, incident.version), r, t, "human") EXCEPT
                 !.approval = (t = "apply_mitigation"), !.expected = incident.version,
                 !.outcome = IF t = "reject_mitigation" THEN "reject" ELSE "default",
                 !.executed = executed]
           answers == {"apply_mitigation", "reject_mitigation", "verification_passed",
                       "verification_failed"}
<1>1. PICK r \in Runs, t \in answers, executed \in BOOLEAN :
         Exists(r) /\ Apply(send(r, t, executed), runs[r], <<>>)
  BY ZenonT(60) DEF Answer
<1>2. PICK cmd : cmd = send(r, t, executed)
  OBVIOUS
<1>3. cmd.run = r /\ cmd.transition = t /\ cmd.operation = FALSE /\ cmd.executed = executed
  BY <1>2 DEF Command
<1>4. SentCommand(cmd)
  BY <1>1, <1>3 DEF SentCommand, Sent
<1>5. Apply(cmd, runs[r], <<>>)
  BY <1>1, <1>2
<1>6. IsLog(<<>>) /\ Carried(<<>>)
  BY LogsWritten DEF Carried
<1>7. MovesRun(r)
  BY <1>1, <1>3, <1>4, <1>5, <1>6 DEF MovesRun
<1>8. r # DeclarationRun
  <2>1. runs[r].doc.current = Workflow[t].from
    BY <1>3, <1>5 DEF Apply, Accepts, Aligned, Validate
  <2>2. Workflow[t].from # "active"
    BY DEF Workflow, Transitions, EdgeOf, Edge
  <2> QED  BY <2>1, <2>2 DEF Placing, DeclarationStands
<1> QED  BY <1>7, <1>8 DEF Shaped, Advances

LEMMA ReinvestigateShaped ==
    ASSUME DispatchSafe, Placing, NEW p \in Processes, Reinvestigate(p)
    PROVE  Shaped
<1> PICK id : id = Key("reinvestigate", DeclarationRun, Failures)
  OBVIOUS
<1>1. CASE UNCHANGED <<storeVars, mover>>
  BY <1>1 DEF Shaped, Stands, storeVars
<1>2. ASSUME NEW r \in Runs, ~Exists(r), ~BesideLiveRun(incident.doc),
             Apply([Command(id, r, "continue_investigation", "system") EXCEPT !.retry = TRUE],
                   NewRun(incident.doc.state), <<>>)
      PROVE  Shaped
  <2> PICK cmd : cmd = [Command(id, r, "continue_investigation", "system") EXCEPT !.retry = TRUE]
    OBVIOUS
  <2>1. cmd.run = r /\ cmd.transition = "continue_investigation" /\ SentCommand(cmd)
    BY <1>2 DEF Command, SentCommand, Sent
  <2>2. Apply(cmd, NewRun(incident.doc.state), <<>>)
    BY <1>2
  <2>3. OpensRun(r)
    BY <1>2, <2>1, <2>2 DEF OpensRun
  <2>4. r # DeclarationRun
    BY <1>2 DEF Placing, DeclarationStands
  <2> QED  BY <2>3, <2>4 DEF Shaped, Advances
<1> QED  BY <1>1, <1>2 DEF Reinvestigate

\* Every step writes in one of these ways.
LEMMA NextShaped == DispatchSafe /\ Placing /\ [Next]_vars => Shaped
<1> SUFFICES ASSUME DispatchSafe, Placing, [Next]_vars PROVE Shaped
  OBVIOUS
<1>1. CASE UNCHANGED <<storeVars, mover>>
  BY <1>1 DEF Shaped, Stands, storeVars
<1>2. ASSUME NEW p \in Processes, Work(p) PROVE Shaped
  <2>1. CASE Read(p)
    BY <1>1, <2>1 DEF Read
  <2> QED  BY <1>2, <2>1, ClaimShaped, FinishShaped, ContinueShaped, OutcomeShaped,
              EndsWithResultShaped DEF Work
<1>3. ASSUME NEW p \in Processes, Reinvestigate(p) \/ StartInvestigation(p) \/ Answer(p)
      PROVE  Shaped
  BY <1>3, ReinvestigateShaped, StartShaped, AnswerShaped
<1>4. ASSUME NEW p \in Processes,
             \/ HandOff(p) \/ Restart(p) \/ Sweep(p) \/ ClaimFails(p) \/ FinishFails(p)
             \/ ReinvestigateFails(p) \/ Crash(p) \/ LoseLock(p)
      PROVE  UNCHANGED <<storeVars, mover>>
  BY <1>4 DEF HandOff, Restart, Sweep, ClaimFails, FinishFails, ReinvestigateFails, Crash, LoseLock
<1>5. UNCHANGED vars => UNCHANGED <<storeVars, mover>>
  BY DEF vars, storeVars
<1> QED  BY <1>1, <1>2, <1>3, <1>4, <1>5 DEF Next

-----------------------------------------------------------------------------
(* A transition, by what it leaves *)

\* The incident as h has it and as doc has it differ at most by a hypothesis cited since.
CitedSince(h, doc) ==
    /\ h.state = doc.state /\ h.mitigation = doc.mitigation /\ h.postmortem = doc.postmortem
    /\ h.cited => doc.cited

Wrote(r, t, doc, moved, log) ==
    /\ doc \in Docs /\ moved \in RunDocs /\ IsLog(log) /\ Carried(log)
    /\ doc.state = Workflow[t].to /\ moved.current = doc.state /\ moved.status # "absent"
    /\ incident' = [doc |-> doc, version |-> incident.version + 1]
    /\ runs' = [runs EXCEPT ![r] = [doc |-> moved, version |-> runs[r].version + 1]]
    /\ events' = [events EXCEPT ![r] = (events[r] \o <<StateChange(t, doc, moved)>>) \o log]
    /\ \E due \in BOOLEAN :
          /\ snapshots[r].version = 0 => due
          /\ snapshots' = [snapshots EXCEPT ![r] =
                             IF due THEN [incident |-> doc, run |-> moved,
                                          version |-> runs[r].version + 1,
                                          upto |-> Len(events'[r])]
                             ELSE snapshots[r]]
    /\ mover' = r
    /\ \E k : k.run = r /\ k.version = incident.version + 1 /\ commits' = commits \cup {k}

Admitted(r, t, doc) ==
    /\ t \in Sent /\ incident.doc.state = Workflow[t].from
    /\ t = "propose_mitigation" => DispatchOpen(r, "investigate")
    /\ t = "continue_investigation" => CitedSince(incident.doc, doc)
    /\ IF Exists(r) THEN t # "start_investigation" /\ runs[r].doc.current = incident.doc.state
       ELSE \/ t = "start_investigation"
            \/ t = "continue_investigation" /\ ~BesideLiveRun(incident.doc)

\* A person is asked for an answer when a mitigation is proposed, and then only; an answer that
\* sends the incident back ends the run, and no other transition does.
Asks(t, doc, moved) ==
    /\ IF t = "propose_mitigation"
       THEN /\ doc.mitigation.status = "pending"
            /\ moved.status = "awaiting_human" /\ moved.pending = "approve_mitigation"
       ELSE moved.status # "awaiting_human"
    /\ moved.status \in {"completed", "terminated"} => t \in ReturnsToInvestigation

LEMMA IncidentReduced ==
    ASSUME NEW cmd, SentCommand(cmd), NEW inc \in Incidents,
           inc.doc.state = Workflow[cmd.transition].from
    PROVE  LET doc == ReduceIncident(cmd, inc)
           IN /\ doc \in Docs /\ doc.state = Workflow[cmd.transition].to
              /\ cmd.transition = "propose_mitigation" => doc.mitigation.status = "pending"
              /\ cmd.transition = "continue_investigation" => CitedSince(inc.doc, doc)
<1> PICK t : t = cmd.transition
  OBVIOUS
<1>1. Workflow[t] = EdgeOf(t) /\ EdgeOf(t).to \in States
  BY DEF Workflow, Transitions, Sent, EdgeOf, Edge, States, SentCommand
<1> PICK m : m = ReduceMitigation(cmd, inc)
  OBVIOUS
<1>2. inc.doc \in Docs /\ inc.version \in Nat
  BY DEF Incidents
<1>3. m \in Mitigations
  <2>1. inc.doc.mitigation \in Mitigations
    BY <1>2 DEF Docs
  <2>2. CASE t = "propose_mitigation"
    <3>1. m = [id |-> inc.version + 1, status |-> "pending", operation |-> cmd.operation,
               executed |-> FALSE]
      BY <2>2 DEF ReduceMitigation
    <3>2. cmd.operation \in BOOLEAN /\ inc.version + 1 \in Nat
      BY <1>2 DEF SentCommand
    <3> QED  BY <3>1, <3>2 DEF Mitigations
  <2>3. CASE t \in {"apply_mitigation", "reject_mitigation"}
    <3>1. PICK old : old = inc.doc.mitigation
      OBVIOUS
    <3>2. PICK x : x = IF t = "apply_mitigation" THEN cmd.executed ELSE old.executed
      OBVIOUS
    <3>3. PICK s : s = ReviewedStatus(cmd)
      OBVIOUS
    <3>4. m = [old EXCEPT !.status = s, !.executed = x]
      BY <2>3, <3>1, <3>2, <3>3 DEF ReduceMitigation
    <3>5. s \in {"approved", "rejected", "changes_requested"} /\ x \in BOOLEAN
      BY <2>1, <3>1, <3>2, <3>3, Zenon DEF ReviewedStatus, SentCommand, Mitigations
    <3> QED  BY <2>1, <3>1, <3>4, <3>5 DEF Mitigations
  <2>4. CASE t \notin {"propose_mitigation", "apply_mitigation", "reject_mitigation"}
    BY <2>1, <2>4 DEF ReduceMitigation
  <2> QED  BY <2>2, <2>3, <2>4
<1> PICK c : c = IF cmd.transition = "continue_investigation" /\ ~cmd.retry THEN TRUE
                 ELSE inc.doc.cited
  OBVIOUS
<1> PICK f : f = IF cmd.transition = "start_postmortem" THEN TRUE ELSE inc.doc.postmortem
  OBVIOUS
<1>4. inc.doc.cited \in BOOLEAN /\ inc.doc.postmortem \in BOOLEAN
  BY <1>2 DEF Docs
<1>5. c \in BOOLEAN /\ f \in BOOLEAN /\ (inc.doc.cited => c)
  BY <1>4, Zenon
<1>6. ReduceIncident(cmd, inc) = [state |-> Workflow[t].to, cited |-> c, mitigation |-> m,
                                  postmortem |-> f]
  BY DEF ReduceIncident
<1>7. ReduceIncident(cmd, inc) \in Docs /\ ReduceIncident(cmd, inc).state = Workflow[t].to
  BY ONLY <1>1, <1>3, <1>5, <1>6 DEF Docs
<1>8. t = "propose_mitigation" => m.status = "pending"
  BY DEF ReduceMitigation
<1>9. ASSUME t = "continue_investigation" PROVE CitedSince(inc.doc, ReduceIncident(cmd, inc))
  <2>1. m = inc.doc.mitigation
    BY <1>9 DEF ReduceMitigation
  <2>2. f = inc.doc.postmortem
    BY <1>9
  <2>3. Workflow[t].to = "investigating" /\ Workflow[t].from = "investigating"
    BY <1>1, <1>9 DEF EdgeOf, Edge
  <2>4. inc.doc.state = Workflow[t].to
    BY <1>9, <2>3
  <2> PICK doc : doc = ReduceIncident(cmd, inc)
    OBVIOUS
  <2>5. doc.state = Workflow[t].to /\ doc.mitigation = m /\ doc.postmortem = f /\ doc.cited = c
    BY <1>6
  <2> QED  BY ONLY <1>5, <2>1, <2>2, <2>4, <2>5, doc = ReduceIncident(cmd, inc) DEF CitedSince
<1> QED  BY <1>6, <1>7, <1>8, <1>9

LEMMA RunAsks ==
    ASSUME NEW cmd, cmd.transition \in Sent, NEW run \in RunDocs
    PROVE  LET moved == ReduceRun(cmd, run)
               t == cmd.transition
           IN /\ t = "propose_mitigation" => /\ moved.status = "awaiting_human"
                                             /\ moved.pending = "approve_mitigation"
              /\ t # "propose_mitigation" => moved.status # "awaiting_human"
              /\ moved.status \in {"completed", "terminated"} => t \in ReturnsToInvestigation
<1> PICK t : t = cmd.transition
  OBVIOUS
<1>1. Workflow[t] = EdgeOf(t) /\ EdgeOf(t).to \notin TerminalStates
  BY DEF Workflow, Transitions, Sent, EdgeOf, Edge, TerminalStates
<1>2. EdgeOf(t).to = "mitigating" <=> t = "propose_mitigation"
  BY DEF Sent, EdgeOf, Edge
<1> PICK patch : patch = ReduceRunPatch(cmd, run)
  OBVIOUS
<1>3. CASE t = "propose_mitigation"
  <2>1. patch = [status |-> "awaiting_human", pending |-> "approve_mitigation", reason |-> run.reason]
    <3>1. Workflow[cmd.transition].to \notin TerminalStates
          /\ Workflow[cmd.transition].to = "mitigating"
          /\ cmd.transition \notin ReturnsToInvestigation
      BY <1>1, <1>2, <1>3 DEF ReturnsToInvestigation
    <3> QED  BY <3>1 DEF ReduceRunPatch
  <2>2. ReduceRun(cmd, run) = PatchRun([run EXCEPT !.current = Workflow[t].to], patch)
    BY DEF ReduceRun
  <2> QED  BY <1>3, <2>1, <2>2 DEF PatchRun, RunDocs
<1>4. CASE t # "propose_mitigation"
  <2>1. patch = IF t \in ReturnsToInvestigation THEN Termination("needs_human")
                ELSE RunPatch("running", "none")
    BY <1>1, <1>2, <1>4 DEF ReduceRunPatch
  <2>2. /\ patch.status # "awaiting_human"
        /\ patch.status \in {"completed", "terminated"} => t \in ReturnsToInvestigation
    BY <2>1 DEF Termination, RunPatch
  <2>3. ReduceRun(cmd, run) = PatchRun([run EXCEPT !.current = Workflow[t].to], patch)
    BY DEF ReduceRun
  <2>4. ReduceRun(cmd, run).status = patch.status
    BY <2>3 DEF PatchRun, RunDocs
  <2> QED  BY <1>4, <2>2, <2>4
<1> QED  BY <1>3, <1>4

\* A command that the runtime commits, as it leaves the rows.
LEMMA ApplyWrites ==
    ASSUME DispatchSafe, RowTypes, NEW cmd, SentCommand(cmd), NEW run \in RunRows,
           NEW log, IsLog(log), Carried(log), Apply(cmd, run, log)
    PROVE  \E doc, moved :
              /\ Wrote(cmd.run, cmd.transition, doc, moved, log)
              /\ Asks(cmd.transition, doc, moved)
              /\ run.version = runs[cmd.run].version /\ run.doc.current = incident.doc.state
              /\ incident.doc.state = Workflow[cmd.transition].from
              /\ cmd.transition = "continue_investigation" => CitedSince(incident.doc, doc)
<1> PICK r, t : r = cmd.run /\ t = cmd.transition
  OBVIOUS
<1> PICK doc, moved : doc = ReduceIncident(cmd, incident) /\ moved = ReduceRun(cmd, run.doc)
  OBVIOUS
<1>1. /\ PersistTransition(cmd, incident, run, log)
      /\ run.doc.current = incident.doc.state /\ incident.doc.state = Workflow[t].from
      /\ mover' = r
  BY DEF Apply, Accepts, Aligned, Validate
<1>2. run.version = runs[r].version
  BY <1>1 DEF PersistTransition, Unchanged
<1>3. r \in Runs /\ t \in Sent /\ run.doc \in RunDocs /\ incident \in Incidents
  BY DEF SentCommand, RunRows, RowTypes
<1>4. /\ doc \in Docs /\ doc.state = Workflow[t].to
      /\ t = "propose_mitigation" => doc.mitigation.status = "pending"
      /\ t = "continue_investigation" => CitedSince(incident.doc, doc)
  BY <1>1, <1>3, IncidentReduced
<1>5. moved \in RunDocs /\ moved.current = Workflow[t].to /\ moved.status # "absent"
  BY <1>3, RunMoves
<1>6. Asks(t, doc, moved)
  BY <1>3, <1>4, RunAsks DEF Asks
<1> PICK n : n = runs[r].version + 1
  OBVIOUS
<1>7. /\ incident' = [doc |-> doc, version |-> incident.version + 1]
      /\ runs' = [runs EXCEPT ![r] = [doc |-> moved, version |-> n]]
      /\ events' = [events EXCEPT ![r] = (events[r] \o <<StateChange(t, doc, moved)>>) \o log]
      /\ commits' = commits \cup {CommitRecord(cmd, incident)}
  BY <1>1, <1>2 DEF PersistTransition
<1>8. events'[r] = (events[r] \o <<StateChange(t, doc, moved)>>) \o log
  BY <1>3, <1>7 DEF DispatchSafe, StoreTypes
<1>9. snapshots' = [snapshots EXCEPT ![r] =
                      NextSnapshot(r, doc, [doc |-> moved, version |-> n], Len(events'[r]))]
  BY <1>1, <1>2, <1>8 DEF PersistTransition
<1>10. PICK due \in BOOLEAN : due = (snapshots[r].version = 0 \/ n % SnapshotInterval = 0)
  OBVIOUS
<1>11. NextSnapshot(r, doc, [doc |-> moved, version |-> n], Len(events'[r])) =
          IF due THEN [incident |-> doc, run |-> moved, version |-> n, upto |-> Len(events'[r])]
          ELSE snapshots[r]
  BY <1>10 DEF NextSnapshot
<1>12. \E k : k.run = r /\ k.version = incident.version + 1 /\ commits' = commits \cup {k}
  BY <1>7 DEF CommitRecord
<1>13. Wrote(r, t, doc, moved, log)
  BY <1>1, <1>4, <1>5, <1>7, <1>9, <1>10, <1>11, <1>12 DEF Wrote
<1> QED  BY <1>1, <1>2, <1>4, <1>6, <1>13

\* A run that advances.
LEMMA AdvanceWrites ==
    ASSUME DispatchSafe, RowTypes, NEW r \in Runs, Advances(r)
    PROVE  \E t, doc, moved, log :
              /\ Wrote(r, t, doc, moved, log) /\ Admitted(r, t, doc) /\ Asks(t, doc, moved)
              /\ ~Exists(r) => runs[r].version = 0
<1>1. CASE MovesRun(r)
  <2>1. PICK cmd, log :
          /\ SentCommand(cmd) /\ cmd.run = r
          /\ Exists(r) /\ cmd.transition # "start_investigation"
          /\ cmd.transition = "propose_mitigation" => DispatchOpen(r, "investigate")
          /\ IsLog(log) /\ Carried(log)
          /\ Apply(cmd, runs[r], log)
    BY <1>1 DEF MovesRun
  <2>2. runs[r] \in RunRows
    BY DEF DispatchSafe, StoreTypes
  <2>3. PICK doc, moved :
              /\ Wrote(cmd.run, cmd.transition, doc, moved, log)
              /\ Asks(cmd.transition, doc, moved)
              /\ runs[r].doc.current = incident.doc.state
              /\ incident.doc.state = Workflow[cmd.transition].from
              /\ cmd.transition = "continue_investigation" => CitedSince(incident.doc, doc)
    BY <2>1, <2>2, ApplyWrites
  <2>4. Admitted(r, cmd.transition, doc)
    BY <2>1, <2>3 DEF Admitted, SentCommand
  <2> QED  BY <2>1, <2>3, <2>4
<1>2. CASE OpensRun(r)
  <2>1. PICK cmd :
          /\ SentCommand(cmd) /\ cmd.run = r
          /\ ~Exists(r)
          /\ \/ cmd.transition = "start_investigation"
             \/ cmd.transition = "continue_investigation" /\ ~BesideLiveRun(incident.doc)
          /\ Apply(cmd, NewRun(incident.doc.state), <<>>)
    BY <1>2 DEF OpensRun
  <2> PICK run : run = NewRun(incident.doc.state)
    OBVIOUS
  <2>2. run \in RunRows
    BY <2>1, NewRunType DEF Apply, Accepts, SentCommand
  <2>3. IsLog(<<>>) /\ Carried(<<>>)
    BY LogsWritten DEF Carried
  <2>4. Apply(cmd, run, <<>>)
    BY <2>1
  <2>5. PICK doc, moved :
              /\ Wrote(cmd.run, cmd.transition, doc, moved, <<>>)
              /\ Asks(cmd.transition, doc, moved)
              /\ run.version = runs[r].version
              /\ incident.doc.state = Workflow[cmd.transition].from
              /\ cmd.transition = "continue_investigation" => CitedSince(incident.doc, doc)
    BY <2>1, <2>2, <2>3, <2>4, ApplyWrites
  <2>6. run.version = 0
    BY DEF NewRun
  <2>7. Admitted(r, cmd.transition, doc)
    BY <2>1, <2>5 DEF Admitted, SentCommand
  <2> QED  BY <2>1, <2>5, <2>6, <2>7
<1> QED  BY <1>1, <1>2 DEF Advances

-----------------------------------------------------------------------------
(* An intent or an end, by what it leaves *)

Noted(r, cites, log) ==
    /\ cites \in BOOLEAN /\ IsLog(log) /\ log # <<>>
    /\ events' = [events EXCEPT ![r] = events[r] \o log]
    /\ \E doc :
          /\ runs' = [runs EXCEPT ![r] = [doc |-> doc, version |-> runs[r].version]]
          /\ doc \in RunDocs /\ doc.current = runs[r].doc.current /\ doc.status # "absent"
          /\ Told(r, cites, doc, log)
    /\ cites => DispatchOpen(r, "investigate")
    /\ incident' = IF cites THEN [doc |-> [incident.doc EXCEPT !.cited = TRUE],
                                  version |-> incident.version + 1]
                   ELSE incident
    /\ mover' = IF cites THEN r ELSE mover
    /\ UNCHANGED <<snapshots, commits>>

LEMMA ClaimNotes ==
    ASSUME DispatchSafe, NEW r \in Runs, Exists(r), Claims(r)
    PROVE  \E log : Noted(r, FALSE, log)
<1>1. PICK d : AppendEvents(r, <<Receipt(d, "intent", "pending")>>)
  BY DEF Claims
<1> PICK log, e : e = Receipt(d, "intent", "pending") /\ log = <<e>>
  OBVIOUS
<1>2. IsLog(log) /\ log # <<>>
  BY LogsWritten
<1>3. events' = [events EXCEPT ![r] = events[r] \o log]
  BY <1>1 DEF AppendEvents, DispatchSafe, StoreTypes
<1> PICK doc : doc = runs[r].doc
  OBVIOUS
<1>4. runs[r] \in RunRows /\ runs = [runs EXCEPT ![r] = runs[r]]
  BY DEF DispatchSafe, StoreTypes
<1>5. runs' = [runs EXCEPT ![r] = [doc |-> doc, version |-> runs[r].version]]
  <2>1. runs[r] = [doc |-> doc, version |-> runs[r].version]
    BY <1>4 DEF RunRows
  <2> QED  BY <1>4, <2>1 DEF Claims
<1>6. doc \in RunDocs /\ doc.status # "absent"
  BY <1>4 DEF RunRows, Exists
<1>7. ASSUME NEW base, NEW s, IsLog(s), Replay(base, s) \in Views, Replay(base, s).run = doc
      PROVE  Replay(base, s \o log) = [incident |-> Cites(Replay(base, s).incident, FALSE),
                                       run |-> doc, moves |-> Replay(base, s).moves]
  <2> PICK v : v = Replay(base, s)
    OBVIOUS
  <2>1. Replay(base, s \o log) = v
    BY <1>7, EndReplayed
  <2>2. v = [incident |-> v.incident, run |-> v.run, moves |-> v.moves]
    BY <1>7 DEF Views
  <2> QED  BY <1>7, <2>1, <2>2 DEF Cites
<1>8. Told(r, FALSE, doc, log)
  BY <1>7 DEF Told
<1>9. Noted(r, FALSE, log)
  BY <1>2, <1>3, <1>5, <1>6, <1>8 DEF Noted, Claims
<1> QED  BY <1>9

LEMMA Terminates ==
    ASSUME NEW run \in RunDocs, NEW reason \in TerminatedReasons
    PROVE  LET doc == PatchRun(run, Termination(reason))
           IN doc \in RunDocs /\ doc.status \in {"completed", "terminated"} /\ doc.current = run.current
BY DEF PatchRun, Termination, RunPatch, RunDocs, RunStatuses, LiveRunStatuses, PendingCommands

LEMMA EndNotes ==
    ASSUME DispatchSafe, NEW r \in Runs, Exists(r), EndsRun(r)
    PROVE  \E log : Noted(r, FALSE, log)
<1>1. PICK d, status, reason :
        /\ reason \in TerminatedReasons \ {"none"}
        /\ EndRun(r, d, status, reason)
  BY DEF EndsRun
<1> PICK patch : patch = Termination(reason)
  OBVIOUS
<1> PICK log : log = Ending(d, status, patch)
  OBVIOUS
<1>2. IsLog(log) /\ log # <<>>
  BY LogsWritten DEF Ending
<1>3. events' = [events EXCEPT ![r] = events[r] \o log]
  BY <1>1 DEF EndRun, AppendEvents, DispatchSafe, StoreTypes
<1> PICK doc : doc = PatchRun(runs[r].doc, patch)
  OBVIOUS
<1>4. runs[r] \in RunRows /\ runs[r].doc \in RunDocs
  BY DEF DispatchSafe, StoreTypes, RunRows
<1>5. runs' = [runs EXCEPT ![r] = [doc |-> doc, version |-> runs[r].version]]
  <2>1. runs' = [runs EXCEPT ![r] = [runs[r] EXCEPT !.doc = doc]]
    BY <1>1 DEF EndRun, DispatchSafe, StoreTypes
  <2>2. [runs[r] EXCEPT !.doc = doc] = [doc |-> doc, version |-> runs[r].version]
    BY <1>4 DEF RunRows
  <2> QED  BY <2>1, <2>2
<1>6. doc \in RunDocs /\ doc.status # "absent" /\ doc.current = runs[r].doc.current
  BY <1>1, <1>4, Terminates
<1>7. ASSUME NEW base, NEW s, IsLog(s), Replay(base, s) \in Views, Replay(base, s).run = runs[r].doc
      PROVE  Replay(base, s \o log) = [incident |-> Cites(Replay(base, s).incident, FALSE),
                                       run |-> doc, moves |-> Replay(base, s).moves]
  <2> PICK v : v = Replay(base, s)
    OBVIOUS
  <2>1. Replay(base, s \o log) = [incident |-> v.incident, run |-> PatchRun(v.run, patch),
                                  moves |-> v.moves]
    BY <1>7, EndReplayed
  <2> QED  BY <1>7, <2>1 DEF Cites
<1>8. UNCHANGED <<incident, mover, snapshots, commits>>
  BY <1>1 DEF EndRun
<1>9. Told(r, FALSE, doc, log)
  BY <1>7 DEF Told
<1>10. Noted(r, FALSE, log)
  BY <1>2, <1>3, <1>5, <1>6, <1>8, <1>9 DEF Noted
<1> QED  BY <1>10

LEMMA ResultNotes ==
    ASSUME DispatchSafe, NEW r \in Runs, Exists(r), ResultsIn(r)
    PROVE  \E cites, log : Noted(r, cites, log)
<1>1. PICK d, reason, cites :
        /\ reason \in TerminatedReasons \ {"none"} /\ cites \in BOOLEAN
        /\ cites => DispatchOpen(r, "investigate")
        /\ incident' = IF cites THEN [doc |-> [incident.doc EXCEPT !.cited = TRUE],
                                      version |-> incident.version + 1]
                       ELSE incident
        /\ mover' = IF cites THEN r ELSE mover
        /\ AppendEvents(r, Resulting(cites, d, Termination(reason)))
        /\ runs' = [runs EXCEPT ![r].doc = PatchRun(@, Termination(reason))]
        /\ UNCHANGED <<snapshots, commits>>
  BY DEF ResultsIn
<1> PICK patch : patch = Termination(reason)
  OBVIOUS
<1> PICK log : log = Resulting(cites, d, patch)
  OBVIOUS
<1>2. IsLog(log) /\ log # <<>>
  BY LogsWritten DEF Resulting
<1>3. events' = [events EXCEPT ![r] = events[r] \o log]
  BY <1>1 DEF AppendEvents, DispatchSafe, StoreTypes
<1> PICK doc : doc = PatchRun(runs[r].doc, patch)
  OBVIOUS
<1>4. runs[r] \in RunRows /\ runs[r].doc \in RunDocs
  BY DEF DispatchSafe, StoreTypes, RunRows
<1>5. runs' = [runs EXCEPT ![r] = [doc |-> doc, version |-> runs[r].version]]
  <2>1. runs' = [runs EXCEPT ![r] = [runs[r] EXCEPT !.doc = doc]]
    BY <1>1 DEF DispatchSafe, StoreTypes
  <2>2. [runs[r] EXCEPT !.doc = doc] = [doc |-> doc, version |-> runs[r].version]
    BY <1>4 DEF RunRows
  <2> QED  BY <2>1, <2>2
<1>6. doc \in RunDocs /\ doc.status # "absent" /\ doc.current = runs[r].doc.current
  BY <1>1, <1>4, Terminates
<1>7. ASSUME NEW base, NEW s, IsLog(s), Replay(base, s) \in Views, Replay(base, s).run = runs[r].doc
      PROVE  Replay(base, s \o log) = [incident |-> Cites(Replay(base, s).incident, cites),
                                       run |-> doc, moves |-> Replay(base, s).moves]
  <2> PICK v : v = Replay(base, s)
    OBVIOUS
  <2>1. Replay(base, s \o log) = [incident |-> Cites(v.incident, cites),
                                  run |-> PatchRun(v.run, patch), moves |-> v.moves]
    BY <1>1, <1>7, EndReplayed
  <2> QED  BY <1>7, <2>1
<1>8. Told(r, cites, doc, log)
  BY <1>7 DEF Told
<1>9. Noted(r, cites, log)
  BY <1>1, <1>2, <1>3, <1>5, <1>6, <1>8 DEF Noted
<1> QED  BY <1>9

-----------------------------------------------------------------------------
(* The incident as its runs left it *)

\* A run whose investigation has not ended, and one whose mitigation waits for an answer.
Open(r) == r # DeclarationRun /\ Exists(r) /\ ~Ended(r)
Waiting(r) == runs[r].doc.current = "mitigating"
Lively(r) == Open(r) \/ Waiting(r)

\* The run that last moved the incident left it as it is.  At most one run is open or waits; the
\* open one left the incident as it is, but for hypotheses that were cited since.
Remembered ==
    /\ RowTypes
    /\ \A r \in Runs : Rebuilt(r)
    /\ History(mover).incident = incident.doc
    /\ \A r \in Runs : Open(r) => /\ runs[r].doc.current = "investigating"
                                  /\ CitedSince(History(r).incident, incident.doc)
    /\ \A r \in Runs : Waiting(r) => incident.doc.state = "mitigating"
    /\ \A r, q \in Runs : Lively(r) /\ Lively(q) => r = q

LEMMA KeepsEnd ==
    ASSUME DispatchSafe, NEW r \in Runs, NEW log, IsLog(log), events'[r] = events[r] \o log
    PROVE  Ended(r) => Ended(r)'
<1> PICK s : s = events[r]
  OBVIOUS
<1>1. IsLog(s)
  BY DEF DispatchSafe, StoreTypes
<1>2. At(s \o log, "investigate", "outcome") =
         At(s, "investigate", "outcome") \cup {Len(s) + k : k \in At(log, "investigate", "outcome")}
  BY <1>1, LogGrows
<1>3. Ended(r) <=> At(s, "investigate", "outcome") # {}
  BY ReceiptsAt DEF Ended
<1>4. Ended(r)' <=> At(s \o log, "investigate", "outcome") # {}
  BY ReceiptsAtNext DEF Ended
<1> QED  BY <1>2, <1>3, <1>4

\* Runs that are left alone are as open as they were.
LEMMA OthersLively ==
    ASSUME NEW q \in Runs, events'[q] = events[q], runs'[q] = runs[q]
    PROVE  (Open(q)' <=> Open(q)) /\ (Waiting(q)' <=> Waiting(q))
BY DEF Open, Waiting, Exists, Ended, HasReceipt

\* An open run has the incident under investigation, and so has no other run waiting.
LEMMA OpenInvestigates ==
    ASSUME Remembered, NEW r \in Runs, Open(r)
    PROVE  incident.doc.state = "investigating"
BY DEF Remembered, Rebuilt, CitedSince, Open

LEMMA NotedKeeps ==
    ASSUME DispatchSafe, DispatchSafe', Remembered, NEW r \in Runs, r # DeclarationRun, Exists(r),
           NEW cites, NEW log, Noted(r, cites, log)
    PROVE  Remembered'
<1>1. incident.version \in Nat /\ incident.doc \in Docs /\ mover \in Runs
  BY DEF Remembered, RowTypes, Incidents
<1>2. cites \in BOOLEAN /\ IsLog(log)
  BY DEF Noted
<1>3. events'[r] = events[r] \o log /\ \A q \in Runs : q # r => events'[q] = events[q]
  BY DEF Noted, DispatchSafe, StoreTypes
<1>4. PICK doc :
        /\ runs' = [runs EXCEPT ![r] = [doc |-> doc, version |-> runs[r].version]]
        /\ doc \in RunDocs /\ doc.current = runs[r].doc.current /\ doc.status # "absent"
        /\ Told(r, cites, doc, log)
  BY DEF Noted
<1>5. /\ runs'[r] = [doc |-> doc, version |-> runs[r].version]
      /\ \A q \in Runs : q # r => runs'[q] = runs[q]
  BY <1>4 DEF DispatchSafe, StoreTypes
<1>6. snapshots' = snapshots
  BY DEF Noted
<1>7. incident'.doc = Cites(incident.doc, cites) /\ incident' \in Incidents
      /\ incident.version <= incident'.version /\ incident'.version \in Nat
  <2>1. CASE cites
    <3>1. incident' = [doc |-> [incident.doc EXCEPT !.cited = TRUE], version |-> incident.version + 1]
      BY <2>1 DEF Noted
    <3>2. [incident.doc EXCEPT !.cited = TRUE] \in Docs
      BY <1>1 DEF Docs
    <3> QED  BY <1>1, <2>1, <3>1, <3>2 DEF Cites, Incidents
  <2>2. CASE ~cites
    <3>1. incident' = incident /\ incident \in Incidents
      BY <2>2 DEF Noted, Remembered, RowTypes
    <3> QED  BY <1>1, <2>2, <3>1 DEF Cites
  <2> QED  BY <2>1, <2>2
<1>8. Rebuilt(r)' /\ History(r)'.incident = Cites(History(r).incident, cites)
  <2>1. StoreTypes /\ Rebuilt(r) /\ snapshots'[r] = snapshots[r]
    BY <1>6 DEF DispatchSafe, Remembered
  <2> QED  BY <1>1, <1>2, <1>3, <1>4, <1>5, <1>7, <2>1, EndRebuilds
<1>9. \A q \in Runs : q # r => Rebuilt(q)' /\ History(q)' = History(q)
  <2> SUFFICES ASSUME NEW q \in Runs, q # r PROVE Rebuilt(q)' /\ History(q)' = History(q)
    OBVIOUS
  <2>1. Rebuilt(q) /\ snapshots'[q] = snapshots[q] /\ events'[q] = events[q] /\ runs'[q] = runs[q]
    BY <1>3, <1>5, <1>6 DEF Remembered
  <2> QED  BY <1>1, <1>7, <2>1, OthersStay
<1>10. mover' = (IF cites THEN r ELSE mover) /\ (cites => Open(r))
  BY DEF Noted, Open, DispatchOpen, Ended
<1>11. RowTypes'
  <2>1. mover' \in Runs
    BY <1>1, <1>10
  <2>2. snapshots' = [q \in Runs |-> snapshots'[q]]
    BY <1>6 DEF Remembered, RowTypes
  <2> QED  BY <1>7, <2>1, <2>2 DEF RowTypes
<1>12. Open(r)' => Open(r)
  BY <1>2, <1>3, KeepsEnd DEF Open
<1>13. Waiting(r)' <=> Waiting(r)
  BY <1>4, <1>5 DEF Waiting
<1>14. \A q \in Runs : q # r => (Open(q)' <=> Open(q)) /\ (Waiting(q)' <=> Waiting(q))
  BY <1>3, <1>5, OthersLively
<1>15. incident'.doc.state = incident.doc.state
  BY <1>1, <1>7 DEF Cites, Docs
<1>16. \A q \in Runs : Open(q)' => Open(q)
  BY <1>12, <1>14
<1>17. \A q \in Runs : Waiting(q)' => Waiting(q)
  BY <1>13, <1>14
<1>18. ASSUME NEW h, h \in Docs, CitedSince(h, incident.doc)
       PROVE  /\ CitedSince(Cites(h, cites), incident'.doc)
              /\ cites => Cites(h, cites) = incident'.doc
  BY <1>1, <1>7, <1>18 DEF Cites, CitedSince, Docs
<1>19. \A q \in Runs : Open(q) => /\ runs[q].doc.current = "investigating"
                                  /\ CitedSince(History(q).incident, incident.doc)
                                  /\ History(q).incident \in Docs
  BY DEF Remembered, Rebuilt, Views
<1> PICK m, n : m = mover /\ n = mover'
  OBVIOUS
<1>20. History(n)'.incident = incident'.doc
  <2>1. CASE cites
    <3>1. n = r /\ Open(r)
      BY <1>10, <2>1
    <3>2. Cites(History(r).incident, cites) = incident'.doc
      BY <1>18, <1>19, <2>1, <3>1
    <3> QED  BY <1>8, <3>1, <3>2
  <2>2. CASE ~cites
    <3>1. n = m /\ m \in Runs /\ incident'.doc = incident.doc
      BY <1>1, <1>7, <1>10, <2>2 DEF Cites
    <3>2. History(m).incident = incident.doc
      BY DEF Remembered
    <3>3. History(m)'.incident = History(m).incident
      BY <1>8, <1>9, <2>2, <3>1 DEF Cites
    <3> QED  BY <3>1, <3>2, <3>3
  <2> QED  BY <1>2, <2>1, <2>2
<1>25. (History(mover).incident = incident.doc)'
  BY <1>20 DEF History
<1>21. ASSUME NEW q \in Runs, Open(q)'
       PROVE  runs'[q].doc.current = "investigating" /\ CitedSince(History(q)'.incident, incident'.doc)
  <2>1. Open(q)
    BY <1>16, <1>21
  <2>2. CASE q = r
    <3>1. History(q)'.incident = Cites(History(q).incident, cites)
      BY <1>8, <2>2
    <3> QED  BY <1>4, <1>5, <1>18, <1>19, <2>1, <2>2, <3>1
  <2>3. CASE q # r
    <3>1. ~cites
      BY <1>10, <2>1, <2>3 DEF Remembered, Lively
    <3>2. incident'.doc = incident.doc
      BY <1>7, <3>1 DEF Cites
    <3> QED  BY <1>5, <1>9, <1>19, <2>1, <2>3, <3>2
  <2> QED  BY <2>2, <2>3
<1>22. \A q \in Runs : Waiting(q)' => incident'.doc.state = "mitigating"
  BY <1>15, <1>17 DEF Remembered
<1>23. \A q, o \in Runs : Lively(q)' /\ Lively(o)' => q = o
  BY <1>16, <1>17 DEF Remembered, Lively
<1>24. \A q \in Runs : Rebuilt(q)'
  BY <1>8, <1>9
<1> QED  BY <1>11, <1>21, <1>22, <1>23, <1>24, <1>25 DEF Remembered

\* An advance, unfolded.
LEMMA WroteRows ==
    ASSUME DispatchSafe, Remembered, NEW r \in Runs, NEW t, NEW doc, NEW moved, NEW log,
           Wrote(r, t, doc, moved, log)
    PROVE  /\ events'[r] = (events[r] \o <<StateChange(t, doc, moved)>>) \o log
           /\ \E x : IsLog(x) /\ x # <<>> /\ events'[r] = events[r] \o x
           /\ runs'[r] = [doc |-> moved, version |-> runs[r].version + 1]
           /\ \A q \in Runs : q # r => /\ events'[q] = events[q] /\ runs'[q] = runs[q]
                                       /\ snapshots'[q] = snapshots[q]
           /\ incident.version \in Nat /\ incident'.version = incident.version + 1
           /\ incident'.doc = doc /\ RowTypes'
<1> PICK e, s : e = <<StateChange(t, doc, moved)>> /\ s = events[r]
  OBVIOUS
<1>1. /\ events' = [events EXCEPT ![r] = (s \o e) \o log]
      /\ runs' = [runs EXCEPT ![r] = [doc |-> moved, version |-> runs[r].version + 1]]
      /\ incident' = [doc |-> doc, version |-> incident.version + 1]
      /\ mover' = r /\ doc \in Docs /\ IsLog(log)
  BY DEF Wrote
<1>2. /\ events'[r] = (s \o e) \o log
      /\ \A q \in Runs : q # r => events'[q] = events[q]
      /\ IsLog(s)
  BY <1>1 DEF DispatchSafe, StoreTypes
<1>3. /\ runs'[r] = [doc |-> moved, version |-> runs[r].version + 1]
      /\ \A q \in Runs : q # r => runs'[q] = runs[q]
  BY <1>1 DEF DispatchSafe, StoreTypes
<1>4. PICK snap : snapshots' = [snapshots EXCEPT ![r] = snap]
  BY DEF Wrote
<1>5. snapshots' = [q \in Runs |-> snapshots'[q]] /\ \A q \in Runs : q # r => snapshots'[q] = snapshots[q]
  BY <1>4 DEF Remembered, RowTypes
<1>6. incident.version \in Nat /\ incident' \in Incidents
  BY <1>1 DEF Remembered, RowTypes, Incidents
<1>7. IsLog(e) /\ e # <<>>
  BY LogsWritten
<1> PICK x : x = e \o log
  OBVIOUS
<1>8. (s \o e) \o log = s \o (e \o log) /\ IsLog(e \o log)
  BY ONLY <1>1, <1>2, <1>7, LogParts
<1>9. x # <<>>
  <2>1. e \o log = <<>> => e = <<>>
    BY <1>1, <1>7, LogGrows
  <2> QED  BY <1>7, <2>1
<1>10. IsLog(x) /\ x # <<>> /\ events'[r] = s \o x
  BY <1>2, <1>8, <1>9
<1>11. RowTypes'
  BY <1>1, <1>5, <1>6 DEF RowTypes
<1> QED  BY <1>1, <1>2, <1>3, <1>5, <1>6, <1>10, <1>11

LEMMA AdvanceRebuilds ==
    ASSUME DispatchSafe, Remembered, NEW r \in Runs, NEW t, NEW doc, NEW moved, NEW log,
           Wrote(r, t, doc, moved, log)
    PROVE  /\ History(r)'.incident = doc
           /\ \A q \in Runs : Rebuilt(q)'
           /\ \A q \in Runs : q # r => History(q)' = History(q)
<1>1. /\ events'[r] = (events[r] \o <<StateChange(t, doc, moved)>>) \o log
      /\ runs'[r] = [doc |-> moved, version |-> runs[r].version + 1]
      /\ \A q \in Runs : q # r => /\ events'[q] = events[q] /\ runs'[q] = runs[q]
                                  /\ snapshots'[q] = snapshots[q]
      /\ incident.version \in Nat /\ incident'.version = incident.version + 1
  BY WroteRows
<1>2. /\ doc \in Docs /\ moved \in RunDocs /\ IsLog(log) /\ Carried(log)
      /\ moved.current = doc.state /\ moved.status # "absent"
  BY DEF Wrote
<1>3. PICK due \in BOOLEAN :
          /\ snapshots[r].version = 0 => due
          /\ snapshots' = [snapshots EXCEPT ![r] =
                             IF due THEN [incident |-> doc, run |-> moved,
                                          version |-> runs[r].version + 1,
                                          upto |-> Len(events'[r])]
                             ELSE snapshots[r]]
  BY DEF Wrote
<1>4. snapshots'[r] = IF due THEN [incident |-> doc, run |-> moved,
                                   version |-> runs[r].version + 1, upto |-> Len(events'[r])]
                      ELSE snapshots[r]
  BY <1>3 DEF Remembered, RowTypes
<1>5. StoreTypes /\ Rebuilt(r)
  BY DEF DispatchSafe, Remembered
<1>6. Rebuilt(r)' /\ History(r)'.incident = doc
  BY <1>1, <1>2, <1>3, <1>4, <1>5, MoveRebuilds
<1>7. ASSUME NEW q \in Runs, q # r PROVE Rebuilt(q)' /\ History(q)' = History(q)
  <2>1. /\ Rebuilt(q) /\ snapshots'[q] = snapshots[q] /\ events'[q] = events[q]
        /\ runs'[q] = runs[q]
    BY <1>1, <1>7 DEF Remembered
  <2>2. incident.version <= incident'.version /\ incident'.version \in Nat
    BY <1>1
  <2> QED  BY <1>1, <2>1, <2>2, OthersStay, SMTT(30)
<1> QED  BY <1>6, <1>7

\* The transitions, by the states they are between.
LEMMA SentEdges ==
    ASSUME NEW t \in Sent
    PROVE  /\ t = "start_investigation" =>
                 Workflow[t].from = "active" /\ Workflow[t].to = "investigating"
           /\ t = "continue_investigation" =>
                 Workflow[t].from = "investigating" /\ Workflow[t].to = "investigating"
           /\ t = "propose_mitigation" =>
                 Workflow[t].from = "investigating" /\ Workflow[t].to = "mitigating"
           /\ t \notin {"start_investigation", "continue_investigation", "propose_mitigation"} =>
                 Workflow[t].from \in {"mitigating", "verifying"} /\ Workflow[t].to # "mitigating"
BY DEF Workflow, Transitions, Sent, EdgeOf, Edge

LEMMA AdvanceKeeps ==
    ASSUME DispatchSafe, DispatchSafe', Remembered, NEW r \in Runs, r # DeclarationRun, NEW t,
           NEW doc, NEW moved, NEW log, Wrote(r, t, doc, moved, log), Admitted(r, t, doc)
    PROVE  Remembered'
<1>17. \E x : IsLog(x) /\ x # <<>> /\ events'[r] = events[r] \o x
  BY WroteRows
<1>18. runs'[r] = [doc |-> moved, version |-> runs[r].version + 1]
  BY DEF Wrote, DispatchSafe, StoreTypes
<1>19. /\ \A q \in Runs : q # r => /\ events'[q] = events[q] /\ runs'[q] = runs[q]
                                  /\ snapshots'[q] = snapshots[q]
       /\ incident'.doc = doc /\ RowTypes'
  BY WroteRows, ZenonT(60)
<1>1. /\ \E x : IsLog(x) /\ events'[r] = events[r] \o x
      /\ runs'[r] = [doc |-> moved, version |-> runs[r].version + 1]
      /\ \A q \in Runs : q # r => events'[q] = events[q] /\ runs'[q] = runs[q]
      /\ incident'.doc = doc /\ RowTypes'
  BY <1>17, <1>18, <1>19
<1>2. /\ History(r)'.incident = doc
      /\ \A q \in Runs : Rebuilt(q)'
      /\ \A q \in Runs : q # r => History(q)' = History(q)
  BY AdvanceRebuilds
<1>3. mover' = r /\ doc.state = Workflow[t].to /\ moved.current = doc.state /\ doc \in Docs
  BY DEF Wrote
<1>4. (History(mover).incident = incident.doc)'
  BY <1>1, <1>2, <1>3 DEF History
<1>5. Ended(r) => Ended(r)'
  BY <1>1, KeepsEnd
<1>6. /\ t \in Sent /\ incident.doc.state = Workflow[t].from
      /\ t = "propose_mitigation" => DispatchOpen(r, "investigate")
      /\ t = "continue_investigation" => CitedSince(incident.doc, doc)
      /\ Exists(r) => runs[r].doc.current = incident.doc.state /\ t # "start_investigation"
      /\ ~Exists(r) => \/ t = "start_investigation"
                       \/ t = "continue_investigation" /\ ~BesideLiveRun(incident.doc)
  BY DEF Admitted
<1>7. \A q \in Runs : q # r => (Open(q)' <=> Open(q)) /\ (Waiting(q)' <=> Waiting(q))
  BY <1>1, OthersLively
<1>8. \A q \in Runs : Open(q) => incident.doc.state = "investigating"
  BY OpenInvestigates
<1>9. \A q \in Runs : Waiting(q) => incident.doc.state = "mitigating"
  BY DEF Remembered
<1>10. \A q, o \in Runs : Lively(q) /\ Lively(o) => q = o
  BY DEF Remembered
<1>11. VerifiesAfter(r) /\ VerifiesAfter(r)'
  BY DEF DispatchSafe
<1>12. Waiting(r)' <=> doc.state = "mitigating"
  BY <1>1, <1>3 DEF Waiting
\* Where the run that advances is not the one that was open or waited, nobody was, or the
\* transition goes round an investigation.
<1>13. CASE t = "start_investigation"
  <2>1. incident.doc.state = "active" /\ doc.state = "investigating"
    BY <1>3, <1>6, <1>13, SentEdges
  <2>2. \A q \in Runs : ~Open(q) /\ ~Waiting(q)
    BY <1>8, <1>9, <2>1
  <2>3. \A q \in Runs : Open(q)' => q = r
    BY <1>7, <2>2
  <2>4. \A q \in Runs : ~Waiting(q)'
    BY <1>7, <1>12, <2>1, <2>2
  <2>5. runs'[r].doc.current = "investigating" /\ CitedSince(History(r)'.incident, incident'.doc)
    BY <1>1, <1>2, <1>3, <2>1 DEF CitedSince
  <2> QED  BY <1>1, <1>2, <1>4, <2>3, <2>4, <2>5 DEF Remembered, Lively
<1>14. CASE t = "continue_investigation"
  <2>1. incident.doc.state = "investigating" /\ doc.state = "investigating"
        /\ CitedSince(incident.doc, doc)
    BY <1>3, <1>6, <1>14, SentEdges
  <2>2. \A q \in Runs : ~Waiting(q)'
    BY <1>7, <1>9, <1>12, <2>1
  <2>3. \A q \in Runs : Open(q) => /\ runs[q].doc.current = "investigating"
                                   /\ CitedSince(History(q).incident, incident.doc)
    BY DEF Remembered
  <2>4. runs'[r].doc.current = "investigating" /\ CitedSince(History(r)'.incident, incident'.doc)
    BY <1>1, <1>2, <1>3, <2>1 DEF CitedSince
  <2>5. ASSUME NEW q \in Runs, q # r, Open(q)
        PROVE  /\ runs'[q].doc.current = "investigating"
               /\ CitedSince(History(q)'.incident, incident'.doc)
    <3>1. CitedSince(History(q).incident, incident.doc) /\ History(q)' = History(q)
      BY <1>2, <2>3, <2>5
    <3>2. CitedSince(History(q).incident, doc)
      BY <2>1, <3>1 DEF CitedSince
    <3> QED  BY <1>1, <2>3, <2>5, <3>1, <3>2
  <2>6. Open(r)' => Open(r) \/ \A q \in Runs : ~Open(q)
    <3>1. CASE Exists(r)
      BY <1>5, <3>1 DEF Open
    <3>2. CASE ~Exists(r)
      <4>1. ~BesideLiveRun(incident.doc)
        BY <1>6, <1>14, <3>2
      <4>2. ASSUME NEW q \in Runs, Open(q) PROVE FALSE
        <5>1. VerifiesAfter(q)
          BY DEF DispatchSafe
        <5>2. runs[q].doc.status = "running" /\ runs[q].doc.current = "investigating"
          BY <2>3, <4>2, <5>1 DEF Open, VerifiesAfter
        <5> QED  BY <2>1, <4>1, <5>2 DEF BesideLiveRun, LiveRunStatuses
      <4> QED  BY <4>2
    <3> QED  BY <3>1, <3>2
  <2>7. \A q, o \in Runs : Open(q)' /\ Open(o)' => q = o
    BY <1>7, <1>10, <2>6 DEF Lively
  <2>8. \A q \in Runs : Open(q)' => /\ runs'[q].doc.current = "investigating"
                                    /\ CitedSince(History(q)'.incident, incident'.doc)
    BY <1>7, <2>4, <2>5
  <2> QED  BY <1>1, <1>2, <1>4, <2>2, <2>7, <2>8 DEF Remembered, Lively
<1>15. CASE t = "propose_mitigation"
  <2>1. incident.doc.state = "investigating" /\ doc.state = "mitigating"
    BY <1>3, <1>6, <1>15, SentEdges
  <2>2. Open(r)
    BY <1>6, <1>15 DEF Open, Ended, DispatchOpen
  <2>3. \A q \in Runs : q # r => ~Open(q) /\ ~Waiting(q)
    BY <1>10, <2>2 DEF Lively
  <2>4. ~Open(r)'
    BY <1>11, <1>12, <2>1 DEF Open, VerifiesAfter, Waiting
  <2>5. \A q \in Runs : ~Open(q)'
    BY <1>7, <2>3, <2>4
  <2>6. \A q \in Runs : Waiting(q)' => q = r
    BY <1>7, <2>3
  <2> QED  BY <1>1, <1>2, <1>4, <2>1, <2>5, <2>6 DEF Remembered, Lively
<1>16. CASE t \notin {"start_investigation", "continue_investigation", "propose_mitigation"}
  <2>1. incident.doc.state \in {"mitigating", "verifying"} /\ doc.state # "mitigating"
    BY <1>3, <1>6, <1>16, SentEdges
  <2>2. \A q \in Runs : ~Open(q)
    BY <1>8, <2>1
  <2>3. Exists(r) /\ runs[r].doc.current = incident.doc.state
    BY <1>6, <1>16
  <2>4. Ended(r)
    BY <1>11, <2>1, <2>3 DEF VerifiesAfter
  <2>5. \A q \in Runs : ~Open(q)'
    BY <1>5, <1>7, <2>2, <2>4 DEF Open
  <2>6. \A q \in Runs : Waiting(q) => q = r
    BY <1>9, <1>10, <2>3 DEF Lively, Waiting
  <2>7. \A q \in Runs : ~Waiting(q)'
    BY <1>7, <1>12, <2>1, <2>6
  <2> QED  BY <1>1, <1>2, <1>4, <2>5, <2>7 DEF Remembered, Lively
<1> QED  BY <1>13, <1>14, <1>15, <1>16

-----------------------------------------------------------------------------
(* What is handed over is never the declaration *)

\* A run whose investigation ended does not get back to a mitigation that waits.
LEMMA AnsweredStays ==
    ASSUME DispatchSafe, Remembered, Placing, Shaped, NEW r \in Runs, Ended(r), ~Waiting(r)
    PROVE  ~Waiting(r)'
<1>1. CASE Stands
  BY <1>1 DEF Stands, Waiting
<1>2. ASSUME NEW q \in Runs, Exists(q), Claims(q) \/ Ends(q) PROVE ~Waiting(r)'
  <2>1. PICK cites, log : Noted(q, cites, log)
    BY <1>2, ClaimNotes, EndNotes, ResultNotes DEF Ends
  <2>2. PICK doc : /\ runs' = [runs EXCEPT ![q] = [doc |-> doc, version |-> runs[q].version]]
                   /\ doc.current = runs[q].doc.current
    BY <2>1 DEF Noted
  <2> QED  BY <2>2 DEF DispatchSafe, StoreTypes, Waiting
<1>3. ASSUME NEW q \in Runs, Advances(q) PROVE ~Waiting(r)'
  <2>1. PICK t, doc, moved, log : Wrote(q, t, doc, moved, log) /\ Admitted(q, t, doc)
    BY <1>3, AdvanceWrites DEF Remembered
  <2>2. /\ runs' = [runs EXCEPT ![q] = [doc |-> moved, version |-> runs[q].version + 1]]
        /\ moved.current = Workflow[t].to
    BY <2>1 DEF Wrote
  <2>3. CASE r # q
    BY <2>2, <2>3 DEF DispatchSafe, StoreTypes, Waiting
  <2>4. CASE r = q
    <3>1. t \in Sent /\ t # "propose_mitigation"
      BY <2>1, <2>4 DEF Admitted, DispatchOpen, Ended
    <3>2. Workflow[t].to # "mitigating"
      BY <3>1, SentEdges
    <3> QED  BY <2>2, <2>4, <3>2 DEF DispatchSafe, StoreTypes, Waiting
  <2> QED  BY <2>3, <2>4
<1> QED  BY <1>1, <1>2, <1>3 DEF Shaped

\* The declaration's own run is left alone, and every commit is of another run.
LEMMA DeclarationStays ==
    ASSUME DispatchSafe, Remembered, Placing, Shaped
    PROVE  DeclarationStands' /\ \A k \in commits' : k.run # DeclarationRun
<1>1. DeclarationStands /\ \A k \in commits : k.run # DeclarationRun
  BY DEF Placing
<1>2. DeclarationRun \in Runs
  BY StoreAssumption
<1>3. CASE Stands
  BY <1>1, <1>3 DEF Stands, DeclarationStands, Exists
<1>4. ASSUME NEW q \in Runs \ {DeclarationRun}, Exists(q), Claims(q) \/ Ends(q)
      PROVE  DeclarationStands' /\ \A k \in commits' : k.run # DeclarationRun
  <2>1. PICK cites, log : Noted(q, cites, log)
    BY <1>4, ClaimNotes, EndNotes, ResultNotes DEF Ends
  <2>2. PICK x, l : runs' = [runs EXCEPT ![q] = x] /\ events' = [events EXCEPT ![q] = l]
    BY <2>1 DEF Noted
  <2>3. /\ runs'[DeclarationRun] = runs[DeclarationRun]
        /\ events'[DeclarationRun] = events[DeclarationRun]
    BY <1>2, <1>4, <2>2 DEF DispatchSafe, StoreTypes
  <2> QED  BY <1>1, <2>1, <2>3 DEF DeclarationStands, Exists, Noted
<1>5. ASSUME NEW q \in Runs \ {DeclarationRun}, Advances(q)
      PROVE  DeclarationStands' /\ \A k \in commits' : k.run # DeclarationRun
  <2>1. PICK t, doc, moved, log : Wrote(q, t, doc, moved, log)
    BY <1>5, AdvanceWrites DEF Remembered
  <2>2. /\ runs' = [runs EXCEPT ![q] = [doc |-> moved, version |-> runs[q].version + 1]]
        /\ events' = [events EXCEPT ![q] = (events[q] \o <<StateChange(t, doc, moved)>>) \o log]
        /\ \E k : k.run = q /\ commits' = commits \cup {k}
    BY <2>1 DEF Wrote
  <2>3. /\ runs'[DeclarationRun] = runs[DeclarationRun]
        /\ events'[DeclarationRun] = events[DeclarationRun]
    BY <1>2, <1>5, <2>2 DEF DispatchSafe, StoreTypes
  <2> QED  BY <1>1, <1>5, <2>2, <2>3 DEF DeclarationStands, Exists
<1> QED  BY <1>3, <1>4, <1>5 DEF Shaped

\* What one process is handed, or goes on with.
LEMMA PlacingKept ==
    ASSUME DispatchSafe, Remembered, Placing, Shaped, NEW p \in Processes,
           \A q \in Processes : q # p => /\ worker'[q] = worker[q] /\ hooks'[q] = hooks[q]
                                         /\ sweep'[q] = sweep[q],
           worker'[p] # Idle =>
               \/ /\ worker[p] # Idle
                  /\ worker'[p].run = worker[p].run /\ worker'[p].dispatch = worker[p].dispatch
               \/ Placed(worker[p].run, worker[p].dispatch)',
           \A h \in hooks'[p] : h \in hooks[p] \/ Placed(h.run, h.kind)',
           DeclarationRun \notin sweep'[p]
    PROVE  Placing'
<1>1. DeclarationStands' /\ \A k \in commits' : k.run # DeclarationRun
  BY DeclarationStays
<1>2. ASSUME NEW r \in Runs, NEW d, Placed(r, d), d = "verify" => Ended(r)
      PROVE  Placed(r, d)'
  BY <1>2, AnsweredStays DEF Placed, Waiting
<1>3. ASSUME NEW q \in Processes, NEW r, NEW d, worker[q] # Idle, r = worker[q].run,
             d = worker[q].dispatch
      PROVE  Placed(r, d)'
  <2>1. WorkerSound(worker[q]) /\ Placed(r, d)
    BY <1>3 DEF DispatchSafe, Processing, Placing
  <2>2. r \in Runs /\ (d = "verify" => Ended(r))
    BY <1>3, <2>1 DEF WorkerSound, IsWorker
  <2> QED  BY <1>2, <2>1, <2>2
<1>4. ASSUME NEW q \in Processes, NEW h \in hooks[q]
      PROVE  Placed(h.run, h.kind)'
  <2>1. HookSound(h) /\ Placed(h.run, h.kind)
    BY <1>4 DEF DispatchSafe, Processing, Placing
  <2> QED  BY <1>2, <2>1 DEF HookSound
<1>5. ASSUME NEW q \in Processes, worker'[q] # Idle
      PROVE  Placed(worker[q].run, worker[q].dispatch)'
  <2> PICK r, d : r = worker'[q].run /\ d = worker'[q].dispatch
    OBVIOUS
  <2>1. Placed(r, d)'
    <3>1. CASE worker[q] # Idle /\ r = worker[q].run /\ d = worker[q].dispatch
      BY <1>3, <3>1
    <3>2. CASE q = p /\ Placed(worker[p].run, worker[p].dispatch)'
      BY <3>2 DEF Placed
    <3> QED  BY <1>5, <3>1, <3>2
  <2> QED  BY <2>1 DEF Placed
<1>6. \A q \in Processes : \A h \in hooks'[q] : Placed(h.run, h.kind)'
  BY <1>4
<1>7. \A q \in Processes : DeclarationRun \notin sweep'[q]
  BY DEF Placing
<1> QED  BY <1>1, <1>5, <1>6, <1>7 DEF Placing

\* A process that goes on with its dispatch or leaves it.
LEMMA WorkPlaced ==
    ASSUME DispatchSafe, Remembered, Placing, Shaped, NEW p \in Processes,
           Work(p) \/ ClaimFails(p) \/ FinishFails(p) \/ LoseLock(p)
    PROVE  Placing'
<1> PICK w : w = worker[p]
  OBVIOUS
<1>1. /\ w.pc # "idle" /\ w # Idle /\ IsWorker(w) /\ Placed(w.run, w.dispatch)
  <2>1. w.pc # "idle"
    <3>1. CASE Work(p)
      BY <3>1 DEF Work, Claim, Read, Finish, EndsWithoutResult, Continue, ProposeMitigation,
                  VerifyMitigation, EndsWithResult
    <3>2. CASE ClaimFails(p) \/ FinishFails(p)
      BY <3>2 DEF ClaimFails, FinishFails
    <3>3. CASE LoseLock(p)
      <4>1. w # Idle /\ WorkerSound(w)
        BY <3>3 DEF LoseLock, DispatchSafe, Processing
      <4>2. Idle.pc = "idle"
        BY DEF Idle
      <4> QED  BY <4>1, <4>2, SMTT(30) DEF WorkerSound, IsWorker
    <3> QED
      <4>1. LoseLock(p) \/ ClaimFails(p) \/ FinishFails(p) => w.pc # "idle"
        BY <3>2, <3>3, ZenonT(60)
      <4> QED  BY <3>1, <4>1
  <2> QED  BY <2>1, WorkerFacts, WorkerPlaced
<1> PICK r, d : r = w.run /\ d = w.dispatch
  OBVIOUS
<1>2. r # DeclarationRun
  BY <1>1 DEF Placed
<1>3. PICK v : /\ worker' = [worker EXCEPT ![p] = v]
               /\ v = Idle \/ (v.run = r /\ v.dispatch = d)
  <2>1. CASE \E pc : worker' = [worker EXCEPT ![p].pc = pc]
    <3>1. PICK pc : worker' = [worker EXCEPT ![p].pc = pc]
      BY <2>1
    <3>2. PICK v : v = [w EXCEPT !.pc = pc]
      OBVIOUS
    <3>3. worker' = [worker EXCEPT ![p] = v] /\ v.run = r /\ v.dispatch = d
      BY <1>1, <3>1, <3>2 DEF DispatchSafe, Processing, IsWorker, WorkerFields
    <3> QED  BY <3>3
  <2>2. CASE worker' = [worker EXCEPT ![p] = Idle]
    BY <2>2
  <2>3. CASE \E pc : worker' = [worker EXCEPT ![p].pc = pc, ![p].locked = TRUE]
    <3>1. PICK pc : worker' = [worker EXCEPT ![p].pc = pc, ![p].locked = TRUE]
      BY <2>3
    <3>2. PICK v : v = [w EXCEPT !.pc = pc, !.locked = TRUE]
      OBVIOUS
    <3>3. worker' = [worker EXCEPT ![p] = v] /\ v.run = r /\ v.dispatch = d
      BY <1>1, <3>1, <3>2 DEF DispatchSafe, Processing, IsWorker, WorkerFields
    <3> QED  BY <3>3
  <2>4. CASE Read(p)
    <3>1. PICK pc, view : worker' = [worker EXCEPT ![p].pc = pc, ![p].view = view]
      BY <2>4 DEF Read
    <3>2. PICK v : v = [w EXCEPT !.pc = pc, !.view = view]
      OBVIOUS
    <3>3. worker' = [worker EXCEPT ![p] = v] /\ v.run = r /\ v.dispatch = d
      BY <1>1, <3>1, <3>2 DEF DispatchSafe, Processing, IsWorker, WorkerFields
    <3> QED  BY <3>3
  <2>5. CASE LoseLock(p)
    <3>1. worker' = [worker EXCEPT ![p].locked = FALSE]
      BY <2>5 DEF LoseLock
    <3>2. PICK v : v = [w EXCEPT !.locked = FALSE]
      OBVIOUS
    <3>3. worker' = [worker EXCEPT ![p] = v] /\ v.run = r /\ v.dispatch = d
      BY <1>1, <3>1, <3>2 DEF DispatchSafe, Processing, IsWorker, WorkerFields
    <3> QED  BY <3>3
  <2>6. CASE Claim(p)
    BY <2>2, <2>3, <2>6 DEF Claim, ClaimDispatch
  <2>7. CASE Finish(p) \/ EndsWithoutResult(p)
    BY <2>2, <2>7 DEF Finish, EndsWithoutResult
  <2>8. CASE Continue(p)
    BY <2>1, <2>8 DEF Continue
  <2>9. CASE EndsWithResult(p)
    BY <2>1, <2>2, <2>9 DEF EndsWithResult
  <2>10. CASE ProposeMitigation(p) \/ VerifyMitigation(p)
    BY <2>1, <2>2, <2>10 DEF ProposeMitigation, VerifyMitigation, Outcome
  <2>11. CASE ClaimFails(p)
    BY <2>1, <2>2, <2>11 DEF ClaimFails
  <2>12. CASE FinishFails(p)
    <3>1. PICK v : v = Busied(p, "endclaim", r, d)
      OBVIOUS
    <3>2. worker' = [worker EXCEPT ![p] = v] \/ worker' = [worker EXCEPT ![p] = Idle]
      BY <2>12, <3>1 DEF FinishFails
    <3>3. v.run = r /\ v.dispatch = d
      BY <3>1 DEF Busied
    <3> QED  BY <3>2, <3>3
  <2> QED  BY <2>4, <2>5, <2>6, <2>7, <2>8, <2>9, <2>10, <2>11, <2>12 DEF Work
<1>4. sweep' = sweep /\ (hooks' = hooks \/ AddHook(p, Hook("reinvestigate", r)))
  <2>1. CASE ProposeMitigation(p) \/ VerifyMitigation(p)
    BY <2>1 DEF ProposeMitigation, VerifyMitigation, Outcome
  <2>2. CASE ~(ProposeMitigation(p) \/ VerifyMitigation(p))
    BY <2>2 DEF Work, Claim, Read, Finish, EndsWithoutResult, Continue, EndsWithResult, ClaimFails,
                FinishFails, LoseLock
  <2> QED  BY <2>1, <2>2
<1>5. worker'[p] = v /\ \A q \in Processes : q # p => worker'[q] = worker[q]
  BY <1>3 DEF DispatchSafe, Processing
<1>6. Placed(Hook("reinvestigate", r).run, Hook("reinvestigate", r).kind)'
  BY <1>2 DEF Placed, Hook
<1>7. /\ \A h \in hooks'[p] : h \in hooks[p] \/ Placed(h.run, h.kind)'
      /\ \A q \in Processes : q # p => hooks'[q] = hooks[q]
  <2>1. CASE hooks' = hooks
    BY <2>1
  <2>2. CASE hooks' = [hooks EXCEPT ![p] = hooks[p] \cup {Hook("reinvestigate", r)}]
    BY <1>6, <2>2 DEF DispatchSafe, Processing
  <2> QED  BY <1>4, <2>1, <2>2 DEF AddHook
<1>8. DeclarationRun \notin sweep'[p] /\ \A q \in Processes : sweep'[q] = sweep[q]
  BY <1>4 DEF Placing
<1> QED  BY <1>1, <1>3, <1>5, <1>7, <1>8, PlacingKept

\* A process that is handed work, or whose work goes.
LEMMA HandedPlaced ==
    ASSUME DispatchSafe, Remembered, Placing, Shaped, NEW p \in Processes, NEW hs,
           hooks' = [hooks EXCEPT ![p] = hs],
           \A h \in hs : h \in hooks[p] \/ Placed(h.run, h.kind)',
           UNCHANGED <<worker, sweep>>
    PROVE  Placing'
<1>1. hooks'[p] = hs /\ \A q \in Processes : q # p => hooks'[q] = hooks[q]
  BY DEF DispatchSafe, Processing
<1>2. DeclarationRun \notin sweep'[p]
  BY DEF Placing
<1> QED  BY <1>1, <1>2, PlacingKept

LEMMA StartPlaced ==
    ASSUME DispatchSafe, Remembered, Placing, Shaped, NEW p \in Processes, StartInvestigation(p)
    PROVE  Placing'
<1>1. PICK r : /\ AddHook(p, Hook("dispatch", r))
               /\ ~Exists(r) \/ Investigates(r)
  BY DEF StartInvestigation
<1>2. r # DeclarationRun
  BY <1>1, DeclarationUnclaimed DEF Placing, DeclarationStands
<1> PICK h : h = Hook("dispatch", r)
  OBVIOUS
<1>3. Placed(h.run, h.kind)'
  BY <1>2 DEF Placed, Hook
<1>4. hooks' = [hooks EXCEPT ![p] = hooks[p] \cup {h}]
  BY <1>1 DEF AddHook
<1> QED  BY <1>3, <1>4, HandedPlaced DEF StartInvestigation

LEMMA AnswerPlaced ==
    ASSUME DispatchSafe, Remembered, Placing, Shaped, NEW p \in Processes, Answer(p)
    PROVE  Placing'
<1> DEFINE send(r, t, executed) ==
              [Command(Key("human", r, incident.version), r, t, "human") EXCEPT
                 !.approval = (t = "apply_mitigation"), !.expected = incident.version,
                 !.outcome = IF t = "reject_mitigation" THEN "reject" ELSE "default",
                 !.executed = executed]
           answers == {"apply_mitigation", "reject_mitigation", "verification_passed",
                       "verification_failed"}
<1>1. PICK r \in Runs, t \in answers, executed \in BOOLEAN :
         /\ executed => t = "apply_mitigation"
         /\ Apply(send(r, t, executed), runs[r], <<>>)
         /\ CASE executed                   -> AddHook(p, Hook("verify", r))
              [] t = "verification_failed"  -> AddHook(p, Hook("reinvestigate", r))
              [] OTHER                      -> UNCHANGED hooks
  BY ZenonT(60) DEF Answer
<1>2. PICK cmd : cmd = send(r, t, executed)
  OBVIOUS
<1>3. cmd.run = r /\ cmd.transition = t /\ cmd.operation = FALSE /\ cmd.executed = executed
  BY <1>2 DEF Command
<1>4. SentCommand(cmd)
  BY <1>1, <1>3 DEF SentCommand, Sent
<1>5. Apply(cmd, runs[r], <<>>)
  BY <1>1, <1>2
<1>6. IsLog(<<>>) /\ Carried(<<>>) /\ runs[r] \in RunRows /\ RowTypes
  BY LogsWritten DEF Carried, DispatchSafe, StoreTypes, Remembered
<1>7. PICK doc, moved : /\ Wrote(r, t, doc, moved, <<>>)
                        /\ runs[r].doc.current = Workflow[t].from
  BY <1>3, <1>4, <1>5, <1>6, ApplyWrites
<1>8. r # DeclarationRun
  <2>1. Workflow[t].from # "active"
    BY DEF Workflow, Transitions, EdgeOf, Edge
  <2> QED  BY <1>7, <2>1 DEF Placing, DeclarationStands
<1>9. runs'[r].doc.current = Workflow[t].to
  BY <1>7 DEF Wrote, DispatchSafe, StoreTypes
<1>10. executed => runs'[r].doc.current # "mitigating"
  <2>1. Workflow["apply_mitigation"].to = "verifying"
    BY DEF Workflow, Transitions, EdgeOf, Edge
  <2> QED  BY <1>1, <1>9, <2>1
<1>11. UNCHANGED <<worker, sweep>>
  BY DEF Answer
<1>12. ASSUME NEW kind \in {"verify", "reinvestigate"}, kind = "verify" => executed,
              AddHook(p, Hook(kind, r))
       PROVE  Placing'
  <2> PICK h : h = Hook(kind, r)
    OBVIOUS
  <2>1. Placed(h.run, h.kind)'
    BY <1>8, <1>10, <1>12 DEF Placed, Hook
  <2> PICK hs : hs = hooks[p] \cup {h}
    OBVIOUS
  <2>2. hooks' = [hooks EXCEPT ![p] = hs]
    BY <1>12 DEF AddHook
  <2>3. \A o \in hs : o \in hooks[p] \/ Placed(o.run, o.kind)'
    BY <2>1
  <2> QED  BY <1>11, <2>2, <2>3, HandedPlaced
<1>13. CASE UNCHANGED hooks
  <2>1. hooks' = [hooks EXCEPT ![p] = hooks[p]]
    BY <1>13 DEF DispatchSafe, Processing
  <2> QED  BY <1>11, <2>1, HandedPlaced
<1> QED  BY <1>1, <1>12, <1>13

LEMMA ReinvestigatePlaced ==
    ASSUME DispatchSafe, Remembered, Placing, Shaped, NEW p \in Processes,
           Reinvestigate(p) \/ ReinvestigateFails(p)
    PROVE  Placing'
<1>1. UNCHANGED <<worker, sweep>>
  BY DEF Reinvestigate, ReinvestigateFails
<1>2. PICK hook :
         \/ hooks' = [hooks EXCEPT ![p] = hooks[p] \ {hook}]
         \/ \E r \in Runs :
               /\ ~Exists(r) \/ \E k \in commits : r = k.run
               /\ hooks' = [hooks EXCEPT ![p] = (hooks[p] \ {hook}) \cup {Hook("dispatch", r)}]
  <2>1. \A k \in commits : k.run \in Runs
    BY DEF DispatchSafe, CommitsRun
  <2>2. CASE Reinvestigate(p)
    BY <2>1, <2>2 DEF Reinvestigate
  <2>3. CASE ReinvestigateFails(p)
    BY <2>3 DEF ReinvestigateFails
  <2> QED  BY <2>2, <2>3
<1>3. CASE hooks' = [hooks EXCEPT ![p] = hooks[p] \ {hook}]
  BY <1>1, <1>3, HandedPlaced
<1>4. ASSUME NEW r \in Runs, ~Exists(r) \/ \E k \in commits : r = k.run,
             hooks' = [hooks EXCEPT ![p] = (hooks[p] \ {hook}) \cup {Hook("dispatch", r)}]
      PROVE  Placing'
  <2>1. r # DeclarationRun
    BY <1>4 DEF Placing, DeclarationStands
  <2> PICK h : h = Hook("dispatch", r)
    OBVIOUS
  <2>2. Placed(h.run, h.kind)'
    BY <2>1 DEF Placed, Hook
  <2> QED  BY <1>1, <1>4, <2>2, HandedPlaced
<1> QED  BY <1>2, <1>3, <1>4

LEMMA HandOffPlaced ==
    ASSUME DispatchSafe, Remembered, Placing, Shaped, NEW p \in Processes, HandOff(p)
    PROVE  Placing'
<1>1. PICK hook, w :
         /\ hook \in hooks[p]
         /\ hooks' = [hooks EXCEPT ![p] = hooks[p] \ {hook}]
         /\ worker' = [worker EXCEPT ![p] = w]
         /\ \/ w = Idle
            \/ w = Busied(p, "claim", hook.run, "investigate")
            \/ /\ w = Busied(p, "claim", hook.run, "verify")
               /\ runs[hook.run].doc.current = "verifying"
  BY DEF HandOff, Aligned
<1>2. UNCHANGED <<storeVars, sweep>>
  BY DEF HandOff
<1>3. hook.run # DeclarationRun
  BY <1>1 DEF Placing, Placed
<1>4. w # Idle => Placed(w.run, w.dispatch)'
  <2>1. CASE w = Busied(p, "claim", hook.run, "investigate")
    BY <1>3, <2>1 DEF Placed, Busied
  <2>2. CASE /\ w = Busied(p, "claim", hook.run, "verify")
             /\ runs[hook.run].doc.current = "verifying"
    BY <1>2, <1>3, <2>2 DEF Placed, Busied, storeVars
  <2> QED  BY <1>1, <2>1, <2>2
<1>5. /\ worker'[p] = w /\ hooks'[p] = hooks[p] \ {hook}
      /\ \A q \in Processes : q # p => worker'[q] = worker[q] /\ hooks'[q] = hooks[q]
  BY <1>1 DEF DispatchSafe, Processing
<1>6. worker'[p] # Idle => Placed(worker[p].run, worker[p].dispatch)'
  BY <1>4, <1>5 DEF Placed
<1>7. DeclarationRun \notin sweep'[p] /\ \A q \in Processes : sweep'[q] = sweep[q]
  BY <1>2 DEF Placing
<1>8. \A h \in hooks'[p] : h \in hooks[p]
  BY <1>5
<1> QED  BY <1>5, <1>6, <1>7, <1>8, PlacingKept

LEMMA ProcessPlaced ==
    ASSUME DispatchSafe, Remembered, Placing, Shaped, NEW p \in Processes,
           Crash(p) \/ Restart(p) \/ Sweep(p)
    PROVE  Placing'
<1>1. CASE Crash(p)
  <2>1. /\ worker'[p] = Idle /\ hooks'[p] = {} /\ sweep'[p] = {}
        /\ \A q \in Processes : q # p => /\ worker'[q] = worker[q] /\ hooks'[q] = hooks[q]
                                         /\ sweep'[q] = sweep[q]
    BY <1>1 DEF Crash, DispatchSafe, Processing
  <2> QED  BY <2>1, PlacingKept
<1>2. CASE Restart(p)
  <2>1. /\ worker' = worker /\ hooks' = hooks /\ sweep'[p] = Interrupted
        /\ \A q \in Processes : q # p => sweep'[q] = sweep[q]
    BY <1>2 DEF Restart, DispatchSafe, Processing
  <2>2. DeclarationRun \notin Interrupted
    BY DeclarationUnclaimed DEF Interrupted, Placing, Dispatches
  <2> QED  BY <2>1, <2>2, PlacingKept
<1>3. CASE Sweep(p)
  <2>1. PICK s : sweep' = [sweep EXCEPT ![p] = s] /\ s \subseteq sweep[p] /\ hooks' = hooks
    <3>1. sweep = [sweep EXCEPT ![p] = sweep[p]]
      BY DEF DispatchSafe, Processing
    <3> QED  BY <1>3, <3>1 DEF Sweep
  <2>2. /\ sweep'[p] = s /\ DeclarationRun \notin s
        /\ \A q \in Processes : q # p => sweep'[q] = sweep[q]
    BY <2>1 DEF DispatchSafe, Processing, Placing
  <2>3. CASE worker' = worker
    BY <2>1, <2>2, <2>3, PlacingKept
  <2>4. ASSUME NEW r \in sweep[p],
               worker' = [worker EXCEPT ![p] = Busied(p, "endclaim", r, "investigate")]
        PROVE  Placing'
    <3>1. /\ worker'[p].run = r /\ worker'[p].dispatch = "investigate"
          /\ \A q \in Processes : q # p => worker'[q] = worker[q]
      BY <2>4 DEF DispatchSafe, Processing, Busied
    <3>2. Placed(worker[p].run, worker[p].dispatch)'
      BY <3>1 DEF Placed, Placing
    <3> QED  BY <2>1, <2>2, <3>1, <3>2, PlacingKept
  <2> QED  BY <1>3, <2>3, <2>4 DEF Sweep
<1> QED  BY <1>1, <1>2, <1>3

LEMMA NextPlaced == DispatchSafe /\ Remembered /\ Placing /\ [Next]_vars => Placing'
<1> SUFFICES ASSUME DispatchSafe, Remembered, Placing, [Next]_vars PROVE Placing'
  OBVIOUS
<1>1. Shaped
  BY NextShaped
<1>2. CASE UNCHANGED vars
  BY <1>2 DEF vars, Placing, DeclarationStands, Placed, Exists
<1> QED  BY <1>1, <1>2, WorkPlaced, HandOffPlaced, ReinvestigatePlaced, StartPlaced, AnswerPlaced,
            ProcessPlaced DEF Next

-----------------------------------------------------------------------------
(* The incident and its history *)

LEMMA NextRemembered ==
    DispatchSafe /\ DispatchSafe' /\ Remembered /\ Shaped => Remembered'
<1> SUFFICES ASSUME DispatchSafe, DispatchSafe', Remembered, Shaped PROVE Remembered'
  OBVIOUS
<1>1. CASE Stands
  <2>1. UNCHANGED <<incident, runs, events, snapshots, mover>>
    BY <1>1 DEF Stands
  <2> QED  BY <2>1 DEF Remembered, RowTypes, Rebuilt, SnapshotIsHistory, project_snapshot, Reconstruct,
                     History, Replay, Exists, Open, Waiting, Lively, Ended, HasReceipt, CitedSince
<1>2. ASSUME NEW r \in Runs \ {DeclarationRun}, Exists(r), Claims(r) \/ Ends(r) PROVE Remembered'
  <2>1. PICK cites, log : Noted(r, cites, log)
    BY <1>2, ClaimNotes, EndNotes, ResultNotes DEF Ends
  <2> QED  BY <1>2, <2>1, NotedKeeps
<1>3. ASSUME NEW r \in Runs \ {DeclarationRun}, Advances(r) PROVE Remembered'
  <2>1. PICK t, doc, moved, log : Wrote(r, t, doc, moved, log) /\ Admitted(r, t, doc)
    BY <1>3, AdvanceWrites DEF Remembered
  <2> QED  BY <1>3, <2>1, AdvanceKeeps
<1> QED  BY <1>1, <1>2, <1>3 DEF Shaped

\* The declaration is its run's whole history; the other runs have none.
LEMMA InitRemembered == Init => Remembered /\ Placing
<1> SUFFICES ASSUME Init PROVE Remembered /\ Placing
  OBVIOUS
<1> USE DEF Init, Declared
<1> PICK first, absent : first = NewRun("active").doc /\ absent = AbsentRun.doc
  OBVIOUS
<1>1. /\ first \in RunDocs /\ absent \in RunDocs /\ NewRun("active") = [doc |-> first, version |-> 0]
      /\ first.status = "running" /\ first.current = "active"
      /\ AbsentRun = [doc |-> absent, version |-> 0]
      /\ absent.status = "absent" /\ absent.current = "detected"
  BY DEF NewRun, AbsentRun, RunDocs, RunStatuses, LiveRunStatuses, States, PendingCommands,
         TerminatedReasons
<1>2. DeclaredDoc \in Docs /\ DeclaredDoc.state = "active"
  BY DEF DeclaredDoc, Docs, States, Mitigations, NoMitigation
<1> PICK e, doc : e = StateChange("triage_declare", DeclaredDoc, first) /\ doc = DeclaredDoc
  OBVIOUS
<1>3. /\ incident = [doc |-> doc, version |-> 1] /\ mover = DeclarationRun
      /\ events[DeclarationRun] = One(e) /\ \A r \in Runs : r # DeclarationRun => events[r] = <<>>
      /\ runs[DeclarationRun] = [doc |-> first, version |-> 1]
      /\ \A r \in Runs : r # DeclarationRun => runs[r] = [doc |-> absent, version |-> 0]
      /\ snapshots[DeclarationRun] = [incident |-> doc, run |-> first, version |-> 1, upto |-> 1]
      /\ \A r \in Runs : r # DeclarationRun =>
            snapshots[r] = [incident |-> doc, run |-> absent, version |-> 0, upto |-> 0]
      /\ DeclarationRun \in Runs
  BY <1>1, StoreAssumption DEF One
<1>4. RowTypes
  BY <1>2, <1>3 DEF RowTypes, Incidents
<1> PICK w : w = [incident |-> doc, run |-> first, moves |-> 1]
  OBVIOUS
<1> PICK b : b = [incident |-> doc, run |-> absent, moves |-> 0]
  OBVIOUS
<1>5. Blank = b /\ Replay(Blank, <<>>) = b /\ b \in Views
  BY <1>1, <1>2, ReplayNone DEF Blank, Replay, Views
<1>6. History(DeclarationRun) = w
  <2>1. IsLog(<<>>) /\ <<>> \o One(e) = One(e)
    <3>1. IsLog(<<>>)
      BY SMTT(30) DEF IsLog
    <3>2. One(e) \in Seq({e})
      BY DEF One
    <3> QED  BY <3>1, <3>2, ConcatEmptySeq
  <2> PICK z, base : z = <<>> /\ base = Blank
    OBVIOUS
  <2>2. Replay(Blank, <<>> \o One(e)) = ReplayEvent(Replay(Blank, <<>>), e)
    <3>1. IsLog(z)
      BY <2>1
    <3>2. Replay(base, z \o One(e)) = ReplayEvent(Replay(base, z), e)
      BY ONLY <3>1, ReplayOne
    <3> QED  BY <3>2
  <2>3. ReplayEvent(b, StateChange("triage_declare", doc, first)) =
           [incident |-> doc, run |-> first, moves |-> b.moves + 1]
    BY ONLY ChangeReplayed
  <2>4. ReplayEvent(b, e) = w
    <3>1. b.moves + 1 = 1
      OBVIOUS
    <3> QED  BY <2>3, <3>1
  <2> QED  BY <1>3, <1>5, <2>1, <2>2, <2>4 DEF History
<1>7. w \in Views
  BY <1>1, <1>2 DEF Views
<1>8. Rebuilt(DeclarationRun)
  <2> PICK r : r = DeclarationRun
    OBVIOUS
  <2> PICK v : v = [incident |-> doc, run |-> first, moves |-> 0]
    OBVIOUS
  <2>1. /\ events[r] = One(e) /\ Len(events[r]) = 1
        /\ SubSeq(events[r], 1, 1) = One(e) /\ SubSeq(events[r], 2, 1) = <<>>
    <3>1. events[r] = <<e>>
      BY <1>3 DEF One
    <3> HIDE DEF Init, Declared
    <3>2. Len(<<e>>) = 1 /\ SubSeq(<<e>>, 1, 1) = <<e>> /\ SubSeq(<<e>>, 2, 1) = <<>>
      <4> PICK n, S, l : n = 1 /\ S = {e} /\ l = <<e>>
        OBVIOUS
      <4>1. l \in Seq(S) /\ Len(l) = n
        OBVIOUS
      <4>2. SubSeq(l, n, Len(l)) = l
        BY <4>1, SubSeqFull
      <4>3. SubSeq(l, n + 1, n) = <<>>
        BY <4>1, SubSeqEmpty
      <4> QED  BY <4>1, <4>2, <4>3
    <3> QED  BY <3>1, <3>2 DEF One
  <2>2. /\ snapshots[r] = [incident |-> doc, run |-> first, version |-> 1, upto |-> 1]
        /\ runs[r] = [doc |-> first, version |-> 1]
    BY <1>3
  <2>3. Reconstruct(r) = v
    <3>1. snapshots[r].upto + 1 = 2 /\ AfterBase(r) = <<>>
      BY ONLY <2>1, <2>2 DEF AfterBase
    <3>2. Base(r) = v
      BY <2>2 DEF Base
    <3> QED  BY <3>1, <3>2, ReconstructIs, ReplayNone DEF Replay
  <2>4. SnapshotIsHistory(r, project_snapshot(r))
    <3>1. FoldLeft(ReplayEvent, Blank, SubSeq(events[r], 1, snapshots[r].upto)) = w
      BY <1>3, <1>6, <2>1, <2>2 DEF History, Replay
    <3> QED  BY <2>2, <3>1 DEF SnapshotIsHistory, project_snapshot, Blank
  <2>5. History(r) = w /\ r \in Runs /\ incident.version = 1
    BY <1>3, <1>6
  <2>6. snapshots[r] \in Snapshots /\ v \in Views
    BY <1>1, <1>2, <2>2 DEF Snapshots, Views
  <2>7. Rebuilt(r)
    <3>1. /\ Reconstruct(r).moves = 0 /\ Reconstruct(r).incident = doc /\ Reconstruct(r).run = first
          /\ History(r).moves = 1 /\ History(r).incident = doc /\ History(r).run = first
          /\ doc.state = "active"
      BY <1>2, <2>3, <2>5
    <3> QED  BY <1>1, <1>7, <2>1, <2>2, <2>3, <2>4, <2>5, <2>6, <3>1 DEF Rebuilt, Exists
  <2> QED  BY <2>7
<1>9. ASSUME NEW r \in Runs, r # DeclarationRun PROVE Rebuilt(r)
  <2>1. /\ events[r] = <<>> /\ Len(events[r]) = 0
        /\ SubSeq(events[r], 1, 0) = <<>>
    BY <1>3, <1>9
  <2>2. /\ snapshots[r] = [incident |-> doc, run |-> absent, version |-> 0, upto |-> 0]
        /\ runs[r] = [doc |-> absent, version |-> 0]
    BY <1>3, <1>9
  <2>3. Reconstruct(r) = b
    <3>1. AfterBase(r) = <<>> /\ Base(r) = b
      BY <2>1, <2>2 DEF AfterBase, Base
    <3> QED  BY <3>1, ReconstructIs, ReplayNone DEF Replay
  <2>4. History(r) = b
    BY <1>5, <2>1 DEF History
  <2>5. SnapshotIsHistory(r, project_snapshot(r))
    <3>1. FoldLeft(ReplayEvent, Blank, SubSeq(events[r], 1, snapshots[r].upto)) = b
      BY <1>5, <2>1, <2>2 DEF Replay
    <3> QED  BY <2>2, <3>1 DEF SnapshotIsHistory, project_snapshot, Blank
  <2>6. snapshots[r] \in Snapshots /\ incident.version = 1
    BY <1>1, <1>2, <1>3, <2>2 DEF Snapshots
  <2>7. ~Exists(r)
    BY <1>1, <2>2 DEF Exists
  <2> QED  BY <1>5, <2>1, <2>2, <2>3, <2>4, <2>5, <2>6, <2>7 DEF Rebuilt
<1>10. \A r \in Runs : ~Open(r) /\ ~Waiting(r)
  BY <1>1, <1>3 DEF Open, Waiting, Exists
<1>11. Remembered
  BY <1>3, <1>4, <1>6, <1>8, <1>9, <1>10 DEF Remembered, Lively
<1>12. Placing
  <2>1. DeclarationStands
    BY <1>1, <1>3 DEF DeclarationStands, Exists, One
  <2> QED  BY <2>1 DEF Placing
<1> QED  BY <1>11, <1>12

-----------------------------------------------------------------------------

\* The inductive invariant of the log: the rows of every run, its latest snapshot and its log say
\* the same of it (SqlIncidentRepository, append_transition, and replay), the run that moved the
\* incident last has the incident as it is, an open investigation has it but for what was cited
\* since, and one run at most is live.
THEOREM IncidentRemembered == Spec => [](DispatchSafe /\ Remembered /\ Placing)
<1> DEFINE Inv == DispatchSafe /\ Remembered /\ Placing
<1>1. Init => Inv
  BY InitDispatch, InitRemembered
<1>2. Inv /\ [Next]_vars => Inv'
  <2> SUFFICES ASSUME Inv, [Next]_vars PROVE Inv'
    OBVIOUS
  <2>1. DispatchSafe'
    BY NextDispatch
  <2>2. Shaped
    BY NextShaped
  <2>3. Remembered'
    BY <2>1, <2>2, NextRemembered
  <2>4. Placing'
    BY NextPlaced
  <2> QED  BY <2>1, <2>3, <2>4
<1> QED  BY <1>1, <1>2, PTL DEF Spec

\* The incident and run rows are what the history of the run that moved the incident last says,
\* from its latest snapshot on: a repository that lost an event, wrote one twice or folded a
\* citation into the wrong row would not be rebuilt by a replay.
THEOREM ReplayIsFaithful == Spec => []ReplayFaithful
<1>1. Remembered => ReplayFaithful
  <2> SUFFICES ASSUME Remembered PROVE ReplayFaithful
    OBVIOUS
  <2> PICK m : m = mover
    OBVIOUS
  <2>1. m \in Runs /\ Rebuilt(m) /\ History(m).incident = incident.doc
    BY DEF Remembered, RowTypes
  <2>2. /\ Reconstruct(m) \in Views
        /\ snapshots[m].version \in Nat /\ Reconstruct(m).moves \in Nat
        /\ runs[m].version \in Nat /\ incident.version \in Nat
    BY <2>1 DEF Rebuilt, Views, Snapshots, Remembered, RowTypes, Incidents
  <2>3. /\ runs[m].version = snapshots[m].version + Reconstruct(m).moves
        /\ incident.version >= runs[m].version
    BY <2>1, <2>2 DEF Rebuilt
  <2>4. runs[m].doc = Reconstruct(m).run /\ incident.doc = Reconstruct(m).incident
    BY <2>1 DEF Rebuilt
  <2>5. ReplayMatches(m)
    BY <2>3, <2>4 DEF ReplayMatches
  <2> QED  BY <2>5 DEF ReplayFaithful
<1> QED  BY <1>1, IncidentRemembered, PTL

-----------------------------------------------------------------------------
(* The decision an incident has pending, and the run that has it *)

\* The least of some numbers.
LEMMA MinFacts ==
    ASSUME NEW S, S \subseteq Nat, S # {}
    PROVE  Min(S) \in S /\ \A y \in S : Min(S) <= y
BY LeastNat DEF Min

Asking(r) == runs[r].doc.status = "awaiting_human" /\ runs[r].doc.pending = "approve_mitigation"

\* The versions the commits of a run gave the incident, and the run created after the others.
Versions(r) == {k.version : k \in {c \in commits : c.run = r}}
Latest(r) == \A q \in Runs : Exists(q) /\ q # r => CreatedAt(q) < CreatedAt(r)

\* A run waits for a person exactly while its mitigation has no answer; an incident that is
\* mitigated has such a run, and the run that is open or waits is the one created last.
Offered ==
    /\ incident.version >= 1
    /\ \A r \in Runs : Asking(r) <=> Waiting(r)
    /\ incident.doc.state = "mitigating" => /\ incident.doc.mitigation.status = "pending"
                                            /\ \E r \in Runs : Waiting(r)
    /\ \A r \in Runs \ {DeclarationRun} : /\ Versions(r) \subseteq 2..incident.version
                                          /\ Exists(r) <=> Versions(r) # {}
    /\ \A r \in Runs : Lively(r) => Latest(r)

\* A run was created by a commit, or with the declaration.
LEMMA CreatedWithin ==
    ASSUME Offered, incident.version \in Nat, NEW r \in Runs, Exists(r)
    PROVE  CreatedAt(r) \in 1..incident.version
<1>1. CASE r = DeclarationRun
  BY <1>1 DEF CreatedAt, Offered
<1>2. CASE r # DeclarationRun
  <2>1. Versions(r) \subseteq 2..incident.version /\ Versions(r) # {}
    BY <1>2 DEF Offered
  <2>2. Min(Versions(r)) \in Versions(r)
    <3> PICK S : S = Versions(r)
      OBVIOUS
    <3>1. S \subseteq Nat /\ S # {}
      BY <2>1
    <3>2. Min(S) \in S
      BY <3>1, MinFacts
    <3> QED  BY <3>2
  <2>3. CreatedAt(r) = Min(Versions(r))
    BY <1>2 DEF CreatedAt, Versions
  <2> QED  BY <2>1, <2>2, <2>3
<1> QED  BY <1>1, <1>2

\* Runs that no commit is about are as old as they were.
LEMMA CreatedStays ==
    ASSUME NEW r, Versions(r)' = Versions(r)
    PROVE  CreatedAt(r)' = CreatedAt(r)
BY DEF CreatedAt, Versions

\* A commit is newer than what was there.
LEMMA CommitsGrow ==
    ASSUME Offered, incident.version \in Nat, NEW r \in Runs, r # DeclarationRun,
           NEW k, k.run = r, k.version = incident.version + 1, commits' = commits \cup {k}
    PROVE  /\ \A q : q # r => Versions(q)' = Versions(q)
           /\ Versions(r)' = Versions(r) \cup {incident.version + 1}
           /\ Exists(r) => CreatedAt(r)' = CreatedAt(r)
           /\ ~Exists(r) => CreatedAt(r)' = incident.version + 1
<1> PICK n : n = incident.version + 1
  OBVIOUS
<1>1. \A q : q # r => Versions(q)' = Versions(q)
  BY DEF Versions
<1>2. Versions(r)' = Versions(r) \cup {n}
  BY DEF Versions
<1> PICK S, T : S = Versions(r) /\ T = S \cup {n}
  OBVIOUS
<1>3. S \subseteq 2..incident.version /\ (Exists(r) <=> S # {}) /\ n \in Nat
  BY DEF Offered
<1>4. T \subseteq Nat /\ T # {} /\ \A y \in S : y < n /\ y \in Nat
  BY <1>3
<1>5. Min(T) \in T /\ \A y \in T : Min(T) <= y
  BY <1>4, MinFacts
<1>6. CreatedAt(r)' = Min(T)
  BY <1>2 DEF CreatedAt, Versions
<1>7. ASSUME Exists(r) PROVE CreatedAt(r)' = CreatedAt(r)
  <2>1. S \subseteq Nat /\ S # {}
    BY <1>3, <1>4, <1>7
  <2>2. Min(S) \in S /\ \A y \in S : Min(S) <= y
    BY <2>1, MinFacts
  <2>3. CreatedAt(r) = Min(S)
    BY DEF CreatedAt, Versions
  <2> PICK a, b : a = Min(S) /\ b = Min(T)
    OBVIOUS
  <2>4. a \in Nat /\ b \in Nat /\ a < n
    BY <1>4, <1>5, <2>2
  <2>5. a \in T /\ b <= a
    BY <1>5, <2>2
  <2>6. b # n
    BY <1>3, <2>4, <2>5
  <2>7. b \in S /\ a <= b
    BY <1>5, <2>2, <2>6
  <2> QED  BY <1>6, <2>3, <2>4, <2>5, <2>7
<1>8. ASSUME ~Exists(r) PROVE CreatedAt(r)' = n
  <2>1. T = {n}
    BY <1>3, <1>8
  <2> QED  BY <1>5, <1>6, <2>1
<1> QED  BY <1>1, <1>2, <1>7, <1>8

\* A run that ended asks nobody, and no run but an ending one asks otherwise than it did.
LEMMA EndAsksNobody ==
    ASSUME DispatchSafe, NEW r \in Runs, EndsRun(r) \/ ResultsIn(r)
    PROVE  ~Asking(r)'
<1>1. PICK reason :
        /\ reason \in TerminatedReasons
        /\ runs' = [runs EXCEPT ![r].doc = PatchRun(@, Termination(reason))]
  BY DEF EndsRun, ResultsIn, EndRun
<1>2. runs[r].doc \in RunDocs
  BY DEF DispatchSafe, StoreTypes, RunRows
<1>3. runs'[r].doc = PatchRun(runs[r].doc, Termination(reason))
  BY <1>1 DEF DispatchSafe, StoreTypes, RunRows
<1>4. runs'[r].doc.status \in {"completed", "terminated"}
  BY <1>1, <1>2, <1>3, Terminates
<1> QED  BY <1>4 DEF Asking

\* An intent or an end leaves the decisions there are.
LEMMA NotedOffers ==
    ASSUME DispatchSafe, Remembered, Offered, NEW r \in Runs, r # DeclarationRun, Exists(r),
           NEW cites, NEW log, Noted(r, cites, log), Asking(r)' <=> Waiting(r)'
    PROVE  Offered'
<1>1. incident.version \in Nat /\ incident.doc \in Docs
  BY DEF Remembered, RowTypes, Incidents
<1>2. PICK doc :
        /\ runs' = [runs EXCEPT ![r] = [doc |-> doc, version |-> runs[r].version]]
        /\ doc.current = runs[r].doc.current /\ doc.status # "absent"
  BY DEF Noted
<1>3. /\ runs'[r].doc = doc
      /\ \A q \in Runs : q # r => runs'[q] = runs[q] /\ events'[q] = events[q]
      /\ events'[r] = events[r] \o log /\ IsLog(log)
  BY <1>2 DEF Noted, DispatchSafe, StoreTypes
<1>4. commits' = commits /\ cites \in BOOLEAN
  BY DEF Noted
<1>5. /\ incident'.version \in Nat /\ incident.version <= incident'.version
      /\ incident'.doc.state = incident.doc.state
      /\ incident'.doc.mitigation = incident.doc.mitigation
  <2>1. CASE cites
    <3>1. incident' = [doc |-> [incident.doc EXCEPT !.cited = TRUE], version |-> incident.version + 1]
      BY <2>1 DEF Noted
    <3> QED  BY <1>1, <3>1 DEF Docs
  <2>2. CASE ~cites
    <3>1. incident' = incident
      BY <2>2 DEF Noted
    <3> QED  BY <1>1, <3>1
  <2> QED  BY <2>1, <2>2
<1>6. ASSUME NEW q \in Runs
      PROVE  /\ Waiting(q)' <=> Waiting(q)
             /\ Exists(q)' <=> Exists(q)
             /\ Lively(q)' => Lively(q)
             /\ Asking(q)' <=> Waiting(q)'
  <2>1. CASE q = r
    <3>1. (Waiting(q)' <=> Waiting(q)) /\ (Exists(q)' <=> Exists(q))
      BY <1>2, <1>3, <2>1 DEF Waiting, Exists
    <3>2. Ended(r) => Ended(r)'
      BY <1>3, KeepsEnd
    <3> QED  BY <2>1, <3>1, <3>2 DEF Lively, Open
  <2>2. CASE q # r
    <3>1. runs'[q] = runs[q] /\ events'[q] = events[q]
      BY <1>3, <2>2
    <3>2. (Open(q)' <=> Open(q)) /\ (Waiting(q)' <=> Waiting(q))
      BY <3>1, OthersLively
    <3>3. Asking(q) <=> Waiting(q)
      BY DEF Offered
    <3> QED  BY <3>1, <3>2, <3>3 DEF Lively, Exists, Asking
  <2> QED  BY <2>1, <2>2
<1>7. \A q \in Runs : CreatedAt(q)' = CreatedAt(q) /\ Versions(q)' = Versions(q)
  BY <1>4 DEF CreatedAt, Versions
<1>8. ASSUME NEW q \in Runs, Lively(q)' PROVE Latest(q)'
  <2>1. Latest(q)
    BY <1>6, <1>8 DEF Offered
  <2> QED  BY <1>6, <1>7, <2>1 DEF Latest
<1>9. ASSUME NEW q \in Runs \ {DeclarationRun}
      PROVE  Versions(q)' \subseteq 2..incident'.version /\ (Exists(q)' <=> Versions(q)' # {})
  <2>1. Versions(q) \subseteq 2..incident.version /\ (Exists(q) <=> Versions(q) # {})
    BY DEF Offered
  <2> QED  BY <1>1, <1>5, <1>6, <1>7, <2>1
<1>10. incident'.version >= 1
  BY <1>1, <1>5 DEF Offered
<1>11. incident'.doc.state = "mitigating" => /\ incident'.doc.mitigation.status = "pending"
                                             /\ \E q \in Runs : Waiting(q)'
  BY <1>5, <1>6 DEF Offered
<1> QED  BY <1>6, <1>8, <1>9, <1>10, <1>11 DEF Offered

\* A run is opened when none is open or waits.
LEMMA OpenedAlone ==
    ASSUME DispatchSafe, Remembered, NEW r, ~Exists(r), NEW t, NEW doc, Admitted(r, t, doc),
           NEW q \in Runs
    PROVE  ~Lively(q)
<1>1. /\ t \in Sent /\ incident.doc.state = Workflow[t].from
      /\ \/ t = "start_investigation"
         \/ t = "continue_investigation" /\ ~BesideLiveRun(incident.doc)
  BY DEF Admitted
<1>2. incident.doc.state \in {"active", "investigating"}
  BY <1>1, SentEdges
<1>3. ~Waiting(q)
  BY <1>2 DEF Remembered
<1>4. ASSUME Open(q) PROVE FALSE
  <2>1. incident.doc.state = "investigating" /\ runs[q].doc.current = "investigating"
    BY <1>4, OpenInvestigates DEF Remembered
  <2>2. t # "start_investigation"
    BY <1>1, <2>1, SentEdges
  <2>3. ~BesideLiveRun(incident.doc)
    BY <1>1, <2>2
  <2>4. VerifiesAfter(q)
    BY DEF DispatchSafe
  <2>5. runs[q].doc.status = "running"
    BY <1>4, <2>1, <2>4 DEF Open, VerifiesAfter
  <2> QED  BY <2>1, <2>3, <2>5 DEF BesideLiveRun, LiveRunStatuses
<1> QED  BY <1>3, <1>4 DEF Lively

\* A proposal asks a person; a run is opened when no run is open or waits.
LEMMA AdvanceOffers ==
    ASSUME DispatchSafe, Remembered, Remembered', Offered, NEW r \in Runs, r # DeclarationRun,
           NEW t, NEW doc, NEW moved, NEW log, Wrote(r, t, doc, moved, log), Admitted(r, t, doc),
           Asks(t, doc, moved)
    PROVE  Offered'
<1>1. /\ runs'[r] = [doc |-> moved, version |-> runs[r].version + 1]
      /\ \A q \in Runs : q # r => events'[q] = events[q] /\ runs'[q] = runs[q]
      /\ incident.version \in Nat /\ incident'.version = incident.version + 1
      /\ incident'.doc = doc
  <2>1. \A q \in Runs : q # r => /\ events'[q] = events[q] /\ runs'[q] = runs[q]
                                 /\ snapshots'[q] = snapshots[q]
    BY WroteRows, ZenonT(60)
  <2>2. runs'[r] = [doc |-> moved, version |-> runs[r].version + 1]
    BY DEF Wrote, DispatchSafe, StoreTypes
  <2>3. incident' = [doc |-> doc, version |-> incident.version + 1] /\ incident.version \in Nat
    BY DEF Wrote, Remembered, RowTypes, Incidents
  <2> QED  BY <2>1, <2>2, <2>3
<1>2. doc.state = Workflow[t].to /\ moved.current = doc.state /\ moved.status # "absent"
  BY DEF Wrote
<1>3. t \in Sent
  BY DEF Admitted
<1>4. doc.state = "mitigating" <=> t = "propose_mitigation"
  BY <1>2, <1>3, SentEdges
<1>5. Asking(r)' <=> Waiting(r)'
  <2>1. Asking(r)' <=> moved.status = "awaiting_human" /\ moved.pending = "approve_mitigation"
    BY <1>1 DEF Asking
  <2>2. Waiting(r)' <=> moved.current = "mitigating"
    BY <1>1 DEF Waiting
  <2> QED  BY <1>2, <1>4, <2>1, <2>2 DEF Asks
<1>6. ASSUME NEW q \in Runs, q # r
      PROVE  /\ Lively(q)' <=> Lively(q)
             /\ Waiting(q)' <=> Waiting(q)
             /\ Exists(q)' <=> Exists(q)
             /\ Asking(q)' <=> Asking(q)
  <2>1. runs'[q] = runs[q] /\ events'[q] = events[q]
    BY <1>1, <1>6
  <2>2. (Open(q)' <=> Open(q)) /\ (Waiting(q)' <=> Waiting(q))
    BY <2>1, OthersLively
  <2> QED  BY <2>1, <2>2 DEF Lively, Exists, Asking
<1>7. PICK k : k.run = r /\ k.version = incident.version + 1 /\ commits' = commits \cup {k}
  BY DEF Wrote
<1>8. /\ \A q : q # r => Versions(q)' = Versions(q)
      /\ Versions(r)' = Versions(r) \cup {incident.version + 1}
      /\ Exists(r) => CreatedAt(r)' = CreatedAt(r)
      /\ ~Exists(r) => CreatedAt(r)' = incident.version + 1
  BY <1>1, <1>7, CommitsGrow
<1>9. \A q \in Runs : q # r => CreatedAt(q)' = CreatedAt(q)
  BY <1>8, CreatedStays
<1>10. Exists(r) /\ Lively(r)' => Lively(r)
  <2>1. ASSUME Exists(r), Open(r)' PROVE Open(r)
    <3>1. \E x : IsLog(x) /\ events'[r] = events[r] \o x
      BY WroteRows
    <3>2. Ended(r) => Ended(r)'
      BY <3>1, KeepsEnd
    <3> QED  BY <2>1, <3>2 DEF Open
  <2>2. ASSUME Exists(r), Waiting(r)' PROVE Open(r)
    <3>1. t = "propose_mitigation"
      BY <1>1, <1>2, <1>4, <2>2 DEF Waiting
    <3> QED  BY <2>2, <3>1 DEF Admitted, Open, DispatchOpen, Ended
  <2> QED  BY <2>1, <2>2 DEF Lively
<1>11. ASSUME NEW q \in Runs, Lively(q)' PROVE Latest(q)'
  <2>1. CASE Exists(r)
    <3>1. Latest(q)
      BY <1>6, <1>10, <1>11, <2>1 DEF Offered
    <3> QED  BY <1>6, <1>8, <1>9, <2>1, <3>1 DEF Latest
  <2>2. CASE ~Exists(r)
    <3>1. q = r
      BY <1>6, <1>11, <2>2, OpenedAlone
    <3>2. ASSUME NEW o \in Runs, o # r, Exists(o)' PROVE CreatedAt(o)' < CreatedAt(r)'
      <4>1. Exists(o)
        BY <1>6, <3>2
      <4>2. CreatedAt(o) \in 1..incident.version
        BY <1>1, <4>1, CreatedWithin
      <4>3. CreatedAt(o)' = CreatedAt(o) /\ CreatedAt(r)' = incident.version + 1
        BY <1>8, <1>9, <2>2, <3>2
      <4> QED  BY <1>1, <4>2, <4>3
    <3> QED  BY <3>1, <3>2 DEF Latest
  <2> QED  BY <2>1, <2>2
<1>12. ASSUME NEW q \in Runs \ {DeclarationRun}
       PROVE  Versions(q)' \subseteq 2..incident'.version /\ (Exists(q)' <=> Versions(q)' # {})
  <2>1. Versions(q) \subseteq 2..incident.version /\ (Exists(q) <=> Versions(q) # {})
    BY DEF Offered
  <2>2. CASE q # r
    <3>1. Versions(q)' = Versions(q) /\ (Exists(q)' <=> Exists(q))
      BY <1>6, <1>8, <2>2
    <3> QED  BY <1>1, <2>1, <3>1
  <2>3. CASE q = r
    <3>1. Versions(q)' = Versions(q) \cup {incident.version + 1} /\ Exists(q)'
      BY <1>1, <1>2, <1>8, <2>3 DEF Exists
    <3>2. incident.version + 1 \in 2..incident'.version
      BY <1>1 DEF Offered
    <3> QED  BY <1>1, <2>1, <3>1, <3>2
  <2> QED  BY <2>2, <2>3
<1>13. incident'.version >= 1
  BY <1>1 DEF Offered
<1>14. incident'.doc.state = "mitigating" => /\ incident'.doc.mitigation.status = "pending"
                                             /\ \E q \in Runs : Waiting(q)'
  <2>1. Waiting(r)' <=> moved.current = "mitigating"
    BY <1>1 DEF Waiting
  <2> QED  BY <1>1, <1>2, <1>4, <2>1 DEF Asks
<1>15. \A q \in Runs : Asking(q)' <=> Waiting(q)'
  BY <1>5, <1>6 DEF Offered
<1> QED  BY <1>11, <1>12, <1>13, <1>14, <1>15 DEF Offered

LEMMA NextOffered ==
    ASSUME DispatchSafe, Remembered, Remembered', Offered, Shaped
    PROVE  Offered'
<1>1. CASE Stands
  <2>1. UNCHANGED <<incident, runs, events, commits>>
    BY <1>1 DEF Stands
  <2> QED  BY <2>1 DEF Offered, Asking, Waiting, Versions, Lively, Open, Ended, HasReceipt, Exists,
                       Latest, CreatedAt
<1>2. ASSUME NEW r \in Runs \ {DeclarationRun}, Exists(r), Claims(r) PROVE Offered'
  <2>1. PICK log : Noted(r, FALSE, log)
    BY <1>2, ClaimNotes
  <2>2. runs' = runs /\ (Asking(r) <=> Waiting(r))
    BY <1>2 DEF Claims, Offered
  <2>3. Asking(r)' <=> Waiting(r)'
    BY <2>2 DEF Asking, Waiting
  <2> QED  BY <1>2, <2>1, <2>3, NotedOffers
<1>3. ASSUME NEW r \in Runs \ {DeclarationRun}, Exists(r), Ends(r) PROVE Offered'
  <2>1. PICK cites, log : Noted(r, cites, log)
    BY <1>3, EndNotes, ResultNotes DEF Ends
  <2>2. ~Asking(r)'
    BY <1>3, EndAsksNobody DEF Ends
  <2>3. ~Waiting(r)'
    <3>1. PICK doc : /\ runs' = [runs EXCEPT ![r] = [doc |-> doc, version |-> runs[r].version]]
                     /\ doc.current = runs[r].doc.current
      BY <2>1 DEF Noted
    <3> QED  BY <1>3, <3>1 DEF Ends, Waiting, DispatchSafe, StoreTypes
  <2> QED  BY <1>3, <2>1, <2>2, <2>3, NotedOffers
<1>4. ASSUME NEW r \in Runs \ {DeclarationRun}, Advances(r) PROVE Offered'
  <2>1. PICK t, doc, moved, log :
          Wrote(r, t, doc, moved, log) /\ Admitted(r, t, doc) /\ Asks(t, doc, moved)
    BY <1>4, AdvanceWrites DEF Remembered
  <2> QED  BY <1>4, <2>1, AdvanceOffers
<1> QED  BY <1>1, <1>2, <1>3, <1>4 DEF Shaped

LEMMA InitOffered == Init => Offered
<1> SUFFICES ASSUME Init PROVE Offered
  OBVIOUS
<1> USE DEF Init, Declared
<1>1. /\ runs[DeclarationRun].doc = NewRun("active").doc
      /\ \A r \in Runs : r # DeclarationRun => runs[r].doc = AbsentRun.doc
      /\ incident.version = 1 /\ incident.doc.state = "active" /\ commits = {}
  BY StoreAssumption DEF NewRun, DeclaredDoc
<1>2. \A r \in Runs : ~Waiting(r) /\ ~Asking(r) /\ (r # DeclarationRun => ~Exists(r))
  BY <1>1 DEF Waiting, Asking, NewRun, AbsentRun, Exists
<1>3. \A r : Versions(r) = {}
  BY <1>1 DEF Versions
<1>4. \A r \in Runs : ~Lively(r)
  BY <1>2 DEF Lively, Open
<1> QED  BY <1>1, <1>2, <1>3, <1>4 DEF Offered

-----------------------------------------------------------------------------
(* What a reader of the incident list is offered *)

Kept == DispatchSafe /\ Remembered /\ Placing /\ Offered

LEMMA InitKept == Init => Kept
BY InitDispatch, InitRemembered, InitOffered DEF Kept

LEMMA NextKept == Kept /\ [Next]_vars => Kept' /\ Shaped
<1> SUFFICES ASSUME Kept, [Next]_vars PROVE Kept' /\ Shaped
  OBVIOUS
<1> USE DEF Kept
<1>1. DispatchSafe'
  BY NextDispatch
<1>2. Shaped
  BY NextShaped
<1>3. Remembered'
  BY <1>1, <1>2, NextRemembered
<1>4. Placing'
  BY NextPlaced
<1>5. Offered'
  BY <1>2, <1>3, NextOffered
<1> QED  BY <1>1, <1>2, <1>3, <1>4, <1>5

\* A step of the console or of a reader of the list writes nothing.
LEMMA ReadsStep == [ReadsNext]_rvars => [Next]_vars /\ (UNCHANGED vars \/ UNCHANGED readVars)
BY DEF ReadsNext, rvars, Reading, get_detail, get_run_state, ReadRun, ReadEvents, ReadAgain,
       get_timeline, Abort, list_recent, list_incidents

\* The incident's version tells its document.
LEMMA IncidentVersions ==
    ASSUME Kept, Shaped
    PROVE  /\ incident \in Incidents /\ incident.version <= incident'.version
           /\ incident'.version = incident.version => incident' = incident
<1> PICK n : n = incident.version
  OBVIOUS
<1>1. incident \in Incidents /\ n \in Nat
  BY DEF Kept, Remembered, RowTypes, Incidents
<1>2. CASE Stands
  BY <1>1, <1>2 DEF Stands
<1>3. ASSUME NEW r \in Runs, Exists(r), Claims(r) \/ Ends(r)
      PROVE  incident' = incident \/ incident'.version = n + 1
  BY <1>3 DEF Claims, Ends, EndsRun, EndRun, ResultsIn
<1>4. ASSUME NEW r \in Runs, Advances(r)
      PROVE  incident'.version = n + 1
  <2>1. PICK t, doc, moved, log : Wrote(r, t, doc, moved, log)
    BY <1>4, AdvanceWrites DEF Kept, Remembered
  <2> QED  BY <2>1 DEF Wrote
<1>5. incident' = incident \/ incident'.version = n + 1
  BY <1>2, <1>3, <1>4 DEF Shaped, Stands
<1> QED  BY <1>1, <1>5

\* A row that was read is not newer than the incident, and is the incident while it is not older.
InboxRead ==
    inbox # None => /\ inbox \in Incidents /\ inbox.version <= incident.version
                    /\ inbox.version = incident.version => inbox.doc = incident.doc

LEMMA ReadsInbox == Kept /\ InboxRead /\ [ReadsNext]_rvars => InboxRead'
<1> SUFFICES ASSUME Kept, InboxRead, [ReadsNext]_rvars, inbox' # None
             PROVE  /\ inbox' \in Incidents /\ inbox'.version <= incident'.version
                    /\ inbox'.version = incident'.version => inbox'.doc = incident'.doc
  BY DEF InboxRead
<1>1. [Next]_vars /\ (UNCHANGED vars \/ UNCHANGED readVars)
  BY ReadsStep
<1>2. /\ incident \in Incidents /\ incident.version <= incident'.version
      /\ incident'.version = incident.version => incident' = incident
  BY <1>1, NextKept, IncidentVersions
<1>3. incident'.version \in Nat /\ incident.version \in Nat
  BY <1>1, NextKept DEF Kept, Remembered, RowTypes, Incidents
<1>4. CASE inbox' = inbox
  <2>1. inbox \in Incidents /\ inbox.version <= incident.version /\ inbox.version \in Nat
    BY <1>4 DEF InboxRead, Incidents
  <2> QED  BY <1>2, <1>3, <1>4, <2>1 DEF InboxRead
<1>5. CASE inbox' # inbox
  <2>1. inbox' = incident /\ incident' = incident
    BY <1>5 DEF ReadsNext, rvars, readVars, Reading, get_detail, get_run_state, ReadRun, ReadEvents,
                ReadAgain, get_timeline, Abort, list_recent, list_incidents, vars
  <2> QED  BY <1>2, <1>3, <2>1
<1> QED  BY <1>4, <1>5

\* The run created last is one there is, and the one that is open or waits if one does.
LEMMA LatestFor ==
    ASSUME Kept
    PROVE  /\ latest_for \in Runs
           /\ \A r \in Runs : Lively(r) => latest_for = r
<1>1. incident.version \in Nat /\ Offered /\ DeclarationStands
  BY DEF Kept, Remembered, RowTypes, Incidents, Placing
<1> PICK n \in Nat : n = incident.version
  BY <1>1
<1>2. \A q \in Runs : Exists(q) => CreatedAt(q) \in 1..n
  BY <1>1, CreatedWithin
<1> DEFINE There == {q \in Runs : Exists(q)}
           Ages == {n - CreatedAt(q) : q \in There}
<1>3. Ages \subseteq Nat /\ Ages # {}
  <2>1. \A q \in There : n - CreatedAt(q) \in Nat
    BY <1>2
  <2>2. DeclarationRun \in There
    BY <1>1, StoreAssumption DEF DeclarationStands
  <2> QED  BY <2>1, <2>2
<1>4. PICK a \in Ages : \A b \in Ages : a <= b
  <2> HIDE DEF Ages
  <2> QED  BY <1>3, LeastNat
<1>5. PICK r \in There : a = n - CreatedAt(r)
  BY <1>4
<1>6. \A q \in There : CreatedAt(q) <= CreatedAt(r)
  <2> TAKE q \in There
  <2>1. n - CreatedAt(r) <= n - CreatedAt(q)
    BY <1>4, <1>5
  <2>2. CreatedAt(r) \in 1..n /\ CreatedAt(q) \in 1..n
    BY <1>2
  <2> QED  BY <2>1, <2>2
<1>7. /\ latest_for \in Runs /\ Exists(latest_for)
      /\ \A q \in Runs : Exists(q) => CreatedAt(q) <= CreatedAt(latest_for)
  <2>1. r \in Runs /\ Exists(r) /\ \A q \in Runs : Exists(q) => CreatedAt(q) <= CreatedAt(r)
    BY <1>6
  <2> QED  BY <2>1 DEF latest_for
<1>8. ASSUME NEW q \in Runs, Lively(q) PROVE latest_for = q
  <2>1. Latest(q)
    BY <1>1, <1>8 DEF Offered
  <2>2. Exists(q)
    <3>1. Asking(q) <=> Waiting(q)
      BY <1>1 DEF Offered
    <3> QED  BY <1>8, <3>1 DEF Lively, Open, Asking, Exists
  <2>3. CreatedAt(q) <= CreatedAt(latest_for) /\ CreatedAt(q) \in 1..n /\ CreatedAt(latest_for) \in 1..n
    BY <1>2, <1>7, <2>2
  <2>4. latest_for # q => CreatedAt(latest_for) < CreatedAt(q)
    BY <1>7, <2>1 DEF Latest
  <2> QED  BY <2>3, <2>4
<1> QED  BY <1>7, <1>8

\* A row that is current offers the decision there is, and an approval sent from it names it.
LEMMA InboxOffers == Kept /\ InboxRead => InboxOffersDecision
<1> SUFFICES ASSUME Kept, InboxRead, inbox # None
             PROVE  LET item == project_list_item(inbox)
                    IN /\ inbox.version = incident.version =>
                            (item # None <=> incident.doc.state = "mitigating")
                       /\ item # None =>
                            (Validate(Approval(item), incident) =>
                                /\ item.mitigation = incident.doc.mitigation.id
                                /\ Aligned(incident.doc, runs[item.run].doc))
  BY DEF InboxOffersDecision
<1> PICK r, doc, item : r = latest_for /\ doc = incident.doc /\ item = project_list_item(inbox)
  OBVIOUS
<1>1. r \in Runs /\ \A q \in Runs : Lively(q) => r = q
  BY LatestFor
<1>2. /\ Asking(r) <=> Waiting(r)
      /\ doc.state = "mitigating" => doc.mitigation.status = "pending" /\ \E q \in Runs : Waiting(q)
      /\ Waiting(r) => doc.state = "mitigating"
  BY <1>1 DEF Kept, Offered, Remembered
<1>3. Waiting(r) <=> doc.state = "mitigating"
  BY <1>1, <1>2 DEF Lively
<1>4. /\ inbox \in Incidents /\ inbox.version \in Nat
      /\ inbox.version = incident.version => inbox.doc = doc
  BY DEF InboxRead, Incidents
<1>5. inbox.doc.mitigation.id \in Nat
  BY <1>4 DEF Incidents, Docs, Mitigations
<1> PICK id : id = IF inbox.doc.mitigation.status = "pending" THEN inbox.doc.mitigation.id ELSE 0
  OBVIOUS
<1>6. item = IF Asking(r) THEN [run |-> r, version |-> inbox.version, mitigation |-> id] ELSE None
  BY DEF project_list_item, Asking
<1>7. item # None <=> Asking(r)
  <2>1. [run |-> r, version |-> inbox.version, mitigation |-> id]
           \in [run : Runs, version : Nat, mitigation : Nat]
    BY <1>1, <1>4, <1>5
  <2> QED  BY <1>6, <2>1, ReadsAssumption
<1>8. ASSUME item # None, Validate(Approval(item), incident)
      PROVE  item.mitigation = doc.mitigation.id /\ Aligned(doc, runs[item.run].doc)
  <2>1. Asking(r) /\ item = [run |-> r, version |-> inbox.version, mitigation |-> id]
    BY <1>6, <1>7, <1>8
  <2>2. Approval(item).expected = inbox.version
    BY <2>1 DEF Approval, Command
  <2>3. inbox.version = incident.version
    <3>1. inbox.version # NoVersion
      BY <1>4 DEF NoVersion
    <3> QED  BY <1>8, <2>2, <3>1 DEF Validate
  <2>4. doc.state = "mitigating" /\ doc.mitigation.status = "pending" /\ inbox.doc = doc
    BY <1>2, <1>4, <2>1, <2>3
  <2>5. runs[r].doc.current = "mitigating"
    BY <1>2, <2>1 DEF Waiting
  <2> QED  BY <2>1, <2>4, <2>5 DEF Aligned
<1> QED  BY <1>2, <1>3, <1>7, <1>8

\* A mitigation that waits for a person is offered in the incident list (latest_for, the row's
\* latest run) however many runs the incident has and whenever the row and the run were read, and
\* an approval of what it offers is about the mitigation of now or is refused.
THEOREM InboxOffersWhatWaits == ReadsSpec => []InboxOffersDecision
<1> DEFINE Inv == Kept /\ InboxRead
<1>1. ReadsInit => Inv
  BY InitKept DEF ReadsInit, InboxRead
<1>2. Inv /\ [ReadsNext]_rvars => Inv'
  BY ReadsStep, NextKept, ReadsInbox
<1>3. Inv => InboxOffersDecision
  BY InboxOffers
<1> QED  BY <1>1, <1>2, <1>3, PTL DEF ReadsSpec

-----------------------------------------------------------------------------
(* Logs grow, and the log of a run that ended tells why *)

\* A log with more events has those it had.
LEMMA LogExtends ==
    ASSUME NEW s, NEW x, IsLog(s), IsLog(x)
    PROVE  /\ Len(s) \in Nat /\ Len(x) \in Nat /\ Len(s \o x) = Len(s) + Len(x)
           /\ \A i \in 1..Len(s) : (s \o x)[i] = s[i]
           /\ \A i \in 1..Len(x) : (s \o x)[Len(s) + i] = x[i]
           /\ x # <<>> => Len(x) > 0
<1> PICK S : S = Range(s) \cup Range(x)
  OBVIOUS
<1>1. s \in Seq(S) /\ x \in Seq(S)
  BY SeqMonotonic DEF IsLog
<1>2. /\ Len(s \o x) = Len(s) + Len(x)
      /\ \A i \in 1..(Len(s) + Len(x)) : (s \o x)[i] = IF i <= Len(s) THEN s[i] ELSE x[i - Len(s)]
  BY <1>1, ConcatProperties
<1>3. Len(s) \in Nat /\ Len(x) \in Nat /\ (x # <<>> => Len(x) > 0)
  BY <1>1, EmptySeq, LenProperties
<1> PICK m \in Nat : m = Len(s)
  BY <1>3
<1> PICK n \in Nat : n = Len(x)
  BY <1>3
<1>4. \A i \in 1..m : i \in 1..(m + n) /\ i <= m
  OBVIOUS
<1>5. \A i \in 1..n : m + i \in 1..(m + n) /\ ~(m + i <= m) /\ (m + i) - m = i
  OBVIOUS
<1> QED  BY <1>2, <1>3, <1>4, <1>5

\* The log of a run, before a step and after: nothing is lost, and the row moves with it only.
Lengthens(r) ==
    /\ Len(events[r]) \in Nat /\ Len(events'[r]) \in Nat /\ Len(events[r]) <= Len(events'[r])
    /\ \A i \in 1..Len(events[r]) : events'[r][i] = events[r][i]
    /\ Len(events'[r]) = Len(events[r]) => runs'[r] = runs[r]

LEMMA StaysGrown ==
    ASSUME DispatchSafe, NEW r \in Runs, events'[r] = events[r], runs'[r] = runs[r]
    PROVE  Lengthens(r)
<1>1. Len(events[r]) \in Nat
  BY LenProperties DEF DispatchSafe, StoreTypes, IsLog
<1> QED  BY <1>1 DEF Lengthens

LEMMA ExtendedGrows ==
    ASSUME DispatchSafe, NEW r \in Runs, NEW x, IsLog(x), x # <<>>, events'[r] = events[r] \o x
    PROVE  Lengthens(r)
<1>1. IsLog(events[r])
  BY DEF DispatchSafe, StoreTypes
<1> QED  BY <1>1, LogExtends DEF Lengthens

LEMMA NextLengthens == Kept /\ Shaped => \A r \in Runs : Lengthens(r)
<1> SUFFICES ASSUME Kept, Shaped, NEW r \in Runs PROVE Lengthens(r)
  OBVIOUS
<1>1. DispatchSafe /\ Remembered
  BY DEF Kept
<1>2. CASE Stands
  BY <1>1, <1>2, StaysGrown DEF Stands
<1>3. ASSUME NEW q \in Runs, Exists(q), Claims(q) \/ Ends(q) PROVE Lengthens(r)
  <2>1. PICK cites, log : Noted(q, cites, log)
    BY <1>1, <1>3, ClaimNotes, EndNotes, ResultNotes DEF Ends
  <2>2. /\ events'[q] = events[q] \o log /\ IsLog(log) /\ log # <<>>
        /\ r # q => events'[r] = events[r] /\ runs'[r] = runs[r]
    BY <1>1, <2>1 DEF Noted, DispatchSafe, StoreTypes
  <2> QED  BY <1>1, <2>2, StaysGrown, ExtendedGrows
<1>4. ASSUME NEW q \in Runs, Advances(q) PROVE Lengthens(r)
  <2>1. PICK t, doc, moved, log : Wrote(q, t, doc, moved, log)
    BY <1>1, <1>4, AdvanceWrites DEF Remembered
  <2>2. \E x : IsLog(x) /\ x # <<>> /\ events'[q] = events[q] \o x
    BY <1>1, <2>1, WroteRows
  <2>3. r # q => events'[r] = events[r] /\ runs'[r] = runs[r]
    BY <1>1, <2>1 DEF Wrote, DispatchSafe, StoreTypes
  <2> QED  BY <1>1, <2>2, <2>3, StaysGrown, ExtendedGrows
<1> QED  BY <1>2, <1>3, <1>4 DEF Shaped

Over(doc) == doc.status \in {"completed", "terminated"}

\* One of the first n events of a run tells its end.
Telling(r, n) == \E i \in 1..n : TellsEnd(event_summary(events[r][i]))

EndsTold == \A r \in Runs : Over(runs[r].doc) => Telling(r, Len(events[r]))

\* What tells an end: the reason it ended for, or the answer that sent the incident back.
LEMMA ReasonTells ==
    ASSUME NEW reason \in TerminatedReasons \ {"none"}
    PROVE  TellsEnd(event_summary(RunTerminated(Termination(reason))))
<1>1. event_summary(RunTerminated(Termination(reason))) = reason
  BY DEF event_summary, RunTerminated, Termination, RunPatch
<1> QED  BY <1>1 DEF TellsEnd

LEMMA AnswerTells ==
    ASSUME NEW t \in ReturnsToInvestigation, NEW doc, NEW run
    PROVE  TellsEnd(event_summary(StateChange(t, doc, run)))
<1>1. event_summary(StateChange(t, doc, run)) = t
  BY DEF event_summary, StateChange, ReturnsToInvestigation
<1> QED  BY <1>1 DEF TellsEnd

\* What was told stays told.
LEMMA StaysTold ==
    ASSUME NEW r, Lengthens(r), NEW n \in Nat, n <= Len(events[r]), Telling(r, n)
    PROVE  \A m \in Nat : n <= m => Telling(r, m)'
<1>1. PICK i \in 1..n : TellsEnd(event_summary(events[r][i]))
  BY DEF Telling
<1>2. events'[r][i] = events[r][i]
  BY <1>1 DEF Lengthens
<1>3. TellsEnd(event_summary(events'[r][i]))
  BY <1>1, <1>2
<1> SUFFICES ASSUME NEW m \in Nat, n <= m PROVE Telling(r, m)'
  OBVIOUS
<1>4. i \in 1..m
  OBVIOUS
<1> QED  BY <1>3, <1>4 DEF Telling

\* The event at the end of a log that a step appended to.
LEMMA LastTells ==
    ASSUME NEW r, NEW s, NEW x, IsLog(s), IsLog(x), events'[r] = s \o x,
           NEW j \in 1..Len(x), TellsEnd(event_summary(x[j]))
    PROVE  Telling(r, Len(events[r]))'
<1>1. /\ Len(s) \in Nat /\ Len(x) \in Nat /\ Len(s \o x) = Len(s) + Len(x)
      /\ (s \o x)[Len(s) + j] = x[j]
  BY LogExtends
<1> PICK n, m, i : n = Len(s) /\ m = Len(s \o x) /\ i = n + j
  OBVIOUS
<1>2. i \in 1..m /\ events'[r][i] = x[j] /\ m = Len(events'[r])
  BY <1>1
<1>3. \E k \in 1..m : TellsEnd(event_summary(events'[r][k]))
  BY <1>2
<1> QED  BY <1>2, <1>3 DEF Telling

LEMMA EndTells ==
    ASSUME DispatchSafe, NEW r \in Runs, EndsRun(r) \/ ResultsIn(r)
    PROVE  Telling(r, Len(events[r]))'
<1>1. IsLog(events[r])
  BY DEF DispatchSafe, StoreTypes
<1>2. CASE EndsRun(r)
  <2>1. PICK d, status, reason :
          /\ reason \in TerminatedReasons \ {"none"}
          /\ AppendEvents(r, Ending(d, status, Termination(reason)))
    BY <1>2 DEF EndsRun, EndRun
  <2> PICK e, x : e = RunTerminated(Termination(reason)) /\ x = Ending(d, status, Termination(reason))
    OBVIOUS
  <2>2. IsLog(x) /\ Len(x) = 2 /\ x[2] = e
    BY LogsWritten DEF Ending
  <2>3. events'[r] = events[r] \o x
    BY <2>1 DEF AppendEvents, DispatchSafe, StoreTypes
  <2>4. TellsEnd(event_summary(e))
    BY <2>1, ReasonTells
  <2>5. PICK j \in 1..Len(x) : x[j] = e
    BY <2>2
  <2> QED  BY <1>1, <2>2, <2>3, <2>4, <2>5, LastTells
<1>3. CASE ResultsIn(r)
  <2>1. PICK d, reason, cites :
          /\ reason \in TerminatedReasons \ {"none"}
          /\ AppendEvents(r, Resulting(cites, d, Termination(reason)))
    BY <1>3 DEF ResultsIn
  <2> PICK e, x : e = RunTerminated(Termination(reason)) /\ x = Resulting(cites, d, Termination(reason))
    OBVIOUS
  <2>2. IsLog(x) /\ Len(x) = 3 /\ x[3] = e
    BY LogsWritten DEF Resulting
  <2>3. events'[r] = events[r] \o x
    BY <2>1 DEF AppendEvents, DispatchSafe, StoreTypes
  <2>4. TellsEnd(event_summary(e))
    BY <2>1, ReasonTells
  <2>5. PICK j \in 1..Len(x) : x[j] = e
    BY <2>2
  <2> QED  BY <1>1, <2>2, <2>3, <2>4, <2>5, LastTells
<1> QED  BY <1>2, <1>3

LEMMA MoveTells ==
    ASSUME DispatchSafe, NEW r \in Runs, NEW t, NEW doc, NEW moved, NEW log,
           Wrote(r, t, doc, moved, log), Asks(t, doc, moved), Over(runs'[r].doc)
    PROVE  Telling(r, Len(events[r]))'
<1>1. IsLog(events[r]) /\ IsLog(log)
  BY DEF DispatchSafe, StoreTypes, Wrote
<1>2. runs'[r].doc = moved /\ events'[r] = (events[r] \o <<StateChange(t, doc, moved)>>) \o log
  BY DEF Wrote, DispatchSafe, StoreTypes
<1>3. t \in ReturnsToInvestigation
  BY <1>2 DEF Asks, Over
<1> PICK s, c, e : s = events[r] /\ c = StateChange(t, doc, moved) /\ e = <<c>>
  OBVIOUS
<1>4. IsLog(e) /\ Len(e) = 1 /\ e[1] = c
  BY LogsWritten
<1> PICK x : x = e \o log
  OBVIOUS
<1>5. (s \o e) \o log = s \o x /\ IsLog(x)
  <2>1. IsLog(s) /\ IsLog(e) /\ IsLog(log)
    BY <1>1, <1>4
  <2>2. (s \o e) \o log = s \o (e \o log) /\ IsLog(e \o log)
    BY ONLY <2>1, LogParts
  <2> QED  BY <2>2
<1>6. 1 \in 1..Len(x) /\ x[1] = c
  <2>1. /\ Len(e) \in Nat /\ Len(log) \in Nat /\ Len(e \o log) = Len(e) + Len(log)
        /\ \A i \in 1..Len(e) : (e \o log)[i] = e[i]
    BY <1>1, <1>4, LogExtends
  <2> QED  BY <1>4, <2>1
<1>7. TellsEnd(event_summary(c))
  BY <1>3, AnswerTells
<1>8. PICK j \in 1..Len(x) : x[j] = c
  BY <1>6
<1> QED  BY <1>1, <1>2, <1>5, <1>7, <1>8, LastTells

LEMMA NextTold == Kept /\ Shaped /\ EndsTold => EndsTold'
<1> SUFFICES ASSUME Kept, Shaped, EndsTold, NEW r \in Runs, Over(runs'[r].doc)
             PROVE  Telling(r, Len(events[r]))'
  BY DEF EndsTold
<1>1. DispatchSafe /\ Remembered /\ Lengthens(r)
  BY NextLengthens DEF Kept
<1>2. CASE Over(runs[r].doc)
  <2>1. Telling(r, Len(events[r]))
    BY <1>2 DEF EndsTold
  <2> PICK n, m : n = Len(events[r]) /\ m = Len(events'[r])
    OBVIOUS
  <2>2. n \in Nat /\ m \in Nat /\ n <= m
    BY <1>1 DEF Lengthens
  <2>3. Telling(r, m)'
    BY <1>1, <2>1, <2>2, StaysTold
  <2> QED  BY <2>3 DEF Telling
<1>3. CASE ~Over(runs[r].doc)
  <2>1. CASE Stands
    BY <1>3, <2>1 DEF Stands
  <2>2. ASSUME NEW q \in Runs, Exists(q), Claims(q) PROVE FALSE
    BY <1>3, <2>2 DEF Claims
  <2>3. ASSUME NEW q \in Runs, Exists(q), Ends(q) PROVE Telling(r, Len(events[r]))'
    <3>1. PICK cites, log : Noted(q, cites, log)
      BY <1>1, <2>3, EndNotes, ResultNotes DEF Ends
    <3>2. r # q => runs'[r] = runs[r]
      BY <1>1, <3>1 DEF Noted, DispatchSafe, StoreTypes
    <3>3. r = q
      BY <1>3, <3>2
    <3> QED  BY <1>1, <2>3, <3>3, EndTells DEF Ends
  <2>4. ASSUME NEW q \in Runs, Advances(q) PROVE Telling(r, Len(events[r]))'
    <3>1. PICK t, doc, moved, log : Wrote(q, t, doc, moved, log) /\ Asks(t, doc, moved)
      BY <1>1, <2>4, AdvanceWrites DEF Remembered
    <3>2. r # q => runs'[r] = runs[r]
      BY <1>1, <3>1 DEF Wrote, DispatchSafe, StoreTypes
    <3>3. r = q
      BY <1>3, <3>2
    <3> QED  BY <1>1, <3>1, <3>3, MoveTells
  <2> QED  BY <2>1, <2>2, <2>3, <2>4 DEF Shaped
<1> QED  BY <1>2, <1>3

-----------------------------------------------------------------------------
(* A page of the timeline *)

\* The events 1, 2 ... cursor of a run's log, as they are shown.
Shows(cursor, shown, r) ==
    /\ cursor \in Nat /\ cursor <= Len(events[r])
    /\ shown \in Seq(Nat) /\ Len(shown) = cursor
    /\ \A i \in 1..cursor : shown[i] = i

\* list_after gives what follows the cursor, at most one event more than a page.
LEMMA ListAfter ==
    ASSUME NEW r, Len(events[r]) \in Nat, NEW c \in Nat, c <= Len(events[r])
    PROVE  \E k \in Nat : /\ list_after(r, c) = [i \in 1..k |-> c + i]
                          /\ c + k <= Len(events[r])
                          /\ k <= PageLimit => c + k = Len(events[r])
<1> PICK n \in Nat : n = Len(events[r])
  OBVIOUS
<1> PICK b \in Nat : b = c + PageLimit + 1
  BY ReadsAssumption
<1> PICK S : S = {n, b}
  OBVIOUS
<1>1. Min(S) \in S /\ \A y \in S : Min(S) <= y
  <2>1. S \subseteq Nat /\ S # {}
    OBVIOUS
  <2> QED  BY ONLY <2>1, MinFacts
<1> PICK last : last = Min(S)
  OBVIOUS
<1>2. last \in Nat /\ c <= last /\ last <= n /\ (last = n \/ last = b)
  BY <1>1, ReadsAssumption
<1> PICK k \in Nat : k = last - c
  BY <1>2
<1>3. c + k <= n
  BY <1>2
<1>4. k <= PageLimit => c + k = n
  BY <1>2, ReadsAssumption
<1>5. list_after(r, c) = [i \in 1..k |-> c + i]
  BY DEF list_after
<1> QED  BY <1>3, <1>4, <1>5

\* The cursor goes to the last event of a page.
LEMMA Watermarks ==
    ASSUME NEW c \in Nat, NEW m \in Nat
    PROVE  Watermark(c, [i \in 1..m |-> c + i]) = c + m
<1> PICK page : page = [i \in 1..m |-> c + i]
  OBVIOUS
<1> PICK S : S = {c} \cup {page[i] : i \in DOMAIN page}
  OBVIOUS
<1> PICK n \in Nat : n = c + m
  OBVIOUS
<1>1. DOMAIN page = 1..m /\ \A i \in 1..m : page[i] = c + i
  OBVIOUS
<1>2. S \subseteq 0..n /\ S # {} /\ \A y \in S : y <= n /\ y \in Nat
  <2>1. \A i \in 1..m : c + i \in 0..n
    OBVIOUS
  <2>2. c \in 0..n
    OBVIOUS
  <2>3. S = {c} \cup {page[i] : i \in 1..m}
    BY <1>1
  <2>4. \A y \in S : y \in 0..n
    BY <1>1, <2>1, <2>2, <2>3
  <2> QED  BY <2>3, <2>4
<1>3. n \in S
  <2>1. CASE m = 0
    BY <2>1
  <2>2. CASE m # 0
    <3>1. m \in 1..m /\ page[m] = n
      BY <2>2
    <3> QED  BY <1>1, <3>1
  <2> QED  BY <2>1, <2>2
<1>4. Max(S) \in S /\ \A y \in S : Max(S) >= y
  BY <1>2, MaxFacts
<1>5. Max(S) = n
  <2> PICK x : x = Max(S)
    OBVIOUS
  <2>1. x \in Nat /\ x <= n /\ x >= n
    BY <1>2, <1>3, <1>4
  <2> QED  BY <2>1
<1> QED  BY <1>5 DEF Watermark

\* What is shown with a page more.
LEMMA ShowsMore ==
    ASSUME NEW r, NEW c, NEW shown, Shows(c, shown, r), Len(events[r]) \in Nat,
           NEW m \in Nat, c + m <= Len(events[r])
    PROVE  LET page == [i \in 1..m |-> c + i]
           IN Shows(Watermark(c, page), shown \o page, r)
<1> PICK page : page = [i \in 1..m |-> c + i]
  OBVIOUS
<1>1. c \in Nat /\ shown \in Seq(Nat) /\ Len(shown) = c /\ \A i \in 1..c : shown[i] = i
  BY DEF Shows
<1>2. page \in Seq(Nat) /\ Len(page) = m /\ \A i \in 1..m : page[i] = c + i
  <2>1. page \in [1..m -> Nat]
    BY <1>1
  <2> QED  BY <2>1
<1>3. /\ shown \o page \in Seq(Nat) /\ Len(shown \o page) = c + m
      /\ \A i \in 1..(c + m) : (shown \o page)[i] = IF i <= c THEN shown[i] ELSE page[i - c]
  <2>1. /\ shown \o page \in Seq(Nat) /\ Len(shown \o page) = Len(shown) + Len(page)
        /\ \A i \in 1..(Len(shown) + Len(page)) :
              (shown \o page)[i] = IF i <= Len(shown) THEN shown[i] ELSE page[i - Len(shown)]
    BY ONLY <1>1, <1>2, ConcatProperties
  <2> QED  BY <1>1, <1>2, <2>1
<1>4. \A i \in 1..(c + m) : (shown \o page)[i] = i
  <2> TAKE i \in 1..(c + m)
  <2>1. CASE i <= c
    BY <1>1, <1>3, <2>1
  <2>2. CASE ~(i <= c)
    <3>1. i - c \in 1..m /\ c + (i - c) = i
      BY <1>1, <2>2
    <3> QED  BY <1>2, <1>3, <2>2, <3>1
  <2> QED  BY <2>1, <2>2
<1>5. Watermark(c, page) = c + m
  BY <1>1, Watermarks
<1>6. c + m \in Nat
  BY <1>1
<1> QED  BY <1>3, <1>4, <1>5, <1>6 DEF Shows

-----------------------------------------------------------------------------
(* What the console knows, and what its poll has read *)

\* A state as it was read: it is not ahead of the log, it is the run's while the log is no longer,
\* and if it is over, an event that it reflects tells why.
Seen(view, r) ==
    /\ view.updated \in Nat /\ view.updated <= Len(events[r])
    /\ view.updated = Len(events[r]) => view.doc = runs[r].doc
    /\ Over(view.doc) => Telling(r, view.updated)

PollFields == {"pc", "run", "summary", "view", "sequence", "attempts", "cursor", "shown"}

Polled(p) ==
    p.pc # "quiet" =>
        /\ p = [f \in PollFields |-> p[f]]
        /\ p.pc \in {"run", "events", "again", "page"}
        /\ p.run \in Runs
        /\ Shows(p.cursor, p.shown, p.run)
        /\ p.pc # "run" => Seen(p.view, p.run)
        /\ p.pc = "again" => /\ p.sequence \in Nat /\ p.view.updated <= p.sequence
                             /\ p.sequence <= Len(events[p.run])
        /\ p.pc = "page" => p.sequence = p.view.updated

Knows(k) ==
    /\ k.run \in Runs
    /\ Shows(k.cursor, k.shown, k.run)
    /\ Seen(k.view, k.run)
    /\ k.view.updated <= Len(k.shown)

Watching == Polled(poll) /\ (known # None => Knows(known))

\* A write leaves what was read of a run, and what is shown of it, as true as it was.
LEMMA ShowsStays ==
    ASSUME NEW r, Lengthens(r), NEW c, NEW s, Shows(c, s, r)
    PROVE  Shows(c, s, r)'
<1>1. /\ Len(events[r]) \in Nat /\ Len(events'[r]) \in Nat /\ Len(events[r]) <= Len(events'[r])
      /\ c \in Nat /\ c <= Len(events[r])
  BY DEF Lengthens, Shows
<1>2. c <= Len(events'[r])
  BY <1>1
<1> QED  BY <1>2 DEF Shows

LEMMA SeenStays ==
    ASSUME NEW r, Lengthens(r), NEW v, Seen(v, r)
    PROVE  Seen(v, r)'
<1> PICK n, m : n = Len(events[r]) /\ m = Len(events'[r])
  OBVIOUS
<1>1. n \in Nat /\ m \in Nat /\ n <= m /\ v.updated \in Nat /\ v.updated <= n
  BY DEF Lengthens, Seen
<1>2. v.updated <= m /\ (v.updated = m => n = m /\ v.updated = n)
  BY <1>1
<1>3. v.updated = m => v.doc = runs'[r].doc
  BY <1>2 DEF Lengthens, Seen
<1>4. ASSUME Over(v.doc) PROVE Telling(r, v.updated)'
  <2>1. Telling(r, v.updated)
    BY <1>4 DEF Seen
  <2> PICK u : u = v.updated
    OBVIOUS
  <2>2. Telling(r, u)'
    BY <1>1, <2>1, StaysTold
  <2> QED  BY <2>2 DEF Telling
<1> QED  BY <1>1, <1>2, <1>3, <1>4 DEF Seen, Over

LEMMA WritesKeepWatch ==
    ASSUME \A r \in Runs : Lengthens(r), Watching, UNCHANGED readVars
    PROVE  Watching'
<1> PICK p, k : p = poll /\ k = known
  OBVIOUS
<1>1. poll' = p /\ known' = k /\ Polled(p) /\ (k # None => Knows(k))
  BY DEF readVars, Watching
<1>2. Polled(p)'
  <2> SUFFICES ASSUME p.pc # "quiet" PROVE Polled(p)'
    BY DEF Polled
  <2> PICK r, v, c, s : r = p.run /\ v = p.view /\ c = p.cursor /\ s = p.shown
    OBVIOUS
  <2>1. /\ r \in Runs /\ Lengthens(r) /\ Shows(c, s, r)
        /\ p.pc # "run" => Seen(v, r)
    BY <1>1 DEF Polled
  <2>2. Shows(c, s, r)'
    BY <2>1, ShowsStays
  <2>3. p.pc # "run" => Seen(v, r)'
    BY <2>1, SeenStays
  <2>4. p.pc = "again" => /\ p.sequence \in Nat /\ v.updated <= p.sequence
                          /\ p.sequence <= Len(events'[r])
    BY <1>1, <2>1 DEF Polled, Lengthens
  <2> QED  BY <1>1, <2>2, <2>3, <2>4 DEF Polled
<1>3. ASSUME k # None PROVE Knows(k)'
  <2> PICK r, v, c, s : r = k.run /\ v = k.view /\ c = k.cursor /\ s = k.shown
    OBVIOUS
  <2>1. r \in Runs /\ Lengthens(r) /\ Shows(c, s, r) /\ Seen(v, r)
    BY <1>1, <1>3 DEF Knows
  <2>2. Shows(c, s, r)'
    BY <2>1, ShowsStays
  <2>3. Seen(v, r)'
    BY <2>1, SeenStays
  <2> QED  BY <1>1, <1>3, <2>1, <2>2, <2>3 DEF Knows
<1> QED  BY <1>1, <1>2, <1>3 DEF Watching, Polled, Knows, Shows, Seen, Telling, Over

\* The last event of a run is the last of its log, wherever its snapshot ends.
LEMMA LastSequences ==
    ASSUME Kept, NEW r \in Runs
    PROVE  LastSequence(r) = Len(events[r]) /\ Len(events[r]) \in Nat
<1>1. Len(events[r]) \in Nat /\ DOMAIN events[r] = 1..Len(events[r])
  BY LenProperties DEF Kept, DispatchSafe, StoreTypes, IsLog
<1> PICK n \in Nat : n = Len(events[r])
  BY <1>1
<1> PICK b : b = snapshots[r].upto
  OBVIOUS
<1>2. b \in Nat /\ b <= n
  BY DEF Kept, Remembered, Rebuilt, Snapshots
<1> PICK S : S = {b} \cup {i \in DOMAIN events[r] : i > b}
  OBVIOUS
<1>3. S \subseteq 0..n /\ S # {} /\ n \in S
  BY <1>1, <1>2
<1>4. Max(S) \in S /\ \A y \in S : Max(S) >= y
  BY <1>3, MaxFacts
<1>5. Max(S) = n
  <2> PICK x : x = Max(S)
    OBVIOUS
  <2>1. x \in Nat /\ x <= n /\ x >= n
    BY <1>3, <1>4
  <2> QED  BY <2>1
<1> QED  BY <1>5 DEF LastSequence

\* What a read of the console leaves, in a log that it leaves alone.
LEMMA WatchRead ==
    ASSUME UNCHANGED vars, Polled(poll'), known' # None => Knows(known')
    PROVE  Watching'
<1>1. events' = events /\ runs' = runs
  BY DEF vars
<1> QED  BY <1>1 DEF Watching, Polled, Knows, Shows, Seen, Telling, Over

\* A run is read: its row and its log agree.
LEMMA RunSeen ==
    ASSUME Kept, EndsTold, NEW r \in Runs
    PROVE  Seen(project_run_state(r), r)
<1> PICK v, n : v = project_run_state(r) /\ n = Len(events[r])
  OBVIOUS
<1>1. v.doc = runs[r].doc /\ v.updated = n
  BY DEF project_run_state, updated_at
<1>2. n \in Nat
  BY LastSequences
<1>3. Over(v.doc) => Telling(r, n)
  BY <1>1 DEF EndsTold
<1> QED  BY <1>1, <1>2, <1>3 DEF Seen

LEMMA AskedKeeps ==
    ASSUME Kept, EndsTold, Watching, NEW r \in Watched, get_detail(r)
    PROVE  Watching'
<1>1. r \in Runs /\ Len(events[r]) \in Nat
  BY ReadsAssumption, LastSequences
<1>2. poll' = Asked(r, project_run_summary(r)) /\ known' = known /\ UNCHANGED vars
  BY DEF get_detail
<1> PICK q : q = poll'
  OBVIOUS
<1>3. /\ q = [f \in PollFields |-> q[f]] /\ q.pc = "run" /\ q.run = r
      /\ q.cursor = (IF known = None THEN 0 ELSE known.cursor)
      /\ q.shown = (IF known = None THEN <<>> ELSE known.shown)
  BY <1>2 DEF Asked, PollFields
<1>4. Shows(q.cursor, q.shown, r)
  <2>1. CASE known = None
    <3>1. Shows(0, <<>>, r)
      BY <1>1 DEF Shows
    <3> QED  BY <1>3, <2>1, <3>1
  <2>2. CASE known # None
    <3>1. known.run = r /\ Shows(known.cursor, known.shown, known.run)
      BY <2>2 DEF get_detail, Watching, Knows
    <3> QED  BY <1>3, <2>2, <3>1
  <2> QED  BY <2>1, <2>2
<1>5. Polled(q)
  BY <1>1, <1>3, <1>4 DEF Polled
<1> QED  BY <1>2, <1>5, WatchRead DEF Watching

LEMMA StateKeeps ==
    ASSUME Kept, EndsTold, Watching, get_run_state
    PROVE  Watching'
<1>1. known' = known /\ UNCHANGED vars /\ poll.pc \in {"run", "events", "again"}
  BY DEF get_run_state, ReadRun, ReadEvents, ReadAgain
<1> PICK p, q, r, n : p = poll /\ q = poll' /\ r = p.run /\ n = Len(events[r])
  OBVIOUS
<1>2. /\ Polled(p) /\ p = [f \in PollFields |-> p[f]] /\ r \in Runs /\ n \in Nat
      /\ Shows(p.cursor, p.shown, r)
      /\ p.pc # "run" => Seen(p.view, r)
  BY <1>1, LastSequences DEF Watching, Polled
<1>3. CASE ReadRun
  <2>1. q = [p EXCEPT !.pc = "events", !.view = project_run_state(r)]
    BY <1>3 DEF ReadRun
  <2>2. /\ q = [f \in PollFields |-> q[f]] /\ q.pc = "events" /\ q.view = project_run_state(r)
        /\ q.run = r /\ q.cursor = p.cursor /\ q.shown = p.shown
    BY <1>2, <2>1 DEF PollFields
  <2>3. Seen(q.view, r)
    BY <1>2, <2>2, RunSeen
  <2>4. Polled(q)
    BY <1>2, <2>2, <2>3 DEF Polled
  <2> QED  BY <1>1, <2>4, WatchRead DEF Watching
<1>4. CASE ReadEvents
  <2>1. q = [p EXCEPT !.pc = "again", !.sequence = LastSequence(r)] /\ p.pc = "events"
    BY <1>4 DEF ReadEvents
  <2>2. /\ q = [f \in PollFields |-> q[f]] /\ q.pc = "again" /\ q.sequence = LastSequence(r)
        /\ q.run = r /\ q.cursor = p.cursor /\ q.shown = p.shown /\ q.view = p.view
    BY <1>2, <2>1 DEF PollFields
  <2>3. q.sequence = n /\ Seen(q.view, r)
    BY <1>2, <2>1, <2>2, LastSequences
  <2>4. q.view.updated <= q.sequence /\ q.sequence <= n
    <3>1. q.view.updated <= n
      BY <2>3, Zenon DEF Seen
    <3> QED  BY ONLY <1>2, <2>3, <3>1
  <2>5. Polled(q)
    BY <1>2, <2>2, <2>3, <2>4 DEF Polled
  <2> QED  BY <1>1, <2>5, WatchRead DEF Watching
<1>5. CASE ReadAgain
  <2>1. p.pc = "again"
    BY <1>5 DEF ReadAgain
  <2>2. CASE SameRow(p.view, r)
    <3>1. q = [p EXCEPT !.pc = "page"]
      BY <1>5, <2>2 DEF ReadAgain
    <3>2. /\ q = [f \in PollFields |-> q[f]] /\ q.pc = "page" /\ q.sequence = p.sequence
          /\ q.run = r /\ q.cursor = p.cursor /\ q.shown = p.shown /\ q.view = p.view
      BY <1>2, <3>1 DEF PollFields
    <3>3. p.view.updated = n /\ p.sequence \in Nat /\ p.view.updated <= p.sequence /\ p.sequence <= n
      BY <1>2, <2>1, <2>2 DEF SameRow, updated_at, Polled
    <3>4. q.sequence = q.view.updated
      BY <1>2, <3>2, <3>3
    <3>5. Polled(q)
      BY <1>2, <2>1, <3>2, <3>4 DEF Polled
    <3> QED  BY <1>1, <3>5, WatchRead DEF Watching
  <2>3. CASE ~SameRow(p.view, r) /\ p.attempts + 1 < STATE_READ_ATTEMPTS
    <3>1. q = [p EXCEPT !.pc = "run", !.attempts = p.attempts + 1, !.sequence = 0, !.view = None]
      BY <1>2, <1>5, <2>3 DEF ReadAgain, PollFields
    <3>2. /\ q = [f \in PollFields |-> q[f]] /\ q.pc = "run"
          /\ q.run = r /\ q.cursor = p.cursor /\ q.shown = p.shown
      BY <1>2, <3>1 DEF PollFields
    <3>3. Polled(q)
      BY <1>2, <3>2 DEF Polled
    <3> QED  BY <1>1, <3>3, WatchRead DEF Watching
  <2>4. CASE ~SameRow(p.view, r) /\ ~(p.attempts + 1 < STATE_READ_ATTEMPTS)
    <3>1. q = Quiet
      BY <1>5, <2>4 DEF ReadAgain
    <3>2. Polled(q)
      BY <3>1 DEF Polled, Quiet
    <3> QED  BY <1>1, <3>2, WatchRead DEF Watching
  <2> QED  BY <2>2, <2>3, <2>4
<1> QED  BY <1>3, <1>4, <1>5 DEF get_run_state

\* The first events of a page.
LEMMA PageStart ==
    ASSUME NEW c \in Nat, NEW k \in Nat, NEW m \in Nat, m <= k
    PROVE  SubSeq([i \in 1..k |-> c + i], 1, m) = [i \in 1..m |-> c + i]
<1> PICK s, t, u : /\ s = [i \in 1..k |-> c + i] /\ t = [i \in 1..m |-> c + i]
                   /\ u = SubSeq(s, 1, m)
  OBVIOUS
<1>1. /\ s \in Seq(Nat) /\ Len(s) = k /\ \A i \in 1..k : s[i] = c + i
      /\ t \in Seq(Nat) /\ Len(t) = m /\ \A i \in 1..m : t[i] = c + i
  <2>1. s \in [1..k -> Nat] /\ t \in [1..m -> Nat]
    OBVIOUS
  <2> QED  BY <2>1
<1>2. CASE m = 0
  <2>1. u = <<>>
    BY <1>1, <1>2
  <2>2. t = <<>>
    BY <1>1, <1>2
  <2> QED  BY <2>1, <2>2
<1>3. CASE m # 0
  <2>1. 1 \in 1..(Len(s) + 1) /\ m \in 0..Len(s)
    BY <1>1
  <2>2. /\ u \in Seq(Nat) /\ Len(u) = m
        /\ \A i \in 1..m : u[i] = s[i]
    BY <1>1, <1>3, <2>1
  <2>3. \A i \in 1..m : u[i] = t[i]
    BY <1>1, <2>2
  <2>4. u \in Seq(Nat) /\ t \in Seq(Nat) /\ Len(u) = Len(t)
    BY <1>1, <2>2
  <2>5. \A i \in 1..Len(u) : u[i] = t[i]
    BY <2>2, <2>3
  <2>6. u = t
    BY <2>4, <2>5, SeqEqual
  <2> QED  BY <2>6
<1> QED  BY <1>2, <1>3

LEMMA TimelineKeeps ==
    ASSUME Kept, Watching, get_timeline
    PROVE  Watching'
<1>1. UNCHANGED vars /\ poll.pc = "page"
  BY DEF get_timeline
<1> PICK p, r, c, n : p = poll /\ r = p.run /\ c = p.cursor /\ n = Len(events[r])
  OBVIOUS
<1>2. /\ p = [f \in PollFields |-> p[f]] /\ r \in Runs /\ n \in Nat
      /\ Shows(c, p.shown, r) /\ Seen(p.view, r)
  BY <1>1, LastSequences DEF Watching, Polled
<1>3. c \in Nat /\ c <= n
  BY <1>2 DEF Shows
<1> PICK stored : stored = list_after(r, c)
  OBVIOUS
<1>4. PICK k \in Nat : stored = [i \in 1..k |-> c + i] /\ c + k <= n /\ (k <= PageLimit => c + k = n)
  BY <1>2, <1>3, ListAfter, ZenonT(60)
<1>5. Len(stored) = k
  BY <1>4
<1> PICK page, cursor, shown :
      /\ page = SubSeq(stored, 1, Min({PageLimit, Len(stored)}))
      /\ cursor = Watermark(c, page) /\ shown = p.shown \o page
  OBVIOUS
<1>6. PICK m \in Nat : m = Min({PageLimit, k}) /\ m <= k /\ (k <= PageLimit => m = k)
  <2> PICK S : S = {PageLimit, k}
    OBVIOUS
  <2>1. S \subseteq Nat /\ S # {}
    BY ReadsAssumption
  <2>2. Min(S) \in S /\ \A y \in S : Min(S) <= y
    BY ONLY <2>1, MinFacts
  <2> PICK x : x = Min(S)
    OBVIOUS
  <2>3. x \in Nat /\ x <= k /\ x <= PageLimit /\ (x = k \/ x = PageLimit)
    BY <2>1, <2>2
  <2> QED  BY <2>3, ReadsAssumption
<1>7. page = [i \in 1..m |-> c + i]
  <2>1. page = SubSeq(stored, 1, m)
    BY <1>5, <1>6
  <2>2. SubSeq([i \in 1..k |-> c + i], 1, m) = [i \in 1..m |-> c + i]
    BY ONLY <1>3, <1>4, <1>6, PageStart
  <2> QED  BY <1>4, <2>1, <2>2
<1>8. Shows(cursor, shown, r) /\ cursor = c + m
  <2>1. c + m <= Len(events[r])
    BY <1>3, <1>4, <1>6, SMTT(30)
  <2> PICK s : s = p.shown
    OBVIOUS
  <2>2. Shows(c, s, r) /\ Len(events[r]) \in Nat
    BY <1>2
  <2>3. Shows(Watermark(c, [i \in 1..m |-> c + i]), s \o [i \in 1..m |-> c + i], r)
    BY ONLY <1>6, <2>1, <2>2, ShowsMore
  <2>4. Watermark(c, [i \in 1..m |-> c + i]) = c + m
    BY ONLY <1>3, <1>6, Watermarks
  <2> QED  BY <1>7, <2>3, <2>4
<1>9. CASE /\ Len(stored) > PageLimit
           /\ poll' = [poll EXCEPT !.cursor = cursor, !.shown = shown]
           /\ UNCHANGED known
  <2> PICK q : q = poll'
    BY SMTT(30)
  <2>1. /\ q = [f \in PollFields |-> q[f]] /\ q.pc = "page" /\ q.sequence = p.sequence
        /\ q.run = r /\ q.cursor = cursor /\ q.shown = shown /\ q.view = p.view
    BY <1>1, <1>2, <1>9 DEF PollFields
  <2>2. p.sequence = p.view.updated
    BY <1>1 DEF Watching, Polled
  <2>3. Polled(q)
    BY <1>2, <1>8, <2>1, <2>2 DEF Polled
  <2> QED  BY <1>1, <1>9, <2>3, WatchRead DEF Watching
<1>10. CASE /\ Len(stored) <= PageLimit
            /\ known' = Known(cursor, shown)
            /\ poll' = Quiet
  <2> PICK h : h = known'
    OBVIOUS
  <2>1. h.run = r /\ h.view = p.view /\ h.cursor = cursor /\ h.shown = shown
    BY <1>10 DEF Known
  <2>2. cursor = n
    BY <1>4, <1>5, <1>6, <1>8, <1>10
  <2>3. Len(shown) = n
    BY <1>8, <2>2 DEF Shows
  <2>4. p.view.updated <= n
    BY <1>2, Zenon DEF Seen
  <2>5. Knows(h)
    BY <1>2, <1>8, <2>1, <2>3, <2>4 DEF Knows
  <2>6. Polled(Quiet)
    BY DEF Polled, Quiet
  <2> QED  BY <1>1, <1>10, <2>5, <2>6, WatchRead
<1>11. \/ /\ Len(stored) > PageLimit
          /\ poll' = [poll EXCEPT !.cursor = cursor, !.shown = shown]
          /\ UNCHANGED known
       \/ /\ Len(stored) <= PageLimit
          /\ known' = Known(cursor, shown)
          /\ poll' = Quiet
  BY DEF get_timeline
<1> QED  BY <1>9, <1>10, <1>11

LEMMA ReadsWatch ==
    Kept /\ EndsTold /\ Watching /\ [ReadsNext]_rvars => EndsTold' /\ Watching'
<1> SUFFICES ASSUME Kept, EndsTold, Watching, [ReadsNext]_rvars PROVE EndsTold' /\ Watching'
  OBVIOUS
<1>1. [Next]_vars /\ Shaped
  BY ReadsStep, NextKept
<1>2. EndsTold'
  BY <1>1, NextTold
<1>3. CASE UNCHANGED readVars
  <2>1. ASSUME NEW r \in Runs PROVE Lengthens(r)
    BY <1>1, NextLengthens DEF Kept
  <2>2. \A r \in Runs : Lengthens(r)
    BY <2>1
  <2>3. Watching'
    BY ONLY <1>3, <2>2, Watching, WritesKeepWatch
  <2> QED  BY <1>2, <2>3
<1>4. CASE Reading
  <2>1. ASSUME Abort \/ list_recent \/ list_incidents PROVE Watching'
    <3>1. UNCHANGED vars /\ known' = known /\ (poll' = poll \/ poll' = Quiet)
      BY <2>1 DEF Abort, list_recent, list_incidents
    <3>2. Polled(Quiet)
      BY DEF Polled, Quiet
    <3> QED  BY <3>1, <3>2, WatchRead DEF Watching
  <2>2. ASSUME NEW r \in Watched, get_detail(r) PROVE Watching'
    BY ONLY Kept, EndsTold, Watching, <2>2, AskedKeeps
  <2>3. ASSUME get_run_state PROVE Watching'
    BY ONLY Kept, EndsTold, Watching, <2>3, StateKeeps
  <2>4. ASSUME get_timeline PROVE Watching'
    BY ONLY Kept, Watching, <2>4, TimelineKeeps
  <2>5. \/ \E r \in Watched : get_detail(r)
        \/ get_run_state \/ get_timeline \/ Abort \/ list_recent \/ list_incidents
    BY <1>4, Zenon DEF Reading
  <2> QED  BY <1>2, <2>1, <2>2, <2>3, <2>4, <2>5, Zenon
<1> QED  BY <1>2, <1>3, <1>4 DEF ReadsNext, rvars

LEMMA InitWatch == ReadsInit => EndsTold /\ Watching
<1> SUFFICES ASSUME ReadsInit PROVE EndsTold /\ Watching
  OBVIOUS
<1>1. \A r \in Runs : runs[r].doc \in {NewRun("active").doc, AbsentRun.doc}
  BY DEF ReadsInit, Init, Declared, NewRun
<1>2. EndsTold
  BY <1>1 DEF EndsTold, Over, NewRun, AbsentRun
<1> QED  BY <1>2 DEF ReadsInit, Watching, Polled, Quiet

LEMMA ConsoleShows == Kept /\ Watching => ConsoleShowsHistory
<1> SUFFICES ASSUME Kept, Watching PROVE ConsoleShowsHistory
  OBVIOUS
<1>1. poll.pc = "page" => poll.sequence = poll.view.updated
  BY DEF Watching, Polled
<1>2. \A r \in Runs : get_snapshot(r) # None => SnapshotIsHistory(r, get_snapshot(r))
  BY DEF Kept, Remembered, Rebuilt, get_snapshot
<1>3. ASSUME known # None
      PROVE  LET length == Len(known.shown)
             IN /\ \A i \in 1..length : known.shown[i] = i
                /\ length >= known.view.updated
                /\ known.view.doc.status \in {"completed", "terminated"} =>
                     \E i \in 1..length : TellsEnd(event_summary(events[known.run][i]))
                /\ Settled(known, project_run_summary(known.run)) =>
                     length = Len(events[known.run]) /\ known.view.doc = runs[known.run].doc
  <2> PICK k, r, v, m, n : k = known /\ r = k.run /\ v = k.view /\ m = Len(k.shown) /\ n = Len(events[r])
    OBVIOUS
  <2>1. r \in Runs /\ Shows(k.cursor, k.shown, r) /\ Seen(v, r) /\ v.updated <= m
    BY <1>3 DEF Watching, Knows
  <2>2. m \in Nat /\ m <= n /\ n \in Nat /\ \A i \in 1..m : k.shown[i] = i
    BY <2>1, LastSequences DEF Shows
  <2>3. v.updated \in Nat /\ (v.updated = n => v.doc = runs[r].doc)
        /\ (Over(v.doc) => Telling(r, v.updated))
    BY <2>1, Zenon DEF Seen
  <2>4. Over(v.doc) => \E i \in 1..m : TellsEnd(event_summary(events[r][i]))
    <3> SUFFICES ASSUME Over(v.doc) PROVE \E i \in 1..m : TellsEnd(event_summary(events[r][i]))
      OBVIOUS
    <3>1. PICK i \in 1..v.updated : TellsEnd(event_summary(events[r][i]))
      BY <2>3 DEF Telling
    <3>2. i \in 1..m
      BY <2>1, <2>2, <2>3
    <3> QED  BY <3>1, <3>2
  <2>5. Settled(k, project_run_summary(r)) => v.updated = n
    BY DEF Settled, project_run_summary, updated_at
  <2>6. v.updated = n => m = n
    BY <2>1, <2>2, <2>3
  <2> QED  BY <2>1, <2>2, <2>3, <2>4, <2>5, <2>6 DEF Over
<1> QED  BY <1>1, <1>2, <1>3 DEF ConsoleShowsHistory

\* A state that is answered has the cursor of the last event it reflects, and the console, whatever
\* is written while it polls, shows the run's log from its first event and without a gap, with the
\* event that tells the end of a run it shows as ended; a run it no longer asks for is shown as it
\* is stored (consistent_run_state, list_after, live-incident.ts).
THEOREM ConsoleIsFaithful == ReadsSpec => []ConsoleShowsHistory
<1> DEFINE Inv == Kept /\ EndsTold /\ Watching
<1>1. ReadsInit => Inv
  BY InitKept, InitWatch DEF ReadsInit
<1>2. Inv /\ [ReadsNext]_rvars => Inv'
  BY ReadsStep, NextKept, ReadsWatch
<1>3. Inv => ConsoleShowsHistory
  BY ConsoleShows
<1> QED  BY <1>1, <1>2, <1>3, PTL DEF ReadsSpec
=============================================================================
