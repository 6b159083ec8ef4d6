------------------------ MODULE DeployExecutorProofs ------------------------
(***************************************************************************)
(* Proofs about DeployExecutor: whatever the keys, callers, targets,       *)
(* faults and crashes, an operation is called at most once per key and an  *)
(* answered success is kept.                                               *)
(***************************************************************************)
EXTENDS DeployExecutor, FiniteSetTheorems, TLAPS

Names == Seq({"next", "previous"})
ContainerStates == [exists : BOOLEAN, name : Names, running : BOOLEAN, image : Images]
ActiveTasks == [pc : Busy, key : Keys, target : Targets, old : Containers, name : Names,
                status : Statuses \cup {0}]

\* A task past the key's lookup: it holds the key's lock.
Holds(t) == task[t].pc \in Busy \ {"key"}
Calling(t) == task[t].pc \in {"create", "restart", "put"}

\* The lock of a key has one holder.
KeyAlone ==
    \A t, u \in Tasks : Holds(t) /\ Holds(u) /\ task[t].key = task[u].key => t = u

\* Until its intent the key is unbound and nothing was called.
Unbound ==
    \A t \in Tasks : task[t].pc \in {"service", "find", "intent"} =>
        journal[task[t].key].kind = "none" /\ calls[task[t].key] = 0

\* The first call is made once, behind an intent.
FirstCallBound ==
    \A t \in Tasks : Calling(t) =>
        journal[task[t].key].kind = "intent" /\ calls[task[t].key] = 0

\* While the key's lock is held it has no result.
HeldOpen == \A t \in Tasks : Holds(t) => journal[task[t].key].kind \in {"none", "intent"}

\* A key whose operation called out is bound.
CalledBound == \A k \in Keys : calls[k] # 0 => journal[k].kind # "none"

\* A task that is to record its outcome knows it.
Decided == \A t \in Tasks : task[t].pc \in Undone \cup {"record"} => task[t].status # 0

KeySafe ==
    /\ TypeOK /\ Decided
    /\ KeyAlone /\ Unbound /\ FirstCallBound /\ HeldOpen /\ CalledBound
    /\ AtMostOnce /\ SuccessKept

-----------------------------------------------------------------------------
(* Types *)

\* A container that does not exist has a typed state.
LEMMA AbsentType == Absent \in ContainerStates
<1>1. <<>> \in Names
  BY DEF Names
<1> QED  BY <1>1 DEF Absent, ContainerStates, Images

\* An empty journal and idle tasks satisfy the inductive invariant.
LEMMA InitKeySafe == Init => KeySafe
<1> SUFFICES ASSUME Init PROVE KeySafe
  OBVIOUS
<1>1. TypeOK
  <2>1. Absent \in ContainerStates
    BY AbsentType
  <2>2. [Absent EXCEPT !.exists = TRUE, !.running = TRUE] \in ContainerStates
    BY <2>1 DEF ContainerStates
  <2> QED
    BY <2>1, <2>2 DEF Init, TypeOK, NoRecord, Record, Records, TaskRecords, Images, ContainerStates,
                Names
<1>2. \A t \in Tasks : task[t].pc = "idle"
  BY DEF Init, NoTask
<1>3. KeyAlone /\ Unbound /\ FirstCallBound /\ HeldOpen /\ Decided
  BY <1>2 DEF Decided, KeyAlone, Unbound, FirstCallBound, HeldOpen, Holds, Calling, Busy, Waits,
              Attempted, Undone, Unguarded
<1>4. CalledBound /\ AtMostOnce /\ SuccessKept
  BY DEF Init, CalledBound, AtMostOnce, SuccessKept
<1> QED  BY <1>1, <1>3, <1>4 DEF KeySafe

\* What a Docker call makes of the containers is typed.
LEMMA EffectType ==
    ASSUME TypeOK, NEW t \in Tasks,
           task[t].pc \in (Attempted \ {"settle"}) \cup Undone \cup {"create", "remove", "restart"}
    PROVE  Effect(task[t]) \in [Containers -> ContainerStates]
<1> DEFINE w == task[t]
           c == containers[Callee(w)]
<1>1. w \in ActiveTasks
  BY DEF TypeOK, TaskRecords, NoTask, ActiveTasks, Names, Attempted, Undone
<1>2. Callee(w) \in Containers
  BY <1>1 DEF Callee, ActiveTasks, Containers
<1>3. containers \in [Containers -> ContainerStates] /\ c \in ContainerStates
  BY <1>2 DEF TypeOK, ContainerStates, Names
<1>4. Append(w.name, "next") \in Names /\ Append(w.name, "previous") \in Names /\ w.name \in Names
      /\ w.target \in Images
  BY <1>1 DEF ActiveTasks, Names, Images
<1>5. Absent \in ContainerStates
  BY AbsentType
<1> HIDE DEF w, c
<1>6. /\ [c EXCEPT !.running = FALSE] \in ContainerStates
      /\ [c EXCEPT !.running = TRUE] \in ContainerStates
      /\ \A n \in Names : [c EXCEPT !.name = n] \in ContainerStates
      /\ \A n \in Names, i \in Images :
            [exists |-> TRUE, name |-> n, running |-> FALSE, image |-> i] \in ContainerStates
  BY <1>3 DEF ContainerStates
<1> DEFINE after == CASE w.pc = "create" ->
                        [exists |-> TRUE, name |-> Append(w.name, "next"), running |-> FALSE,
                         image |-> w.target]
                   [] w.pc \in {"stop", "undoStop"}      -> [c EXCEPT !.running = FALSE]
                   [] w.pc \in {"start", "undoStart", "restart"} -> [c EXCEPT !.running = TRUE]
                   [] w.pc = "previous" -> [c EXCEPT !.name = Append(w.name, "previous")]
                   [] w.pc \in {"promote", "undoRename"} -> [c EXCEPT !.name = w.name]
                   [] w.pc \in {"remove", "undoRemove"}  -> Absent
<1>7. after \in ContainerStates
  BY <1>4, <1>5, <1>6 DEF w, Attempted, Undone
<1>8. Effect(w) = [containers EXCEPT ![Callee(w)] = after]
  BY DEF Effect, after, c
<1> HIDE DEF after
<1>9. Effect(w) \in [Containers -> ContainerStates]
  BY <1>2, <1>3, <1>7, <1>8
<1> QED  BY <1>9 DEF w

-----------------------------------------------------------------------------
(* Steps *)

\* A task moves on under its key's lock: the journal may gain its intent, its first call is
\* counted.
LEMMA MovesOn ==
    ASSUME KeySafe, NEW t \in Tasks, Holds(t), NEW w \in ActiveTasks,
           w.key = task[t].key, w.pc \in Busy \ {"key"},
           task' = [task EXCEPT ![t] = w],
           w.pc \in Undone \cup {"record"} => w.status # 0,
           w.pc \in {"service", "find", "intent"} =>
               task[t].pc \in {"service", "find", "intent"},
           w.pc \in {"create", "restart", "put"} => task[t].pc = "intent",
           \/ UNCHANGED <<journal, calls>> /\ ~(w.pc \in {"create", "restart", "put"})
           \/ /\ UNCHANGED calls
              /\ journal' = [journal EXCEPT ![w.key] = Record("intent", w.target, 0)]
              /\ w.pc \in {"create", "restart", "put"}
           \/ /\ UNCHANGED journal
              /\ calls' = [calls EXCEPT ![w.key] = @ + 1]
              /\ Calling(t) /\ ~(w.pc \in {"service", "find", "intent", "create", "restart", "put"}),
           UNCHANGED answers,
           containers' \in [Containers -> ContainerStates], flag' \in Images,
           requests' \in Nat, faults' \in Nat, crashes' \in Nat
    PROVE  KeySafe'
<1> DEFINE k == w.key
<1>types. /\ journal \in [Keys -> Records]
          /\ task \in [Tasks -> {NoTask} \cup ActiveTasks]
          /\ calls \in [Keys -> Nat]
          /\ k \in Keys /\ w.target \in Images
  BY DEF KeySafe, TypeOK, TaskRecords, ActiveTasks, Names, Images
<1>1. Record("intent", w.target, 0) \in Records
  BY <1>types DEF Record, Records
<1>2. /\ journal' \in [Keys -> Records] /\ calls' \in [Keys -> Nat]
      /\ \A j \in Keys : j # k => journal'[j] = journal[j] /\ calls'[j] = calls[j]
  BY <1>types, <1>1
<1>3. /\ task' \in [Tasks -> {NoTask} \cup ActiveTasks]
      /\ task'[t] = w /\ \A u \in Tasks : u # t => task'[u] = task[u]
  BY <1>types
<1>4. TypeOK'
  BY <1>2, <1>3 DEF KeySafe, TypeOK, TaskRecords, ActiveTasks, ContainerStates, Names
<1>5. \A u \in Tasks : u # t /\ Holds(u) => task[u].key # k /\ task[u].key \in Keys
  <2> SUFFICES ASSUME NEW u \in Tasks, u # t, Holds(u) PROVE task[u].key # k /\ task[u].key \in Keys
    OBVIOUS
  <2>1. task[u] \in ActiveTasks
    BY <1>types DEF Holds, NoTask, Busy, Waits, Attempted, Undone, Unguarded
  <2> QED  BY <2>1 DEF KeySafe, KeyAlone, ActiveTasks
<1>6. KeyAlone'
  BY <1>3, <1>5 DEF KeyAlone, Holds, KeySafe
<1>7. journal[k].kind \in {"none", "intent"} /\ journal'[k].kind \in {"none", "intent"}
  BY <1>types DEF KeySafe, HeldOpen, Record
<1>8. HeldOpen'
  BY <1>2, <1>3, <1>5, <1>7 DEF HeldOpen, Holds, KeySafe
<1>9. Calling(t) => journal[k].kind = "intent" /\ calls[k] = 0
  BY DEF KeySafe, FirstCallBound
<1>10. Unbound'
  <2>1. w.pc \in {"service", "find", "intent"} => journal'[k].kind = "none" /\ calls'[k] = 0
    BY DEF KeySafe, Unbound
  <2>2. \A u \in Tasks : task[u].pc \in {"service", "find", "intent"} => Holds(u)
    BY DEF Holds, Busy, Waits
  <2> QED  BY <1>2, <1>3, <1>5, <2>1, <2>2 DEF KeySafe, Unbound
<1>11. FirstCallBound'
  <2>1. w.pc \in {"create", "restart", "put"} => journal'[k].kind = "intent" /\ calls'[k] = 0
    BY <1>types DEF KeySafe, Unbound, Record
  <2>2. \A u \in Tasks : Calling(u) => Holds(u)
    BY DEF Calling, Holds, Busy, Unguarded
  <2> QED  BY <1>2, <1>3, <1>5, <2>1, <2>2 DEF KeySafe, FirstCallBound, Calling
<1>12. calls'[k] # 0 => journal'[k].kind # "none"
  BY <1>types, <1>9 DEF KeySafe, CalledBound, Record
<1>13. calls'[k] <= 1
  BY <1>types, <1>9 DEF KeySafe, AtMostOnce
<1>14. CalledBound' /\ AtMostOnce'
  BY <1>2, <1>12, <1>13 DEF CalledBound, AtMostOnce, KeySafe
<1>15. SuccessKept'
  <2> SUFFICES ASSUME NEW a \in answers, a.status = 200
               PROVE  journal'[a.key] = Record("result", a.target, 200)
    BY DEF SuccessKept
  <2>1. journal[a.key] = Record("result", a.target, 200) /\ a.key \in Keys
    BY DEF KeySafe, SuccessKept, TypeOK
  <2>2. a.key # k
    BY <1>7, <2>1 DEF Record
  <2> QED  BY <1>2, <2>1, <2>2
<1>16. Decided'
  BY <1>3 DEF Decided, KeySafe
<1> QED
  BY <1>4, <1>6, <1>8, <1>10, <1>11, <1>14, <1>15, <1>16 DEF KeySafe

\* A task answers and leaves the journal as it is, its first call counted if it made it.
LEMMA Leaves ==
    ASSUME KeySafe, NEW t \in Tasks, task[t] \in ActiveTasks, NEW status \in Statuses,
           Answer(t, status),
           status = 200 => journal[task[t].key] = Record("result", task[t].target, 200),
           UNCHANGED journal,
           UNCHANGED calls \/ (Calling(t) /\ calls' = [calls EXCEPT ![task[t].key] = @ + 1]),
           containers' \in [Containers -> ContainerStates], flag' \in Images,
           requests' \in Nat, faults' \in Nat, crashes' \in Nat
    PROVE  KeySafe'
<1> DEFINE k == task[t].key
<1>types. /\ journal \in [Keys -> Records]
          /\ task \in [Tasks -> {NoTask} \cup ActiveTasks]
          /\ calls \in [Keys -> Nat]
          /\ k \in Keys /\ task[t].target \in Targets
  BY DEF KeySafe, TypeOK, TaskRecords, ActiveTasks, Names
<1>1. task' = [task EXCEPT ![t] = NoTask]
  BY DEF Answer
<1>2. /\ task' \in [Tasks -> {NoTask} \cup ActiveTasks]
      /\ task'[t].pc = "idle" /\ \A u \in Tasks : u # t => task'[u] = task[u]
  BY <1>1, <1>types DEF NoTask
<1>3. /\ calls' \in [Keys -> Nat]
      /\ \A j \in Keys : j # k => calls'[j] = calls[j]
  BY <1>types
<1>4. answers' = answers \cup {[key |-> k, target |-> task[t].target, status |-> status]}
  BY DEF Answer
<1>5. TypeOK'
  BY <1>2, <1>3, <1>4, <1>types DEF KeySafe, TypeOK, TaskRecords, ActiveTasks, ContainerStates, Names
<1>6. Calling(t) => Holds(t) /\ journal[k].kind = "intent" /\ calls[k] = 0
  BY DEF KeySafe, FirstCallBound, Calling, Holds, Busy, Unguarded
<1>7. \A u \in Tasks : u # t /\ Holds(u) /\ Calling(t) => task[u].key # k
  BY <1>6 DEF KeySafe, KeyAlone
<1>8. \A u \in Tasks : Holds(u) => task[u].key \in Keys
  BY <1>types DEF Holds, NoTask, Busy, Waits, Attempted, Undone, Unguarded, ActiveTasks
<1>9. \A u \in Tasks : Calling(u) \/ task[u].pc \in {"service", "find", "intent"} => Holds(u)
  BY DEF Calling, Holds, Busy, Waits, Unguarded
<1>10. KeyAlone' /\ HeldOpen' /\ Decided'
  <2>1. \A u \in Tasks : Holds(u)' => u # t /\ Holds(u)
    BY <1>2 DEF Holds, Busy, Waits, Attempted, Undone, Unguarded
  <2>2. \A u \in Tasks : task'[u].pc \in Undone \cup {"record"} => u # t
    BY <1>2 DEF Undone
  <2> QED  BY <1>2, <2>1, <2>2 DEF KeySafe, KeyAlone, HeldOpen, Decided
<1>11. Unbound' /\ FirstCallBound'
  BY <1>2, <1>3, <1>7, <1>8, <1>9 DEF KeySafe, Unbound, FirstCallBound, Calling
<1>12. CalledBound' /\ AtMostOnce'
  BY <1>3, <1>6, <1>types DEF KeySafe, CalledBound, AtMostOnce
<1>13. SuccessKept'
  BY <1>4 DEF KeySafe, SuccessKept
<1> QED
  BY <1>5, <1>10, <1>11, <1>12, <1>13 DEF KeySafe

-----------------------------------------------------------------------------
(* Steps *)

\* What a lookup that found one container makes of it.
FoundOne(t, c) ==
    IF /\ Op(t) = "deployment.rollback"
       /\ containers[c].image = task[t].target /\ containers[c].running
    THEN Goes(t, "record", 200)
    ELSE task' = [task EXCEPT ![t] = [@ EXCEPT !.pc = "intent", !.old = c,
                                               !.name = containers[c].name]]

\* What a lookup comes to.
LEMMA FindCases ==
    ASSUME NEW t \in Tasks, Find(t)
    PROVE  \/ \E status \in {500, 502, 503, 504} : Fault /\ Answer(t, status)
           \/ Answer(t, 409) /\ UNCHANGED faults
           \/ Answer(t, 422) /\ UNCHANGED faults
           \/ /\ Op(t) = "flag.set" /\ UNCHANGED <<answers, faults>>
              /\ IF flag = task[t].target THEN Goes(t, "record", 200) ELSE Goes(t, "intent", 0)
           \/ /\ Op(t) # "flag.set" /\ UNCHANGED <<answers, faults>>
              /\ Cardinality({c \in Containers : containers[c].exists}) = 1
              /\ \E c \in {c \in Containers : containers[c].exists} : FoundOne(t, c)
<1> QED  BY ZenonT(60) DEF Find, FoundOne

\* Every step of the executor, a crash included, preserves the inductive invariant.
LEMMA StepKeySafe == ASSUME KeySafe, [Next]_vars PROVE KeySafe'
<1>types. /\ journal \in [Keys -> Records]
          /\ task \in [Tasks -> {NoTask} \cup ActiveTasks]
          /\ calls \in [Keys -> Nat]
          /\ containers \in [Containers -> ContainerStates] /\ flag \in Images
          /\ requests \in Nat /\ faults \in Nat /\ crashes \in Nat
  BY DEF KeySafe, TypeOK, TaskRecords, ActiveTasks, ContainerStates, Names
<1>busy. \A t \in Tasks : task[t].pc \in Busy => task[t] \in ActiveTasks
  BY <1>types DEF NoTask, Busy, Waits, Attempted, Undone, Unguarded
<1>ops. OperationOf \in [Keys -> Operations]
  BY ExecutorAssumption
<1>1. ASSUME NEW t \in Tasks, NEW k \in Keys, NEW x \in Targets, Submit(t, k, x) PROVE KeySafe'
  <2>1. Request(k, x) \in ActiveTasks /\ Request(k, x).pc = "key"
    BY DEF Request, ActiveTasks, Busy, Waits, Names, Containers
  <2>2. TypeOK'
    BY <1>1, <2>1 DEF Submit, KeySafe, TypeOK, TaskRecords, ActiveTasks, Names
  <2>3. \A u \in Tasks : u # t => task'[u] = task[u]
    BY <1>1, <1>types DEF Submit
  <2>4. task'[t].pc = "key"
    BY <1>1, <1>types, <2>1 DEF Submit
  <2> QED
    BY <1>1, <2>2, <2>3, <2>4
       DEF Submit, KeySafe, KeyAlone, Unbound, FirstCallBound, HeldOpen, CalledBound, AtMostOnce,
           SuccessKept, Holds, Calling, Decided, Undone
<1>2. ASSUME NEW t \in Tasks, Begin(t) PROVE KeySafe'
  <2> DEFINE w == task[t]
             status == Replay(journal[w.key], w.target)
  <2>1. w \in ActiveTasks /\ w.pc = "key"
    BY <1>2, <1>busy DEF Begin, Busy, Waits
  <2>2. journal[w.key] \in Records /\ w.key \in Keys /\ w.target \in Targets
    BY <2>1, <1>types DEF ActiveTasks
  <2>3. UNCHANGED <<journal, containers, flag, requests, faults, crashes, calls>>
    BY <1>2 DEF Begin
  <2>4. CASE status = 0
    <3>1. task' = [task EXCEPT ![t] = [w EXCEPT !.pc = "service", !.status = 0]]
          /\ UNCHANGED answers
      BY <1>2, <2>4 DEF Begin, Goes
    <3>2. task' \in [Tasks -> {NoTask} \cup ActiveTasks] /\ task'[t] = [w EXCEPT !.pc = "service", !.status = 0]
          /\ \A u \in Tasks : u # t => task'[u] = task[u]
      BY <2>1, <3>1, <1>types DEF ActiveTasks, Busy, Waits
    <3>3. TypeOK'
      BY <2>3, <3>1, <3>2 DEF KeySafe, TypeOK, TaskRecords, ActiveTasks, Names
    <3>4. task'[t].pc = "service" /\ task'[t].key = w.key
      BY <2>1, <3>2 DEF ActiveTasks
    <3>5. journal[w.key].kind = "none"
      BY <2>2, <2>4 DEF Replay, Records, Statuses
    <3>6. calls[w.key] = 0
      BY <2>2, <3>5 DEF KeySafe, CalledBound
    <3>7. \A u \in Tasks : Holds(u) => task[u].key # w.key
      BY <1>2 DEF Begin, KeyFree, Holds
    <3> QED
      BY <2>3, <3>1, <3>2, <3>3, <3>4, <3>5, <3>6, <3>7
         DEF KeySafe, KeyAlone, Unbound, FirstCallBound, HeldOpen, CalledBound, AtMostOnce,
             SuccessKept, Holds, Calling, Decided, Undone
  <2>5. CASE status # 0
    <3>1. Answer(t, status)
      BY <1>2, <2>5 DEF Begin
    <3>2. status \in Statuses
      BY <2>2, <2>5 DEF Replay, Records, Statuses
    <3>3. status = 200 => journal[w.key] = Record("result", w.target, 200)
      BY <2>2, <2>5 DEF Replay, Records, Record
    <3> QED  BY <2>1, <2>3, <3>1, <3>2, <3>3, <1>types, Leaves
  <2> QED  BY <2>4, <2>5
<1>3. ASSUME NEW t \in Tasks, Enter(t) PROVE KeySafe'
  <2> DEFINE w == [task[t] EXCEPT !.pc = "find", !.status = 0]
  <2>1. task[t] \in ActiveTasks /\ Holds(t) /\ task[t].pc = "service"
    BY <1>3, <1>busy DEF Enter, Busy, Waits, Holds
  <2>2. w \in ActiveTasks /\ w.pc = "find" /\ w.key = task[t].key
    BY <2>1 DEF ActiveTasks, Busy
  <2>3. task' = [task EXCEPT ![t] = w]
    BY <1>3 DEF Enter, Goes
  <2> HIDE DEF w
  <2>4. w.pc \in Busy \ {"key"}
    BY <2>2 DEF Busy
  <2>5. UNCHANGED <<journal, containers, flag, requests, faults, crashes, calls, answers>>
    BY <1>3 DEF Enter
  <2> QED
    BY <2>1, <2>2, <2>3, <2>4, <2>5, <1>types, MovesOn DEF Undone
<1>4. ASSUME NEW t \in Tasks, Find(t) PROVE KeySafe'
  <2>1. task[t] \in ActiveTasks /\ Holds(t) /\ task[t].pc = "find"
    BY <1>4, <1>busy DEF Find, Busy, Waits, Holds
  <2>a. UNCHANGED <<journal, containers, flag, requests, crashes, calls>>
    BY <1>4 DEF Find
  <2>b. faults' = faults \/ faults' = faults + 1
    BY <1>4, FindCases DEF Fault
  <2>2. UNCHANGED <<journal, containers, flag, requests, crashes, calls>> /\ faults' \in Nat
    BY <2>a, <2>b, <1>types
  <2>3. ASSUME NEW status \in {409, 422, 500, 502, 503, 504}, Answer(t, status) PROVE KeySafe'
    <3>1. status \in Statuses /\ status # 200
      BY DEF Statuses
    <3> QED  BY <2>1, <2>2, <2>3, <3>1, <1>types, Leaves
  <2>4. ASSUME Goes(t, "record", 200), UNCHANGED answers PROVE KeySafe'
    <3> DEFINE w == [task[t] EXCEPT !.pc = "record", !.status = 200]
    <3>1. w \in ActiveTasks /\ w.pc = "record" /\ w.key = task[t].key /\ w.status = 200
      <4>1. "record" \in Busy /\ 200 \in Statuses
        BY DEF Busy, Statuses
      <4> QED  BY <2>1, <4>1, ZenonT(60) DEF ActiveTasks
    <3>2. task' = [task EXCEPT ![t] = w]
      BY <2>4 DEF Goes
    <3> HIDE DEF w
    <3>3. /\ w.pc \in Busy \ {"key"} /\ w.status # 0
          /\ ~(w.pc \in {"service", "find", "intent", "create", "restart", "put"})
      BY <3>1 DEF Busy
    <3> QED  BY <2>1, <2>2, <2>4, <3>1, <3>2, <3>3, <1>types, MovesOn
  <2>5. ASSUME NEW c \in Containers, NEW n \in Names, UNCHANGED answers,
               \/ task' = [task EXCEPT ![t] = [@ EXCEPT !.pc = "intent", !.old = c, !.name = n]]
               \/ Goes(t, "intent", 0)
        PROVE  KeySafe'
    <3>1. PICK w \in ActiveTasks : /\ task' = [task EXCEPT ![t] = w]
                                   /\ w.pc = "intent" /\ w.key = task[t].key
      <4>1. /\ [task[t] EXCEPT !.pc = "intent", !.old = c, !.name = n] \in ActiveTasks
            /\ [task[t] EXCEPT !.pc = "intent", !.status = 0] \in ActiveTasks
        BY <2>1 DEF ActiveTasks, Busy
      <4> QED  BY <2>1, <2>5, <4>1 DEF ActiveTasks, Goes
    <3>2. w.pc \in Busy \ {"key"}
      BY <3>1 DEF Busy
    <3> QED  BY <2>1, <2>2, <2>5, <3>1, <3>2, <1>types, MovesOn DEF Undone
  <2>6. \A c \in Containers : containers[c].name \in Names
    BY <1>types DEF ContainerStates
  <2>7. Origin \in Containers /\ <<>> \in Names
    BY DEF Containers, Names
  <2> DEFINE found == {c \in Containers : containers[c].exists}
             Fails == \E status \in {500, 502, 503, 504} : Fault /\ Answer(t, status)
             Found == \E c \in found : FoundOne(t, c)
  <2>8. \/ Fails \/ Answer(t, 409) \/ Answer(t, 422)
        \/ UNCHANGED answers /\ (Goes(t, "record", 200) \/ Goes(t, "intent", 0) \/ Found)
    BY <1>4, FindCases
  <2>9. CASE Fails
    BY <2>3, <2>9
  <2>10. CASE Answer(t, 409) \/ Answer(t, 422)
    BY <2>3, <2>10
  <2>11. CASE UNCHANGED answers /\ Goes(t, "record", 200)
    BY <2>4, <2>11
  <2>12. CASE UNCHANGED answers /\ Goes(t, "intent", 0)
    BY <2>5, <2>7, <2>12
  <2>13. CASE UNCHANGED answers /\ Found
    BY <2>4, <2>5, <2>6, <2>13 DEF FoundOne
  <2> HIDE DEF Fails, Found
  <2> QED
    BY <2>8, <2>9, <2>10, <2>11, <2>12, <2>13
<1>5. ASSUME NEW t \in Tasks, Intent(t) PROVE KeySafe'
  <2>1. task[t] \in ActiveTasks /\ Holds(t) /\ task[t].pc = "intent"
    BY <1>5, <1>busy DEF Intent, Busy, Waits, Holds
  <2>2. UNCHANGED <<containers, flag, requests, crashes, calls>> /\ faults' \in Nat
    BY <1>5, <1>types DEF Intent, Fault
  <2>3. CASE Answer(t, 503) /\ UNCHANGED journal
    <3>1. 503 \in Statuses
      BY DEF Statuses
    <3> QED  BY <2>1, <2>2, <2>3, <3>1, <1>types, Leaves
  <2>4. CASE /\ journal' = [journal EXCEPT ![task[t].key] = Record("intent", task[t].target, 0)]
             /\ Goes(t, FirstCall(Op(t)), 0) /\ UNCHANGED answers
    <3> DEFINE w == [task[t] EXCEPT !.pc = FirstCall(Op(t)), !.status = 0]
    <3>1. FirstCall(Op(t)) \in {"create", "restart", "put"}
      BY <2>1, <1>ops DEF FirstCall, Op, Operations, ActiveTasks
    <3>2. /\ w \in ActiveTasks /\ w.pc \in {"create", "restart", "put"}
          /\ w.key = task[t].key /\ w.target = task[t].target
      BY <2>1, <3>1 DEF ActiveTasks, Busy, Unguarded
    <3>3. task' = [task EXCEPT ![t] = w]
      BY <2>4 DEF Goes
    <3> HIDE DEF w
    <3>4. w.pc \in Busy \ {"key"} /\ ~(w.pc \in {"service", "find", "intent"})
          /\ ~(w.pc \in Undone \cup {"record"})
      BY <3>2 DEF Busy, Unguarded, Undone
    <3> QED  BY <2>1, <2>2, <2>4, <3>2, <3>3, <3>4, <1>types, MovesOn
  <2> QED  BY <1>5, <2>3, <2>4 DEF Intent
<1>6. ASSUME NEW t \in Tasks, DockerCall(t) PROVE KeySafe'
  <2> DEFINE v == task[t]
  <2>1. v.pc \in (Attempted \ {"settle"}) \cup Undone \cup {"create", "remove", "restart"}
    BY <1>6 DEF DockerCall
  <2>2. v \in ActiveTasks /\ Holds(t)
    BY <2>1, <1>busy DEF Busy, Waits, Unguarded, Attempted, Undone, Holds
  <2>3. UNCHANGED <<journal, flag, requests, crashes>>
    BY <1>6 DEF DockerCall
  <2>4. faults' = faults \/ faults' = faults + 1
    BY <1>6 DEF DockerCall, Fault
  <2>5. faults' \in Nat /\ requests' \in Nat /\ crashes' \in Nat /\ flag' \in Images
    BY <2>3, <2>4, <1>types
  <2>6. \/ UNCHANGED calls
        \/ Calling(t) /\ calls' = [calls EXCEPT ![v.key] = @ + 1]
    BY <1>6 DEF DockerCall, Counted, Calling
  <2>7. Calling(t) => calls' = [calls EXCEPT ![v.key] = @ + 1]
    BY <1>6 DEF DockerCall, Counted, Calling
  <2>8. Effect(v) \in [Containers -> ContainerStates]
    BY <2>1, EffectType DEF KeySafe
  <2>9. containers' \in [Containers -> ContainerStates]
    BY <1>6, <2>8, <1>types DEF DockerCall
  <2>10. ASSUME NEW w \in ActiveTasks, task' = [task EXCEPT ![t] = w], w.key = v.key,
                w.pc \in (Attempted \cup Undone \cup {"remove", "restarted", "record"}),
                w.pc \in Undone \cup {"record"} => w.status # 0,
                UNCHANGED answers
         PROVE  KeySafe'
    <3>1. /\ w.pc \in Busy \ {"key"}
          /\ ~(w.pc \in {"service", "find", "intent", "create", "restart", "put"})
      BY <2>10 DEF Busy, Attempted, Undone, Unguarded
    <3> QED
      BY <2>2, <2>3, <2>5, <2>6, <2>9, <2>10, <3>1, MovesOn
  <2>11. ASSUME Returns(t), UNCHANGED answers PROVE KeySafe'
    <3> DEFINE pc == IF v.pc \in Undone THEN Undo(v.pc) ELSE Then(v.pc)
               st == IF v.pc \in {"remove", "put"} THEN 200 ELSE v.status
               w == [v EXCEPT !.pc = pc, !.status = st]
    <3>1. task' = [task EXCEPT ![t] = w]
      BY <2>11 DEF Returns, Goes
    <3>2. pc \in Attempted \cup Undone \cup {"remove", "restarted", "record"}
      BY <2>1 DEF Attempted, Undone, Undo, Then
    <3>3. st \in Statuses \cup {0}
      BY <2>2 DEF ActiveTasks, Statuses
    <3>4. pc \in Undone \cup {"record"} => v.pc \in Undone \/ v.pc = "remove"
      BY <2>1 DEF Attempted, Undone, Undo, Then
    <3>5. pc \in Undone \cup {"record"} => st # 0
      BY <2>2, <3>4 DEF KeySafe, Decided
    <3>6. pc \in Busy
      BY <3>2 DEF Busy, Attempted, Undone, Unguarded
    <3> HIDE DEF pc, st
    <3>7. w \in ActiveTasks /\ w.pc = pc /\ w.status = st /\ w.key = v.key
      BY <2>2, <3>3, <3>6 DEF ActiveTasks
    <3> HIDE DEF w
    <3> QED  BY <2>10, <2>11, <3>1, <3>2, <3>5, <3>7
  <2>12. ASSUME NEW status \in {502, 503, 504}, Raises(t, status), UNCHANGED answers PROVE KeySafe'
    <3> DEFINE pc == CASE v.pc \in Attempted -> "undoStop"
                       [] v.pc \in Undone    -> Undo(v.pc)
                       [] OTHER              -> "record"
               st == IF v.pc \in Attempted \cup Undone THEN 502 ELSE status
               w == [v EXCEPT !.pc = pc, !.status = st]
    <3>1. task' = [task EXCEPT ![t] = w]
      BY <2>12 DEF Raises, Goes
    <3>2. pc \in Undone \cup {"record"}
      BY DEF Attempted, Undone, Undo
    <3>3. st \in Statuses /\ st # 0
      BY DEF Statuses
    <3>4. pc \in Busy
      BY <3>2 DEF Busy, Undone
    <3> HIDE DEF pc, st
    <3>5. w \in ActiveTasks /\ w.pc = pc /\ w.status = st /\ w.key = v.key
      BY <2>2, <3>3, <3>4, ZenonT(60) DEF ActiveTasks
    <3> HIDE DEF w
    <3> QED  BY <2>10, <2>12, <3>1, <3>2, <3>3, <3>5, ZenonT(60)
  <2>13. ASSUME Answer(t, 500) PROVE KeySafe'
    <3>1. 500 \in Statuses
      BY DEF Statuses
    <3> QED  BY <2>2, <2>3, <2>5, <2>6, <2>9, <2>13, <3>1, Leaves
  <2>14. \/ Returns(t) /\ UNCHANGED answers
         \/ \E status \in {502, 503, 504} : Raises(t, status) /\ UNCHANGED answers
         \/ Answer(t, 500)
    BY <1>6 DEF DockerCall
  <2> QED  BY <2>11, <2>12, <2>13, <2>14
<1>7. ASSUME NEW t \in Tasks, FlagCall(t) PROVE KeySafe'
  <2> DEFINE v == task[t]
  <2>1. v.pc = "put" /\ v \in ActiveTasks /\ Holds(t) /\ Calling(t)
    BY <1>7, <1>busy DEF FlagCall, Busy, Unguarded, Holds, Calling
  <2>2. UNCHANGED <<journal, containers, requests, crashes>>
    BY <1>7 DEF FlagCall
  <2>3. calls' = [calls EXCEPT ![v.key] = @ + 1]
    BY <1>7, <2>1 DEF FlagCall, Counted
  <2>4. faults' = faults \/ faults' = faults + 1
    BY <1>7 DEF FlagCall, Fault
  <2>5. flag' \in Images
    BY <1>7, <2>1, <1>types DEF FlagCall, ActiveTasks, Images
  <2>6. faults' \in Nat /\ requests' \in Nat /\ crashes' \in Nat
        /\ containers' \in [Containers -> ContainerStates]
    BY <2>2, <2>4, <1>types
  <2>7. CASE Answer(t, 500)
    <3>1. 500 \in Statuses
      BY DEF Statuses
    <3>2. UNCHANGED calls \/ (Calling(t) /\ calls' = [calls EXCEPT ![task[t].key] = @ + 1])
      BY <2>1, <2>3
    <3>3. UNCHANGED journal /\ task[t] \in ActiveTasks
      BY <2>1, <2>2
    <3> QED  BY <2>5, <2>6, <2>7, <3>1, <3>2, <3>3, Leaves
  <2>8. ASSUME NEW st \in {200, 502, 503}, Goes(t, "record", st), UNCHANGED answers
        PROVE  KeySafe'
    <3> DEFINE w == [v EXCEPT !.pc = "record", !.status = st]
    <3>1. task' = [task EXCEPT ![t] = w]
      BY <2>8 DEF Goes
    <3>2. w \in ActiveTasks /\ w.pc = "record" /\ w.status # 0 /\ w.key = v.key
      <4>1. st \in Statuses /\ st # 0
        BY DEF Statuses
      <4>2. "record" \in Busy
        BY DEF Busy
      <4> QED  BY <2>1, <4>1, <4>2, ZenonT(60) DEF ActiveTasks
    <3> HIDE DEF w
    <3>3. /\ w.pc \in Busy \ {"key"}
          /\ ~(w.pc \in {"service", "find", "intent", "create", "restart", "put"})
      BY <3>2 DEF Busy
    <3> QED
      BY <2>1, <2>2, <2>3, <2>5, <2>6, <2>8, <3>1, <3>2, <3>3, MovesOn
  <2>9. \/ Answer(t, 500)
        \/ \E st \in {200, 502, 503} : Goes(t, "record", st) /\ UNCHANGED answers
    BY <1>7, <2>1 DEF FlagCall, Returns, Raises, Then, Attempted, Undone
  <2> QED  BY <2>7, <2>8, <2>9
<1>8. ASSUME NEW t \in Tasks, Settle(t) PROVE KeySafe'
  <2> DEFINE v == task[t]
  <2>1. v.pc \in {"settle", "restarted"} /\ v \in ActiveTasks /\ Holds(t)
    BY <1>8, <1>busy DEF Settle, Busy, Attempted, Unguarded, Holds
  <2>2. UNCHANGED <<journal, containers, flag, requests, crashes, calls>>
    BY <1>8 DEF Settle
  <2>3. faults' = faults \/ faults' = faults + 1
    BY <1>8 DEF Settle, Fault
  <2>4. faults' \in Nat /\ requests' \in Nat /\ crashes' \in Nat
        /\ containers' \in [Containers -> ContainerStates] /\ flag' \in Images
    BY <2>2, <2>3, <1>types
  <2>5. CASE Answer(t, 500)
    <3>1. 500 \in Statuses
      BY DEF Statuses
    <3> QED  BY <2>1, <2>2, <2>4, <2>5, <3>1, Leaves
  <2>6. ASSUME NEW pc \in {"remove", "record", "undoStop"}, NEW st \in Statuses \cup {0},
               Goes(t, pc, st), pc # "remove" => st # 0, UNCHANGED answers
        PROVE  KeySafe'
    <3> DEFINE w == [v EXCEPT !.pc = pc, !.status = st]
    <3>1. w \in ActiveTasks /\ w.pc = pc /\ w.status = st /\ w.key = v.key
      BY <2>1 DEF ActiveTasks, Busy, Undone, Unguarded
    <3>2. task' = [task EXCEPT ![t] = w]
      BY <2>6 DEF Goes
    <3> HIDE DEF w
    <3>3. /\ w.pc \in Busy \ {"key"}
          /\ ~(w.pc \in {"service", "find", "intent", "create", "restart", "put"})
          /\ w.pc \in Undone \cup {"record"} => w.status # 0
      BY <2>6, <3>1 DEF Busy, Undone, Unguarded
    <3> QED
      BY <2>1, <2>2, <2>4, <2>6, <3>1, <3>2, <3>3, MovesOn
  <2>7. ASSUME NEW status \in {502, 503, 504}, Raises(t, status)
        PROVE  \E pc \in {"record", "undoStop"}, st \in Statuses : Goes(t, pc, st) /\ st # 0
    BY <2>1, <2>7 DEF Raises, Statuses, Attempted, Undone
  <2>8. \/ Answer(t, 500)
        \/ UNCHANGED answers /\ (Goes(t, "remove", 0) \/ Goes(t, "record", 200))
        \/ \E status \in {502, 503, 504} : Raises(t, status) /\ UNCHANGED answers
    BY <1>8 DEF Settle
  <2>9. 200 \in Statuses
    BY DEF Statuses
  <2> QED  BY <2>5, <2>6, <2>7, <2>8, <2>9
<1>9. ASSUME NEW t \in Tasks, Finish(t) PROVE KeySafe'
  <2> DEFINE v == task[t]
             kept == Record("result", v.target, v.status)
  <2>1. v.pc = "record" /\ v \in ActiveTasks /\ Holds(t) /\ v.key \in Keys
    BY <1>9, <1>busy DEF Finish, Busy, Holds, ActiveTasks
  <2>2. UNCHANGED <<containers, flag, requests, crashes, calls>>
    BY <1>9 DEF Finish
  <2>3. faults' = faults \/ faults' = faults + 1
    BY <1>9 DEF Finish, Fault
  <2>4. faults' \in Nat
    BY <2>3, <1>types
  <2>5. CASE Answer(t, 503) /\ UNCHANGED journal
    <3>1. 503 \in Statuses
      BY DEF Statuses
    <3> QED  BY <2>1, <2>2, <2>4, <2>5, <3>1, <1>types, Leaves
  <2>6. CASE journal' = [journal EXCEPT ![v.key] = kept] /\ Answer(t, v.status)
    <3>1. v.status \in Statuses /\ v.target \in Targets
      BY <2>1 DEF KeySafe, Decided, ActiveTasks
    <3>2. kept \in Records /\ kept.kind = "result"
      BY <3>1 DEF Record, Records, Images
    <3>3. /\ journal' \in [Keys -> Records] /\ journal'[v.key] = kept
          /\ \A j \in Keys : j # v.key => journal'[j] = journal[j]
      BY <2>1, <2>6, <3>2, <1>types
    <3>4. /\ task' = [task EXCEPT ![t] = NoTask]
          /\ answers' = answers \cup {[key |-> v.key, target |-> v.target, status |-> v.status]}
      BY <2>6 DEF Answer
    <3>5. /\ task' \in [Tasks -> {NoTask} \cup ActiveTasks]
          /\ task'[t].pc = "idle" /\ \A u \in Tasks : u # t => task'[u] = task[u]
      BY <3>4, <1>types DEF NoTask
    <3>6. TypeOK'
      BY <2>1, <2>2, <2>4, <3>1, <3>3, <3>4, <3>5
         DEF KeySafe, TypeOK, TaskRecords, ActiveTasks, Names
    <3>7. \A u \in Tasks : Holds(u) /\ u # t => task[u].key # v.key /\ task[u].key \in Keys
      <4> SUFFICES ASSUME NEW u \in Tasks, Holds(u), u # t
                   PROVE  task[u].key # v.key /\ task[u].key \in Keys
        OBVIOUS
      <4>1. task[u] \in ActiveTasks
        BY <1>busy DEF Holds
      <4> QED  BY <2>1, <4>1 DEF KeySafe, KeyAlone, ActiveTasks
    <3>8. \A u \in Tasks : /\ Holds(u)' => u # t /\ Holds(u)
                           /\ Calling(u)' => Calling(u) /\ Holds(u)'
                           /\ task'[u].pc \in {"service", "find", "intent"} => Holds(u)'
                           /\ task'[u].pc \in Undone \cup {"record"} => u # t
      BY <3>5 DEF Holds, Calling, Busy, Waits, Attempted, Undone, Unguarded
    <3>9. KeyAlone' /\ HeldOpen' /\ Decided'
      BY <3>3, <3>5, <3>7, <3>8 DEF KeySafe, KeyAlone, HeldOpen, Decided
    <3>10. Unbound' /\ FirstCallBound'
      BY <2>2, <3>3, <3>5, <3>7, <3>8 DEF KeySafe, Unbound, FirstCallBound
    <3>11. CalledBound' /\ AtMostOnce'
      BY <2>2, <3>2, <3>3 DEF KeySafe, CalledBound, AtMostOnce
    <3>12. SuccessKept'
      <4>1. ASSUME NEW a \in answers, a.status = 200 PROVE journal[a.key].kind = "result"
        <5>1. journal[a.key] = Record("result", a.target, 200)
          BY <4>1 DEF KeySafe, SuccessKept
        <5> QED  BY <5>1 DEF Record
      <4>2. \A a \in answers : a.key \in Keys
        BY DEF KeySafe, TypeOK
      <4>3. journal[v.key].kind \in {"none", "intent"}
        BY <2>1 DEF KeySafe, HeldOpen
      <4>4. \A a \in answers : a.status = 200 => a.key # v.key
        BY <4>1, <4>3
      <4> QED  BY <3>3, <3>4, <4>2, <4>4 DEF KeySafe, SuccessKept
    <3> QED  BY <3>6, <3>9, <3>10, <3>11, <3>12 DEF KeySafe
  <2> QED  BY <1>9, <2>5, <2>6 DEF Finish, Kept
<1>10. ASSUME Crash PROVE KeySafe'
  <2>1. /\ task' = [t \in Tasks |-> NoTask]
        /\ UNCHANGED <<containers, flag, requests, faults, calls, answers>>
        /\ crashes' \in Nat
    BY <1>10, <1>types DEF Crash
  <2>2. \A t \in Tasks : task'[t].pc = "idle"
    BY <2>1 DEF NoTask
  <2>3. KeyAlone' /\ Unbound' /\ FirstCallBound' /\ HeldOpen' /\ Decided'
    BY <2>2 DEF KeyAlone, Unbound, FirstCallBound, HeldOpen, Decided, Holds, Calling, Busy, Waits,
                Attempted, Undone, Unguarded
  <2>4. CASE UNCHANGED journal
    BY <2>1, <2>3, <2>4
       DEF KeySafe, TypeOK, TaskRecords, CalledBound, AtMostOnce, SuccessKept
  <2>5. ASSUME NEW t \in Tasks, NEW target \in Images, task[t].pc \in {"intent", "record"},
               journal' = [journal EXCEPT ![task[t].key] = Record("truncated", target, 0)]
        PROVE  KeySafe'
    <3> DEFINE k == task[t].key
    <3>1. task[t] \in ActiveTasks /\ Holds(t)
      BY <2>5, <1>busy DEF Busy, Holds
    <3>2. k \in Keys /\ journal[k].kind \in {"none", "intent"}
      BY <3>1 DEF ActiveTasks, KeySafe, HeldOpen
    <3>3. Record("truncated", target, 0) \in Records
          /\ Record("truncated", target, 0).kind # "none"
      BY DEF Record, Records
    <3>4. /\ journal' \in [Keys -> Records] /\ journal'[k].kind # "none"
          /\ \A j \in Keys : j # k => journal'[j] = journal[j]
      BY <2>5, <3>2, <3>3, <1>types
    <3>5. TypeOK'
      BY <2>1, <3>4 DEF KeySafe, TypeOK, TaskRecords
    <3>6. CalledBound' /\ AtMostOnce'
      BY <2>1, <3>4 DEF KeySafe, CalledBound, AtMostOnce
    <3>7. \A a \in answers : a.status = 200 => a.key # k /\ a.key \in Keys
      <4>1. ASSUME NEW a \in answers, a.status = 200 PROVE journal[a.key].kind = "result"
        <5>1. journal[a.key] = Record("result", a.target, 200)
          BY <4>1 DEF KeySafe, SuccessKept
        <5> QED  BY <5>1 DEF Record
      <4>2. \A a \in answers : a.key \in Keys
        BY DEF KeySafe, TypeOK
      <4> QED  BY <3>2, <4>1, <4>2
    <3>8. SuccessKept'
      BY <2>1, <3>4, <3>7 DEF KeySafe, SuccessKept
    <3> QED  BY <2>3, <3>5, <3>6, <3>8 DEF KeySafe
  <2> QED  BY <1>10, <2>4, <2>5 DEF Crash
<1>11. CASE UNCHANGED vars
  BY <1>11 DEF vars, KeySafe, TypeOK, KeyAlone, Unbound, FirstCallBound, HeldOpen, CalledBound,
               AtMostOnce, SuccessKept, Decided, Holds, Calling
<1> QED
  BY <1>1, <1>2, <1>3, <1>4, <1>5, <1>6, <1>7, <1>8, <1>9, <1>10, <1>11 DEF Next

\* The inductive invariant holds in every behaviour of the executor.
THEOREM ExecutorSafe == Spec => []KeySafe
<1> QED  BY InitKeySafe, StepKeySafe, PTL DEF Spec

\* Executor.execute: whatever is sent twice, fails, or is interrupted, an idempotency key's
\* operation calls Docker or the flag listener at most once.
THEOREM CallsOnce == Spec => []AtMostOnce
<1>1. KeySafe => AtMostOnce
  BY DEF KeySafe
<1> QED  BY ExecutorSafe, <1>1, PTL

\* Journal: once a key has answered success the journal keeps that success for its payload.
THEOREM SuccessStays == Spec => []SuccessKept
<1>1. KeySafe => SuccessKept
  BY DEF KeySafe
<1> QED  BY ExecutorSafe, <1>1, PTL

-----------------------------------------------------------------------------
(* The executor implements OperationOnce *)

\* What a caller can tell of a key's journal record.
KeptOf(k) == Outcome(journal[k])

\* Only a result is an outcome.
LEMMA OpenOutcome ==
    ASSUME NEW r, r.kind # "result" PROVE Outcome(r) = "open"
<1> QED  BY DEF Outcome

\* A step about one key that records it, calls out for it or answers for it is a step of the
\* promise.
LEMMA KeyStep ==
    ASSUME KeySafe, KeySafe', NEW k \in Keys,
           answers \subseteq answers',
           \A a \in answers' \ answers : a.key = k,
           \A j \in Keys : j # k => KeptOf(j)' = KeptOf(j) /\ calls'[j] = calls[j],
           \/ KeptOf(k)' = KeptOf(k) /\ calls' = calls
           \/ KeptOf(k)' = KeptOf(k) /\ KeptOf(k) = "open" /\ calls[k] = 0 /\ calls'[k] = 1
           \/ /\ KeptOf(k) = "open" /\ calls' = calls
              /\ KeptOf(k)' \in Targets \cup {"failed"}
    PROVE  Once!OnceNext
<1> DEFINE kept == [j \in Keys |-> Outcome(journal[j])]
<1>1. \A a \in answers' : a.status = 200 => a.key \in Keys /\ KeptOf(a.key)' = a.target
  <2> SUFFICES ASSUME NEW a \in answers', a.status = 200
               PROVE  a.key \in Keys /\ KeptOf(a.key)' = a.target
    OBVIOUS
  <2>1. journal'[a.key] = Record("result", a.target, 200) /\ a.key \in Keys
    BY DEF KeySafe, SuccessKept, TypeOK
  <2> QED  BY <2>1 DEF KeptOf, Outcome, Record
<1>2. Once!Told(k)
  BY <1>1 DEF Once!Told, KeptOf
<1>3. calls \in [Keys -> Nat] /\ calls' \in [Keys -> Nat]
  BY DEF KeySafe, TypeOK
<1>4. CASE KeptOf(k)' = KeptOf(k) /\ calls' = calls
  <2>1. kept' = kept
    BY <1>4 DEF KeptOf
  <2>2. Once!Tell(k)
    BY <1>2, <1>4, <2>1 DEF Once!Tell
  <2> QED  BY <2>2 DEF Once!OnceNext
<1>5. CASE KeptOf(k)' = KeptOf(k) /\ KeptOf(k) = "open" /\ calls[k] = 0 /\ calls'[k] = 1
  <2>1. kept' = kept
    BY <1>5 DEF KeptOf
  <2>2. calls' = [calls EXCEPT ![k] = 1]
    BY <1>3, <1>5
  <2>3. Once!Run(k)
    BY <1>2, <1>5, <2>1, <2>2 DEF Once!Run, KeptOf
  <2> QED  BY <2>3 DEF Once!OnceNext
<1>6. CASE /\ KeptOf(k) = "open" /\ calls' = calls
           /\ KeptOf(k)' \in Targets \cup {"failed"}
  <2>1. kept' = [kept EXCEPT ![k] = KeptOf(k)']
    BY DEF KeptOf
  <2>2. Once!Settle(k)
    BY <1>2, <1>6, <2>1 DEF Once!Settle, KeptOf
  <2> QED  BY <2>2 DEF Once!OnceNext
<1> QED  BY <1>4, <1>5, <1>6

\* An answer is about the key of its task.
LEMMA AnswerTells ==
    ASSUME NEW t \in Tasks, NEW status, Answer(t, status)
    PROVE  answers \subseteq answers' /\ \A a \in answers' \ answers : a.key = task[t].key
<1> QED  BY DEF Answer

\* A step that leaves the journal and the calls as they are tells at most what is kept.
LEMMA TellingStep ==
    ASSUME KeySafe, KeySafe', NEW t \in Tasks, task[t].key \in Keys,
           UNCHANGED <<journal, calls>>,
           UNCHANGED answers \/ \E status : Answer(t, status)
    PROVE  Once!OnceNext
<1>1. answers \subseteq answers' /\ \A a \in answers' \ answers : a.key = task[t].key
  BY AnswerTells
<1>2. \A j \in Keys : KeptOf(j)' = KeptOf(j) /\ calls'[j] = calls[j]
  BY DEF KeptOf
<1> QED  BY <1>1, <1>2, KeyStep

\* A first call is a run of its key, another call changes nothing of it.
LEMMA CallingStep ==
    ASSUME KeySafe, KeySafe', NEW t \in Tasks, task[t] \in ActiveTasks,
           Counted(task[t]), UNCHANGED journal,
           UNCHANGED answers \/ \E status : Answer(t, status)
    PROVE  Once!OnceNext
<1> DEFINE k == task[t].key
<1>1. answers \subseteq answers' /\ \A a \in answers' \ answers : a.key = k
  BY AnswerTells
<1>2. \A j \in Keys : KeptOf(j)' = KeptOf(j)
  BY DEF KeptOf
<1>3. k \in Keys /\ calls \in [Keys -> Nat]
  BY DEF ActiveTasks, KeySafe, TypeOK
<1>4. CASE Calling(t)
  <2>1. journal[k].kind = "intent" /\ calls[k] = 0
    BY <1>4 DEF KeySafe, FirstCallBound
  <2>2. calls' = [calls EXCEPT ![k] = @ + 1]
    BY <1>4 DEF Counted, Calling
  <2>3. calls'[k] = 1 /\ \A j \in Keys : j # k => calls'[j] = calls[j]
    BY <1>3, <2>1, <2>2
  <2>4. KeptOf(k) = "open"
    BY <2>1, OpenOutcome DEF KeptOf
  <2> QED  BY <1>1, <1>2, <1>3, <2>1, <2>3, <2>4, KeyStep
<1>5. CASE ~Calling(t)
  <2>1. calls' = calls
    BY <1>5 DEF Counted, Calling
  <2> QED  BY <1>1, <1>2, <1>3, <2>1, KeyStep
<1> QED  BY <1>4, <1>5

\* A record of a key without a result settles it, if it is a result, and changes nothing a
\* caller can tell, if it is not.
LEMMA RecordingStep ==
    ASSUME KeySafe, KeySafe', NEW t \in Tasks, task[t] \in ActiveTasks, Holds(t),
           NEW r, journal' = [journal EXCEPT ![task[t].key] = r],
           r.kind # "result" \/ r = Record("result", task[t].target, r.status),
           UNCHANGED calls,
           UNCHANGED answers \/ \E status : Answer(t, status)
    PROVE  Once!OnceNext
<1>1. PICK k \in Keys : k = task[t].key
  BY DEF ActiveTasks
<1>2. answers \subseteq answers' /\ \A a \in answers' \ answers : a.key = k
  BY <1>1, AnswerTells
<1>3. task[t].target \in Targets /\ journal \in [Keys -> Records]
  BY DEF ActiveTasks, KeySafe, TypeOK
<1>4. journal'[k] = r /\ \A j \in Keys : j # k => journal'[j] = journal[j]
  BY <1>1, <1>3
<1>5. journal[k].kind # "result"
  BY <1>1 DEF KeySafe, HeldOpen
<1>6. KeptOf(k) = "open"
  BY <1>5, OpenOutcome DEF KeptOf
<1>7. KeptOf(k)' = Outcome(r)
  BY <1>4 DEF KeptOf
<1>8. \A j \in Keys : j # k => KeptOf(j)' = KeptOf(j) /\ calls'[j] = calls[j]
  BY <1>4 DEF KeptOf
<1>9. Outcome(r) \in Targets \cup {"failed", "open"}
  BY <1>3 DEF Outcome, Record
<1> QED  BY <1>2, <1>6, <1>7, <1>8, <1>9, KeyStep

\* Every step of the executor is a step of what it promises, or changes nothing a caller can
\* tell.
LEMMA StepImplements ==
    ASSUME KeySafe, KeySafe', [Next]_vars
    PROVE  [Once!OnceNext]_(Once!onceVars)
<1>types. task \in [Tasks -> {NoTask} \cup ActiveTasks]
  BY DEF KeySafe, TypeOK, TaskRecords, ActiveTasks, Names
<1>busy. \A t \in Tasks : task[t].pc \in Busy => task[t] \in ActiveTasks /\ task[t].key \in Keys
  BY <1>types DEF NoTask, Busy, Waits, Attempted, Undone, Unguarded, ActiveTasks
<1>same. ASSUME UNCHANGED <<journal, calls, answers>> PROVE UNCHANGED Once!onceVars
  BY <1>same DEF Once!onceVars
<1>1. ASSUME NEW t \in Tasks, NEW k \in Keys, NEW x \in Targets, Submit(t, k, x)
      PROVE  UNCHANGED Once!onceVars
  BY <1>1, <1>same DEF Submit
<1>2. ASSUME NEW t \in Tasks, Begin(t) \/ Find(t) \/ Settle(t) PROVE Once!OnceNext
  <2>1. task[t].pc \in Busy
    BY <1>2 DEF Begin, Find, Settle, Busy, Waits, Attempted, Unguarded
  <2>2. UNCHANGED <<journal, calls>>
    BY <1>2 DEF Begin, Find, Settle
  <2>3. UNCHANGED answers \/ \E status : Answer(t, status)
    <3>1. CASE Begin(t)
      BY <3>1 DEF Begin
    <3>2. CASE Find(t)
      BY <3>2, FindCases
    <3>3. CASE Settle(t)
      BY <3>3 DEF Settle
    <3> QED  BY <1>2, <3>1, <3>2, <3>3
  <2> QED  BY <1>busy, <2>1, <2>2, <2>3, TellingStep
<1>3. ASSUME NEW t \in Tasks, Enter(t) PROVE UNCHANGED Once!onceVars
  BY <1>3, <1>same DEF Enter
<1>4. ASSUME NEW t \in Tasks, Intent(t) PROVE Once!OnceNext
  <2>1. task[t] \in ActiveTasks /\ Holds(t) /\ task[t].key \in Keys
    BY <1>4, <1>busy DEF Intent, Busy, Holds
  <2>2. CASE journal' = [journal EXCEPT ![task[t].key] = Record("intent", task[t].target, 0)]
             /\ UNCHANGED answers
    <3>1. Record("intent", task[t].target, 0).kind # "result" /\ UNCHANGED calls
      BY <1>4 DEF Record, Intent
    <3> QED  BY <2>1, <2>2, <3>1, RecordingStep
  <2>3. CASE Answer(t, 503) /\ UNCHANGED journal
    <3>1. UNCHANGED calls
      BY <1>4 DEF Intent
    <3> QED  BY <2>1, <2>3, <3>1, TellingStep
  <2> QED  BY <1>4, <2>2, <2>3 DEF Intent
<1>5. ASSUME NEW t \in Tasks, DockerCall(t) \/ FlagCall(t) PROVE Once!OnceNext
  <2>1. task[t].pc \in Busy
    BY <1>5 DEF DockerCall, FlagCall, Busy, Attempted, Undone, Unguarded
  <2>2. /\ Counted(task[t]) /\ UNCHANGED journal
        /\ UNCHANGED answers \/ \E status : Answer(t, status)
    BY <1>5 DEF DockerCall, FlagCall
  <2> QED  BY <1>busy, <2>1, <2>2, CallingStep
<1>6. ASSUME NEW t \in Tasks, Finish(t) PROVE Once!OnceNext
  <2> DEFINE r == Record("result", task[t].target, task[t].status)
  <2>1. task[t] \in ActiveTasks /\ Holds(t) /\ task[t].key \in Keys /\ UNCHANGED calls
    BY <1>6, <1>busy DEF Finish, Busy, Holds
  <2>2. CASE journal' = [journal EXCEPT ![task[t].key] = r] /\ Answer(t, task[t].status)
    <3>1. r = Record("result", task[t].target, r.status)
      BY DEF Record
    <3> HIDE DEF r
    <3> QED  BY <2>1, <2>2, <3>1, RecordingStep
  <2>3. CASE Answer(t, 503) /\ UNCHANGED journal
    BY <2>1, <2>3, TellingStep
  <2> QED  BY <1>6, <2>2, <2>3 DEF Finish, Kept
<1>7. ASSUME Crash PROVE [Once!OnceNext]_(Once!onceVars)
  <2>1. CASE UNCHANGED journal
    BY <1>7, <2>1, <1>same DEF Crash
  <2>2. ASSUME NEW t \in Tasks, NEW target \in Images, task[t].pc \in {"intent", "record"},
               journal' = [journal EXCEPT ![task[t].key] = Record("truncated", target, 0)]
        PROVE  Once!OnceNext
    <3>1. task[t] \in ActiveTasks /\ Holds(t)
      BY <2>2, <1>busy DEF Busy, Holds
    <3>2. Record("truncated", target, 0).kind # "result" /\ UNCHANGED <<calls, answers>>
      BY <1>7 DEF Record, Crash
    <3> QED  BY <2>2, <3>1, <3>2, RecordingStep
  <2> QED  BY <1>7, <2>1, <2>2 DEF Crash
<1>8. CASE UNCHANGED vars
  BY <1>8, <1>same DEF vars
<1> QED
  BY <1>1, <1>2, <1>3, <1>4, <1>5, <1>6, <1>7, <1>8 DEF Next

\* Executor.execute: the deploy-executor implements OperationOnce, the promise the API relies
\* on, for every set of callers, keys and targets and any number of faults and crashes.
THEOREM ExecutorKeepsItsPromise == Spec => KeepsItsPromise
<1>1. Init => Once!OnceInit
  <2> SUFFICES ASSUME Init PROVE Once!OnceInit
    OBVIOUS
  <2>1. NoRecord.kind # "result"
    BY DEF NoRecord, Record
  <2>2. [k \in Keys |-> Outcome(journal[k])] = [k \in Keys |-> "open"]
    BY <2>1, OpenOutcome DEF Init
  <2> QED  BY <2>2 DEF Init, Once!OnceInit
<1> QED
  BY <1>1, ExecutorSafe, StepImplements, PTL DEF Spec, KeepsItsPromise, Once!OnceSpec

-----------------------------------------------------------------------------
(* The service *)

Existing == {c \in Containers : containers[c].exists}

\* A task that has the service's lock.
OnService(t) == task[t].pc \in Busy \ Waits /\ Op(t) # "flag.set"

ServiceAlone == \A t, u \in Tasks : OnService(t) /\ OnService(u) => t = u

\* Each operation takes its own steps.
OwnSteps ==
    \A t \in Tasks :
        /\ task[t].pc \in Attempted \cup Undone \cup {"create", "remove"} =>
               Op(t) = "deployment.rollback"
        /\ task[t].pc \in {"restart", "restarted"} => Op(t) = "service.restart"
        /\ task[t].pc = "put" => Op(t) = "flag.set"

\* A container other than the first one is there because its key's rollback called out.
CreatedByCall == \A k \in Keys : containers[k].exists => calls[k] # 0

\* What a rollback knows of the containers while it has the lock.
RollbackStage(t) ==
    LET w == task[t] IN
    /\ w.pc = "create" \/ (w.pc = "intent" /\ Op(t) = "deployment.rollback") =>
           Existing = {w.old}
    /\ w.pc \in Attempted \cup {"remove"} =>
           /\ Existing = {w.old, w.key} /\ w.old # w.key
           /\ containers[w.key].image = w.target
    /\ w.pc \in {"settle", "remove"} => containers[w.key].running
    /\ w.pc \in Undone => w.status = 502
    /\ w.pc = "record" /\ w.status = 200 /\ Op(t) = "deployment.rollback" =>
           \E c \in Containers : /\ Existing = {c}
                                 /\ containers[c].running /\ containers[c].image = w.target

\* What it knows besides while there was at most one fault: the names, and in a recovery that
\* the fault has happened.
OneFaultStage(t) ==
    LET w == task[t] IN
    /\ w.pc \in Attempted \cup Undone \cup {"create", "remove"}
         \/ (w.pc = "intent" /\ Op(t) = "deployment.rollback") => w.name = <<>>
    /\ w.pc \in {"create", "stop", "previous"} => containers[w.old].name = <<>>
    /\ w.pc \in {"stop", "previous", "promote"} => containers[w.key].name = <<"next">>
    /\ w.pc = "promote" => containers[w.old].name = <<"previous">>
    /\ w.pc \in {"start", "settle", "remove"} => containers[w.key].name = <<>>
    /\ w.pc \in Undone => faults = 1
    /\ w.pc \in {"undoStop", "undoRemove"} => Existing = {w.old, w.key} /\ w.old # w.key
    /\ w.pc = "undoRemove" => ~containers[w.key].running
    /\ w.pc \in {"undoRename", "undoStart"} => Existing = {w.old}
    /\ w.pc = "undoStart" => containers[w.old].name = <<>>

\* The service is between two containers.
BetweenSteps == {"previous", "promote", "start"} \cup Undone
Between == \E t \in Tasks : task[t].pc \in BetweenSteps

OneFaultKnown == (\A t \in Tasks : OneFaultStage(t)) /\ (~Between => Serves)
OneFaultSafe == crashes = 0 /\ faults <= 1 => OneFaultKnown

ServiceSafe ==
    /\ ServiceAlone /\ OwnSteps /\ CreatedByCall
    /\ IsFiniteSet(Existing)
    /\ \A t \in Tasks : RollbackStage(t)
    /\ OneFaultSafe

\* At the start nothing acts and the first container serves.
LEMMA InitServiceSafe == Init => ServiceSafe
<1> SUFFICES ASSUME Init PROVE ServiceSafe
  OBVIOUS
<1>1. \A t \in Tasks : task[t].pc = "idle"
  BY DEF Init, NoTask
<1>2. ServiceAlone /\ OwnSteps /\ ~Between
  BY <1>1 DEF ServiceAlone, OwnSteps, Between, BetweenSteps, OnService, Busy, Waits, Attempted,
              Undone, Unguarded
<1>3. \A t \in Tasks : RollbackStage(t) /\ OneFaultStage(t)
  BY <1>1 DEF RollbackStage, OneFaultStage, Attempted, Undone
<1>4. /\ \A c \in Containers : containers[c].exists = (c = Origin)
      /\ Origin \in Containers
      /\ containers[Origin].running /\ containers[Origin].name = <<>>
  BY DEF Init, Absent, Containers
<1>5. Existing = {Origin}
  BY <1>4 DEF Existing
<1>6. CreatedByCall /\ IsFiniteSet(Existing)
  BY <1>4, <1>5, ExecutorAssumption, FS_Singleton DEF CreatedByCall, Containers
<1>7. Serves
  BY <1>4 DEF Serves
<1> QED  BY <1>2, <1>3, <1>6, <1>7 DEF ServiceSafe, OneFaultSafe, OneFaultKnown

\* A step of one task: the containers change only under the service's lock, so what the other
\* tasks know of them stays.
LEMMA ServiceMoves ==
    ASSUME KeySafe, ServiceSafe, NEW t \in Tasks, NEW w, task' = [task EXCEPT ![t] = w],
           containers' = containers \/ OnService(t),
           OnService(t)' => OnService(t) \/ \A u \in Tasks : ~OnService(u),
           /\ w.pc \in Attempted \cup Undone \cup {"create", "remove"} =>
                  OperationOf[w.key] = "deployment.rollback"
           /\ w.pc \in {"restart", "restarted"} => OperationOf[w.key] = "service.restart"
           /\ w.pc = "put" => OperationOf[w.key] = "flag.set",
           CreatedByCall', IsFiniteSet(Existing'), RollbackStage(t)',
           UNCHANGED crashes, faults' = faults \/ faults' = faults + 1,
           crashes = 0 /\ faults' <= 1 /\ OneFaultKnown =>
               /\ OneFaultStage(t)'
               /\ \/ Serves' \/ w.pc \in BetweenSteps
                  \/ containers' = containers /\ task[t].pc \notin BetweenSteps
    PROVE  ServiceSafe'
<1>1. task'[t] = w /\ \A u \in Tasks : u # t => task'[u] = task[u]
  BY DEF KeySafe, TypeOK
<1>2. \A u \in Tasks : u # t => (OnService(u)' <=> OnService(u))
  BY <1>1 DEF OnService, Op
<1>3. ServiceAlone'
  BY <1>2 DEF ServiceSafe, ServiceAlone
<1>4. OwnSteps'
  BY <1>1 DEF ServiceSafe, OwnSteps, Op
<1>5. \A u \in Tasks :
         task[u].pc \in Attempted \cup Undone \cup {"create", "remove"}
           \/ (task[u].pc \in {"intent", "record"} /\ Op(u) = "deployment.rollback") => OnService(u)
  BY DEF ServiceSafe, OwnSteps, OnService, Busy, Waits, Attempted, Undone, Unguarded
<1>6. ASSUME NEW u \in Tasks, u # t PROVE RollbackStage(u)'
  <2>1. RollbackStage(u)
    BY DEF ServiceSafe
  <2>2. task'[u] = task[u] /\ (Op(u)' = Op(u))
    BY <1>1, <1>6 DEF Op
  <2>3. CASE containers' = containers
    BY <2>1, <2>2, <2>3 DEF RollbackStage, Existing
  <2>4. CASE OnService(t)
    <3>1. ~OnService(u)
      BY <1>6, <2>4 DEF ServiceSafe, ServiceAlone
    <3>2. /\ task[u].pc \notin Attempted \cup Undone \cup {"create", "remove"}
          /\ ~(task[u].pc \in {"intent", "record"} /\ Op(u) = "deployment.rollback")
      BY <1>5, <3>1
    <3> QED  BY <2>2, <3>2 DEF RollbackStage, Attempted
  <2> QED  BY <2>3, <2>4
<1>7. ASSUME crashes' = 0, faults' <= 1 PROVE OneFaultKnown'
  <2>1. faults \in Nat /\ OneFaultKnown
    BY <1>7 DEF KeySafe, TypeOK, ServiceSafe, OneFaultSafe
  <2>2. ASSUME NEW u \in Tasks, u # t PROVE OneFaultStage(u)'
    <3>1. OneFaultStage(u)
      BY <2>1 DEF OneFaultKnown
    <3>2. task'[u] = task[u] /\ (Op(u)' = Op(u))
      BY <1>1, <2>2 DEF Op
    <3>3. faults = 1 => faults' = 1
      BY <1>7, <2>1
    <3>4. CASE containers' = containers
      BY <3>1, <3>2, <3>3, <3>4 DEF OneFaultStage, Existing
    <3>5. CASE OnService(t)
      <4>1. ~OnService(u)
        BY <2>2, <3>5 DEF ServiceSafe, ServiceAlone
      <4>2. /\ task[u].pc \notin Attempted \cup Undone \cup {"create", "remove"}
            /\ ~(task[u].pc \in {"intent", "record"} /\ Op(u) = "deployment.rollback")
        BY <1>5, <4>1
      <4> QED  BY <3>2, <4>2 DEF OneFaultStage, Attempted, Undone
    <3> QED  BY <3>4, <3>5
  <2>3. ~Between' => Serves'
    <3>1. Serves' \/ w.pc \in BetweenSteps
            \/ (containers' = containers /\ task[t].pc \notin BetweenSteps)
      BY <1>7, <2>1
    <3>2. CASE w.pc \in BetweenSteps
      BY <1>1, <3>2 DEF Between
    <3>3. CASE containers' = containers /\ task[t].pc \notin BetweenSteps
      <4>1. Between => Between'
        BY <1>1, <3>3 DEF Between
      <4>2. Serves => Serves'
        BY <3>3 DEF Serves
      <4> QED  BY <2>1, <4>1, <4>2 DEF OneFaultKnown
    <3> QED  BY <3>1, <3>2, <3>3
  <2> QED  BY <1>7, <2>1, <2>2, <2>3 DEF OneFaultKnown
<1> QED
  BY <1>3, <1>4, <1>6, <1>7 DEF ServiceSafe, OneFaultSafe

\* The task with the lock is the only one that can have the service between two containers.
LEMMA LockedServes ==
    ASSUME ServiceSafe, NEW t \in Tasks, OnService(t), task[t].pc \notin BetweenSteps,
           crashes = 0, faults <= 1
    PROVE  Serves
<1>1. \A u \in Tasks : task[u].pc \in BetweenSteps => u = t
  <2> SUFFICES ASSUME NEW u \in Tasks, task[u].pc \in BetweenSteps PROVE u = t
    OBVIOUS
  <2>1. task[u].pc \in Busy \ Waits /\ task[u].pc \in Attempted \cup Undone
    BY DEF BetweenSteps, Attempted, Undone, Busy, Waits
  <2>2. OnService(u)
    BY <2>1 DEF ServiceSafe, OwnSteps, OnService
  <2> QED  BY <2>2 DEF ServiceSafe, ServiceAlone
<1> QED  BY <1>1 DEF ServiceSafe, OneFaultSafe, OneFaultKnown, Between

\* What a call knows when it is made.
LEMMA CallKnows ==
    ASSUME KeySafe, ServiceSafe, NEW t \in Tasks, DockerCall(t)
    PROVE  /\ task[t] \in ActiveTasks /\ task[t].key \in Keys
           /\ task[t].key \in Containers /\ task[t].old \in Containers
           /\ containers \in [Containers -> ContainerStates]
           /\ OnService(t) /\ faults \in Nat
           /\ IsFiniteSet(Existing) /\ RollbackStage(t)
           /\ faults' \in {faults, faults + 1} /\ crashes' = crashes
           /\ crashes = 0 /\ faults <= 1 =>
                  OneFaultStage(t) /\ (task[t].pc \notin BetweenSteps => Serves)
<1>1. task[t] \in ActiveTasks
  BY DEF DockerCall, KeySafe, TypeOK, TaskRecords, NoTask, ActiveTasks, Names, Attempted, Undone
<1>2. Op(t) \in {"deployment.rollback", "service.restart"} /\ task[t].pc \in Busy \ Waits
  BY DEF DockerCall, ServiceSafe, OwnSteps, Busy, Waits, Attempted, Undone, Unguarded
<1>3. faults' \in {faults, faults + 1} /\ crashes' = crashes
  BY DEF DockerCall, Fault
<1>4. OnService(t) /\ task[t].key \in Keys
  BY <1>1, <1>2 DEF OnService, ActiveTasks
<1>5. crashes = 0 /\ faults <= 1 =>
          OneFaultStage(t) /\ (task[t].pc \notin BetweenSteps => Serves)
  BY <1>4, LockedServes DEF ServiceSafe, OneFaultSafe, OneFaultKnown
<1> QED
  BY <1>1, <1>3, <1>4, <1>5
     DEF ActiveTasks, Containers, KeySafe, TypeOK, ContainerStates, Names, ServiceSafe

\* What a call comes to: it takes effect or not, and leads on or, refused or failed, away.
LEMMA CallOutcome ==
    ASSUME KeySafe, NEW t \in Tasks, DockerCall(t), task[t] \in ActiveTasks
    PROVE  LET w == task[t]
               after == task'[t]
           IN
           /\ containers' = containers \/ (Possible(w) /\ containers' = Effect(w))
           /\ \/ /\ Possible(w) /\ containers' = Effect(w) /\ faults' = faults
                 /\ after.pc = (IF w.pc \in Undone THEN Undo(w.pc) ELSE Then(w.pc))
                 /\ after.status = (IF w.pc \in {"remove", "put"} THEN 200 ELSE w.status)
              \/ /\ faults' = faults + 1 \/ (~Possible(w) /\ containers' = containers)
                 /\ \/ w.pc \in Attempted /\ after.pc = "undoStop" /\ after.status = 502
                    \/ w.pc \in Undone /\ after.pc = Undo(w.pc) /\ after.status = 502
                    \/ /\ w.pc \notin Attempted \cup Undone /\ after.pc = "record"
                       /\ after.status \in {502, 503, 504}
              \/ w.pc \in Unguarded /\ after = NoTask /\ faults' = faults + 1
           /\ \/ after = NoTask
              \/ /\ after.key = w.key /\ after.target = w.target
                 /\ after.old = w.old /\ after.name = w.name
<1> DEFINE w == task[t]
           after == task'[t]
<1>1. task \in [Tasks -> TaskRecords]
  BY DEF KeySafe, TypeOK
<1>2. ASSUME NEW pc, NEW status, Goes(t, pc, status)
      PROVE  /\ after.pc = pc /\ after.status = status
             /\ after.key = w.key /\ after.target = w.target
             /\ after.old = w.old /\ after.name = w.name
  BY <1>1, <1>2 DEF Goes, ActiveTasks
<1>3. ASSUME NEW status, Answer(t, status) PROVE after = NoTask
  BY <1>1, <1>3 DEF Answer
<1>4. CASE Possible(w) /\ containers' = Effect(w) /\ Returns(t) /\ UNCHANGED faults
  BY <1>2, <1>4 DEF Returns
<1>5. ASSUME NEW status \in {502, 503, 504}, Raises(t, status)
      PROVE  /\ \/ w.pc \in Attempted /\ after.pc = "undoStop" /\ after.status = 502
                \/ w.pc \in Undone /\ after.pc = Undo(w.pc) /\ after.status = 502
                \/ /\ w.pc \notin Attempted \cup Undone /\ after.pc = "record"
                   /\ after.status \in {502, 503, 504}
             /\ after.key = w.key /\ after.target = w.target
             /\ after.old = w.old /\ after.name = w.name
  BY <1>2, <1>5 DEF Raises
<1>6. CASE ~Possible(w) /\ Raises(t, 502) /\ UNCHANGED containers
  BY <1>5, <1>6
<1>7. CASE /\ Fault
           /\ UNCHANGED containers \/ (Possible(w) /\ containers' = Effect(w))
           /\ \/ \E status \in {502, 503, 504} : Raises(t, status) /\ UNCHANGED answers
              \/ w.pc \in Unguarded /\ Answer(t, 500)
  <2>1. faults' = faults + 1
    BY <1>7 DEF Fault
  <2>2. CASE \E status \in {502, 503, 504} : Raises(t, status)
    BY <1>5, <1>7, <2>1, <2>2
  <2>3. CASE w.pc \in Unguarded /\ Answer(t, 500)
    BY <1>3, <1>7, <2>1, <2>3
  <2> QED  BY <1>7, <2>2, <2>3
<1> QED  BY <1>4, <1>6, <1>7 DEF DockerCall

\* What a call does to the container it is about, and to no other.
LEMMA CallEffect ==
    ASSUME NEW w \in ActiveTasks, containers \in [Containers -> ContainerStates],
           containers' = Effect(w),
           w.pc \in (Attempted \ {"settle"}) \cup Undone \cup {"create", "remove", "restart"}
    PROVE  LET before == containers[Callee(w)]
               after == containers'[Callee(w)]
           IN
           /\ Callee(w) \in Containers
           /\ \A c \in Containers : c # Callee(w) => containers'[c] = containers[c]
           /\ w.pc = "create" => after = [exists |-> TRUE, name |-> Append(w.name, "next"),
                                          running |-> FALSE, image |-> w.target]
           /\ w.pc \in {"stop", "undoStop"} => after = [before EXCEPT !.running = FALSE]
           /\ w.pc \in {"start", "undoStart", "restart"} => after = [before EXCEPT !.running = TRUE]
           /\ w.pc = "previous" => after = [before EXCEPT !.name = Append(w.name, "previous")]
           /\ w.pc \in {"promote", "undoRename"} => after = [before EXCEPT !.name = w.name]
           /\ w.pc \in {"remove", "undoRemove"} => after = Absent
<1>1. Callee(w) \in Containers
  BY DEF Callee, ActiveTasks, Containers
<1> QED  BY <1>1 DEF Effect

\* The containers there are after a call.
LEMMA CallExisting ==
    ASSUME NEW w \in ActiveTasks, containers \in [Containers -> ContainerStates],
           containers' = Effect(w),
           w.pc \in (Attempted \ {"settle"}) \cup Undone \cup {"create", "remove", "restart"}
    PROVE  Existing' = IF w.pc = "create" THEN Existing \cup {w.key}
                       ELSE IF w.pc \in {"remove", "undoRemove"} THEN Existing \ {Callee(w)}
                       ELSE Existing
<1> DEFINE x == Callee(w)
<1>1. x \in Containers /\ \A c \in Containers : c # x => containers'[c] = containers[c]
  BY CallEffect
<1>2. CASE w.pc = "create"
  <2>1. containers'[x] = [exists |-> TRUE, name |-> Append(w.name, "next"), running |-> FALSE,
                          image |-> w.target]
    BY <1>2, CallEffect
  <2>2. x = w.key
    BY <1>2 DEF Callee
  <2>3. containers'[x].exists
    BY <2>1
  <2> QED  BY <1>1, <1>2, <2>2, <2>3 DEF Existing
<1>3. CASE w.pc \in {"remove", "undoRemove"}
  <2>1. containers'[x] = Absent
    BY <1>3, CallEffect
  <2>2. ~containers'[x].exists
    BY <2>1 DEF Absent
  <2> QED  BY <1>1, <1>3, <2>2 DEF Existing
<1>4. CASE w.pc \notin {"create", "remove", "undoRemove"}
  <2>1. containers[x] \in ContainerStates
    BY <1>1
  <2>2. containers'[x].exists = containers[x].exists
    BY <1>4, <2>1, CallEffect DEF ContainerStates, Attempted, Undone
  <2> QED  BY <1>1, <1>4, <2>2 DEF Existing
<1> QED  BY <1>2, <1>3, <1>4

\* A call creates its key's container at most, and counts it.
LEMMA CallKeepsBounds ==
    ASSUME KeySafe, ServiceSafe, NEW t \in Tasks, DockerCall(t)
    PROVE  CreatedByCall' /\ IsFiniteSet(Existing')
<1> DEFINE w == task[t]
<1>1. /\ w \in ActiveTasks /\ w.key \in Keys /\ IsFiniteSet(Existing)
      /\ containers \in [Containers -> ContainerStates]
      /\ w.pc \in (Attempted \ {"settle"}) \cup Undone \cup {"create", "remove", "restart"}
  BY CallKnows DEF DockerCall
<1>2. containers' = containers \/ containers' = Effect(w)
  BY <1>1, CallOutcome
<1>3. /\ Existing' \subseteq Existing \cup {w.key}
      /\ w.pc # "create" => Existing' \subseteq Existing
  <2>1. CASE containers' = containers
    BY <2>1 DEF Existing
  <2>2. CASE containers' = Effect(w)
    BY <1>1, <2>2, CallExisting
  <2> QED  BY <1>2, <2>1, <2>2
<1>4. IsFiniteSet(Existing \cup {w.key})
  BY <1>1, FS_AddElement
<1>5. IsFiniteSet(Existing')
  BY <1>3, <1>4, FS_Subset
<1>6. calls \in [Keys -> Nat]
  BY DEF KeySafe, TypeOK
<1>7. /\ \A k \in Keys : calls[k] # 0 => calls'[k] # 0
      /\ w.pc = "create" => calls'[w.key] # 0
  BY <1>1, <1>6 DEF DockerCall, Counted
<1>8. \A k \in Keys : containers'[k].exists => k \in Existing'
  BY DEF Existing, Containers
<1>9. \A k \in Existing : k \in Keys => calls[k] # 0
  BY DEF Existing, ServiceSafe, CreatedByCall
<1>10. CreatedByCall'
  BY <1>3, <1>7, <1>8, <1>9 DEF CreatedByCall
<1> QED  BY <1>5, <1>10

\* A step leaves its task knowing what its next step relies on.
StageKept(t) ==
    /\ RollbackStage(t)'
    /\ crashes = 0 /\ faults' <= 1 =>
           OneFaultStage(t)' /\ (Serves' \/ task'[t].pc \in BetweenSteps)

\* A task that is over, or records a failure, relies on nothing.
LEMMA OverKnowsNothing ==
    ASSUME NEW t \in Tasks,
           \/ task'[t] = NoTask \/ task'[t].pc = "find"
           \/ task'[t].pc = "record" /\ task'[t].status \in {502, 503, 504}
    PROVE  RollbackStage(t)' /\ OneFaultStage(t)' /\ task'[t].pc \notin BetweenSteps
<1>1. \/ task'[t].pc \in {"idle", "find"}
      \/ task'[t].pc = "record" /\ task'[t].status # 200
  BY DEF NoTask
<1> QED  BY <1>1 DEF RollbackStage, OneFaultStage, BetweenSteps, Attempted, Undone

\* The container a rollback is to create is not there yet.
LEMMA NotYetCreated ==
    ASSUME KeySafe, ServiceSafe, NEW t \in Tasks, task[t] \in ActiveTasks, task[t].pc = "create"
    PROVE  ~containers[task[t].key].exists
<1>1. task[t].key \in Keys /\ calls[task[t].key] = 0
  BY DEF ActiveTasks, KeySafe, FirstCallBound, Calling
<1> QED  BY <1>1 DEF ServiceSafe, CreatedByCall

\* Creating the replacement, removing the replaced container and restarting keep the service up.
LEMMA UnguardedCallServes ==
    ASSUME KeySafe, ServiceSafe, NEW t \in Tasks, DockerCall(t),
           task[t].pc \in {"create", "remove", "restart"}, crashes = 0, faults <= 1
    PROVE  Serves'
<1> DEFINE w == task[t]
<1>1. /\ w \in ActiveTasks /\ w.key \in Containers /\ w.old \in Containers
      /\ containers \in [Containers -> ContainerStates]
      /\ RollbackStage(t) /\ OneFaultStage(t) /\ Serves
  BY CallKnows DEF BetweenSteps, Undone
<1>2. containers' = containers \/ containers' = Effect(w)
  BY <1>1, CallOutcome
<1>3. CASE containers' = containers
  BY <1>1, <1>3 DEF Serves
<1>4. CASE containers' = Effect(w)
  <2>1. \A c \in Containers : c # Callee(w) => containers'[c] = containers[c]
    BY <1>1, <1>4, CallEffect
  <2>2. PICK c \in Containers : containers[c].exists /\ containers[c].running
                                /\ containers[c].name = <<>>
    BY <1>1 DEF Serves
  <2>3. CASE w.pc = "create"
    <3>1. Callee(w) = w.key /\ ~containers[w.key].exists
      BY <1>1, <2>3, NotYetCreated DEF Callee
    <3>2. c # Callee(w)
      BY <2>2, <3>1
    <3>3. containers'[c] = containers[c]
      BY <2>1, <3>2
    <3> QED  BY <2>2, <3>3 DEF Serves
  <2>4. CASE w.pc = "remove"
    <3>1. Existing = {w.old, w.key} /\ w.old # w.key /\ containers[w.key].running
          /\ containers[w.key].name = <<>>
      BY <1>1, <2>4 DEF RollbackStage, OneFaultStage
    <3>2. Callee(w) = w.old /\ w.key \in Existing
      BY <2>4, <3>1 DEF Callee
    <3>3. containers[w.key].exists
      BY <3>2 DEF Existing
    <3>4. containers'[w.key] = containers[w.key]
      BY <1>1, <2>1, <3>1, <3>2
    <3> QED  BY <1>1, <3>1, <3>3, <3>4 DEF Serves
  <2>5. CASE w.pc = "restart"
    <3>1. containers'[w.old] = [containers[w.old] EXCEPT !.running = TRUE] /\ Callee(w) = w.old
      BY <1>1, <1>4, <2>5, CallEffect DEF Callee
    <3>2. containers[c] \in ContainerStates /\ containers[w.old] \in ContainerStates
      BY <1>1
    <3>3. containers'[c].exists /\ containers'[c].running /\ containers'[c].name = <<>>
      BY <2>1, <2>2, <3>1, <3>2 DEF ContainerStates
    <3> QED  BY <3>3 DEF Serves
  <2> QED  BY <2>3, <2>4, <2>5
<1> QED  BY <1>2, <1>3, <1>4

\* The create call of a rollback.
LEMMA CreateCall ==
    ASSUME KeySafe, ServiceSafe, NEW t \in Tasks, DockerCall(t), task[t].pc = "create"
    PROVE  StageKept(t)
<1> DEFINE w == task[t]
           after == task'[t]
<1>1. /\ w \in ActiveTasks /\ w.key \in Containers /\ w.old \in Containers
      /\ containers \in [Containers -> ContainerStates]
      /\ RollbackStage(t) /\ faults \in Nat /\ faults' \in {faults, faults + 1}
      /\ crashes = 0 /\ faults <= 1 => OneFaultStage(t)
  BY CallKnows
<1>2. crashes = 0 /\ faults' <= 1 => Serves'
  BY <1>1, UnguardedCallServes
<1>3. \/ Possible(w) /\ containers' = Effect(w) /\ after.pc = "stop"
      \/ after.pc = "record" /\ after.status \in {502, 503, 504}
      \/ after = NoTask
  BY <1>1, CallOutcome DEF Then, Attempted, Undone
<1>4. CASE after.pc = "stop" /\ containers' = Effect(w)
  <2>1. /\ after.key = w.key /\ after.target = w.target
        /\ after.old = w.old /\ after.name = w.name
    BY <1>1, <1>4, CallOutcome DEF NoTask
  <2>2. Existing' = {w.old, w.key}
    BY <1>1, <1>4, CallExisting DEF RollbackStage
  <2>3. ~containers[w.key].exists /\ containers[w.old].exists
    BY <1>1, NotYetCreated DEF RollbackStage, Existing
  <2>4. w.old # w.key
    BY <2>3
  <2>5. Callee(w) = w.key
    BY DEF Callee
  <2>6. containers'[w.key] = [exists |-> TRUE, name |-> Append(w.name, "next"),
                              running |-> FALSE, image |-> w.target]
    BY <1>1, <1>4, <2>5, CallEffect
  <2>7. containers'[w.old] = containers[w.old]
    BY <1>1, <1>4, <2>4, <2>5, CallEffect
  <2>8. RollbackStage(t)'
    BY <1>4, <2>1, <2>2, <2>4, <2>6 DEF RollbackStage, Attempted, Undone
  <2>9. ASSUME crashes = 0, faults' <= 1 PROVE OneFaultStage(t)'
    <3>1. w.name = <<>> /\ containers[w.old].name = <<>>
      BY <1>1, <2>9 DEF OneFaultStage
    <3>2. containers'[w.key].name = <<"next">>
      BY <2>6, <3>1
    <3>3. containers'[w.old].name = <<>>
      BY <2>7, <3>1
    <3> QED  BY <1>4, <2>1, <3>1, <3>2, <3>3 DEF OneFaultStage, Undone
  <2> QED  BY <1>2, <2>8, <2>9 DEF StageKept
<1>5. CASE after = NoTask \/ (after.pc = "record" /\ after.status \in {502, 503, 504})
  BY <1>2, <1>5, OverKnowsNothing DEF StageKept
<1> QED  BY <1>3, <1>4, <1>5

\* The calls of rollback's try: the old container is stopped and renamed, the new one takes the
\* name and starts.  None is refused while there was one fault at most.
LEMMA AttemptedCall ==
    ASSUME KeySafe, ServiceSafe, NEW t \in Tasks, DockerCall(t), task[t].pc \in Attempted
    PROVE  StageKept(t)
<1> DEFINE w == task[t]
           after == task'[t]
<1>1. /\ w \in ActiveTasks /\ w.key \in Containers /\ w.old \in Containers
      /\ containers \in [Containers -> ContainerStates]
      /\ RollbackStage(t) /\ faults \in Nat /\ faults' \in {faults, faults + 1}
      /\ crashes = 0 /\ faults <= 1 => OneFaultStage(t)
  BY CallKnows
<1>2. w.pc \in {"stop", "previous", "promote", "start"}
  BY DEF DockerCall, Attempted, Undone
<1>call. w.pc \in (Attempted \ {"settle"}) \cup Undone \cup {"create", "remove", "restart"}
  BY DEF DockerCall
<1>3. Existing = {w.old, w.key} /\ w.old # w.key /\ containers[w.key].image = w.target
  BY <1>1 DEF RollbackStage
<1>4. containers' = containers \/ (Possible(w) /\ containers' = Effect(w))
  BY <1>1, CallOutcome
<1>5. \/ containers' = Effect(w) /\ after.pc = Then(w.pc) /\ after.status = w.status
      \/ /\ faults' = faults + 1 \/ ~Possible(w)
         /\ after.pc = "undoStop" /\ after.status = 502
  BY <1>1, <1>2, CallOutcome DEF Attempted, Undone, Unguarded
<1>6. /\ after.key = w.key /\ after.target = w.target
      /\ after.old = w.old /\ after.name = w.name
  <2>1. after.pc # "idle"
    BY <1>2, <1>5 DEF Then
  <2> QED  BY <1>1, <2>1, CallOutcome DEF NoTask
<1>7. Existing' = {w.old, w.key}
  <2>1. CASE containers' = containers
    BY <1>3, <2>1 DEF Existing
  <2>2. CASE containers' = Effect(w)
    BY <1>1, <1>2, <1>3, <1>call, <2>2, CallExisting
  <2> QED  BY <1>4, <2>1, <2>2
<1>8. containers[w.old] \in ContainerStates /\ containers[w.key] \in ContainerStates
  BY <1>1
<1>9. containers'[w.key].image = w.target
  <2>1. CASE containers' = containers
    BY <1>3, <2>1
  <2>2. CASE containers' = Effect(w)
    <3>1. CASE w.pc \in {"stop", "previous"}
      BY <1>1, <1>3, <1>call, <2>2, <3>1, CallEffect DEF Callee
    <3>2. CASE w.pc \in {"promote", "start"}
      <4>1. Callee(w) = w.key
        BY <3>2 DEF Callee
      <4>2. \/ containers'[w.key] = [containers[w.key] EXCEPT !.name = w.name]
            \/ containers'[w.key] = [containers[w.key] EXCEPT !.running = TRUE]
        BY <1>1, <1>call, <2>2, <3>2, <4>1, CallEffect
      <4> QED  BY <1>3, <1>8, <4>2 DEF ContainerStates
    <3> QED  BY <1>2, <3>1, <3>2
  <2> QED  BY <1>4, <2>1, <2>2
<1>10. CASE after.pc = "undoStop" /\ after.status = 502 /\ (faults' = faults + 1 \/ ~Possible(w))
  <2>1. RollbackStage(t)'
    BY <1>10 DEF RollbackStage, Attempted, Undone
  <2>2. ASSUME crashes = 0, faults' <= 1 PROVE OneFaultStage(t)'
    <3>1. OneFaultStage(t)
      BY <1>1, <2>2
    <3>2. w.name = <<>>
      BY <3>1 DEF OneFaultStage
    <3>3. containers[w.old].exists /\ containers[w.key].exists
          /\ \A c \in Containers : containers[c].exists => c = w.old \/ c = w.key
      BY <1>3 DEF Existing
    <3>4. Possible(w)
      <4>1. CASE w.pc \in {"stop", "start"}
        BY <3>3, <4>1 DEF Possible, Callee
      <4>2. CASE w.pc = "previous"
        <5>1. containers[w.old].name = <<>> /\ containers[w.key].name = <<"next">>
          BY <3>1, <4>2 DEF OneFaultStage
        <5>2. Append(w.name, "previous") = <<"previous">>
          BY <3>2
        <5>3. <<"previous">> # <<>> /\ <<"previous">> # <<"next">>
          OBVIOUS
        <5> QED  BY <3>3, <4>2, <5>1, <5>2, <5>3 DEF Possible, NameFree
      <4>3. CASE w.pc = "promote"
        <5>1. containers[w.old].name = <<"previous">> /\ containers[w.key].name = <<"next">>
          BY <3>1, <4>3 DEF OneFaultStage
        <5>2. <<"previous">> # <<>> /\ <<"next">> # <<>>
          OBVIOUS
        <5> QED  BY <3>2, <3>3, <4>3, <5>1, <5>2 DEF Possible, NameFree
      <4> QED  BY <1>2, <4>1, <4>2, <4>3
    <3>5. faults' = 1
      BY <1>1, <1>10, <2>2, <3>4
    <3> QED  BY <1>3, <1>6, <1>7, <1>10, <3>2, <3>5 DEF OneFaultStage, Attempted, Undone
  <2> QED  BY <1>10, <2>1, <2>2 DEF StageKept, BetweenSteps, Undone
<1>11. CASE containers' = Effect(w) /\ after.pc = Then(w.pc) /\ after.status = w.status
  <2>1. CASE w.pc = "stop"
    <3>1. after.pc = "previous" /\ Callee(w) = w.old
      BY <1>11, <2>1 DEF Then, Callee
    <3>2. containers'[w.old] = [containers[w.old] EXCEPT !.running = FALSE]
          /\ containers'[w.key] = containers[w.key]
      BY <1>1, <1>3, <1>11, <1>call, <2>1, <3>1, CallEffect
    <3>3. containers'[w.old].name = containers[w.old].name
      BY <1>8, <3>2 DEF ContainerStates
    <3>4. RollbackStage(t)'
      BY <1>3, <1>6, <1>7, <1>9, <3>1 DEF RollbackStage, Attempted, Undone
    <3>5. crashes = 0 /\ faults <= 1 => OneFaultStage(t)'
      BY <1>1, <1>6, <2>1, <3>1, <3>2, <3>3 DEF OneFaultStage, Attempted, Undone
    <3> QED  BY <1>1, <3>1, <3>4, <3>5 DEF StageKept, BetweenSteps
  <2>2. CASE w.pc = "previous"
    <3>1. after.pc = "promote" /\ Callee(w) = w.old
      BY <1>11, <2>2 DEF Then, Callee
    <3>2. containers'[w.old] = [containers[w.old] EXCEPT !.name = Append(w.name, "previous")]
          /\ containers'[w.key] = containers[w.key]
      BY <1>1, <1>3, <1>11, <1>call, <2>2, <3>1, CallEffect
    <3>3. containers'[w.old].name = Append(w.name, "previous")
      BY <1>8, <3>2 DEF ContainerStates
    <3>4. RollbackStage(t)'
      BY <1>3, <1>6, <1>7, <1>9, <3>1 DEF RollbackStage, Attempted, Undone
    <3>5. w.name = <<>> => containers'[w.old].name = <<"previous">>
      BY <3>3
    <3>6. crashes = 0 /\ faults <= 1 => OneFaultStage(t)'
      BY <1>1, <1>6, <2>2, <3>1, <3>2, <3>5 DEF OneFaultStage, Attempted, Undone
    <3> QED  BY <1>1, <3>1, <3>4, <3>6 DEF StageKept, BetweenSteps
  <2>3. CASE w.pc = "promote"
    <3>1. after.pc = "start" /\ Callee(w) = w.key
      BY <1>11, <2>3 DEF Then, Callee
    <3>2. containers'[w.key] = [containers[w.key] EXCEPT !.name = w.name]
      BY <1>1, <1>3, <1>11, <1>call, <2>3, <3>1, CallEffect
    <3>3. containers'[w.key].name = w.name
      BY <1>8, <3>2 DEF ContainerStates
    <3>4. RollbackStage(t)'
      BY <1>3, <1>6, <1>7, <1>9, <3>1 DEF RollbackStage, Attempted, Undone
    <3>5. crashes = 0 /\ faults <= 1 => OneFaultStage(t)'
      BY <1>1, <1>6, <2>3, <3>1, <3>3 DEF OneFaultStage, Attempted, Undone
    <3> QED  BY <1>1, <3>1, <3>4, <3>5 DEF StageKept, BetweenSteps
  <2>4. CASE w.pc = "start"
    <3>1. after.pc = "settle" /\ Callee(w) = w.key
      BY <1>11, <2>4 DEF Then, Callee
    <3>2. containers'[w.key] = [containers[w.key] EXCEPT !.running = TRUE]
      BY <1>1, <1>11, <1>call, <2>4, <3>1, CallEffect
    <3>3. containers'[w.key].name = containers[w.key].name /\ containers'[w.key].running
      BY <1>8, <3>2 DEF ContainerStates
    <3>4. RollbackStage(t)'
      BY <1>3, <1>6, <1>7, <1>9, <3>1, <3>3 DEF RollbackStage, Attempted, Undone
    <3>5. crashes = 0 /\ faults <= 1 => OneFaultStage(t)' /\ containers'[w.key].name = <<>>
      BY <1>1, <1>6, <2>4, <3>1, <3>3 DEF OneFaultStage, Attempted, Undone
    <3>6. containers'[w.key].exists
      BY <1>7 DEF Existing
    <3>7. crashes = 0 /\ faults <= 1 => Serves'
      BY <1>1, <3>3, <3>5, <3>6 DEF Serves
    <3> QED  BY <1>1, <3>4, <3>5, <3>7 DEF StageKept
  <2> QED  BY <1>2, <2>1, <2>2, <2>3, <2>4
<1> QED  BY <1>5, <1>10, <1>11

\* Removing the replaced container leaves the replacement alone, and a restart its container.
LEMMA LastCall ==
    ASSUME KeySafe, ServiceSafe, NEW t \in Tasks, DockerCall(t),
           task[t].pc \in {"remove", "restart"}
    PROVE  StageKept(t)
<1> DEFINE w == task[t]
           after == task'[t]
<1>1. /\ w \in ActiveTasks /\ w.key \in Containers /\ w.old \in Containers
      /\ containers \in [Containers -> ContainerStates]
      /\ RollbackStage(t) /\ faults \in Nat /\ faults' \in {faults, faults + 1}
  BY CallKnows
<1>2. crashes = 0 /\ faults' <= 1 => Serves'
  BY <1>1, UnguardedCallServes
<1>3. \/ containers' = Effect(w) /\ w.pc = "remove" /\ after.pc = "record"
      \/ w.pc = "restart" /\ after.pc = "restarted"
      \/ after.pc = "record" /\ after.status \in {502, 503, 504}
      \/ after = NoTask
  BY <1>1, CallOutcome DEF Then, Attempted, Undone
<1>4. CASE containers' = Effect(w) /\ w.pc = "remove" /\ after.pc = "record"
  <2>1. /\ Existing = {w.old, w.key} /\ w.old # w.key /\ containers[w.key].running
        /\ containers[w.key].image = w.target
    BY <1>1, <1>4 DEF RollbackStage
  <2>2. Callee(w) = w.old
    BY <1>4 DEF Callee
  <2>3. Existing' = {w.key}
    BY <1>1, <1>4, <2>1, <2>2, CallExisting
  <2>4. containers'[w.key] = containers[w.key]
    BY <1>1, <1>4, <2>1, <2>2, CallEffect
  <2>5. after.target = w.target
    BY <1>1, <1>4, CallOutcome DEF NoTask
  <2>6. RollbackStage(t)'
    BY <1>1, <1>4, <2>1, <2>3, <2>4, <2>5 DEF RollbackStage, Attempted, Undone
  <2>7. OneFaultStage(t)'
    BY <1>4 DEF OneFaultStage, Attempted, Undone
  <2> QED  BY <1>2, <2>6, <2>7 DEF StageKept
<1>5. CASE after = NoTask \/ (after.pc = "record" /\ after.status \in {502, 503, 504})
  BY <1>2, <1>5, OverKnowsNothing DEF StageKept
<1>6. CASE after.pc = "restarted"
  <2>1. RollbackStage(t)' /\ OneFaultStage(t)'
    BY <1>6 DEF RollbackStage, OneFaultStage, Attempted, Undone
  <2> QED  BY <1>2, <2>1 DEF StageKept
<1> QED  BY <1>3, <1>4, <1>5, <1>6

\* _recover: after one fault none of its steps fails, and the old container is back under its
\* name.
LEMMA UndoneCall ==
    ASSUME KeySafe, ServiceSafe, NEW t \in Tasks, DockerCall(t), task[t].pc \in Undone
    PROVE  StageKept(t)
<1> DEFINE w == task[t]
           after == task'[t]
<1>1. /\ w \in ActiveTasks /\ w.key \in Containers /\ w.old \in Containers
      /\ containers \in [Containers -> ContainerStates]
      /\ RollbackStage(t) /\ faults \in Nat /\ faults' \in {faults, faults + 1}
      /\ crashes = 0 /\ faults <= 1 => OneFaultStage(t)
  BY CallKnows
<1>call. w.pc \in (Attempted \ {"settle"}) \cup Undone \cup {"create", "remove", "restart"}
  BY DEF DockerCall
<1>2. after.pc = Undo(w.pc) /\ after.status = 502
  <2>1. w.status = 502
    BY <1>1 DEF RollbackStage
  <2> QED  BY <1>1, <2>1, CallOutcome DEF Attempted, Undone, Unguarded
<1>3. /\ after.key = w.key /\ after.target = w.target
      /\ after.old = w.old /\ after.name = w.name
  <2>1. after.pc # "idle"
    BY <1>2 DEF Undo
  <2> QED  BY <1>1, <2>1, CallOutcome DEF NoTask
<1>4. RollbackStage(t)'
  BY <1>2 DEF RollbackStage, Undo, Attempted, Undone
<1>5. ASSUME crashes = 0, faults' <= 1
      PROVE  OneFaultStage(t)' /\ (Serves' \/ after.pc \in BetweenSteps)
  <2>1. OneFaultStage(t) /\ faults = 1 /\ faults' = 1 /\ w.name = <<>>
    BY <1>1, <1>5 DEF OneFaultStage
  <2>2. (Possible(w) /\ containers' = Effect(w)) \/ (~Possible(w) /\ containers' = containers)
    BY <1>1, <2>1, CallOutcome DEF Unguarded, Undone
  <2>3. containers[w.old] \in ContainerStates /\ containers[w.key] \in ContainerStates
    BY <1>1
  <2>4. CASE w.pc = "undoStop"
    <3>1. Existing = {w.old, w.key} /\ w.old # w.key
      BY <2>1, <2>4 DEF OneFaultStage
    <3>2. Callee(w) = w.key /\ containers[w.key].exists
      BY <2>4, <3>1 DEF Callee, Existing
    <3>3. containers' = Effect(w)
      BY <2>2, <2>4, <3>2 DEF Possible
    <3>4. containers'[w.key] = [containers[w.key] EXCEPT !.running = FALSE]
      BY <1>1, <2>4, <3>2, <3>3, <1>call, CallEffect
    <3>5. ~containers'[w.key].running
      BY <2>3, <3>4 DEF ContainerStates
    <3>6. Existing' = {w.old, w.key}
      BY <1>1, <2>4, <3>1, <3>3, <1>call, CallExisting
    <3>7. after.pc = "undoRemove"
      BY <1>2, <2>4 DEF Undo
    <3> QED
      BY <1>3, <2>1, <3>1, <3>5, <3>6, <3>7 DEF OneFaultStage, BetweenSteps, Attempted, Undone
  <2>5. CASE w.pc = "undoRemove"
    <3>1. Existing = {w.old, w.key} /\ w.old # w.key /\ ~containers[w.key].running
      BY <2>1, <2>5 DEF OneFaultStage
    <3>2. Callee(w) = w.key /\ containers[w.key].exists
      BY <2>5, <3>1 DEF Callee, Existing
    <3>3. containers' = Effect(w)
      BY <2>2, <2>5, <3>1, <3>2 DEF Possible
    <3>4. Existing' = {w.old}
      BY <1>1, <2>5, <3>1, <3>2, <3>3, <1>call, CallExisting
    <3>5. after.pc = "undoRename"
      BY <1>2, <2>5 DEF Undo
    <3> QED
      BY <1>3, <2>1, <3>4, <3>5 DEF OneFaultStage, BetweenSteps, Attempted, Undone
  <2>6. CASE w.pc = "undoRename"
    <3>1. Existing = {w.old}
      BY <2>1, <2>6 DEF OneFaultStage
    <3>2. containers[w.old].exists /\ \A c \in Containers : containers[c].exists => c = w.old
      BY <3>1 DEF Existing
    <3>3. Existing' = {w.old} /\ containers'[w.old].name = <<>>
      <4>1. CASE containers' = Effect(w)
        <5>1. containers'[w.old] = [containers[w.old] EXCEPT !.name = w.name]
          BY <1>1, <1>call, <2>6, <4>1, CallEffect DEF Callee
        <5>2. containers'[w.old].name = <<>>
          BY <2>1, <2>3, <5>1 DEF ContainerStates
        <5> QED  BY <1>1, <2>6, <3>1, <4>1, <5>2, <1>call, CallExisting
      <4>2. CASE ~Possible(w) /\ containers' = containers
        <5>1. ~NameFree(<<>>)
          BY <2>1, <2>6, <4>2 DEF Possible
        <5>2. containers[w.old].name = <<>>
          BY <3>2, <5>1 DEF NameFree
        <5> QED  BY <3>1, <4>2, <5>2 DEF Existing
      <4> QED  BY <2>2, <4>1, <4>2
    <3>4. after.pc = "undoStart"
      BY <1>2, <2>6 DEF Undo
    <3> QED
      BY <1>3, <2>1, <3>3, <3>4 DEF OneFaultStage, BetweenSteps, Attempted, Undone
  <2>7. CASE w.pc = "undoStart"
    <3>1. Existing = {w.old} /\ containers[w.old].name = <<>>
      BY <2>1, <2>7 DEF OneFaultStage
    <3>2. Callee(w) = w.old /\ containers[w.old].exists
      BY <2>7, <3>1 DEF Callee, Existing
    <3>3. containers' = Effect(w)
      BY <2>2, <2>7, <3>2 DEF Possible
    <3>4. containers'[w.old] = [containers[w.old] EXCEPT !.running = TRUE]
      BY <1>1, <2>7, <3>2, <3>3, <1>call, CallEffect
    <3>5. containers'[w.old].running /\ containers'[w.old].exists
          /\ containers'[w.old].name = <<>>
      BY <2>3, <3>1, <3>2, <3>4 DEF ContainerStates
    <3>6. Serves'
      BY <1>1, <3>5 DEF Serves
    <3>7. after.pc = "record"
      BY <1>2, <2>7 DEF Undo
    <3> QED  BY <3>6, <3>7 DEF OneFaultStage, Attempted, Undone
  <2> QED  BY <2>4, <2>5, <2>6, <2>7 DEF Undone
<1> QED  BY <1>4, <1>5 DEF StageKept

\* A step that leaves the containers alone.
LEMMA ServiceRests ==
    ASSUME KeySafe, ServiceSafe, NEW t \in Tasks, NEW w, task' = [task EXCEPT ![t] = w],
           UNCHANGED <<containers, crashes>>, \A k \in Keys : calls[k] # 0 => calls'[k] # 0,
           OnService(t)' => OnService(t) \/ \A u \in Tasks : ~OnService(u),
           /\ w.pc \in Attempted \cup Undone \cup {"create", "remove"} =>
                  OperationOf[w.key] = "deployment.rollback"
           /\ w.pc \in {"restart", "restarted"} => OperationOf[w.key] = "service.restart"
           /\ w.pc = "put" => OperationOf[w.key] = "flag.set",
           RollbackStage(t)',
           faults' = faults \/ faults' = faults + 1,
           crashes = 0 /\ faults' <= 1 /\ OneFaultKnown => OneFaultStage(t)',
           task[t].pc \in BetweenSteps => w.pc \in BetweenSteps
    PROVE  ServiceSafe'
<1>1. CreatedByCall'
  BY DEF ServiceSafe, CreatedByCall
<1>2. IsFiniteSet(Existing')
  BY DEF ServiceSafe, Existing
<1> QED  BY <1>1, <1>2, ServiceMoves

\* A task leaves, or waits for a lock.
LEMMA ServiceLeft ==
    ASSUME KeySafe, ServiceSafe, NEW t \in Tasks, NEW w, task' = [task EXCEPT ![t] = w],
           w.pc \in {"idle", "key", "service"}, task[t].pc \notin BetweenSteps,
           UNCHANGED <<containers, crashes>>, \A k \in Keys : calls[k] # 0 => calls'[k] # 0,
           faults' = faults \/ faults' = faults + 1
    PROVE  ServiceSafe'
<1>1. task'[t] = w
  BY DEF KeySafe, TypeOK
<1>2. ~OnService(t)' /\ RollbackStage(t)' /\ OneFaultStage(t)'
  BY <1>1 DEF OnService, RollbackStage, OneFaultStage, Busy, Waits, Attempted, Undone, Unguarded
<1>3. w.pc \notin Attempted \cup Undone \cup {"create", "remove", "restart", "restarted", "put"}
  BY DEF Attempted, Undone
<1> QED  BY <1>2, <1>3, ServiceRests

\* A task under the service's lock goes on to a step that relies on nothing of the containers.
LEMMA ServiceGoesOn ==
    ASSUME KeySafe, ServiceSafe, NEW t \in Tasks, task[t] \in ActiveTasks,
           NEW pc \in {"find", "record"}, NEW status, Goes(t, pc, status),
           task[t].pc \in {"service", "find", "put", "restart", "restarted"},
           task[t].pc = "service" => ServiceFree(Op(t)),
           pc = "record" /\ status = 200 => Op(t) # "deployment.rollback",
           UNCHANGED <<containers, crashes>>, \A k \in Keys : calls[k] # 0 => calls'[k] # 0,
           faults' = faults \/ faults' = faults + 1
    PROVE  ServiceSafe'
<1> DEFINE w == [task[t] EXCEPT !.pc = pc, !.status = status]
<1>1. task' = [task EXCEPT ![t] = w] /\ w.pc = pc /\ w.status = status /\ w.key = task[t].key
  BY DEF Goes, ActiveTasks
<1> HIDE DEF w
<1>2. task'[t] = w /\ (Op(t)' = Op(t))
  BY <1>1 DEF KeySafe, TypeOK, Op
<1>3. RollbackStage(t)' /\ OneFaultStage(t)'
  BY <1>1, <1>2 DEF RollbackStage, OneFaultStage, Attempted, Undone
<1>4. OnService(t)' => OnService(t) \/ \A u \in Tasks : ~OnService(u)
  <2>1. CASE task[t].pc = "service"
    <3>1. ASSUME Op(t) # "flag.set" PROVE \A u \in Tasks : ~OnService(u)
      BY <2>1, <3>1 DEF ServiceFree, OnService, Op
    <3> QED  BY <1>2, <3>1 DEF OnService
  <2>2. CASE task[t].pc # "service"
    BY <1>2, <2>2 DEF OnService, Busy, Waits, Attempted, Undone, Unguarded
  <2> QED  BY <2>1, <2>2
<1>5. /\ w.pc \notin Attempted \cup Undone \cup {"create", "remove", "restart", "restarted", "put"}
      /\ task[t].pc \notin BetweenSteps
  BY <1>1 DEF Attempted, Undone, BetweenSteps
<1> QED  BY <1>1, <1>3, <1>4, <1>5, ServiceRests

\* Every step of the executor, a crash included, keeps what the tasks know of the service.
LEMMA StepServiceSafe == ASSUME KeySafe, ServiceSafe, [Next]_vars PROVE ServiceSafe'
<1>busy. \A t \in Tasks : task[t].pc \in Busy =>
             task[t] \in ActiveTasks /\ task[t].key \in Keys /\ task[t].old \in Containers
  BY DEF KeySafe, TypeOK, TaskRecords, NoTask, ActiveTasks, Names, Busy, Waits, Attempted, Undone,
         Unguarded
<1>ops. OperationOf \in [Keys -> Operations]
  BY ExecutorAssumption
<1>faults. faults \in Nat
  BY DEF KeySafe, TypeOK
<1>1. ASSUME NEW t \in Tasks, NEW k \in Keys, NEW x \in Targets, Submit(t, k, x) PROVE ServiceSafe'
  <2>1. Request(k, x).pc = "key" /\ task[t].pc \notin BetweenSteps
    BY <1>1 DEF Submit, Request, NoTask, BetweenSteps, Undone
  <2>2. task' = [task EXCEPT ![t] = Request(k, x)]
        /\ UNCHANGED <<containers, crashes, calls, faults>>
    BY <1>1 DEF Submit
  <2> QED  BY <2>1, <2>2, ServiceLeft
<1>answer. ASSUME NEW t \in Tasks, NEW status, Answer(t, status), task[t].pc \notin BetweenSteps,
                  UNCHANGED <<containers, crashes>>, \A k \in Keys : calls[k] # 0 => calls'[k] # 0,
                  faults' = faults \/ faults' = faults + 1
           PROVE  ServiceSafe'
  <2>1. task' = [task EXCEPT ![t] = NoTask] /\ NoTask.pc = "idle"
    BY <1>answer DEF Answer, NoTask
  <2> QED  BY <1>answer, <2>1, ServiceLeft
<1>2. ASSUME NEW t \in Tasks, Begin(t) PROVE ServiceSafe'
  <2> DEFINE w == [task[t] EXCEPT !.pc = "service", !.status = 0]
  <2>1. task[t] \in ActiveTasks /\ task[t].pc \notin BetweenSteps
    BY <1>2, <1>busy DEF Begin, Busy, Waits, BetweenSteps, Undone
  <2>2. UNCHANGED <<containers, crashes, calls, faults>>
    BY <1>2 DEF Begin
  <2>3. CASE task' = [task EXCEPT ![t] = w]
    <3>1. w.pc = "service"
      BY <2>1 DEF ActiveTasks
    <3> QED  BY <2>1, <2>2, <2>3, <3>1, ServiceLeft
  <2>4. CASE \E status : Answer(t, status)
    BY <1>answer, <2>1, <2>2, <2>4
  <2> QED  BY <1>2, <2>3, <2>4 DEF Begin, Goes
<1>3. ASSUME NEW t \in Tasks, Enter(t) PROVE ServiceSafe'
  <2>1. task[t] \in ActiveTasks /\ task[t].pc = "service" /\ ServiceFree(Op(t))
        /\ Goes(t, "find", 0) /\ UNCHANGED <<containers, crashes, calls, faults>>
    BY <1>3, <1>busy DEF Enter, Busy, Waits
  <2> QED  BY <2>1, ServiceGoesOn
<1>4. ASSUME NEW t \in Tasks, Find(t) PROVE ServiceSafe'
  <2> DEFINE w == task[t]
  <2>1. /\ w \in ActiveTasks /\ w.key \in Keys /\ w.pc = "find" /\ w.pc \notin BetweenSteps
        /\ UNCHANGED <<containers, crashes, calls>>
    BY <1>4, <1>busy DEF Find, Busy, BetweenSteps, Undone
  <2>2. faults' = faults \/ faults' = faults + 1
    BY <1>4, FindCases DEF Fault
  <2>3. CASE \E status : Answer(t, status)
    BY <1>answer, <2>1, <2>2, <2>3
  <2>4. CASE Op(t) = "flag.set" /\ (Goes(t, "record", 200) \/ Goes(t, "intent", 0))
    <3>1. CASE Goes(t, "record", 200)
      BY <2>1, <2>2, <2>4, <3>1, ServiceGoesOn
    <3>2. CASE Goes(t, "intent", 0)
      <4> DEFINE v == [task[t] EXCEPT !.pc = "intent", !.status = 0]
      <4>1. task' = [task EXCEPT ![t] = v] /\ v.pc = "intent" /\ v.key = w.key
        BY <2>1, <3>2 DEF Goes, ActiveTasks
      <4> HIDE DEF v
      <4>2. task'[t] = v /\ (Op(t)' = Op(t))
        BY <4>1 DEF KeySafe, TypeOK, Op
      <4>3. ~OnService(t)' /\ RollbackStage(t)' /\ OneFaultStage(t)'
        BY <2>4, <4>1, <4>2 DEF OnService, RollbackStage, OneFaultStage, Attempted, Undone
      <4>4. v.pc \notin Attempted \cup Undone \cup
                        {"create", "remove", "restart", "restarted", "put"}
        BY <4>1 DEF Attempted, Undone
      <4> QED  BY <2>1, <2>2, <4>1, <4>3, <4>4, ServiceRests
    <3> QED  BY <2>4, <3>1, <3>2
  <2>5. ASSUME Op(t) # "flag.set", NEW c \in Existing, Cardinality(Existing) = 1, UNCHANGED faults,
               FoundOne(t, c)
        PROVE  ServiceSafe'
    <3>1. Existing = {c} /\ c \in Containers
      BY <2>5, FS_Singleton DEF ServiceSafe, Existing
    <3>2. OnService(t)
      BY <2>1, <2>5 DEF OnService, Busy, Waits
    <3>3. Existing' = Existing
      BY <2>1 DEF Existing
    <3>4. CASE /\ Op(t) = "deployment.rollback" /\ containers[c].image = w.target
               /\ containers[c].running /\ Goes(t, "record", 200)
      <4> DEFINE v == [task[t] EXCEPT !.pc = "record", !.status = 200]
      <4>1. task' = [task EXCEPT ![t] = v] /\ v.pc = "record" /\ v.target = w.target
        BY <2>1, <3>4 DEF Goes, ActiveTasks
      <4> HIDE DEF v
      <4>2. task'[t] = v
        BY <4>1 DEF KeySafe, TypeOK
      <4>3. RollbackStage(t)'
        BY <2>1, <3>1, <3>3, <3>4, <4>1, <4>2 DEF RollbackStage, Attempted, Undone
      <4>4. OneFaultStage(t)'
        BY <4>1, <4>2 DEF OneFaultStage, Attempted, Undone
      <4>5. v.pc \notin Attempted \cup Undone \cup
                        {"create", "remove", "restart", "restarted", "put"}
        BY <4>1 DEF Attempted, Undone
      <4> QED  BY <2>1, <2>5, <3>2, <4>1, <4>3, <4>4, <4>5, ServiceRests
    <3>5. CASE task' = [task EXCEPT ![t] = [@ EXCEPT !.pc = "intent", !.old = c,
                                                     !.name = containers[c].name]]
      <4> DEFINE v == [task[t] EXCEPT !.pc = "intent", !.old = c, !.name = containers[c].name]
      <4>1. /\ task' = [task EXCEPT ![t] = v] /\ v.pc = "intent" /\ v.old = c
            /\ v.name = containers[c].name
        BY <2>1, <3>5 DEF ActiveTasks
      <4> HIDE DEF v
      <4>2. task'[t] = v
        BY <4>1 DEF KeySafe, TypeOK
      <4>3. RollbackStage(t)'
        BY <3>1, <3>3, <4>1, <4>2 DEF RollbackStage, Attempted, Undone
      <4>4. ASSUME crashes = 0, faults <= 1 PROVE OneFaultStage(t)'
        <5>1. Serves
          BY <2>1, <3>2, <4>4, LockedServes
        <5>2. containers[c].name = <<>>
          BY <3>1, <5>1 DEF Serves, Existing
        <5> QED  BY <4>1, <4>2, <5>2 DEF OneFaultStage, Attempted, Undone
      <4>5. v.pc \notin Attempted \cup Undone \cup
                        {"create", "remove", "restart", "restarted", "put"}
        BY <4>1 DEF Attempted, Undone
      <4> QED  BY <2>1, <2>5, <3>2, <4>1, <4>3, <4>4, <4>5, ServiceRests
    <3> QED  BY <2>5, <3>4, <3>5 DEF FoundOne
  <2>6. \/ \E status : Answer(t, status)
        \/ Op(t) = "flag.set" /\ (Goes(t, "record", 200) \/ Goes(t, "intent", 0))
        \/ /\ Op(t) # "flag.set" /\ Cardinality(Existing) = 1 /\ UNCHANGED faults
           /\ \E c \in Existing : FoundOne(t, c)
    BY <1>4, FindCases DEF Existing
  <2> QED  BY <2>3, <2>4, <2>5, <2>6
<1>5. ASSUME NEW t \in Tasks, Intent(t) PROVE ServiceSafe'
  <2> DEFINE w == task[t]
  <2>1. /\ w \in ActiveTasks /\ w.key \in Keys /\ w.pc = "intent" /\ w.pc \notin BetweenSteps
        /\ UNCHANGED <<containers, crashes, calls>>
    BY <1>5, <1>busy DEF Intent, Busy, BetweenSteps, Undone
  <2>2. CASE \E status : Answer(t, status) /\ Fault
    BY <1>answer, <2>1, <2>2 DEF Fault
  <2>3. CASE Goes(t, FirstCall(Op(t)), 0) /\ UNCHANGED faults
    <3> DEFINE v == [task[t] EXCEPT !.pc = FirstCall(Op(t)), !.status = 0]
    <3>1. /\ task' = [task EXCEPT ![t] = v] /\ v.pc = FirstCall(Op(t)) /\ v.key = w.key
          /\ v.old = w.old /\ v.name = w.name
      BY <2>1, <2>3 DEF Goes, ActiveTasks
    <3> HIDE DEF v
    <3>2. task'[t] = v /\ (Op(t)' = Op(t)) /\ Op(t) = OperationOf[v.key]
      BY <3>1 DEF KeySafe, TypeOK, Op
    <3>3. Op(t) \in Operations
      BY <1>ops, <2>1 DEF Op
    <3>4. \/ v.pc = "create" /\ Op(t) = "deployment.rollback"
          \/ v.pc = "restart" /\ Op(t) = "service.restart"
          \/ v.pc = "put" /\ Op(t) = "flag.set"
      BY <3>1, <3>3 DEF FirstCall, Operations
    <3>5. OnService(t)' => OnService(t)
      BY <2>1, <3>2 DEF OnService, Busy, Waits
    <3>6. RollbackStage(t)
      BY DEF ServiceSafe
    <3>7. Existing' = Existing
      BY <2>1 DEF Existing
    <3>8. RollbackStage(t)'
      BY <2>1, <3>1, <3>2, <3>4, <3>6, <3>7 DEF RollbackStage, Attempted, Undone
    <3>9. ASSUME crashes = 0, faults <= 1 PROVE OneFaultStage(t)'
      <4>1. CASE v.pc = "create"
        <5>1. OnService(t) /\ Op(t) = "deployment.rollback"
          BY <2>1, <3>4, <4>1 DEF OnService, Busy, Waits
        <5>2. Serves /\ OneFaultStage(t)
          BY <2>1, <3>9, <5>1, LockedServes DEF ServiceSafe, OneFaultSafe, OneFaultKnown
        <5>3. w.name = <<>> /\ Existing = {w.old}
          BY <2>1, <3>6, <5>1, <5>2 DEF OneFaultStage, RollbackStage
        <5>4. containers[w.old].name = <<>>
          BY <5>2, <5>3 DEF Serves, Existing
        <5> QED  BY <2>1, <3>1, <3>2, <4>1, <5>3, <5>4 DEF OneFaultStage, Attempted, Undone
      <4>2. CASE v.pc \in {"restart", "put"}
        BY <3>2, <4>2 DEF OneFaultStage, Attempted, Undone
      <4> QED  BY <3>4, <4>1, <4>2
    <3>10. v.pc \notin Attempted \cup Undone \cup {"remove", "restarted"}
      BY <3>4 DEF Attempted, Undone
    <3> QED  BY <2>1, <2>3, <3>1, <3>2, <3>4, <3>5, <3>8, <3>9, <3>10, ServiceRests
  <2> QED  BY <1>5, <2>2, <2>3 DEF Intent
<1>6. ASSUME NEW t \in Tasks, DockerCall(t) PROVE ServiceSafe'
  <2> DEFINE w == task[t]
             after == task'[t]
  <2>1. /\ w \in ActiveTasks /\ OnService(t) /\ crashes' = crashes
        /\ faults' \in {faults, faults + 1}
    BY <1>6, CallKnows
  <2>2. StageKept(t)
    BY <1>6, CreateCall, AttemptedCall, LastCall, UndoneCall DEF DockerCall
  <2>3. CreatedByCall' /\ IsFiniteSet(Existing')
    BY <1>6, CallKeepsBounds
  <2>4. PICK v : task' = [task EXCEPT ![t] = v]
    BY <1>6 DEF DockerCall, Returns, Raises, Goes, Answer
  <2>5. after = v
    BY <2>4 DEF KeySafe, TypeOK
  <2>6. /\ after.pc \in Attempted \cup Undone \cup {"create", "remove"} =>
               w.pc \in Attempted \cup Undone \cup {"create"}
        /\ after.pc \in {"restart", "restarted"} => w.pc = "restart"
        /\ after.pc # "put"
        /\ after = NoTask \/ after.key = w.key
    <3>1. w.pc \in {"stop", "previous", "promote", "start", "undoStop", "undoRemove", "undoRename",
                    "undoStart", "create", "remove", "restart"}
      BY <1>6 DEF DockerCall, Attempted, Undone
    <3>2. after = NoTask \/ after.key = w.key
      BY <1>6, <2>1, CallOutcome
    <3>3. \/ after.pc = (IF w.pc \in Undone THEN Undo(w.pc) ELSE Then(w.pc))
          \/ w.pc \in Attempted /\ after.pc = "undoStop"
          \/ w.pc \in Undone /\ after.pc = Undo(w.pc)
          \/ after.pc \in {"record", "idle"}
      BY <1>6, <2>1, CallOutcome DEF NoTask
    <3> QED  BY <3>1, <3>2, <3>3 DEF Then, Undo, Attempted, Undone
  <2>7. /\ v.pc \in Attempted \cup Undone \cup {"create", "remove"} =>
               OperationOf[v.key] = "deployment.rollback"
        /\ v.pc \in {"restart", "restarted"} => OperationOf[v.key] = "service.restart"
        /\ v.pc = "put" => OperationOf[v.key] = "flag.set"
    <3>1. NoTask.pc \notin Attempted \cup Undone \cup {"create", "remove", "restart", "restarted"}
      BY DEF NoTask, Attempted, Undone
    <3> QED  BY <2>5, <2>6, <3>1 DEF ServiceSafe, OwnSteps, Op
  <2>8. crashes = 0 /\ faults' <= 1 =>
            OneFaultStage(t)' /\ (Serves' \/ v.pc \in BetweenSteps)
    BY <2>2, <2>5 DEF StageKept
  <2>9. RollbackStage(t)'
    BY <2>2 DEF StageKept
  <2> QED  BY <2>1, <2>3, <2>4, <2>7, <2>8, <2>9, ServiceMoves
<1>7. ASSUME NEW t \in Tasks, FlagCall(t) PROVE ServiceSafe'
  <2>1. /\ task[t] \in ActiveTasks /\ task[t].key \in Keys /\ task[t].pc = "put"
        /\ UNCHANGED <<containers, crashes>>
    BY <1>7, <1>busy DEF FlagCall, Busy, Unguarded
  <2>2. Op(t) = "flag.set" /\ task[t].pc \notin BetweenSteps \cup Attempted \cup Undone
    BY <2>1 DEF ServiceSafe, OwnSteps, BetweenSteps, Attempted, Undone
  <2>3. calls' = [calls EXCEPT ![task[t].key] = @ + 1] /\ calls \in [Keys -> Nat]
    BY <1>7, <2>1 DEF FlagCall, Counted, KeySafe, TypeOK
  <2>4. \A k \in Keys : calls[k] # 0 => calls'[k] # 0
    BY <2>1, <2>3
  <2>5. faults' = faults \/ faults' = faults + 1
    BY <1>7 DEF FlagCall, Fault
  <2>6. (\E status : Goes(t, "record", status)) \/ (\E status : Answer(t, status))
    <3>1. CASE Returns(t)
      <4>1. Then("put") = "record"
        BY DEF Then
      <4> QED  BY <2>1, <2>2, <3>1, <4>1 DEF Returns
    <3>2. CASE \E status : Raises(t, status)
      BY <2>1, <2>2, <3>2 DEF Raises
    <3> QED  BY <1>7, <3>1, <3>2 DEF FlagCall
  <2> QED  BY <1>answer, <2>1, <2>2, <2>4, <2>5, <2>6, ServiceGoesOn
<1>8. ASSUME NEW t \in Tasks, Settle(t) PROVE ServiceSafe'
  <2> DEFINE w == task[t]
  <2>1. /\ w \in ActiveTasks /\ w.pc \in {"settle", "restarted"} /\ w.pc \notin BetweenSteps
        /\ UNCHANGED <<containers, crashes, calls>>
    BY <1>8, <1>busy DEF Settle, Busy, Attempted, Unguarded, BetweenSteps, Undone
  <2>2. faults' = faults \/ faults' = faults + 1
    BY <1>8 DEF Settle, Fault
  <2>3. CASE \E status : Answer(t, status)
    BY <1>answer, <2>1, <2>2, <2>3
  <2>4. CASE w.pc = "restarted" /\ \E status : Goes(t, "record", status)
    <3>1. Op(t) # "deployment.rollback"
      BY <2>4 DEF ServiceSafe, OwnSteps
    <3> QED  BY <2>1, <2>2, <2>4, <3>1, ServiceGoesOn
  <2>5. CASE /\ w.pc = "settle"
             /\ Goes(t, "remove", 0) \/ (Goes(t, "undoStop", 502) /\ faults' = faults + 1)
    <3>1. PICK pc, status : /\ Goes(t, pc, status)
                            /\ \/ pc = "remove"
                               \/ pc = "undoStop" /\ status = 502 /\ faults' = faults + 1
      BY <2>5
    <3> DEFINE v == [task[t] EXCEPT !.pc = pc, !.status = status]
    <3>2. /\ task' = [task EXCEPT ![t] = v] /\ v.pc = pc /\ v.status = status /\ v.key = w.key
          /\ v.old = w.old /\ v.name = w.name /\ v.target = w.target
      BY <2>1, <3>1 DEF Goes, ActiveTasks
    <3> HIDE DEF v
    <3>3. task'[t] = v /\ OperationOf[v.key] = "deployment.rollback"
      BY <2>5, <3>2 DEF KeySafe, TypeOK, ServiceSafe, OwnSteps, Op, Attempted
    <3>4. /\ Existing = {w.old, w.key} /\ w.old # w.key /\ containers[w.key].image = w.target
          /\ containers[w.key].running /\ Existing' = Existing
      BY <2>1, <2>5 DEF ServiceSafe, RollbackStage, Existing, Attempted
    <3>5. RollbackStage(t)'
      BY <2>1, <3>1, <3>2, <3>3, <3>4 DEF RollbackStage, Attempted, Undone
    <3>6. ASSUME crashes = 0, faults' <= 1, OneFaultKnown PROVE OneFaultStage(t)'
      <4>1. w.name = <<>> /\ containers[w.key].name = <<>>
        BY <2>5, <3>6 DEF OneFaultKnown, OneFaultStage, Attempted
      <4>2. pc = "undoStop" => faults' = 1
        BY <1>faults, <3>1, <3>6
      <4> QED
        BY <2>1, <3>1, <3>2, <3>3, <3>4, <4>1, <4>2 DEF OneFaultStage, Attempted, Undone
    <3>7. OnService(t)
      BY <2>5 DEF ServiceSafe, OwnSteps, OnService, Busy, Waits, Attempted
    <3>8. v.pc \notin {"restart", "restarted", "put"}
      BY <3>1, <3>2
    <3> QED  BY <2>1, <2>2, <3>2, <3>3, <3>5, <3>6, <3>7, <3>8, ServiceRests
  <2>6. ASSUME NEW status, Raises(t, status), Fault
        PROVE  \/ w.pc = "settle" /\ Goes(t, "undoStop", 502) /\ faults' = faults + 1
               \/ w.pc = "restarted" /\ \E s : Goes(t, "record", s)
    BY <2>1, <2>6 DEF Raises, Fault, Attempted, Undone
  <2> QED  BY <1>8, <2>3, <2>4, <2>5, <2>6 DEF Settle
<1>9. ASSUME NEW t \in Tasks, Finish(t) PROVE ServiceSafe'
  <2>1. task[t].pc \notin BetweenSteps /\ UNCHANGED <<containers, crashes, calls>>
        /\ (faults' = faults \/ faults' = faults + 1) /\ \E status : Answer(t, status)
    BY <1>9 DEF Finish, Fault, BetweenSteps, Undone
  <2> QED  BY <1>answer, <2>1
<1>10. ASSUME Crash PROVE ServiceSafe'
  <2>1. \A t \in Tasks : task'[t].pc = "idle"
    BY <1>10 DEF Crash, NoTask
  <2>2. ServiceAlone' /\ OwnSteps' /\ \A t \in Tasks : RollbackStage(t)'
    BY <2>1 DEF ServiceAlone, OwnSteps, OnService, RollbackStage, Busy, Waits, Attempted, Undone,
                Unguarded
  <2>3. CreatedByCall' /\ IsFiniteSet(Existing')
    BY <1>10 DEF Crash, ServiceSafe, CreatedByCall, Existing
  <2>4. crashes' # 0
    BY <1>10 DEF Crash, KeySafe, TypeOK
  <2> QED  BY <2>2, <2>3, <2>4 DEF ServiceSafe, OneFaultSafe
<1>11. CASE UNCHANGED vars
  <2>1. UNCHANGED <<containers, task, calls, faults, crashes>>
    BY <1>11 DEF vars
  <2>2. ServiceAlone' /\ OwnSteps'
    BY <2>1 DEF ServiceSafe, ServiceAlone, OwnSteps, OnService, Op
  <2>3. CreatedByCall' /\ IsFiniteSet(Existing')
    BY <2>1 DEF ServiceSafe, CreatedByCall, Existing
  <2>4. \A t \in Tasks : RollbackStage(t)'
    BY <2>1 DEF ServiceSafe, RollbackStage, Existing, Op
  <2>5. OneFaultSafe'
    BY <2>1 DEF ServiceSafe, OneFaultSafe, OneFaultKnown, OneFaultStage, Between, Serves, Existing,
                Op
  <2> QED  BY <2>2, <2>3, <2>4, <2>5 DEF ServiceSafe
<1> QED
  BY <1>1, <1>2, <1>3, <1>4, <1>5, <1>6, <1>7, <1>8, <1>9, <1>10, <1>11 DEF Next

\* What the tasks know of the service always holds, through faults and crashes.
THEOREM ServiceKnown == Spec => []ServiceSafe
<1>1. Init => ServiceSafe
  BY InitServiceSafe
<1>2. KeySafe /\ ServiceSafe /\ [Next]_vars => ServiceSafe'
  BY StepServiceSafe
<1> QED  BY <1>1, <1>2, ExecutorSafe, PTL DEF Spec

\* Operations.rollback: a success is reported only of a service with one container, which runs
\* the image asked for.
THEOREM SuccessIsAtTarget == Spec => []SuccessAtTarget
<1>1. ServiceSafe => SuccessAtTarget
  BY DEF ServiceSafe, RollbackStage, SuccessAtTarget, Existing
<1> QED  BY ServiceKnown, <1>1, PTL

\* Operations.rollback and _recover: whatever call fails, alone and without a crash, the service
\* has a running container under its own name when no operation acts on it.
THEOREM OneFaultIsSurvived == Spec => []OneFaultKeepsService
<1>1. ASSUME ServiceSafe, AtRest, faults <= 1, crashes = 0 PROVE Serves
  <2>1. ASSUME NEW t \in Tasks, task[t].pc \in BetweenSteps PROVE FALSE
    <3>1. task[t].pc \in Busy \ Waits /\ task[t].pc \in Attempted \cup Undone
      BY <2>1 DEF BetweenSteps, Attempted, Undone, Busy, Waits
    <3>2. Op(t) = "flag.set" /\ Op(t) = "deployment.rollback"
      BY <1>1, <3>1 DEF AtRest, ServiceSafe, OwnSteps
    <3> QED  BY <3>2
  <2> QED  BY <1>1, <2>1 DEF ServiceSafe, OneFaultSafe, OneFaultKnown, Between
<1>2. ServiceSafe => OneFaultKeepsService
  BY <1>1 DEF OneFaultKeepsService
<1> QED  BY ServiceKnown, <1>2, PTL
=============================================================================
