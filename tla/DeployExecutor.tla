--------------------------- MODULE DeployExecutor ---------------------------
(***************************************************************************)
(* The deploy-executor (executor/app.py, operations.py, flags.py): named   *)
(* operations on one container service and one feature flag, at most once  *)
(* per idempotency key, over a Docker Engine that refuses, fails or times  *)
(* out, in a process that crashes.                                         *)
(*                                                                         *)
(* A request is a task of the asyncio loop: it runs alone between awaits,  *)
(* holds the lock of its key from the journal lookup to its answer and the *)
(* lock of its service while it acts.  The rejections that precede the     *)
(* lookup (signature, catalog, body) touch nothing and are left out.  A    *)
(* container is known by the key whose rollback created it; a name is the  *)
(* sequence of suffixes the service's own name has got.                    *)
(***************************************************************************)
EXTENDS Integers, FiniteSets, Sequences

CONSTANTS Tasks,        \* request handlers
          Keys,         \* bindings: an operation and an idempotency key
          OperationOf,  \* the operation each key is bound to
          Targets,      \* images to roll back to, variants to set
          Installed,    \* the image and the variant at the start
          Origin,       \* the service's first container
          MaxRequests, MaxFaults, MaxCrashes  \* bounds

Operations == {"deployment.rollback", "service.restart", "flag.set"}

ASSUME ExecutorAssumption ==
    /\ OperationOf \in [Keys -> Operations]
    /\ Installed \notin Targets /\ Origin \notin Keys
    /\ MaxRequests \in Nat /\ MaxFaults \in Nat /\ MaxCrashes \in Nat

VARIABLES journal,     \* key -> the last record of it
          containers,  \* container -> its state in Docker
          flag,        \* the variant the flag listener serves
          task,        \* task -> its request
          requests, faults, crashes,
          calls,       \* history: key -> how often its operation called out
          answers      \* history: the answers sent

vars == <<journal, containers, flag, task, requests, faults, crashes, calls, answers>>

Images == Targets \cup {Installed}
Containers == Keys \cup {Origin}
Statuses == {200, 409, 422, 500, 502, 503, 504}

\* A record keeps its payload's digest; what is left of a cut-off line may have lost it.
Record(kind, target, status) == [kind |-> kind, target |-> target, status |-> status]
NoRecord == Record("none", Installed, 0)
Records == [kind : {"none", "intent", "truncated"}, target : Images, status : {0}]
             \cup [kind : {"result"}, target : Images, status : Statuses]

Absent == [exists |-> FALSE, name |-> <<>>, running |-> FALSE, image |-> Installed]
NoTask == [pc |-> "idle"]
Waits == {"key", "service"}
Attempted == {"stop", "previous", "promote", "start", "settle"}   \* the try of rollback
Undone == {"undoStop", "undoRemove", "undoRename", "undoStart"}    \* _recover
Unguarded == {"create", "remove", "restart", "restarted", "put"}
Busy == Waits \cup {"find", "intent", "record"} \cup Attempted \cup Undone \cup Unguarded

Request(k, x) == [pc |-> "key", key |-> k, target |-> x, old |-> Origin, name |-> <<>>,
                  status |-> 0]

Op(t) == OperationOf[task[t].key]
Goes(t, pc, status) == task' = [task EXCEPT ![t] = [@ EXCEPT !.pc = pc, !.status = status]]

Answer(t, status) ==
    /\ task' = [task EXCEPT ![t] = NoTask]
    /\ answers' = answers \cup
         {[key |-> task[t].key, target |-> task[t].target, status |-> status]}

Fault == faults < MaxFaults /\ faults' = faults + 1

-----------------------------------------------------------------------------
(* execute *)

Submit(t, k, x) ==
    /\ task[t] = NoTask
    /\ requests < MaxRequests
    /\ requests' = requests + 1
    /\ task' = [task EXCEPT ![t] = Request(k, x)]
    /\ UNCHANGED <<journal, containers, flag, faults, crashes, calls, answers>>

\* The asyncio locks: of the key, and of the service an operation acts on.
KeyFree(k) ==
    ~\E u \in Tasks : task[u].pc \in Busy \ {"key"} /\ task[u].key = k

ServiceAlwaysFree(op) == TRUE

ServiceFree(op) ==
    ~\E u \in Tasks : /\ task[u].pc \in Busy \ Waits
                      /\ (OperationOf[task[u].key] = "flag.set") = (op = "flag.set")

IntentForgotten(record, x) ==
    CASE record.kind \in {"none", "intent"} -> 0
      [] OTHER -> record.status

\* What a key that has a record answers; 0 when the operation is still to run.
Replay(record, x) ==
    CASE record.kind = "none" -> 0
      [] record.kind \in {"intent", "result"} /\ record.target # x -> 409
      [] record.kind = "result" /\ record.target = x -> record.status
      [] OTHER -> 409

Begin(t) ==
    LET status == Replay(journal[task[t].key], task[t].target) IN
    /\ task[t].pc = "key" /\ KeyFree(task[t].key)
    /\ IF status = 0 THEN Goes(t, "service", 0) /\ UNCHANGED answers ELSE Answer(t, status)
    /\ UNCHANGED <<journal, containers, flag, requests, faults, crashes, calls>>

Enter(t) ==
    /\ task[t].pc = "service" /\ ServiceFree(Op(t))
    /\ Goes(t, "find", 0)
    /\ UNCHANGED <<journal, containers, flag, requests, faults, crashes, calls, answers>>

\* find and the other reads before the intent: a refusal or a failure leaves the key free, and
\* a target already reached is recorded without an intent.
Find(t) ==
    LET w == task[t]
        found == {c \in Containers : containers[c].exists}
    IN
    /\ w.pc = "find"
    /\ UNCHANGED <<journal, containers, flag, requests, crashes, calls>>
    /\ \/ \E status \in {500, 502, 503, 504} : Fault /\ Answer(t, status)
       \/ /\ Op(t) = "flag.set"
          /\ IF flag = w.target THEN Goes(t, "record", 200) ELSE Goes(t, "intent", 0)
          /\ UNCHANGED <<answers, faults>>
       \/ /\ Op(t) # "flag.set" /\ Cardinality(found) # 1
          /\ Answer(t, 409)
          /\ UNCHANGED faults
       \/ /\ Op(t) = "deployment.rollback" => Cardinality(found) = 1
          /\ Op(t) # "service.restart"
          /\ Answer(t, 422)   \* the image is not in the local store, the flag is not offered
          /\ UNCHANGED faults
       \/ /\ Op(t) # "flag.set" /\ Cardinality(found) = 1
          /\ \E c \in found :
                IF /\ Op(t) = "deployment.rollback"
                   /\ containers[c].image = w.target /\ containers[c].running
                THEN Goes(t, "record", 200)
                ELSE task' = [task EXCEPT ![t] = [@ EXCEPT !.pc = "intent", !.old = c,
                                                           !.name = containers[c].name]]
          /\ UNCHANGED <<answers, faults>>

FirstCall(op) ==
    CASE op = "deployment.rollback" -> "create"
      [] op = "service.restart"     -> "restart"
      [] op = "flag.set"            -> "put"

\* The intent is on disk before the first call; a failed append leaves the file as it was.
Intent(t) ==
    LET w == task[t] IN
    /\ w.pc = "intent"
    /\ \/ /\ journal' = [journal EXCEPT ![w.key] = Record("intent", w.target, 0)]
          /\ Goes(t, FirstCall(Op(t)), 0)
          /\ UNCHANGED <<answers, faults>>
       \/ /\ Fault
          /\ Answer(t, 503)
          /\ UNCHANGED journal
    /\ UNCHANGED <<containers, flag, requests, crashes, calls>>

-----------------------------------------------------------------------------
(* Docker and flag calls *)

NameFree(name) == ~\E c \in Containers : containers[c].exists /\ containers[c].name = name

\* The container a call is about, and what the daemon makes of it.
Callee(w) ==
    IF w.pc \in {"create", "promote", "start", "undoStop", "undoRemove"} THEN w.key ELSE w.old

Possible(w) ==
    LET c == containers[Callee(w)] IN
    CASE w.pc = "create"                    -> NameFree(Append(w.name, "next"))
      [] w.pc = "previous"                  -> NameFree(Append(w.name, "previous"))
      [] w.pc \in {"promote", "undoRename"} -> NameFree(w.name)
      [] w.pc \in {"remove", "undoRemove"}  -> c.exists /\ ~c.running
      [] OTHER                              -> c.exists

Effect(w) ==
    LET c == containers[Callee(w)]
        after == CASE w.pc = "create" ->
                        [exists |-> TRUE, name |-> Append(w.name, "next"), running |-> FALSE,
                         image |-> w.target]
                   [] w.pc \in {"stop", "undoStop"}      -> [c EXCEPT !.running = FALSE]
                   [] w.pc \in {"start", "undoStart", "restart"} -> [c EXCEPT !.running = TRUE]
                   [] w.pc = "previous" -> [c EXCEPT !.name = Append(w.name, "previous")]
                   [] w.pc \in {"promote", "undoRename"} -> [c EXCEPT !.name = w.name]
                   [] w.pc \in {"remove", "undoRemove"}  -> Absent
    IN [containers EXCEPT ![Callee(w)] = after]

\* What follows a call that went well.
Then(pc) ==
    CASE pc = "create"   -> "stop"
      [] pc = "stop"     -> "previous"
      [] pc = "previous" -> "promote"
      [] pc = "promote"  -> "start"
      [] pc = "start"    -> "settle"
      [] pc = "remove"   -> "record"
      [] pc = "restart"  -> "restarted"
      [] pc = "put"      -> "record"

UndoneInPlace(pc) ==
    CASE pc = "undoStop"   -> "undoRemove"
      [] pc = "undoRemove" -> "undoStart"
      [] OTHER             -> "record"

\* _recover: each step is tried, whatever the one before it did.
Undo(pc) ==
    CASE pc = "undoStop"   -> "undoRemove"
      [] pc = "undoRemove" -> "undoRename"
      [] pc = "undoRename" -> "undoStart"
      [] OTHER             -> "record"

\* Where a call that raised leads: rollback's try recovers, the rest record the error.
Raises(t, status) ==
    LET w == task[t] IN
    Goes(t, CASE w.pc \in Attempted -> "undoStop"
              [] w.pc \in Undone    -> Undo(w.pc)
              [] OTHER              -> "record",
            IF w.pc \in Attempted \cup Undone THEN 502 ELSE status)

Returns(t) ==
    LET w == task[t] IN
    Goes(t, IF w.pc \in Undone THEN Undo(w.pc) ELSE Then(w.pc),
            IF w.pc \in {"remove", "put"} THEN 200 ELSE w.status)

Counted(w) ==
    IF w.pc \in {"create", "restart", "put"}
    THEN calls' = [calls EXCEPT ![w.key] = @ + 1] ELSE UNCHANGED calls

\* A Docker call returns, is refused by the daemon, or fails, with or without effect.  A 404 or
\* a malformed answer outside the try is handled nowhere: the key keeps its intent.
DockerCall(t) ==
    LET w == task[t] IN
    /\ w.pc \in (Attempted \ {"settle"}) \cup Undone \cup {"create", "remove", "restart"}
    /\ Counted(w)
    /\ UNCHANGED <<journal, flag, requests, crashes>>
    /\ \/ /\ Possible(w)
          /\ containers' = Effect(w)
          /\ Returns(t)
          /\ UNCHANGED <<faults, answers>>
       \/ /\ ~Possible(w)
          /\ Raises(t, 502)
          /\ UNCHANGED <<containers, faults, answers>>
       \/ /\ Fault
          /\ UNCHANGED containers \/ (Possible(w) /\ containers' = Effect(w))
          /\ \/ \E status \in {502, 503, 504} : Raises(t, status) /\ UNCHANGED answers
             \/ w.pc \in Unguarded /\ Answer(t, 500)

\* The flag listener: the PUT is answered, or fails with or without effect.  A malformed answer
\* is handled nowhere.
FlagCall(t) ==
    LET w == task[t] IN
    /\ w.pc = "put"
    /\ Counted(w)
    /\ UNCHANGED <<journal, containers, requests, crashes>>
    /\ \/ /\ flag' = w.target
          /\ Returns(t)
          /\ UNCHANGED <<faults, answers>>
       \/ /\ Fault
          /\ flag' \in {flag, w.target}
          /\ \/ \E status \in {502, 503} : Raises(t, status) /\ UNCHANGED answers
             \/ Answer(t, 500)

\* _settled: healthy in time, or not, or a read of it fails.
Settle(t) ==
    LET w == task[t] IN
    /\ w.pc \in {"settle", "restarted"}
    /\ UNCHANGED <<journal, containers, flag, requests, crashes, calls>>
    /\ \/ /\ w.pc = "settle"
          /\ Goes(t, "remove", 0)
          /\ UNCHANGED <<faults, answers>>
       \/ /\ w.pc = "restarted"
          /\ Goes(t, "record", 200)
          /\ UNCHANGED <<faults, answers>>
       \/ /\ Fault
          /\ \/ \E status \in {502, 503, 504} : Raises(t, status) /\ UNCHANGED answers
             \/ w.pc = "restarted" /\ Answer(t, 500)

KeptBehindIntent(w) == journal[w.key].kind = "intent"

\* Which results the journal keeps: all of them, a success without an intent included.
Kept(w) == TRUE

\* The result is appended, without an await before the answer; it is not appended when the
\* journal cannot be written, and the key stays bound to its intent.
Finish(t) ==
    LET w == task[t] IN
    /\ w.pc = "record"
    /\ \/ /\ journal' = IF Kept(w)
                        THEN [journal EXCEPT ![w.key] = Record("result", w.target, w.status)]
                        ELSE journal
          /\ Answer(t, w.status)
          /\ UNCHANGED faults
       \/ /\ Fault
          /\ Answer(t, 503)
          /\ UNCHANGED journal
    /\ UNCHANGED <<containers, flag, requests, crashes, calls>>

\* The process dies and starts again: Docker, the flag and the journal stay.  A line cut off in
\* the middle comes back as a truncated record, bound to its key if the key can be read.
Crash ==
    /\ crashes < MaxCrashes
    /\ crashes' = crashes + 1
    /\ task' = [t \in Tasks |-> NoTask]
    /\ \/ UNCHANGED journal
       \/ \E t \in Tasks, target \in Images :
            /\ task[t].pc \in {"intent", "record"}
            /\ journal' = [journal EXCEPT ![task[t].key] = Record("truncated", target, 0)]
    /\ UNCHANGED <<containers, flag, requests, faults, calls, answers>>

-----------------------------------------------------------------------------
Init ==
    /\ journal = [k \in Keys |-> NoRecord]
    /\ containers = [c \in Containers |->
                       IF c = Origin THEN [Absent EXCEPT !.exists = TRUE, !.running = TRUE]
                       ELSE Absent]
    /\ flag = Installed
    /\ task = [t \in Tasks |-> NoTask]
    /\ requests = 0 /\ faults = 0 /\ crashes = 0
    /\ calls = [k \in Keys |-> 0]
    /\ answers = {}

Next ==
    \/ \E t \in Tasks :
        \/ \E k \in Keys, x \in Targets : Submit(t, k, x)
        \/ Begin(t) \/ Enter(t) \/ Find(t) \/ Intent(t)
        \/ DockerCall(t) \/ FlagCall(t) \/ Settle(t) \/ Finish(t)
    \/ Crash

Spec == Init /\ [][Next]_vars

-----------------------------------------------------------------------------
(* Properties *)

TaskRecords ==
    {NoTask} \cup [pc : Busy, key : Keys, target : Targets, old : Containers,
                   name : Seq({"next", "previous"}), status : Statuses \cup {0}]

\* The journal, the engine and the requests keep their shape (Journal, Operations, Executor).
TypeOK ==
    /\ journal \in [Keys -> Records]
    /\ containers \in [Containers -> [exists : BOOLEAN, name : Seq({"next", "previous"}),
                                      running : BOOLEAN, image : Images]]
    /\ flag \in Images
    /\ task \in [Tasks -> TaskRecords]
    /\ requests \in Nat /\ faults \in Nat /\ crashes \in Nat
    /\ calls \in [Keys -> Nat]
    /\ answers \subseteq [key : Keys, target : Targets, status : Statuses]

\* A key's operation calls Docker or the flag listener at most once, through double
\* submissions, failed journal writes, crashes and cut-off journal lines.
AtMostOnce == \A k \in Keys : calls[k] <= 1

\* A success that was answered is what the key answers from then on: the journal holds it.
SuccessKept ==
    \A a \in answers : a.status = 200 => journal[a.key] = Record("result", a.target, 200)

\* A rollback reports success only when the service has one container, which runs the image
\* asked for: no other operation on the service has come in between.
SuccessAtTarget ==
    \A t \in Tasks :
        task[t].pc = "record" /\ task[t].status = 200 /\ Op(t) = "deployment.rollback" =>
            \E c \in Containers :
                /\ {d \in Containers : containers[d].exists} = {c}
                /\ containers[c].running /\ containers[c].image = task[t].target

\* No operation is acting on the service.
AtRest == \A t \in Tasks : task[t].pc \in Busy \ Waits => Op(t) = "flag.set"

Serves == \E c \in Containers : /\ containers[c].exists /\ containers[c].running
                                /\ containers[c].name = <<>>

\* One fault, an unhealthy replacement or a failed call, and no crash: the service keeps a
\* running container under its own name once the operation is over.
OneFaultKeepsService == AtRest /\ faults <= 1 /\ crashes = 0 => Serves

\* What a key's journal record amounts to for a caller.
Outcome(record) ==
    CASE record.kind = "result" /\ record.status = 200 -> record.target
      [] record.kind = "result" /\ record.status # 200 -> "failed"
      [] OTHER                                         -> "open"

Once == INSTANCE OperationOnce
            WITH runs <- calls, kept <- [k \in Keys |-> Outcome(journal[k])]

\* The executor implements what it promises its callers (OperationOnce): every step of a
\* request, a recovery or a restart runs a key, settles it, answers from what is settled, or
\* changes nothing a caller can tell.
KeepsItsPromise == Once!OnceSpec
=============================================================================
