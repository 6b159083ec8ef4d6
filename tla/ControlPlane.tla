---------------------------- MODULE ControlPlane ----------------------------
(***************************************************************************)
(* The administrative control plane: principals, credentials and grants    *)
(* (control/service.py over persistence/repositories.py).                  *)
(*                                                                         *)
(* A request is authenticated in one database session, authorized in a     *)
(* second one and performed in a third, so the three are separate actions  *)
(* and anything may commit between them.  The transaction that performs a  *)
(* request is one action: what it decides on it reads under a row lock, in *)
(* a conditional UPDATE or through a unique index; create_grant, whose     *)
(* checks precede its insert, has a step for them (CheckGrant).  Handlers  *)
(* differ in where they audit: inside that transaction, or after it        *)
(* (pc = "committed", then Finish).  A request may be lost at any point.   *)
(***************************************************************************)
EXTENDS Naturals, FiniteSets

CONSTANTS
    Clients,        \* concurrent request slots
    Principals, Credentials, Grants, Resources,     \* identifiers
    Keys,           \* idempotency keys a client may send
    Inputs,         \* operation -> the <<target, value>> pairs it is sent
    InitPrincipal, InitCredential, InitGrant, InitResource,   \* the seeds
    MaxRequests,    \* bound: requests sent in one behaviour
    None            \* an absent row, key or answer

ASSUME ControlAssumption ==
    /\ MaxRequests \in Nat
    /\ None \notin Principals \cup Credentials \cup Grants \cup Keys

VARIABLES
    principal,      \* PrincipalRow: kind, status, stamp (updated_at)
    credential,     \* CredentialRow: owner, status, expired, successor of
    grant,          \* GrantRow: principal, action, resource, status
    resource,       \* ResourceRow: type, status and what the catalog keeps
    idem,           \* idempotency bindings
    audit,          \* accepted audit events of successes
    req,            \* the request each client has in flight, or its last one
    sent,           \* requests sent so far; it numbers them
    effects,        \* history: the mutations that were committed
    revealed        \* history: how often each key was shown to a client

identity == <<principal, credential, grant, revealed>>
cvars == <<identity, resource, idem, audit, req, sent, effects>>

-----------------------------------------------------------------------------
(* The operations and what the contract says of each. *)

Operations == DOMAIN Inputs

\* A route, and what its requests carry beside their body: an Idempotency-Key,
\* the optimistic token of the row they replace, or nothing.
Route(op, carries) == [op |-> op, carries |-> carries]

PrincipalRoutes ==
    {Route("principals.create", {"key"}), Route("principals.list", {}),
     Route("principals.get", {}), Route("principals.status.replace", {"token"})}
CredentialRoutes ==
    {Route("credentials.issue", {"key"}), Route("credentials.list", {}),
     Route("credentials.revoke", {}), Route("credentials.rotate", {"key"})}
GrantRoutes ==
    {Route("grants.create", {"key"}), Route("grants.list", {}), Route("grants.revoke", {})}
AliasRoutes ==
    {Route("aliases.create", {"key"}), Route("aliases.list", {}), Route("aliases.get", {}),
     Route("aliases.assignment.replace", {"token"}), Route("aliases.status.replace", {"token"})}
CatalogRoutes ==
    {Route("catalog.create", {"key"}), Route("catalog.list", {}), Route("catalog.read", {})}
SkillRoutes ==
    {Route("skills.publish", {"key"}), Route("skills.get", {}), Route("skills.status.get", {}),
     Route("skills.status.replace", {"token"})}
BoKRoutes == {Route("bok.publish", {"key"}), Route("bok.get", {})}
LimitRoutes ==
    {Route("consumption_limits.get", {}), Route("consumption_limits.replace", {"key", "token"})}

Routes ==
    UNION {PrincipalRoutes, CredentialRoutes, GrantRoutes, AliasRoutes, CatalogRoutes,
           SkillRoutes, BoKRoutes, LimitRoutes}

Keyed == {r.op : r \in {x \in Routes : "key" \in x.carries}}
Tokened == {r.op : r \in {x \in Routes : "token" \in x.carries}}

\* The reads of the evidence, which have routers of their own.
UsageRoutes == {"usage.read", "usage.requests"}
AuditRoutes == {"audit.list", "audit.read"}

ReadOps ==
    {"principals.list", "principals.get", "credentials.list", "grants.list",
     "aliases.list", "aliases.get", "catalog.list", "catalog.read",
     "skills.get", "bok.get", "consumption_limits.get"}

\* What agents ask of skills, MCP tools and collections: their own scope rules.
MCPRoutes == {"mcp.discovery", "mcp.invoke"}
ResolutionRoutes == {"skills.resolve"}
RetrievalRoutes == {"bok.search", "bok.read"}
GovernedOps == MCPRoutes \cup ResolutionRoutes \cup RetrievalRoutes

Area(op) ==
    CASE op \in {"principals.create", "principals.list", "principals.get",
                 "principals.status.replace"} -> "principals"
      [] op \in {"credentials.issue", "credentials.list", "credentials.revoke",
                 "credentials.rotate"} -> "credentials"
      [] op \in {"grants.create", "grants.list", "grants.revoke"} -> "grants"
      [] op \in {"aliases.create", "aliases.list", "aliases.get",
                 "aliases.assignment.replace", "aliases.status.replace"} ->
            "model_aliases"
      [] op \in {"consumption_limits.get", "consumption_limits.replace"} ->
            "consumption_limits"
      [] OTHER -> "catalog"

\* The action and the administrative resource a caller needs a grant for.
CONTROL_SCOPES(op) ==
    <<IF op \in ReadOps THEN "admin.read" ELSE "admin.write", Area(op)>>

\* Handlers that check the key and the body before the credential; the other
\* ones authenticate first, the consumption policy after the decision too.
ValidatedFirst ==
    {"principals.create", "principals.list", "principals.get",
     "grants.create", "grants.list", "aliases.create", "aliases.list",
     "catalog.create", "catalog.list", "skills.publish", "bok.publish"}
    \cup UsageRoutes \cup AuditRoutes

\* Handlers whose audit event commits with the mutation.
AuditedInTransaction ==
    {"grants.create", "grants.revoke", "aliases.create",
     "aliases.assignment.replace", "aliases.status.replace",
     "catalog.create", "skills.publish", "skills.status.replace",
     "bok.publish", "consumption_limits.replace"}

GRANT_ADMITTED_ACTIONS(type) ==
    CASE type = "llm_model" -> {"admin.read", "admin.write", "invoke"}
      [] type \in {"mcp_server", "mcp_tool"} ->
            {"admin.write", "mcp.discovery", "mcp.invoke"}
      [] type = "skill" ->
            {"admin.write", "skill.discovery", "skill.read", "skill.invoke", "invoke"}
      [] type = "bok_collection" ->
            {"admin.write", "bok.discovery", "bok.search", "bok.read"}
      [] type = "incident_workflow" ->
            {"run.start", "run.read", "run.command", "run.approve",
             "run.read_context", "alert.read", "alert.triage", "alert.dismiss",
             "alert.associate", "incident.declare", "change.read", "change.write"}
      [] type = "administrative_control" -> {"admin.read", "admin.write"}
      [] type = "service_operation" -> {"mitigation.execute"}
      [] OTHER -> {}

-----------------------------------------------------------------------------
(* Requests. *)

NoRequest ==
    [n |-> 0, op |-> None, key |-> None, target |-> None, value |-> None,
     cred |-> None, seen |-> 0, barred |-> {}, pc |-> "idle", who |-> None,
     active |-> FALSE, grant |-> None, status |-> 0, replayed |-> FALSE]

Finished == {"idle", "done"}

At(c, op, pc) == req[c].op = op /\ req[c].pc = pc

\* The optimistic token of the row a client has read (expected_updated_at,
\* expected_version), for the operations that send one.
Stamp(op, id) ==
    IF op \notin Tokened THEN 0
    ELSE IF id \in Principals /\ principal[id] # None THEN principal[id].stamp
    ELSE IF id \in Resources /\ resource[id] # None THEN resource[id].stamp
    ELSE 0

\* What may back no request that arrives now.  A principal and a resource may
\* come back, with another stamp.
Revoked ==
    {<<"credential", k, 0>> : k \in
        {j \in Credentials : credential[j] # None /\ credential[j].status = "revoked"}}
    \cup {<<"grant", g, 0>> : g \in
        {h \in Grants : grant[h] # None /\ grant[h].status = "revoked"}}
    \cup {<<"principal", p, principal[p].stamp>> : p \in
        {q \in Principals : principal[q] # None /\ principal[q].status # "active"}}
    \cup {<<"resource", r, resource[r].stamp>> : r \in
        {s \in Resources : resource[s] # None /\ resource[s].status # "active"}}

\* What backs a request: its key, its caller, its grants and their resources.
Evidence(c, grants, targets) ==
    {<<"credential", req[c].cred, 0>>,
     <<"principal", req[c].who, principal[req[c].who].stamp>>}
    \cup {<<"grant", g, 0>> : g \in grants}
    \cup {<<"resource", r, resource[r].stamp>> : r \in targets}

\* A client sends a request; `barred` remembers what was revoked by then.
Submit(c) ==
    /\ req[c].pc \in Finished
    /\ sent < MaxRequests
    /\ \E op \in Operations, cred \in Credentials :
         \E in \in Inputs[op], key \in IF op \in Keyed THEN Keys ELSE {None} :
            /\ credential[cred] # None
            /\ req' = [req EXCEPT ![c] =
                 [NoRequest EXCEPT !.n = sent + 1, !.op = op, !.key = key,
                    !.target = in[1], !.value = in[2], !.cred = cred,
                    !.seen = Stamp(op, in[1]), !.barred = Revoked,
                    !.pc = "arrived"]]
    /\ sent' = sent + 1
    /\ UNCHANGED <<identity, resource, idem, audit, effects>>

\* The caller's process dies, or the request is cancelled, before the answer.
Lose(c) ==
    /\ req[c].pc \notin Finished
    /\ req' = [req EXCEPT ![c] = NoRequest]
    /\ UNCHANGED <<identity, resource, idem, audit, sent, effects>>

\* What is left of a request once it is answered: of a refusal, nothing.
Answered(c, status, replayed) ==
    [req EXCEPT ![c] =
        IF status < 400
        THEN [NoRequest EXCEPT !.n = req[c].n, !.op = req[c].op, !.pc = "done",
                               !.status = status, !.replayed = replayed]
        ELSE NoRequest]

\* The accepted event of a success.  A refusal has one as well; of that only
\* its acceptance matters here (the answer is told, or is a 503).
Event(c, status) ==
    IF status < 400 THEN {[n |-> req[c].n, status |-> status]} ELSE {}

\* _finish: the answer is released once its event is accepted, and becomes a
\* 503 audit_unavailable when it is not.
finish(c, status, replayed) ==
    \/ /\ audit' = audit \cup Event(c, status)
       /\ req' = Answered(c, status, replayed)
    \/ /\ req' = Answered(c, 503, FALSE)
       /\ UNCHANGED audit

\* An answer that changes no row.
Answer(c, status) ==
    /\ finish(c, status, FALSE)
    /\ UNCHANGED <<identity, resource, idem, sent, effects>>

\* A stored answer returned as it is, without an event of its own.
Replay(c, status) ==
    /\ req' = Answered(c, status, TRUE)
    /\ UNCHANGED <<identity, resource, idem, audit, sent, effects>>

\* 400 invalid_idempotency_key, 422 validation_error.
RefuseMalformed(c) ==
    /\ req[c].pc = IF req[c].op \in ValidatedFirst THEN "arrived"
                   ELSE IF req[c].op = "consumption_limits.replace"
                        THEN "authorized" ELSE "authenticated"
    /\ req[c].op \notin GovernedOps \cup {"consumption_limits.get"}
    /\ Answer(c, 422)

\* The credential and its principal as this session reads them.
Authenticate(c) ==
    LET row == credential[req[c].cred]
    IN /\ req[c].pc = "arrived"
       /\ req[c].op \notin GovernedOps
       /\ IF row.status = "active" /\ ~row.expired
          THEN /\ req' = [req EXCEPT
                    ![c].pc = "authenticated", ![c].who = row.owner,
                    ![c].active = principal[row.owner].status = "active"]
               /\ UNCHANGED <<identity, resource, idem, audit, sent, effects>>
          ELSE Answer(c, 401)

\* Mutant: a revoked grant still counts.
FindAny(who, action, target) ==
    {g \in Grants : /\ grant[g] # None
                    /\ <<grant[g].principal, grant[g].action, grant[g].resource>>
                         = <<who, action, target>>}

\* GrantRepository.find_active: the exact active direct grants.
find_active(who, action, target) ==
    {g \in Grants : /\ grant[g] # None
                    /\ grant[g].principal = who
                    /\ grant[g].action = action
                    /\ grant[g].resource = target
                    /\ grant[g].status = "active"}

\* AuthorizationDecisionEngine.evaluate, over the principal as it was read
\* at authentication: the grants that allow, or none.
evaluate(who, active, action, target) ==
    IF active /\ resource[target] # None /\ resource[target].status = "active"
    THEN find_active(who, action, target)
    ELSE {}

\* The reads of the evidence ask for their own resource.
authorize_usage(r) == evaluate(r.who, r.active, "admin.read", "usage")
_authorized(r) == evaluate(r.who, r.active, "admin.read", "audit")

_authorize(r) ==
    LET scope == CONTROL_SCOPES(r.op) IN evaluate(r.who, r.active, scope[1], scope[2])

Authorize(c) ==
    LET r == req[c]
        allowing == CASE r.op \in UsageRoutes -> authorize_usage(r)
                      [] r.op \in AuditRoutes -> _authorized(r)
                      [] OTHER -> _authorize(r)
    IN /\ r.pc = "authenticated"
       /\ r.op \notin GovernedOps
       /\ IF allowing = {}
          THEN Answer(c, IF r.op = "credentials.list" THEN 404 ELSE 403)
          ELSE /\ \E g \in allowing :
                    req' = [req EXCEPT ![c].pc = "authorized", ![c].grant = g]
               /\ UNCHANGED <<identity, resource, idem, audit, sent, effects>>

\* The event of a handler that audits after its transaction.
Finish(c) ==
    /\ req[c].pc = "committed"
    /\ \/ /\ audit' = audit \cup Event(c, req[c].status)
          /\ req' = Answered(c, req[c].status, req[c].replayed)
          /\ revealed' = [k \in Credentials |->
                 IF /\ ~req[c].replayed
                    /\ credential[k] # None
                    /\ credential[k].by = req[c].n
                 THEN revealed[k] + 1 ELSE revealed[k]]
       \/ /\ req' = Answered(c, 503, FALSE)
          /\ UNCHANGED <<audit, revealed>>
    /\ UNCHANGED <<principal, credential, grant, resource, idem, sent, effects>>

-----------------------------------------------------------------------------
(* IdempotencyRepository.  A binding is scoped to the caller and the path. *)

BindingScope(r) ==
    <<r.who, r.op,
      IF r.op \in {"credentials.issue", "credentials.rotate"}
      THEN r.target ELSE None>>

Bindings(c) ==
    {b \in idem : b.scope = BindingScope(req[c]) /\ b.key = req[c].key}

Payload(r) == <<r.target, r.value, IF r.op = "consumption_limits.replace"
                                   THEN r.seen ELSE 0>>

IsNew(c) == Bindings(c) = {}
IsReplay(c) == \E b \in Bindings(c) : b.payload = Payload(req[c])
IsConflict(c) == \E b \in Bindings(c) : b.payload # Payload(req[c])

\* The binding kept until the principal's end, or for 24 hours.
Bound(c) ==
    [scope |-> BindingScope(req[c]), key |-> req[c].key,
     payload |-> Payload(req[c]), by |-> req[c].n,
     kept |-> req[c].op \in {"credentials.issue", "credentials.rotate"}]

\* 24 hours have passed: the row no longer counts.
RetentionEnds ==
    /\ \E b \in idem : ~b.kept /\ idem' = idem \ {b}
    /\ UNCHANGED <<identity, resource, audit, req, sent, effects>>

\* What the history keeps of a committed mutation.
Effect(c) ==
    [n |-> req[c].n, op |-> req[c].op, who |-> req[c].who, key |-> req[c].key,
     target |-> req[c].target, seen |-> req[c].seen,
     evidence |-> Evidence(c, {req[c].grant}, {CONTROL_SCOPES(req[c].op)[2]}),
     barred |-> req[c].barred]

\* Mutant: the binding is looked up and never stored.
ClaimsNothing(c) == UNCHANGED idem

Claims(c) == idem' = IF req[c].key = None THEN idem ELSE idem \cup {Bound(c)}

\* The mutation is committed; its handler audits afterwards.
CommitsFirst(c, status) ==
    /\ Claims(c)
    /\ effects' = effects \cup {Effect(c)}
    /\ req' = [req EXCEPT ![c].pc = "committed", ![c].status = status]
    /\ UNCHANGED <<audit, sent>>

\* Mutant: the mutation commits and its event is left for later.
CommitsUnaudited(c, status) ==
    /\ Claims(c)
    /\ effects' = effects \cup {Effect(c)}
    /\ req' = Answered(c, status, FALSE)
    /\ UNCHANGED <<audit, sent>>

\* The mutation, its binding and its event are one transaction.
CommitsAudited(c, status) ==
    /\ Claims(c)
    /\ effects' = effects \cup {Effect(c)}
    /\ audit' = audit \cup Event(c, status)
    /\ req' = Answered(c, status, FALSE)
    /\ UNCHANGED sent

\* The event was refused, so the transaction is rolled back.
AuditRefused(c) ==
    /\ req' = Answered(c, 503, FALSE)
    /\ UNCHANGED <<identity, resource, idem, audit, sent, effects>>

\* A replay that takes the same road as a first answer.
ReplayFirst(c, status) ==
    /\ IsReplay(c)
    /\ req' = [req EXCEPT ![c].pc = "committed", ![c].status = status,
                          ![c].replayed = TRUE]
    /\ UNCHANGED <<identity, resource, idem, audit, sent, effects>>

-----------------------------------------------------------------------------
(* Principals. *)

NewPrincipal(kind) == [kind |-> kind, status |-> "active", stamp |-> 1]

create_principal(c) ==
    LET r == req[c]
    IN /\ At(c, "principals.create", "authorized")
       /\ \/ ReplayFirst(c, 201)
          \/ /\ IsConflict(c) \/ (IsNew(c) /\ principal[r.target] # None)
             /\ Answer(c, 409)
          \/ /\ IsNew(c)
             /\ principal[r.target] = None
             /\ principal' = [principal EXCEPT ![r.target] = NewPrincipal(r.value)]
             /\ CommitsFirst(c, 201)
             /\ UNCHANGED <<credential, grant, revealed, resource>>

list_principals(c) ==
    At(c, "principals.list", "authorized") /\ Answer(c, 200)

get_principal(c) ==
    /\ At(c, "principals.get", "authorized")
    /\ Answer(c, IF principal[req[c].target] = None THEN 404 ELSE 200)

\* PrincipalRepository.replace_status, UPDATE ... WHERE updated_at = the
\* expected one.
StatusReplaced(row, status) == [row EXCEPT !.status = status, !.stamp = @ + 1]

replace_principal_status(c) ==
    LET r == req[c]
        row == principal[r.target]
    IN /\ At(c, "principals.status.replace", "authorized")
       /\ \/ row = None /\ Answer(c, 404)
          \/ row # None /\ row.stamp # r.seen /\ Answer(c, 409)
          \/ /\ row # None
             /\ row.stamp = r.seen
             /\ principal' = [principal EXCEPT ![r.target] = StatusReplaced(row, r.value)]
             /\ CommitsFirst(c, 200)
             /\ UNCHANGED <<credential, grant, revealed, resource>>

-----------------------------------------------------------------------------
(* Credentials. *)

Issued(c, owner, replaced) ==
    [owner |-> owner, status |-> "active", expired |-> FALSE,
     replaces |-> replaced, by |-> req[c].n, expires |-> req[c].value]

\* A fresh uuid: whichever unused identifier it is makes no difference.
Unused == {k \in Credentials : credential[k] = None}
FreshId == CHOOSE k \in Unused : TRUE

issue_credential(c) ==
    LET r == req[c]
    IN /\ At(c, "credentials.issue", "authorized")
       /\ \/ principal[r.target] = None /\ Answer(c, 404)
          \/ /\ principal[r.target] # None
             /\ \/ ReplayFirst(c, 201)
                \/ IsConflict(c) /\ Answer(c, 409)
                \/ IsNew(c) /\ Answer(c, 500)       \* five prefix collisions
                \/ /\ IsNew(c)
                   /\ Unused # {}
                   /\ credential' = [credential EXCEPT
                            ![FreshId] = Issued(c, r.target, None)]
                   /\ CommitsFirst(c, 201)
                   /\ UNCHANGED <<principal, grant, revealed, resource>>

list_credentials(c) ==
    /\ At(c, "credentials.list", "authorized")
    /\ Answer(c, IF principal[req[c].target] = None THEN 404 ELSE 200)

\* CredentialRepository.revoke: a revoked credential stays revoked and the call
\* still answers 204.
KeyRevoked(k) == [credential EXCEPT ![k].status = "revoked"]

revoke_credential(c) ==
    LET r == req[c]
    IN /\ At(c, "credentials.revoke", "authorized")
       /\ \/ credential[r.target] = None /\ Answer(c, 404)
          \/ /\ credential[r.target] # None
             /\ credential' = KeyRevoked(r.target)
             /\ CommitsFirst(c, 204)
             /\ UNCHANGED <<principal, grant, revealed, resource>>

\* Mutant: the replaced key is left active.
RotatedBeside(c, k) ==
    [credential EXCEPT ![FreshId] = Issued(c, credential[k].owner, k)]

\* CredentialRepository.rotate holds the row: the old key is revoked and its
\* replacement issued together, or neither.
Rotated(c, k) ==
    [KeyRevoked(k) EXCEPT ![FreshId] = Issued(c, credential[k].owner, k)]

rotate_credential(c) ==
    LET r == req[c]
        old == credential[r.target]
    IN /\ At(c, "credentials.rotate", "authorized")
       /\ \/ old = None /\ Answer(c, 404)
          \/ /\ old # None
             /\ \/ ReplayFirst(c, 201)
                \/ /\ \/ IsConflict(c)
                      \/ IsNew(c)       \* inactive, expired or not issued
                   /\ Answer(c, 409)
                \/ /\ IsNew(c)
                   /\ old.status = "active" /\ ~old.expired
                   /\ Unused # {}
                   /\ credential' = Rotated(c, r.target)
                   /\ CommitsFirst(c, 201)
                   /\ UNCHANGED <<principal, grant, revealed, resource>>

\* expires_at passes.
Expire ==
    /\ \E k \in Credentials :
         /\ credential[k] # None
         /\ credential[k].expires = "soon"
         /\ ~credential[k].expired
         /\ credential' = [credential EXCEPT ![k].expired = TRUE]
    /\ UNCHANGED <<principal, grant, revealed, resource, idem, audit, req,
                   sent, effects>>

-----------------------------------------------------------------------------
(* Grants. *)

IsActive(row) == row # None /\ row.status = "active"

\* Replay, then the principal, the resource and the action, before the insert.
CheckGrant(c) ==
    LET r == req[c]
        v == r.value
    IN /\ At(c, "grants.create", "authorized")
       /\ \/ IsReplay(c) /\ Replay(c, 201)
          \/ IsConflict(c) /\ Answer(c, 409)
          \/ /\ IsNew(c)
             /\ ~IsActive(principal[v.principal]) \/ ~IsActive(resource[v.resource])
             /\ Answer(c, 404)
          \/ /\ IsNew(c)
             /\ IsActive(principal[v.principal]) /\ IsActive(resource[v.resource])
             /\ IF v.action \in GRANT_ADMITTED_ACTIONS(resource[v.resource].type)
                THEN /\ req' = [req EXCEPT ![c].pc = "checked"]
                     /\ UNCHANGED <<identity, resource, idem, audit, sent, effects>>
                ELSE Answer(c, 422)

NewGrant(v) ==
    [principal |-> v.principal, action |-> v.action, resource |-> v.resource,
     status |-> "active"]

\* grants_pkey and uq_grants_active_direct.
Duplicated(id, v) ==
    grant[id] # None \/ find_active(v.principal, v.action, v.resource) # {}

create_grant(c) ==
    LET r == req[c]
    IN /\ At(c, "grants.create", "checked")
       /\ \/ IsReplay(c) /\ Replay(c, 201)
          \/ /\ IsConflict(c) \/ (IsNew(c) /\ Duplicated(r.target, r.value))
             /\ Answer(c, 409)
          \/ /\ IsNew(c)
             /\ ~Duplicated(r.target, r.value)
             /\ \/ /\ grant' = [grant EXCEPT ![r.target] = NewGrant(r.value)]
                   /\ CommitsAudited(c, 201)
                   /\ UNCHANGED <<principal, credential, revealed, resource>>
                \/ AuditRefused(c)

list_grants(c) ==
    At(c, "grants.list", "authorized") /\ Answer(c, 200)

revoke_grant(c) ==
    LET r == req[c]
    IN /\ At(c, "grants.revoke", "authorized")
       /\ \/ grant[r.target] = None /\ Answer(c, 404)
          \/ /\ grant[r.target] # None
             /\ \/ /\ grant' = [grant EXCEPT ![r.target].status = "revoked"]
                   /\ CommitsAudited(c, 204)
                   /\ UNCHANGED <<principal, credential, revealed, resource>>
                \/ AuditRefused(c)

-----------------------------------------------------------------------------
(* Reads of the evidence itself, audited like every other request. *)

\* One bounded selector; a scope of more than MAX_ROWS rows is refused whole.
read_usage(c) ==
    /\ At(c, "usage.read", "authorized")
    /\ \E status \in {200, 413, 503} : Answer(c, status)

\* A malformed snapshot or usage is a 503 too.
read_usage_requests(c) ==
    /\ At(c, "usage.requests", "authorized")
    /\ \E status \in {200, 413, 503} : Answer(c, status)

\* A body is refused only once the caller is known.
list_events(c) ==
    /\ At(c, "audit.list", "authorized")
    /\ \E status \in {200, 422, 503} : Answer(c, status)

\* Of an event the metadata; content is refused, an absent event is a 404.
get_event(c) ==
    /\ At(c, "audit.read", "authorized")
    /\ \E status \in {404, 422, 503} \cup {200 : a \in audit} : Answer(c, status)

-----------------------------------------------------------------------------

ControlInit ==
    /\ principal = InitPrincipal
    /\ credential = InitCredential
    /\ grant = InitGrant
    /\ resource = InitResource
    /\ idem = {}
    /\ audit = {}
    /\ req = [c \in Clients |-> NoRequest]
    /\ sent = 0
    /\ effects = {}
    /\ revealed = [k \in Credentials |-> 0]

Admission(c) ==
    \/ Submit(c) \/ Lose(c) \/ RefuseMalformed(c)
    \/ Authenticate(c) \/ Authorize(c) \/ Finish(c)

IdentityStep(c) ==
    \/ create_principal(c) \/ list_principals(c) \/ get_principal(c)
    \/ replace_principal_status(c)
    \/ issue_credential(c) \/ list_credentials(c) \/ revoke_credential(c)
    \/ rotate_credential(c)
    \/ CheckGrant(c) \/ create_grant(c) \/ list_grants(c) \/ revoke_grant(c)
    \/ read_usage(c) \/ read_usage_requests(c) \/ list_events(c) \/ get_event(c)

ControlNext ==
    \/ \E c \in Clients : Admission(c) \/ IdentityStep(c)
    \/ Expire \/ RetentionEnds

ControlSpec == ControlInit /\ [][ControlNext]_cvars

-----------------------------------------------------------------------------
(* Properties. *)

PrincipalRow == [kind : {"human", "agent"}, status : {"active", "inactive"}, stamp : Nat]
CredentialRow ==
    [owner : Principals, status : {"active", "revoked"}, expired : BOOLEAN,
     replaces : Credentials \cup {None}, by : Nat, expires : {"never", "soon"}]
GrantRow ==
    [principal : Principals, action : STRING, resource : Resources,
     status : {"active", "revoked"}]

\* What the seeds leave: rows of their type, keys of principals that exist and
\* that replace nothing.  None is no row.
ASSUME SeedsAssumption ==
    /\ None \notin PrincipalRow /\ None \notin CredentialRow /\ None \notin GrantRow
    /\ InitPrincipal \in [Principals -> PrincipalRow \cup {None}]
    /\ InitCredential \in [Credentials -> CredentialRow \cup {None}]
    /\ InitGrant \in [Grants -> GrantRow \cup {None}]
    /\ \A k \in Credentials : InitCredential[k] # None =>
         /\ InitCredential[k].replaces = None /\ InitCredential[k].by = 0
         /\ InitPrincipal[InitCredential[k].owner] # None
    /\ \A r \in Resources : InitResource[r] # None => InitResource[r].stamp \in Nat

\* The bodies that pass validation.
ASSUME InputsAssumption ==
    \A op \in Operations : \A in \in Inputs[op] :
        /\ op \in {"principals.create", "principals.status.replace", "credentials.issue"} =>
              in[1] \in Principals
        /\ op \in {"credentials.revoke", "credentials.rotate"} => in[1] \in Credentials
        /\ op \in {"grants.create", "grants.revoke"} => in[1] \in Grants
        /\ op = "principals.create" => in[2] \in {"human", "agent"}
        /\ op = "principals.status.replace" => in[2] \in {"active", "inactive"}
        /\ op \in {"credentials.issue", "credentials.rotate"} => in[2] \in {"never", "soon"}
        /\ op = "grants.create" =>
              in[2] \in [principal : Principals, action : STRING, resource : Resources]

\* Rows, bindings and requests keep their shape.
ControlTypeOK ==
    /\ principal \in [Principals -> PrincipalRow \cup {None}]
    /\ credential \in [Credentials -> CredentialRow \cup {None}]
    /\ \A g \in Grants : grant[g] = None \/ grant[g] \in GrantRow
    /\ sent \in 0..MaxRequests
    /\ \A c \in Clients : req[c].n <= sent
    /\ revealed \in [Credentials -> Nat]

\* One committed mutation per caller, operation and Idempotency-Key: across
\* retries, races, lost answers and the 24-hour end of a binding, after which
\* the row's own identity refuses the second one.
OneEffectPerKey ==
    \A e, f \in effects :
        /\ e.key # None
        /\ <<e.who, e.op, e.key, e.target, e.seen>>
             = <<f.who, f.op, f.key, f.target, f.seen>>
        => e = f

\* No success is told that the audit store has not accepted, except the stored
\* answers create_grant, create_alias and create_catalog_resource return; and a
\* handler that audits in its transaction never commits without its event.
SuccessAudited ==
    /\ \A c \in Clients :
         req[c].pc = "done" /\ req[c].status \in 200..299 =>
            \/ \E a \in audit : a.n = req[c].n /\ a.status = req[c].status
            \/ /\ req[c].replayed
               /\ req[c].op \in {"grants.create", "aliases.create", "catalog.create"}
    /\ \A e \in effects : e.op \in AuditedInTransaction =>
         \E a \in audit : a.n = e.n

\* Rotation hands a key over once: a credential has at most one replacement,
\* it is revoked by then, and no key is ever shown twice.
OneSuccessor ==
    /\ \A j, k \in Credentials :
         /\ credential[j] # None /\ credential[k] # None
         /\ credential[j].replaces # None
         /\ credential[j].replaces = credential[k].replaces
         => j = k
    /\ \A k \in Credentials :
         credential[k] # None /\ credential[k].replaces # None =>
            credential[credential[k].replaces].status = "revoked"
    /\ \A k \in Credentials : revealed[k] <= 1

\* A revocation that was committed before a request arrived keeps it out: no
\* mutation rests on a credential or a grant that was revoked by then, or on a
\* principal or a resource that has been inactive since.
RevokedStaysOut == \A e \in effects : e.evidence \cap e.barred = {}

\* Two changes never start from the same row: the second of two people who read
\* the same principal, alias, skill or policy is told status_conflict, whichever
\* of its operations each of them calls.
WritesAreSerial ==
    \A e, f \in effects :
        /\ {e.op, f.op} \subseteq Tokened
        /\ <<e.target, e.seen>> = <<f.target, f.seen>>
        => e = f
=============================================================================
