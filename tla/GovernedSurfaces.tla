-------------------------- MODULE GovernedSurfaces --------------------------
(***************************************************************************)
(* What agents reach through a grant: exact skills and their dependencies  *)
(* (gateway/skills.py), the tools of the Grafana MCP server                *)
(* (gateway/mcp.py, mcp/owner.py) and BoK collections (bok/retrieval.py),  *)
(* while administrators change the catalog, grants and keys under them.    *)
(*                                                                         *)
(* Every authorization is a session of its own.  A retrieval from the BoK  *)
(* reads its authority again, row by row, and holds the rows while it      *)
(* reads the content; whoever would change one of them waits.  Skills and  *)
(* tools rely on what they were told before.                               *)
(***************************************************************************)
EXTENDS ControlCatalog, Sequences

CONSTANTS
    Server,         \* MCP_SERVER_ID
    ToolIds,        \* MCP_TOOL_IDS
    MaxOwner        \* bound: operations of the MCP registry

VARIABLES
    owner,          \* MCPServerRow and MCPToolRow, the authoritative ones
    client,         \* GrafanaMCPClient: initialized, and who holds its lock
    served,         \* history: what was released, and on what it rested
    ownerOps,       \* registry operations so far
    handshakes      \* history: completed initializations of the MCP session

gvars == <<kvars, owner, client, served, ownerOps, handshakes>>
mcpvars == <<owner, client, ownerOps, handshakes>>

Tools == {ToolIds[i] : i \in DOMAIN ToolIds}

-----------------------------------------------------------------------------
(* MCPRegistry: owner rows first, their catalog projection with them. *)

OwnerActive(id) == owner[id] # None /\ owner[id].status = "active"

project_mcp(rows) ==
    resource' = [id \in Resources |->
        IF id \in DOMAIN rows /\ rows[id] # owner[id]
        THEN [Row(IF id = Server THEN "mcp_server" ELSE "mcp_tool", Server,
                  rows[id].status, None, FALSE) EXCEPT !.stamp = rows[id].stamp]
        ELSE resource[id]]

Changed(id, status) == [status |-> status, stamp |-> owner[id].stamp + 1]

Registry(rows) ==
    /\ ownerOps < MaxOwner
    /\ ownerOps' = ownerOps + 1
    /\ owner' = rows
    /\ project_mcp(rows)
    /\ UNCHANGED <<identity, idem, audit, req, sent, effects, publication,
                   client, served, handshakes>>

register(id) ==
    /\ owner[id] = None
    /\ id # Server => owner[Server] # None
    /\ Registry([owner EXCEPT ![id] = [status |-> "active", stamp |-> 1]])

update_server(status) ==
    /\ owner[Server] # None
    /\ Registry([owner EXCEPT ![Server] = Changed(Server, status)])

\* Every tool of the server goes with it.
deactivate_server ==
    /\ owner[Server] # None
    /\ Registry([id \in DOMAIN owner |->
           IF owner[id] = None THEN None ELSE Changed(id, "inactive")])

\* A tool is updated whatever its server's status; deactivate_tool is this.
update_tool(id, status) ==
    /\ owner[id] # None
    /\ Registry([owner EXCEPT ![id] = Changed(id, status)])

-----------------------------------------------------------------------------
(* Governed access. *)

Calls(c, op, pc) == At(c, op, pc) /\ UNCHANGED mcpvars

\* A released answer, with its event; what it shows is served.
Release(c, status, shown) ==
    /\ finish(c, status, FALSE)
    /\ served' = IF status < 400 THEN served \cup shown ELSE served
    /\ UNCHANGED <<identity, resource, idem, sent, effects, publication>>

Refuse(c, status) == Release(c, status, {})

\* Answered without an event.
Unaudited(c, status) ==
    /\ req' = Answered(c, status, FALSE)
    /\ UNCHANGED <<identity, resource, idem, audit, sent, effects, publication, served>>

\* The request goes on.
Goes(c, new) ==
    /\ req' = [req EXCEPT ![c] = new]
    /\ UNCHANGED <<identity, resource, idem, audit, sent, effects, publication, served>>

Usable(k) == credential[k].status = "active" /\ ~credential[k].expired

Show(c, grants, targets, current) ==
    [n |-> req[c].n, op |-> req[c].op, evidence |-> Evidence(c, grants, targets),
     barred |-> req[c].barred, current |-> current]

\* OwnerResourceFactReader: MCP facts come from the owner rows.
authorization_view(id) ==
    IF id \in DOMAIN owner THEN OwnerActive(id)
    ELSE resource[id] # None /\ resource[id].status = "active"

Allows(c, action, id) ==
    IF req[c].active /\ authorization_view(id)
    THEN find_active(req[c].who, action, id) ELSE {}

ActionOf(op) == IF op = "skills.resolve" THEN "invoke" ELSE op

\* Malformed path parameters of a skill, before anything else.
RefusePath(c) ==
    Calls(c, "skills.resolve", "arrived") /\ Refuse(c, 422)

\* The store fails: an audited 503, of the skills and of the BoK.
StorageFails(c) ==
    /\ req[c].op \in ResolutionRoutes \cup RetrievalRoutes
    /\ req[c].pc \notin Finished
    /\ Refuse(c, 503)
    /\ UNCHANGED mcpvars

\* _authorization_context; only the skills audit a 401.
authenticate_call(c) ==
    LET k == req[c].cred
        who == credential[k].owner
    IN /\ req[c].op \in GovernedOps
       /\ req[c].pc = "arrived"
       /\ IF Usable(k)
          THEN Goes(c, [req[c] EXCEPT !.pc = "authenticated", !.who = who,
                            !.active = principal[who].status = "active"])
          ELSE IF req[c].op = "skills.resolve" THEN Refuse(c, 401) ELSE Unaudited(c, 401)
       /\ UNCHANGED mcpvars

\* authorize_governed_access_for_context, with the context just read.
authorize_governed_access(c) ==
    LET r == req[c]
        allowing == Allows(c, ActionOf(r.op), r.target)
    IN /\ r.op \in GovernedOps
       /\ r.pc = "authenticated"
       /\ IF allowing = {}
          THEN Refuse(c, IF r.op = "skills.resolve" THEN 404 ELSE 403)
          ELSE \E g \in allowing :
                 Goes(c, [r EXCEPT !.pc = "authorized", !.grant = g, !.value = <<>>])
       /\ UNCHANGED mcpvars

-----------------------------------------------------------------------------
(* Skills: the root is read, each dependency authorized, then all read. *)

\* A manifest pins its dependencies; `value` holds the grants found so far.
Dependencies(id) == publication[id].content.deps

read_skill(c) ==
    LET id == req[c].target
    IN /\ Calls(c, "skills.resolve", "authorized")
       /\ IF publication[id] = None THEN Refuse(c, 404)
          ELSE Goes(c, [req[c] EXCEPT !.pc = "dependencies"])

authorize_dependency(c) ==
    LET r == req[c]
        deps == Dependencies(r.target)
        next == Len(r.value) + 1
    IN /\ Calls(c, "skills.resolve", "dependencies")
       /\ next <= Len(deps)
       /\ LET allowing == Allows(c, "invoke", deps[next])
          IN IF allowing = {} THEN Refuse(c, 404)
             ELSE \E g \in allowing : Goes(c, [r EXCEPT !.value = Append(@, g)])

\* A dependency that is not published, or has dependencies, is unavailable.
resolve(c) ==
    LET r == req[c]
        deps == Dependencies(r.target)
        ids == {deps[i] : i \in DOMAIN deps}
    IN /\ Calls(c, "skills.resolve", "dependencies")
       /\ Len(r.value) = Len(deps)
       /\ IF \E d \in ids : publication[d] = None \/ Dependencies(d) # <<>>
          THEN Refuse(c, 404)
          ELSE Release(c, 200,
                 {Show(c, {r.grant} \cup {r.value[i] : i \in DOMAIN r.value},
                       {r.target} \cup ids, TRUE)})

-----------------------------------------------------------------------------
(* BoK: authority, version and content, each read by a statement of its own  *)
(* in one READ COMMITTED transaction, FOR SHARE.  `value` is the set of rows *)
(* it holds, `active` what it has read of them so far.                       *)

Retrieving ==
    {"principal locked", "credential locked", "resource locked", "authority locked",
     "version locked"}

\* Mutant: FOR SHARE is left out of the statements.
NothingLocked(c) == {}

\* The rows a retrieval holds until its transaction ends, however it ends.
ShareLocks(c) == IF req[c].pc \in Retrieving THEN req[c].value ELSE {}

\* What PostgreSQL makes of them: an UPDATE of a row that is held waits for the
\* holder.  An insert does not, nor an UPDATE that finds no row to change.
WaitsForLocks ==
    \A c \in Clients : \A row \in ShareLocks(c) :
        /\ row[1] = "principal" => principal'[row[2]] = principal[row[2]]
        /\ row[1] = "credential" => credential'[row[2]] = credential[row[2]]
        /\ row[1] = "resource" => resource'[row[2]] = resource[row[2]]
        /\ row[1] = "grant" => grant'[row[2]] = grant[row[2]]

\* One statement of the transaction.
Retrieves(c, pc) ==
    /\ req[c].op \in RetrievalRoutes
    /\ req[c].pc = pc
    /\ UNCHANGED mcpvars

\* SELECT ... FOR SHARE: it holds the rows it finds.
Holds(c, pc, rows, stands) ==
    Goes(c, [req[c] EXCEPT !.pc = pc, !.value = rows, !.active = stands])

lock_principal(c) ==
    LET r == req[c]
    IN /\ Retrieves(c, "authorized")
       /\ Holds(c, "principal locked", {<<"principal", r.who>>},
                principal[r.who].status = "active")

lock_credential(c) ==
    LET r == req[c]
    IN /\ Retrieves(c, "principal locked")
       /\ Holds(c, "credential locked", r.value \cup {<<"credential", r.cred>>},
                r.active /\ Usable(r.cred))

lock_resource(c) ==
    LET r == req[c]
    IN /\ Retrieves(c, "credential locked")
       /\ IF resource[r.target] # None
          THEN Holds(c, "resource locked", r.value \cup {<<"resource", r.target>>},
                     r.active /\ resource[r.target].status = "active")
          ELSE Holds(c, "resource locked", r.value, FALSE)

\* The last of the facts: one that does not stand denies the retrieval.
lock_grant(c) ==
    LET r == req[c]
        held == find_active(r.who, r.op, r.target)
    IN /\ Retrieves(c, "resource locked")
       /\ IF r.active /\ held # {}
          THEN \E g \in held :
                 Holds(c, "authority locked", r.value \cup {<<"grant", g>>}, TRUE)
          ELSE Refuse(c, 403)

lock_current_authority(c) ==
    lock_principal(c) \/ lock_credential(c) \/ lock_resource(c) \/ lock_grant(c)

\* Its row is not among those held: a publication that is repeated writes it again as it
\* is, and nothing else writes it.
lock_active_version(c) ==
    LET r == req[c]
    IN /\ Retrieves(c, "authority locked")
       /\ IF publication[r.target] # None
          THEN Holds(c, "version locked", r.value, TRUE)
          ELSE Refuse(c, 503)

\* History: whether the authority stands now, whatever was read of it before.
AuthorityStands(c) ==
    LET r == req[c]
    IN /\ principal[r.who].status = "active"
       /\ credential[r.cred].status = "active"
       /\ resource[r.target] # None /\ resource[r.target].status = "active"
       /\ find_active(r.who, r.op, r.target) # {}

\* The content, and the end of the transaction.
content_query(c) ==
    LET r == req[c]
    IN /\ Retrieves(c, "version locked")
       /\ Goes(c, [r EXCEPT !.pc = "read",
              !.value = Show(c, {r.grant}, {r.target}, AuthorityStands(c))])

\* What was read is released with its event; a chunk may not exist.
release_content(c) ==
    /\ req[c].op \in RetrievalRoutes
    /\ req[c].pc = "read"
    /\ \/ Release(c, 200, {req[c].value})
       \/ req[c].op = "bok.read" /\ Refuse(c, 404)
    /\ UNCHANGED mcpvars

-----------------------------------------------------------------------------
(* MCP discovery: the caller is authenticated again for every tool, and *)
(* authorized in another session.                                       *)

authenticate_tool(c) ==
    LET r == req[c]
    IN /\ Calls(c, "mcp.discovery", "authorized")
       /\ Len(r.value) < Len(ToolIds)
       /\ IF Usable(r.cred)
          THEN Goes(c, [r EXCEPT !.pc = "tool", !.active = principal[r.who].status = "active"])
          ELSE Unaudited(c, 401)

authorize_tool(c) ==
    LET r == req[c]
        allowing == Allows(c, "mcp.invoke", ToolIds[Len(r.value) + 1])
    IN /\ Calls(c, "mcp.discovery", "tool")
       /\ \E g \in IF allowing = {} THEN {None} ELSE allowing :
            Goes(c, [r EXCEPT !.pc = "authorized", !.value = Append(@, g)])

\* A query string is refused after the server's authorization.
RefuseQuery(c) ==
    /\ Calls(c, "mcp.discovery", "authorized")
    /\ req[c].value = <<>>
    /\ Refuse(c, 422)

\* _active_contract, of the tools that were allowed.
discover(c) ==
    LET r == req[c]
        seen == {i \in DOMAIN ToolIds : r.value[i] # None /\ OwnerActive(ToolIds[i])}
    IN /\ Calls(c, "mcp.discovery", "authorized")
       /\ Len(r.value) = Len(ToolIds)
       /\ IF OwnerActive(Server)
          THEN Release(c, 200,
                 {Show(c, {r.grant} \cup {r.value[i] : i \in seen},
                       {Server} \cup {ToolIds[i] : i \in seen}, TRUE)})
          ELSE Refuse(c, 403)

-----------------------------------------------------------------------------
(* MCP invocation. *)

\* Mutant: the tool's row alone decides.
ReadToolOnly(c) ==
    /\ Calls(c, "mcp.invoke", "authorized")
    /\ IF OwnerActive(req[c].target)
       THEN Goes(c, [req[c] EXCEPT !.pc = "calling",
                        !.value = Show(c, {req[c].grant}, {Server, req[c].target}, TRUE)])
       ELSE Unaudited(c, 403)

\* A server or tool that left the contract is refused without an event.
read_contract(c) ==
    /\ Calls(c, "mcp.invoke", "authorized")
    /\ \/ /\ ~(OwnerActive(Server) /\ OwnerActive(req[c].target))
          /\ Unaudited(c, 403)
       \/ /\ OwnerActive(Server) /\ OwnerActive(req[c].target)
          /\ \/ Refuse(c, 422)
             \/ Goes(c, [req[c] EXCEPT !.pc = "calling",
                           !.value = Show(c, {req[c].grant}, {Server, req[c].target}, TRUE)])

\* GrafanaMCPClient._initialize: looked at before and inside the lock.
enter_initialize(c) ==
    /\ At(c, "mcp.invoke", "calling")
    /\ Goes(c, [req[c] EXCEPT !.pc = IF client.initialized THEN "ready" ELSE "waiting"])
    /\ UNCHANGED mcpvars

\* Mutant: the first caller's handshake is not waited for.
TakeLockUnheld(c) ==
    /\ At(c, "mcp.invoke", "waiting")
    /\ Goes(c, [req[c] EXCEPT !.pc = "handshake"])
    /\ client' = [client EXCEPT !.lock = c]
    /\ UNCHANGED <<owner, ownerOps, handshakes>>

take_lock(c) ==
    /\ At(c, "mcp.invoke", "waiting")
    /\ client.lock = None
    /\ IF client.initialized
       THEN Goes(c, [req[c] EXCEPT !.pc = "ready"]) /\ UNCHANGED client
       ELSE /\ Goes(c, [req[c] EXCEPT !.pc = "handshake"])
            /\ client' = [client EXCEPT !.lock = c]
    /\ UNCHANGED <<owner, ownerOps, handshakes>>

handshake(c) ==
    /\ At(c, "mcp.invoke", "handshake")
    /\ \/ /\ client' = [initialized |-> TRUE, lock |-> None]
          /\ handshakes' = handshakes + 1
          /\ Goes(c, [req[c] EXCEPT !.pc = "ready"])
       \/ /\ client' = [client EXCEPT !.lock = None]
          /\ \E status \in {502, 503, 504} : Refuse(c, status)
          /\ UNCHANGED handshakes
    /\ UNCHANGED <<owner, ownerOps>>

call_tool(c) ==
    /\ Calls(c, "mcp.invoke", "ready")
    /\ \/ Release(c, 200, {req[c].value})
       \/ \E status \in {502, 503, 504} : Refuse(c, status)

\* wait_for ends a call that waits for the lock or for the upstream.
time_out(c) ==
    /\ req[c].op = "mcp.invoke"
    /\ req[c].pc \in {"calling", "waiting", "handshake"}
    /\ Refuse(c, 504)
    /\ client' = [client EXCEPT !.lock = IF @ = c THEN None ELSE @]
    /\ UNCHANGED <<owner, ownerOps, handshakes>>

lose_call(c) ==
    /\ Lose(c)
    /\ client' = [client EXCEPT !.lock = IF @ = c THEN None ELSE @]
    /\ UNCHANGED <<publication, owner, served, ownerOps, handshakes>>

-----------------------------------------------------------------------------

GovernedInit ==
    /\ CatalogInit
    /\ owner = [id \in {Server} \cup Tools |->
                  IF resource[id] = None THEN None ELSE [status |-> "active", stamp |-> 1]]
    /\ client = [initialized |-> FALSE, lock |-> None]
    /\ served = {}
    /\ ownerOps = 0
    /\ handshakes = 0

GovernedStep(c) ==
    \/ RefusePath(c) \/ StorageFails(c) \/ authenticate_call(c)
    \/ authorize_governed_access(c)
    \/ read_skill(c) \/ authorize_dependency(c) \/ resolve(c)
    \/ lock_current_authority(c) \/ lock_active_version(c) \/ content_query(c)
    \/ release_content(c)
    \/ authenticate_tool(c) \/ authorize_tool(c) \/ RefuseQuery(c) \/ discover(c)
    \/ read_contract(c) \/ enter_initialize(c) \/ take_lock(c) \/ handshake(c)
    \/ call_tool(c) \/ time_out(c) \/ lose_call(c)

AdminStep(c) ==
    /\ \/ /\ \/ Submit(c) \/ RefuseMalformed(c) \/ Authenticate(c) \/ Authorize(c)
             \/ Finish(c) \/ CheckGrant(c) \/ create_grant(c) \/ revoke_grant(c)
             \/ revoke_credential(c)
             \/ replace_principal_status(c)
          /\ UNCHANGED publication
       \/ CatalogStep(c)
    /\ WaitsForLocks
    /\ UNCHANGED <<mcpvars, served>>

OwnerStep ==
    \/ \E id \in DOMAIN owner : register(id)
    \/ \E status \in {"active", "inactive"} : update_server(status)
    \/ deactivate_server
    \/ \E id \in Tools, status \in {"active", "inactive"} : update_tool(id, status)

GovernedNext ==
    \/ \E c \in Clients : GovernedStep(c) \/ AdminStep(c)
    \/ OwnerStep
    \/ RetentionEnds /\ UNCHANGED <<publication, mcpvars, served>>

GovernedSpec == GovernedInit /\ [][GovernedNext]_gvars

-----------------------------------------------------------------------------
(* Properties. *)

OwnerRow == [status : {"active", "inactive"}, stamp : Nat]

\* The registry's identifiers and what agents ask for.  The catalog row of a
\* server or a tool is the registry's projection: no catalog.create makes one.
ASSUME SurfaceAssumption ==
    /\ None \notin Clients /\ None \notin OwnerRow
    /\ ToolIds \in Seq(Resources)
    /\ Server \in Resources /\ TypeOf[Server] = "mcp_server"
    /\ \A id \in Tools : TypeOf[id] = "mcp_tool"
    /\ \A id \in {Server} \cup Tools : InitResource[id] # None =>
         InitResource[id].status = "active" /\ InitResource[id].stamp = 1
    /\ \A m \in Manifests : m.deps \in Seq({r \in Resources : TypeOf[r] = "skill"})
    /\ \A op \in Operations : \A in \in Inputs[op] :
         /\ op = "catalog.create" => in[1] \notin {Server} \cup Tools
         /\ op = "mcp.discovery" => in[1] = Server
         /\ op = "mcp.invoke" => in[1] \in Tools
         /\ op = "skills.resolve" => in[1] \in Resources /\ TypeOf[in[1]] = "skill"
         /\ op \in {"bok.search", "bok.read"} =>
              in[1] \in Resources /\ TypeOf[in[1]] = "bok_collection"

\* Nothing is changed or shown on the strength of a key, a grant, a principal or
\* a resource that was out when the request arrived and stayed out: a revoked
\* grant, a deactivated skill or dependency, a tool of a deactivated server.
RevokedServesNothing ==
    /\ RevokedStaysOut
    /\ \A s \in served : s.evidence \cap s.barred = {}

\* BoK content is read while its authority stands: no revocation, deactivation or
\* republication falls between the statements that checked the key, the principal,
\* the collection and the grant and the one that reads the content.
ContentUnderAuthority == \A s \in served : s.current

\* The MCP session is initialized once, whoever calls first and fails meanwhile,
\* and only the holder of the lock is in the handshake.
OneHandshake ==
    /\ handshakes <= 1
    /\ client.initialized <=> handshakes = 1
    /\ \A c \in Clients : At(c, "mcp.invoke", "handshake") <=> client.lock = c
=============================================================================
