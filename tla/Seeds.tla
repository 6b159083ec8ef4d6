------------------------------- MODULE Seeds --------------------------------
(***************************************************************************)
(* The bootstrap of the governance store (persistence/seeds.py), run by an *)
(* operator beside a live API: the seed of principals, keys, routes and    *)
(* administrative grants, the demo MCP graph, and the routing check with   *)
(* its reconciliation.                                                     *)
(*                                                                         *)
(* A seed is one SERIALIZABLE transaction under an advisory lock, so it is *)
(* one action; a conflict rolls it back and leaves nothing.  The demo MCP  *)
(* graph is one READ COMMITTED transaction without the lock.  It is one    *)
(* action all the same: it converges rows that only the registry writes,   *)
(* which no route reaches, and inserts grants, whose unique indexes roll   *)
(* back a transaction that another one overtook.  The routing check reads  *)
(* in two sessions; between them, and between the check and its            *)
(* reconciliation, anything may commit.                                    *)
(***************************************************************************)
EXTENDS GovernedSurfaces

CONSTANTS
    SeedPrincipal,      \* PRINCIPALS: id -> kind
    SeedCredential,     \* the key of each of them: id -> owner
    SeedRoute,          \* RoutingSettings: alias -> its content
    ADMIN_RESOURCES,
    SeedGrant,          \* ADMIN_GRANTS and the routes' grants: id -> authority
    MCP_DEMO_GRANTS,    \* id -> authority
    restored_grant_id   \* id -> the ids it may be restored under, in order

VARIABLE checked        \* the digest the last --check-routing printed, Drifted, or None

\* The check has found drift and printed nothing yet.
Drifted == <<>>

svars == <<gvars, checked>>

Present(table, ids) == {id \in ids : table[id] # None}

Authority(g) == <<grant[g].principal, grant[g].action, grant[g].resource>>

GrantOf(authority) ==
    [principal |-> authority[1], action |-> authority[2], resource |-> authority[3],
     status |-> "active"]

_resource_values(alias) == Row("llm_model", alias, "active", SeedRoute[alias], FALSE)

AdminResource == [Row("administrative_control", None, "active", None, FALSE) EXCEPT !.stamp = 0]

-----------------------------------------------------------------------------
(* Seed grants: a missing one is inserted, a revoked one granted again. *)

\* The authority is active under any id.
Held(g) == find_active(grant[g].principal, grant[g].action, grant[g].resource) # {}

\* The first of its ids that no row has yet.
FirstFree(g, i) ==
    LET ids == restored_grant_id[g]
    IN grant[ids[i]] = None /\ \A j \in 1..(i - 1) : grant[ids[j]] # None

RestoredAs(g) ==
    LET ids == restored_grant_id[g]
    IN ids[CHOOSE i \in DOMAIN ids : FirstFree(g, i)]

\* Bound: the model has an id left to restore the grant under.
Restorable(g) == \E i \in DOMAIN restored_grant_id[g] : FirstFree(g, i)

\* _require_grant: the revoked seed grants whose authority nothing else holds.
Lapsed(seeds) ==
    {g \in DOMAIN seeds : grant[g] # None /\ grant[g].status = "revoked" /\ ~Held(g)}

\* Mutant: the revoked row itself is made active again.
RestoredInPlace(seeds) ==
    LET lapsed == Lapsed(seeds)
    IN [g \in Grants |->
           IF g \in lapsed THEN [grant[g] EXCEPT !.status = "active"]
           ELSE IF g \in DOMAIN seeds /\ grant[g] = None THEN GrantOf(seeds[g])
           ELSE grant[g]]

\* restore_grant: a new row under a new id; the revoked one stays as history.
restore_grants(seeds) ==
    LET lapsed == Lapsed(seeds)
    IN [g \in Grants |->
           IF \E h \in lapsed : g = RestoredAs(h)
           THEN GrantOf(Authority(CHOOSE h \in lapsed : g = RestoredAs(h)))
           ELSE IF g \in DOMAIN seeds /\ grant[g] = None THEN GrantOf(seeds[g])
           ELSE grant[g]]

\* uq_grants_active_direct: the missing grants are inserted by their own id.
GrantsCollide(seeds) ==
    \E g \in DOMAIN seeds : grant[g] = None /\ find_active(seeds[g][1], seeds[g][2], seeds[g][3]) # {}

\* A grant is compared in everything but its status.
GrantsAgree(seeds) == \A g \in Present(grant, DOMAIN seeds) : Authority(g) = seeds[g]

\* The restores are audited as grants.create without an identity.
Restores(seeds) ==
    /\ \A g \in Lapsed(seeds) : Restorable(g)
    /\ grant' = restore_grants(seeds)
    /\ audit' = IF Lapsed(seeds) = {} THEN audit
                ELSE audit \cup {[n |-> 0, status |-> 201]}

-----------------------------------------------------------------------------
(* The routes. *)

_routing_digest ==
    [alias \in DOMAIN SeedRoute |->
        IF resource[alias] = None THEN None
        ELSE <<resource[alias].status, resource[alias].content>>]

routing_drift == \E alias \in DOMAIN SeedRoute :
    _routing_digest[alias] # <<"active", SeedRoute[alias]>>

\* --check-routing goes on to a digest only when there is drift.
check_routing ==
    /\ routing_drift
    /\ checked' = Drifted
    /\ UNCHANGED gvars

\* The digest is of the routes as they are by now.
print_digest ==
    /\ checked = Drifted
    /\ checked' = _routing_digest
    /\ UNCHANGED gvars

\* Missing routes and administrative resources are inserted; a reconciliation
\* writes every route over, and leaves its updated_at alone.
Converged(reconcile) ==
    [id \in Resources |->
        IF id \in DOMAIN SeedRoute
        THEN IF resource[id] = None THEN _resource_values(id)
             ELSE IF reconcile THEN [_resource_values(id) EXCEPT !.stamp = resource[id].stamp]
             ELSE resource[id]
        ELSE IF id \in ADMIN_RESOURCES /\ resource[id] = None THEN AdminResource
        ELSE resource[id]]

-----------------------------------------------------------------------------
(* seed. *)

Existing ==
    \/ Present(principal, DOMAIN SeedPrincipal) # {}
    \/ Present(credential, DOMAIN SeedCredential) # {}
    \/ Present(resource, DOMAIN SeedRoute) # {}

\* _require over the rows as they would be: a principal that was ever changed, a
\* key that was rotated or revoked and a route that differs are a SeedConflict.
GraphAgrees(rows) ==
    /\ \A p \in DOMAIN SeedPrincipal : principal[p] = NewPrincipal(SeedPrincipal[p])
    /\ \A k \in DOMAIN SeedCredential :
         /\ credential[k] # None
         /\ credential[k].owner = SeedCredential[k]
         /\ credential[k].status = "active"
    /\ \A alias \in DOMAIN SeedRoute :
         <<rows[alias].type, rows[alias].owner, rows[alias].status, rows[alias].content>>
           = <<"llm_model", alias, "active", SeedRoute[alias]>>
    /\ \A r \in ADMIN_RESOURCES : rows[r].status = "active"
    /\ GrantsAgree(SeedGrant)

\* A fresh database: the whole graph at once.
SeedFresh ==
    /\ ~Existing
    /\ principal' = [p \in Principals |->
           IF p \in DOMAIN SeedPrincipal THEN NewPrincipal(SeedPrincipal[p]) ELSE principal[p]]
    /\ credential' = [k \in Credentials |->
           IF k \in DOMAIN SeedCredential
           THEN [owner |-> SeedCredential[k], status |-> "active", expired |-> FALSE,
                 replaces |-> None, by |-> 0, expires |-> "never"]
           ELSE credential[k]]
    /\ resource' = Converged(FALSE)
    /\ grant' = restore_grants(SeedGrant)
    /\ UNCHANGED audit

\* Rows that were there are validated, the missing ones inserted.
SeedAgain(reconcile) ==
    LET rows == Converged(reconcile)
    IN /\ Existing
       /\ reconcile => checked = _routing_digest
       /\ GraphAgrees(rows)
       /\ ~GrantsCollide(SeedGrant)
       /\ resource' = rows
       /\ Restores(SeedGrant)
       /\ UNCHANGED <<principal, credential>>

seed(reconcile) ==
    /\ reconcile => checked \notin {None, Drifted}
    /\ SeedFresh \/ SeedAgain(reconcile)
    /\ UNCHANGED <<revealed, idem, req, sent, effects, publication, mcpvars, served, checked>>

\* --seed-mcp: the server and its tools as the owner rows must be, or new ones;
\* each is projected into the catalog again, and its grants converge.
bootstrap_mcp_demo ==
    /\ \A p \in {MCP_DEMO_GRANTS[g][1] : g \in DOMAIN MCP_DEMO_GRANTS} : principal[p] # None
    /\ \A id \in DOMAIN owner : owner[id] \in {None, [status |-> "active", stamp |-> 1]}
    /\ GrantsAgree(MCP_DEMO_GRANTS)
    /\ ~GrantsCollide(MCP_DEMO_GRANTS)
    /\ owner' = [id \in DOMAIN owner |-> [status |-> "active", stamp |-> 1]]
    /\ resource' = [id \in Resources |->
           IF id \in DOMAIN owner
           THEN Row(IF id = Server THEN "mcp_server" ELSE "mcp_tool", Server, "active",
                    None, FALSE)
           ELSE resource[id]]
    /\ Restores(MCP_DEMO_GRANTS)
    /\ UNCHANGED <<principal, credential, revealed, idem, req, sent, effects, publication,
                   client, served, ownerOps, handshakes, checked>>

-----------------------------------------------------------------------------

\* A database the migrations have just made.
FreshInit ==
    /\ principal = [p \in Principals |-> None]
    /\ credential = [k \in Credentials |-> None]
    /\ grant = [g \in Grants |-> None]
    /\ resource = [r \in Resources |-> IF r = "workspace" THEN InitResource[r] ELSE None]
    /\ publication = [r \in Resources |-> None]
    /\ idem = {}
    /\ audit = {}
    /\ req = [c \in Clients |-> NoRequest]
    /\ sent = 0
    /\ effects = {}
    /\ revealed = [k \in Credentials |-> 0]
    /\ owner = [id \in {Server} \cup Tools |-> None]
    /\ client = [initialized |-> FALSE, lock |-> None]
    /\ served = {}
    /\ ownerOps = 0
    /\ handshakes = 0

SeedInit == (GovernedInit \/ FreshInit) /\ checked = None

SeedNext ==
    \/ GovernedNext /\ UNCHANGED checked
    \/ check_routing \/ print_digest
    \/ \E reconcile \in BOOLEAN : seed(reconcile) /\ WaitsForLocks
    \/ bootstrap_mcp_demo /\ WaitsForLocks

SeedSpec == SeedInit /\ [][SeedNext]_svars

-----------------------------------------------------------------------------
(* Properties. *)

\* One authority per seeded grant, of principals the seeds know.
SeedsAuthorities(seeds) ==
    /\ DOMAIN seeds \subseteq Grants
    /\ \A g \in DOMAIN seeds :
         /\ seeds[g] \in Principals \X STRING \X Resources
         /\ seeds[g][1] \in DOMAIN SeedPrincipal
    /\ \A g, h \in DOMAIN seeds : seeds[g] = seeds[h] => g = h

\* The graph of the seeds; a store that is not fresh has been seeded.
ASSUME GraphAssumption ==
    /\ DOMAIN SeedPrincipal \subseteq Principals
    /\ \A p \in DOMAIN SeedPrincipal : SeedPrincipal[p] \in {"human", "agent"}
    /\ \E p \in DOMAIN SeedPrincipal : InitPrincipal[p] # None
    /\ DOMAIN SeedCredential \subseteq Credentials
    /\ \A k \in DOMAIN SeedCredential : SeedCredential[k] \in DOMAIN SeedPrincipal
    /\ \A alias \in DOMAIN SeedRoute :
         /\ alias \in Resources /\ TypeOf[alias] = "llm_model"
         /\ SeedRoute[alias] \in Assignments
    /\ \A r \in ADMIN_RESOURCES : r \in Resources /\ TypeOf[r] = "administrative_control"
    /\ SeedsAuthorities(SeedGrant) /\ SeedsAuthorities(MCP_DEMO_GRANTS)

\* A revoked grant is never active again: whoever grants its authority anew, an
\* administrator or a seed, does so in a row of its own, and an authority is
\* never active twice, so that revoking what a listing shows takes it away.
RevokedForGood ==
    [][grant' # grant => \A g \in Grants : grant'[g] # grant[g] =>
          /\ grant[g] # None => grant[g].status = "active"
          /\ grant'[g] # None
          /\ grant'[g].status = "active" =>
               \A h \in Grants \ {g} :
                   grant'[h] # None /\ grant'[h].status = "active" => grant'[h] # grant'[g]
      ]_svars
=============================================================================
