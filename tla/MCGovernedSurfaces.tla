------------------------- MODULE MCGovernedSurfaces -------------------------
(* An administrator and an agent that may also administer the catalog, over *)
(* a seeded alias, skill with its dependency, collection, server and tool;  *)
(* a second alias, skill and collection are there to be created.            *)
EXTENDS Seeds, TLC

CONSTANTS root, bot, k0, k1, high, low

Areas == {"catalog", "model_aliases", "consumption_limits", "grants", "credentials",
          "principals"}

MCResources ==
    Areas \cup {"workspace", "alias1", "alias2", "skill1", "skill2", "skill3",
                "bok1", "bok2", "server", "tool", "tool2"}

\* Who may do what: an administrator per area, the agent's own grants.
MCGrant ==
    [g \in Areas |-> <<root, "admin.write", g>>]
    @@ ("read" :> <<root, "admin.read", "catalog">>)
    @@ ("read.alias" :> <<root, "admin.read", "model_aliases">>)
    @@ ("read.limits" :> <<root, "admin.read", "consumption_limits">>)
    @@ ("publish" :> <<bot, "admin.write", "catalog">>)
    @@ ("use.skill1" :> <<bot, "invoke", "skill1">>)
    @@ ("use.skill2" :> <<bot, "invoke", "skill2">>)
    @@ ("search" :> <<bot, "bok.search", "bok1">>)
    @@ ("chunk" :> <<bot, "bok.read", "bok1">>)
    @@ ("see" :> <<bot, "mcp.discovery", "server">>)
    @@ ("call" :> <<bot, "mcp.invoke", "tool">>)

MCGrants == DOMAIN MCGrant \cup {"regrant", "call-1"}

MCInitGrant ==
    [g \in MCGrants |-> IF g \in DOMAIN MCGrant THEN GrantOf(MCGrant[g]) ELSE None]

\* What the seeds own of it.
MCSeedPrincipal == (root :> "human") @@ (bot :> "agent")
MCSeedCredential == (k0 :> root) @@ (k1 :> bot)
MCSeedRoute == "alias1" :> [alias |-> "smart", model |-> "m1"]
MCSeedGrant ==
    [g \in Areas \cup {"read", "read.alias", "read.limits"} |-> MCGrant[g]]
MCMcpGrants == [g \in {"see", "call"} |-> MCGrant[g]]
MCRestored == [g \in DOMAIN MCGrant |-> IF g = "call" THEN <<"call-1">> ELSE <<>>]

MCInitPrincipal ==
    (root :> [kind |-> "human", status |-> "active", stamp |-> 1])
    @@ (bot :> [kind |-> "agent", status |-> "active", stamp |-> 1])

MCInitCredential ==
    [k \in {k0, k1} |-> [owner |-> IF k = k0 THEN root ELSE bot, status |-> "active",
                         expired |-> FALSE, replaces |-> None, by |-> 0, expires |-> "never"]]

Manifest(deps) == [deps |-> deps]
MCManifests == {Manifest(<<>>), Manifest(<<"skill2">>)}

MCTypeOf ==
    [r \in MCResources |->
        CASE r \in Areas -> "administrative_control"
          [] r = "workspace" -> "policy"
          [] r \in {"alias1", "alias2"} -> "llm_model"
          [] r \in {"skill1", "skill2", "skill3"} -> "skill"
          [] r \in {"bok1", "bok2"} -> "bok_collection"
          [] r = "server" -> "mcp_server"
          [] OTHER -> "mcp_tool"]

MCInitPublication ==
    [r \in MCResources |->
        CASE r = "skill1" -> [owner |-> root, content |-> Manifest(<<"skill2">>), by |-> 0]
          [] r \in {"skill2", "bok1"} -> [owner |-> root, content |-> Manifest(<<>>), by |-> 0]
          [] OTHER -> None]

MCInitResource ==
    [r \in MCResources |->
        CASE r \in Areas -> [Row("administrative_control", None, "active", None, FALSE)
                                EXCEPT !.stamp = 0]
          [] r = "workspace" -> Row("policy", None, "active", high, FALSE)
          [] r = "alias1" -> Row("llm_model", r, "active",
                                 [alias |-> "smart", model |-> "m1"], FALSE)
          [] r \in {"skill1", "skill2"} ->
                Row("skill", root, "active", MCInitPublication[r].content, FALSE)
          [] r = "bok1" -> Row("bok_collection", root, "active", Manifest(<<>>), FALSE)
          [] r = "server" -> Row("mcp_server", r, "active", None, FALSE)
          [] r = "tool" -> Row("mcp_tool", "server", "active", None, FALSE)
          [] OTHER -> None]

Version(owns, deps) == [owner |-> owns, content |-> Manifest(deps)]

MCInputs ==
    [op \in {"aliases.list", "catalog.list", "consumption_limits.get"} |-> {<<None, None>>}]
    @@ ("aliases.create" :> {<<"alias2", [alias |-> "fast", model |-> "m1"]>>,
                             <<"alias2", [alias |-> "smart", model |-> "m1"]>>})
    @@ ("aliases.get" :> {<<"alias1", None>>})
    @@ ("aliases.assignment.replace" :> {<<"alias1", "m2">>})
    @@ ("aliases.status.replace" :> {<<"alias1", "inactive">>})
    @@ ("catalog.create" :>
          {<<"skill3", [type |-> "skill", owner |-> root, status |-> "draft",
                        content |-> None, hidden |-> TRUE]>>,
           <<"bok2", [type |-> "bok_collection", owner |-> root, status |-> "revoked",
                      content |-> Manifest(<<>>), hidden |-> FALSE]>>})
    @@ ("catalog.read" :> {<<"skill3", None>>})
    @@ ("skills.publish" :> {<<"skill3", Version(root, <<>>)>>, <<"skill3", Version(bot, <<>>)>>})
    @@ ("skills.get" :> {<<"skill3", None>>})
    @@ ("skills.status.get" :> {<<"skill1", None>>})
    @@ ("skills.status.replace" :> {<<"skill1", "inactive">>, <<"skill2", "inactive">>})
    @@ ("bok.publish" :> {<<"bok2", Version(root, <<>>)>>})
    @@ ("bok.get" :> {<<"bok2", None>>})
    @@ ("consumption_limits.replace" :> {<<"workspace", low>>})
    @@ ("grants.create" :> {<<"regrant", [principal |-> bot, action |-> "mcp.invoke",
                                          resource |-> "tool"]>>})
    @@ ("grants.revoke" :> {<<g, None>> : g \in {"use.skill2", "search", "call"}})
    @@ ("credentials.revoke" :> {<<k1, None>>})
    @@ ("principals.status.replace" :> {<<bot, "inactive">>})
    @@ ("skills.resolve" :> {<<"skill1", None>>})
    @@ ("bok.search" :> {<<"bok1", None>>})
    @@ ("bok.read" :> {<<"bok1", None>>})
    @@ ("mcp.discovery" :> {<<"server", None>>})
    @@ ("mcp.invoke" :> {<<"tool", None>>})

MCToolIds == <<"tool", "tool2">>

\* A seed has done something, or found a fresh database.
Bootstrapped ==
    \/ checked # None \/ publication["skill1"] = None
    \/ grant["call-1"] # None \/ (ownerOps = 0 /\ owner["tool2"] # None)

Asked == {req[c].op : c \in Clients} \ {None}

\* The registry, the seeds and a new grant are of concern only to those who use
\* what they write, and a second registry operation to one request.
Concerned ==
    /\ ownerOps > 1 => sent <= 1
    /\ ownerOps > 0 => Asked \subseteq {"mcp.discovery", "mcp.invoke", "grants.revoke"}
    /\ "grants.create" \in Asked =>
         ownerOps = 0 /\ Asked \subseteq {"mcp.invoke", "grants.create", "grants.revoke"}
    /\ Bootstrapped =>
         /\ ownerOps = 0
         /\ \/ grant["call"] # None /\ grant["call"].status = "revoked"
               /\ Asked \subseteq {"mcp.invoke", "grants.create", "grants.revoke"}
            \/ checked # None
               /\ Asked \subseteq {"aliases.assignment.replace", "aliases.status.replace"}
            \/ publication["skill1"] = None /\ sent = 0

Symmetry == Permutations(Clients) \cup Permutations(Keys)
=============================================================================
