--------------------------- MODULE MCControlPlane ---------------------------
(* Two administrators and one more principal to create, two keys each, over *)
(* the administrative resources the seeds make active.                      *)
EXTENDS ControlPlane, TLC

CONSTANTS root, ops, guest, k0, k1, k2, k3, g1

Areas == {"principals", "credentials", "grants", "usage", "audit"}

\* The seeded grants, named for what they allow the first administrator.
Seeded ==
    [g \in {"read.principals", "read.credentials", "read.grants",
            "write.principals", "write.credentials", "write.grants",
            "read.usage", "read.audit"} |->
        CASE g = "read.principals" -> <<"admin.read", "principals">>
          [] g = "read.credentials" -> <<"admin.read", "credentials">>
          [] g = "read.grants" -> <<"admin.read", "grants">>
          [] g = "read.usage" -> <<"admin.read", "usage">>
          [] g = "read.audit" -> <<"admin.read", "audit">>
          [] g = "write.principals" -> <<"admin.write", "principals">>
          [] g = "write.credentials" -> <<"admin.write", "credentials">>
          [] g = "write.grants" -> <<"admin.write", "grants">>]

MCGrants == DOMAIN Seeded \cup {g1}

MCInitPrincipal ==
    (root :> [kind |-> "human", status |-> "active", stamp |-> 1])
    @@ (ops :> [kind |-> "human", status |-> "active", stamp |-> 1])
    @@ (guest :> None)

Key(owner) == [owner |-> owner, status |-> "active", expired |-> FALSE,
               replaces |-> None, by |-> 0, expires |-> "never"]

MCInitCredential == (k0 :> Key(root)) @@ (k1 :> Key(ops)) @@ (k2 :> None) @@ (k3 :> None)

MCInitGrant ==
    [g \in MCGrants |->
        IF g = g1 THEN None
        ELSE [principal |-> root, action |-> Seeded[g][1], resource |-> Seeded[g][2],
              status |-> "active"]]

MCInitResource ==
    [r \in Areas |-> [type |-> "administrative_control", status |-> "active", stamp |-> 0]]

Allow(p, action, r) == [principal |-> p, action |-> action, resource |-> r]

MCInputs ==
    [op \in {"principals.list", "grants.list", "usage.read", "usage.requests", "audit.list",
            "audit.read"} |-> {<<None, None>>}]
    @@ [op \in {"principals.get", "credentials.list"} |-> {<<guest, None>>}]
    @@ ("principals.create" :> {<<guest, "agent">>})
    @@ ("principals.status.replace" :> {<<ops, "inactive">>})
    @@ ("credentials.issue" :> {<<guest, "never">>, <<ops, "soon">>})
    @@ ("credentials.revoke" :> {<<k0, None>>})
    @@ ("credentials.rotate" :> {<<k0, "never">>})
    @@ ("grants.create" :> {<<g1, Allow(ops, "admin.write", "credentials")>>,
                            <<g1, Allow(ops, "invoke", "credentials")>>})
    @@ ("grants.revoke" :> {<<"write.credentials", None>>, <<g1, None>>})

Symmetry == Permutations(Clients) \cup Permutations(Keys)
=============================================================================
