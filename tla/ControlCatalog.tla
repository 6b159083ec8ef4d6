--------------------------- MODULE ControlCatalog ---------------------------
(***************************************************************************)
(* The rest of the control plane: model aliases, the resource catalog,     *)
(* immutable skill and BoK versions, and the consumption policy            *)
(* (control/service.py, control/consumption_limits.py, bok/publication.py).*)
(*                                                                         *)
(* Requests, idempotency and audit are ControlPlane's.  A row of `resource`*)
(* also has its owner, its content (an alias assignment, a manifest, the   *)
(* limits) and its visibility; the consumption policy, a table of one row, *)
(* is kept there as "workspace".  A publication reads before it inserts,   *)
(* so it takes two steps (ReadPublication, then the insert).               *)
(***************************************************************************)
EXTENDS ControlPlane

CONSTANTS
    InitPublication,    \* what the seeds published
    TypeOf,             \* identifier -> resource_type; a row's key is the pair
    AliasNames, Models, \* what an alias and its assignment are made of
    Manifests,          \* skill and BoK manifests
    Documents           \* any other content: the limits, a bare catalog entry

VARIABLE publication    \* SkillVersionRow and BoKCollectionVersionRow

kvars == <<cvars, publication>>

Row(type, owner, status, content, hidden) ==
    [type |-> type, owner |-> owner, status |-> status, content |-> content,
     hidden |-> hidden, stamp |-> 1]

\* An update of a row: whatever it sets, and updated_at.
Touched(row, status, content) ==
    [row EXCEPT !.status = status, !.content = content, !.stamp = @ + 1]

\* The transaction's mutation of `resource` commits with its event, or its
\* event is refused and nothing happened.
Stores(c, id, row, status) ==
    \/ /\ resource' = [resource EXCEPT ![id] = row]
       /\ CommitsAudited(c, status)
       /\ UNCHANGED <<identity, publication>>
    \/ AuditRefused(c) /\ UNCHANGED publication

Says(c, status) == Answer(c, status) /\ UNCHANGED publication

-----------------------------------------------------------------------------
(* Model aliases: only active llm_model rows are aliases at all. *)

IsAlias(id) ==
    resource[id] # None /\ resource[id].type = "llm_model" /\ resource[id].status = "active"

\* resources_pkey and uq_resources_alias.
AliasTaken(id, content) ==
    \/ resource[id] # None
    \/ \E o \in Resources : /\ resource[o] # None
                            /\ resource[o].type = "llm_model"
                            /\ resource[o].content.alias = content.alias

create_alias(c) ==
    LET r == req[c]
    IN /\ At(c, "aliases.create", "authorized")
       /\ \/ IsReplay(c) /\ Replay(c, 201) /\ UNCHANGED publication
          \/ /\ IsConflict(c) \/ (IsNew(c) /\ AliasTaken(r.target, r.value))
             /\ Says(c, 409)
          \/ /\ IsNew(c)
             /\ ~AliasTaken(r.target, r.value)
             /\ Stores(c, r.target, Row("llm_model", r.target, "active", r.value, FALSE), 201)

list_aliases(c) ==
    At(c, "aliases.list", "authorized") /\ Says(c, 200)

get_alias(c) ==
    /\ At(c, "aliases.get", "authorized")
    /\ Says(c, IF IsAlias(req[c].target) THEN 200 ELSE 404)

\* Mutant: the last writer wins.
AliasWriteBlind(c, row) ==
    IF IsAlias(req[c].target) THEN Stores(c, req[c].target, row, 200) ELSE Says(c, 404)

\* UPDATE ... WHERE status = 'active' AND updated_at = the expected one.
AliasWrite(c, row) ==
    LET id == req[c].target
    IN \/ ~IsAlias(id) /\ Says(c, 404)
       \/ IsAlias(id) /\ resource[id].stamp # req[c].seen /\ Says(c, 409)
       \/ /\ IsAlias(id)
          /\ resource[id].stamp = req[c].seen
          /\ Stores(c, id, row, 200)

replace_alias_assignment(c) ==
    LET r == req[c]
    IN /\ At(c, "aliases.assignment.replace", "authorized")
       /\ AliasWrite(c, Touched(resource[r.target], "active",
              [resource[r.target].content EXCEPT !.model = r.value]))

replace_alias_status(c) ==
    LET r == req[c]
    IN /\ At(c, "aliases.status.replace", "authorized")
       /\ AliasWrite(c, Touched(resource[r.target], r.value, resource[r.target].content))

-----------------------------------------------------------------------------
(* The catalog. *)

create_catalog_resource(c) ==
    LET r == req[c]
        v == r.value
    IN /\ At(c, "catalog.create", "authorized")
       /\ \/ IsReplay(c) /\ Replay(c, 201) /\ UNCHANGED publication
          \/ /\ IsConflict(c) \/ (IsNew(c) /\ resource[r.target] # None)
             /\ Says(c, 409)
          \/ /\ IsNew(c)
             /\ resource[r.target] = None
             /\ Stores(c, r.target, Row(v.type, v.owner, v.status, v.content, v.hidden), 201)

list_catalog_resources(c) ==
    At(c, "catalog.list", "authorized") /\ Says(c, 200)

\* Hidden and inactive entries read as the safe 404.
get_catalog_resource(c) ==
    LET row == resource[req[c].target]
    IN /\ At(c, "catalog.read", "authorized")
       /\ Says(c, IF row # None /\ ~row.hidden /\ row.status # "inactive" THEN 200 ELSE 404)

-----------------------------------------------------------------------------
(* Publications. *)

\* The claim of an idempotency key holds its row until the transaction ends.
KeyHeld(c) ==
    \E d \in Clients \ {c} :
        /\ req[d].pc = "checked"
        /\ req[d].op \in {"skills.publish", "bok.publish"}
        /\ <<BindingScope(req[d]), req[d].key>> = <<BindingScope(req[c]), req[c].key>>

Published(c) == [owner |-> req[c].value.owner, content |-> req[c].value.content,
                 by |-> req[c].n]

\* A version that is there already: the binding and the event are kept.  A BoK
\* version is activated again, and with it its catalog row, or a missing row made.
Confirms(c, status) ==
    LET r == req[c]
        row == resource[r.target]
        shown == IF row = None
                 THEN Row("bok_collection", r.value.owner, "active", r.value.content, FALSE)
                 ELSE Touched(row, "active", row.content)
    IN \/ /\ Claims(c)
          /\ resource' = IF r.op = "bok.publish" THEN [resource EXCEPT ![r.target] = shown]
                         ELSE resource
          /\ audit' = audit \cup Event(c, status)
          /\ req' = Answered(c, status, FALSE)
          /\ UNCHANGED <<identity, sent, effects, publication>>
       \/ AuditRefused(c) /\ UNCHANGED publication

SameVersion(c) ==
    LET p == publication[req[c].target]
    IN p # None /\ <<p.owner, p.content>> = <<req[c].value.owner, req[c].value.content>>

\* SkillVersionRepository.publish admits only its owner's unpublished row.
SkillRowAdmits(c) ==
    LET row == resource[req[c].target]
    IN row = None \/ (row.owner = req[c].value.owner /\ row.status \in {"draft", "published"})

\* The catalog row of a BoK version must be its exact projection; its status is
\* set to active before the comparison.
BoKRowAdmits(c) ==
    LET row == resource[req[c].target]
    IN row = None \/ (/\ ~row.hidden
                      /\ <<row.owner, row.content>> = <<req[c].value.owner, req[c].value.content>>)

\* A BoK version has an active human author.
AuthorAdmitted(c) ==
    req[c].op = "bok.publish" => principal[req[c].who].kind = "human" /\ req[c].active

RowAdmits(c) == IF req[c].op = "bok.publish" THEN BoKRowAdmits(c) ELSE SkillRowAdmits(c)

\* Everything a publication reads before its insert.
ReadPublication(c) ==
    LET r == req[c]
        bok == r.op = "bok.publish"
        old == publication[r.target]
    IN /\ r.op \in {"skills.publish", "bok.publish"}
       /\ r.pc = "authorized"
       /\ ~KeyHeld(c)
       /\ \/ IsReplay(c) /\ Says(c, IF bok THEN 200 ELSE 201)
          \/ IsConflict(c) /\ Says(c, 409)
          \/ IsNew(c) /\ ~AuthorAdmitted(c) /\ Says(c, 403)
          \/ /\ IsNew(c) /\ AuthorAdmitted(c)
             /\ old # None
             /\ IF SameVersion(c) /\ (bok => BoKRowAdmits(c))
                THEN Confirms(c, IF bok /\ resource[r.target] # None THEN 200 ELSE 201)
                ELSE Says(c, 409)
          \/ /\ IsNew(c) /\ AuthorAdmitted(c)
             /\ old = None
             /\ IF RowAdmits(c)
                THEN /\ req' = [req EXCEPT ![c].pc = "checked", ![c].seen =
                               IF resource[r.target] = None THEN 0 ELSE resource[r.target].stamp]
                     /\ UNCHANGED <<identity, resource, idem, audit, sent, effects,
                                    publication>>
                ELSE Says(c, 409)

\* Mutant: an upsert.
NeverOvertaken(c) == FALSE

\* A version or a catalog row that appeared since the read: the IntegrityError
\* of its primary key.
Overtaken(c) ==
    \/ publication[req[c].target] # None
    \/ req[c].seen = 0 /\ resource[req[c].target] # None

\* The insert of a version and of its catalog row.
Publishes(c, type, status) ==
    LET r == req[c]
        row == resource[r.target]
    IN \/ Overtaken(c) /\ Says(c, 409)
       \/ /\ ~Overtaken(c)
          /\ \/ /\ publication' = [publication EXCEPT ![r.target] = Published(c)]
                /\ resource' = [resource EXCEPT ![r.target] =
                     IF row = None
                     THEN Row(type, r.value.owner, status, r.value.content, FALSE)
                     ELSE [Touched(row, status, r.value.content) EXCEPT !.hidden = FALSE]]
                /\ CommitsAudited(c, 201)
                /\ UNCHANGED identity
             \/ AuditRefused(c) /\ UNCHANGED publication

publish_skill_version(c) ==
    At(c, "skills.publish", "checked") /\ Publishes(c, "skill", "published")

publish_bok_version(c) ==
    At(c, "bok.publish", "checked") /\ Publishes(c, "bok_collection", "active")

get_skill_version(c) ==
    LET id == req[c].target
    IN /\ At(c, "skills.get", "authorized")
       /\ Says(c, IF /\ publication[id] # None
                     /\ resource[id] # None
                     /\ resource[id].status # "inactive"
                  THEN 200 ELSE 404)

get_bok_version(c) ==
    /\ At(c, "bok.get", "authorized")
    /\ Says(c, IF publication[req[c].target] # None THEN 200 ELSE 404)

get_skill_status(c) ==
    LET id == req[c].target
    IN /\ At(c, "skills.status.get", "authorized")
       /\ Says(c, IF /\ publication[id] # None
                     /\ resource[id] # None
                     /\ resource[id].status \in {"active", "inactive"}
                  THEN 200 ELSE 404)

\* A status that is already there is answered as it is.
replace_skill_status(c) ==
    LET r == req[c]
        row == resource[r.target]
    IN /\ At(c, "skills.status.replace", "authorized")
       /\ \/ (publication[r.target] = None \/ row = None) /\ Says(c, 404)
          \/ /\ publication[r.target] # None /\ row # None
             /\ \/ row.stamp # r.seen /\ Says(c, 409)
                \/ row.stamp = r.seen /\ row.status = r.value /\ Says(c, 200)
                \/ /\ row.stamp = r.seen
                   /\ row.status # r.value
                   /\ Stores(c, r.target, Touched(row, r.value, row.content), 200)

-----------------------------------------------------------------------------
(* The consumption policy. *)

get_policy(c) ==
    /\ At(c, "consumption_limits.get", "authorized")
    /\ Says(c, IF resource["workspace"] = None THEN 503 ELSE 200)

\* The row is locked before its version is compared.
replace_policy(c) ==
    LET r == req[c]
        row == resource[r.target]
    IN /\ At(c, "consumption_limits.replace", "authorized")
       /\ \/ IsReplay(c) /\ Says(c, 200)
          \/ IsConflict(c) /\ Says(c, 409)
          \/ IsNew(c) /\ row = None /\ Says(c, 503)
          \/ IsNew(c) /\ row # None /\ row.stamp # r.seen /\ Says(c, 409)
          \/ /\ IsNew(c)
             /\ row # None
             /\ row.stamp = r.seen
             /\ Stores(c, r.target, Touched(row, "active", r.value), 200)

-----------------------------------------------------------------------------

CatalogInit == ControlInit /\ publication = InitPublication

CatalogStep(c) ==
    \/ create_alias(c) \/ list_aliases(c) \/ get_alias(c)
    \/ replace_alias_assignment(c) \/ replace_alias_status(c)
    \/ create_catalog_resource(c) \/ list_catalog_resources(c)
    \/ get_catalog_resource(c)
    \/ ReadPublication(c) \/ publish_skill_version(c) \/ publish_bok_version(c)
    \/ get_skill_version(c) \/ get_bok_version(c)
    \/ get_skill_status(c) \/ replace_skill_status(c)
    \/ get_policy(c) \/ replace_policy(c)

-----------------------------------------------------------------------------
(* Properties. *)

\* ck_resources_type, with the consumption policy, and ck_resources_status.
ResourceTypes ==
    {"llm_model", "mcp_server", "mcp_tool", "skill", "bok_collection",
     "administrative_control", "incident_workflow", "service_operation", "policy"}
ResourceStatuses ==
    {"registered", "draft", "published", "indexing", "active", "inactive", "revoked"}

Assignments == [alias : AliasNames, model : Models]
ResourceRow ==
    [type : ResourceTypes, owner : Principals \cup Resources \cup {None},
     status : ResourceStatuses, content : Assignments \cup Manifests \cup Documents,
     hidden : BOOLEAN, stamp : Nat]
VersionRow == [owner : Principals, content : Manifests, by : Nat]

\* What the migrations and the seeds leave.  Identifiers are told apart by table
\* and, among resources, by type: resources_pkey is (resource_type, resource_id).
ASSUME CatalogAssumption ==
    /\ Principals \cap Resources = {}
    /\ None \notin ResourceRow /\ None \notin VersionRow /\ None \in Documents
    /\ InitResource \in [Resources -> ResourceRow \cup {None}]
    /\ InitPublication \in [Resources -> VersionRow \cup {None}]
    /\ "workspace" \in Resources /\ TypeOf["workspace"] = "policy"
    /\ \A r \in Resources :
         /\ r \in {Area(op) : op \in Operations} => TypeOf[r] = "administrative_control"
         /\ InitResource[r] # None =>
              /\ InitResource[r].type = TypeOf[r]
              /\ TypeOf[r] = "llm_model" => InitResource[r].content \in Assignments
         /\ InitPublication[r] # None => TypeOf[r] \in {"skill", "bok_collection"}

\* The bodies that pass validation, and the paths they are sent to.
ASSUME CatalogInputs ==
    \A op \in Operations : \A in \in Inputs[op] :
        /\ op = "aliases.create" =>
              in[1] \in Resources /\ TypeOf[in[1]] = "llm_model" /\ in[2] \in Assignments
        /\ op = "aliases.assignment.replace" => in[1] \in Resources /\ in[2] \in Models
        /\ op \in {"aliases.status.replace", "skills.status.replace"} =>
              in[1] \in Resources /\ in[2] \in {"active", "inactive"}
        /\ op = "catalog.create" =>
              /\ in[1] \in Resources
              /\ in[2] \in [type : ResourceTypes, owner : Principals, status : ResourceStatuses,
                            content : Manifests \cup Documents, hidden : BOOLEAN]
              /\ in[2].type = TypeOf[in[1]]
              /\ TypeOf[in[1]] \in {"mcp_server", "mcp_tool", "skill", "bok_collection",
                                    "incident_workflow", "service_operation"}
        /\ op \in {"skills.publish", "bok.publish"} =>
              /\ in[1] \in Resources
              /\ TypeOf[in[1]] = IF op = "bok.publish" THEN "bok_collection" ELSE "skill"
              /\ in[2] \in [owner : Principals, content : Manifests]
        /\ op = "consumption_limits.replace" => in[1] = "workspace" /\ in[2] \in Documents

\* A version is published once, whoever races to publish it and under whatever
\* key, and what is stored is what that one request sent.
OnePublication ==
    \A e \in effects : e.op \in {"skills.publish", "bok.publish"} =>
        /\ publication[e.target] # None
        /\ publication[e.target].by = e.n
        /\ resource[e.target] # None
        /\ publication[e.target].owner = resource[e.target].owner
        /\ publication[e.target].content = resource[e.target].content
        /\ resource[e.target].status \in {"published", "active", "inactive"}
=============================================================================
