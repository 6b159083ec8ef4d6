--------------------------- MODULE EvidenceSources ---------------------------
(***************************************************************************)
(* Where the investigator's evidence comes from, as functions of what the  *)
(* far end answers: a tool of the Grafana MCP behind the governed gateway  *)
(* (gateway/mcp.py), the change history (gateway/changes.py) and the BoK,  *)
(* each read through the investigator's HTTP client                        *)
(* (investigator/client.py).  An HTTP answer keeps its status, the error   *)
(* code a client reads and the result a 200 carries.                       *)
(***************************************************************************)
EXTENDS Integers, Sequences

MCP_TOOLS == {"query_prometheus", "query_elasticsearch"}
CHANGES_TOOL == "midnight_recent_changes"

Answer(status, code, result) ==
    [status |-> status, code |-> code, result |-> result]
None == "none"

(***************************************************************************)
(* The MCP server's reply to tools/call: the JSON-RPC envelope, the tool's *)
(* own error flag, whether its first text is JSON, and the value it holds. *)
(* "sample" is one (time, value) pair, "mistyped" a value whose resultType *)
(* is not of its shape, "malformed" a value of no known shape or past the  *)
(* contract's limits.                                                      *)
(***************************************************************************)
Values == {"data", "no_data", "sample", "mistyped", "malformed"}
Reply(rpc, tool, content, value) ==
    [rpc |-> rpc, tool |-> tool, content |-> content, value |-> value]
Replies ==
    {Reply("error", "ok", "json", "data"), Reply("ok", "error", "json", "data"),
     Reply("ok", "ok", "unreadable", "data")}
        \cup {Reply("ok", "ok", "json", value) : value \in Values}

\* MCPGatewayService._unwrap_upstream: what is left of a reply, or its reason.
_unwrap_upstream(raw) ==
    CASE raw.rpc = "error" -> "mcp_rpc_error"
      [] raw.tool = "error" -> "mcp_tool_error"
      [] raw.content = "unreadable" -> "mcp_content_invalid"
      [] OTHER -> raw.value

\* PrometheusResult: a sample has a scalar type, and the rest is a list.
PrometheusResult(value) ==
    IF value \in {"data", "no_data", "sample"} THEN value ELSE "mcp_result_invalid"

\* ElasticsearchResult: a total and a list of documents; a pair is no document.
ElasticsearchResult(value) ==
    IF value \in {"data", "no_data"} THEN value ELSE "mcp_result_invalid"

_map_result(tool, raw) ==
    LET payload == _unwrap_upstream(raw)
    IN IF payload \notin Values THEN payload
       ELSE IF tool = "query_prometheus" THEN PrometheusResult(payload)
       ELSE ElasticsearchResult(payload)

\* The transport either loses the call or brings a reply.
_post_rpc == [kind : {"timeout", "unavailable"}] \cup [kind : {"reply"}, raw : Replies]

Public(tool, rpc) ==
    CASE rpc.kind = "timeout" -> Answer(504, "upstream_timeout", None)
      [] rpc.kind = "unavailable" -> Answer(503, "upstream_unavailable", None)
      [] OTHER ->
            LET mapped == _map_result(tool, rpc.raw)
            IN IF mapped \in Values THEN Answer(200, None, mapped)
               ELSE Answer(502, "upstream_invalid", None)

\* _audited: an answer whose audit event is refused is withheld.
_audited(answer) == {answer, Answer(503, "audit_unavailable", None)}

(***************************************************************************)
(* MCPGatewayService.invoke: authorization, then the owner's contract,     *)
(* then the arguments, then one upstream call.  `allowed` and `valid` are  *)
(* the decision and whether the arguments fit the tool's schema.           *)
(***************************************************************************)
invoke(tool, allowed, valid) ==
    LET unavailable == Answer(403, "resource_unavailable", None)
    IN {Answer(401, "authentication_failed", None), unavailable}
        \cup (IF ~allowed THEN _audited(unavailable)
              ELSE IF ~valid
                   THEN _audited(Answer(422, "contract_validation_failed", None))
              ELSE UNION {_audited(Public(tool, rpc)) : rpc \in _post_rpc})

(***************************************************************************)
(* ChangeEventsService.list, as the client's two reads see it.             *)
(***************************************************************************)
list_changes(allowed, valid) ==
    {Answer(401, "authentication_failed", None), Answer(503, "storage_unavailable", None)}
        \cup (IF ~allowed THEN {Answer(403, "not_authorized", None)}
              ELSE IF ~valid THEN {Answer(422, "contract_validation_failed", None)}
              ELSE {Answer(200, None, "data"), Answer(200, None, "no_data")})

\* What never arrives has no status.
Lost == Answer(0, None, None)

(***************************************************************************)
(* The client's classification of an answer: evidence, or the kind of      *)
(* EvidenceUnavailable with the status and code the loop looks at.         *)
(***************************************************************************)
Evidence(source, empty, data) ==
    [source |-> source, empty |-> empty, data |-> data]
Unavailable(kind, status, code) ==
    [kind |-> kind, status |-> status, code |-> code]

_raise_error(answer) ==
    LET kind == CASE answer.status \in {401, 403} -> "denied"
                  [] answer.status >= 500 -> "transient"
                  [] OTHER -> "rejected"
    IN Unavailable(kind, answer.status, answer.code)

\* _changes never says empty: a history without a change counts as data too.
\* A 200 whose correlation header or body the client cannot read is rejected.
Unreadable == Unavailable("rejected", 200, None)

collect(tool, answer, readable) ==
    IF answer = Lost THEN Unavailable("transient", 0, None)
    ELSE IF tool = CHANGES_TOOL
    THEN CASE answer.status = 422 -> Unavailable("rejected", 0, "upstream_invalid")
           [] answer.status # 200 -> _raise_error(answer)
           [] ~readable -> Unavailable("rejected", 0, None)
           [] OTHER -> Evidence("change-events", FALSE, TRUE)
    ELSE CASE answer.status # 200 -> _raise_error(answer)
           [] ~readable -> Unreadable
           [] OTHER -> Evidence("grafana-mcp", answer.result = "no_data",
                                answer.result # "no_data")

\* Every way one call of a tool can end for the loop: an answer, or its own clock.
ToolOutcomes(tool, allowed, valid) ==
    LET answers == IF tool = CHANGES_TOOL THEN list_changes(allowed, valid)
                   ELSE invoke(tool, allowed, valid)
    IN {collect(tool, answer, readable) : answer \in answers \cup {Lost},
                                          readable \in BOOLEAN}
        \cup {Unavailable("timeout", 0, None)}

(***************************************************************************)
(* The three ports of the model gateway: POST /v1/responses, the           *)
(* resolution of a Skill and a search of the BoK.  Each classifies an      *)
(* answer as usable, denied, transient or rejected; resolve alone reads    *)
(* the single 404 as denied.                                               *)
(***************************************************************************)
GatewayStatuses == {0, 200, 401, 403, 404, 422, 429, 500, 503}

Classified(status, denying, usable) ==
    CASE status \in denying -> "denied"
      [] status = 0 \/ status >= 500 -> "transient"
      [] status # 200 \/ ~usable -> "rejected"
      [] OTHER -> "usable"

respond(status, usable) == Classified(status, {401, 403}, usable)
resolve(status, usable) == Classified(status, {401, 403, 404}, usable)
search(status, usable) == Classified(status, {401, 403}, usable)

Kinds(port(_, _)) == {port(status, usable) : status \in GatewayStatuses, usable \in BOOLEAN}
=============================================================================
