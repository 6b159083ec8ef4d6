----------------------------- MODULE UsageReads -----------------------------
(***************************************************************************)
(* What an administrator reads of the gateway's evidence: the aggregates   *)
(* of /v1/usage/consumption (gateway/usage.py) and the attributions of     *)
(* /v1/usage/requests (gateway/usage_requests.py), while calls go on.      *)
(*                                                                         *)
(* Reads change nothing that is read, so they are operators over the       *)
(* gateway's tables.  An aggregate is one statement.  The attributions are *)
(* read in a session after the one that selected the evidence: rows are    *)
(* never changed or deleted, so what an earlier statement selected is some *)
(* subset of what there is now.                                            *)
(***************************************************************************)
EXTENDS ModelGateway

-----------------------------------------------------------------------------
(* UsageReadProjection. *)

Evident == {n \in Calls : event[n] # None}

\* Exactly one selector: a request, an incident or a month.
Selectors ==
    {[by |-> "request", of |-> n] : n \in Calls}
    \cup {[by |-> "incident", of |-> i] : i \in Incidents}
    \cup {[by |-> "month", of |-> p] : p \in 1..MaxMonth}

\* The month of a request is that of its first event.
select_evidence(s) ==
    {n \in Evident : CASE s.by = "request" -> n = s.of
                       [] s.by = "incident" -> event[n].incident = s.of
                       [] s.by = "month" -> event[n].month = s.of}

Available(rows, availability) == {n \in rows : event[n].availability = availability}

\* Mutant: a partial usage counts as a known one.
StatusTrusting(known, incomplete, unknown) == IF unknown = {} THEN "complete" ELSE "partial"

CoverageStatus(known, incomplete, unknown) ==
    CASE unknown # {} -> IF known = {} /\ incomplete = {} THEN "unknown" ELSE "partial"
      [] unknown = {} /\ incomplete # {} -> "partial"
      [] OTHER -> "complete"

\* A price version is the second in which the provider created the response.
PriceVersions(known, oneSecond) ==
    IF oneSecond /\ known # {} THEN {0} ELSE known

_totals(known, complete, oneSecond) ==
    [tokens |-> IF complete THEN SumFunctionOnSet([n \in known |-> event[n].tokens], known) ELSE None,
     amount |-> IF complete /\ Cardinality(PriceVersions(known, oneSecond)) = 1
                THEN SumFunctionOnSet([n \in known |-> event[n].usd], known) ELSE None]

\* One event per request: the gateway mints a request's id, so its evidence has
\* nothing to reconcile.
_aggregate(rows, oneSecond) ==
    LET known == Available(rows, "complete")
        incomplete == Available(rows, "partial")
        status == CoverageStatus(known, incomplete, rows \ (known \cup incomplete))
    IN [count |-> Cardinality(rows), status |-> status,
        totals |-> _totals(known, status = "complete" /\ rows # {}, oneSecond)]

-----------------------------------------------------------------------------
(* read_requests. *)

\* A snapshot must be linked to evidence of an invocation.
Linked(n) == attribution[n] # None => event[n].stage \in {"response", "upstream"}

\* Without a snapshot a request that was refused is unavailable, and one that
\* was invoked dates from before there were snapshots.
attribution_status(n) ==
    IF attribution[n] = None
    THEN IF event[n].stage = "refused" THEN "unavailable" ELSE "legacy"
    ELSE IF attribution[n].credited THEN "available" ELSE "partial"

\* The items, or a 503 without any when one of them is malformed.
project_items(rows) ==
    IF \A n \in rows : Linked(n)
    THEN [code |-> 200, items |-> {[request |-> n, status |-> attribution_status(n),
                                    usd |-> event[n].usd] : n \in rows}]
    ELSE [code |-> 503, items |-> {}]

\* Every selection a request may have made at some time before this one.
read_requests == {project_items(rows) : rows \in SUBSET Evident}

-----------------------------------------------------------------------------
(* Properties. *)

\* A cost that is reported is exactly what the provider charged for the requests
\* of its scope, over all their attempts, and a request that was invoked is
\* never taken for one from before attribution, or for one that was refused,
\* whatever commits between the two reads.
UsageExact ==
    /\ \A s \in Selectors :
         LET rows == select_evidence(s)
         IN rows # {} => \A oneSecond \in BOOLEAN :
              LET totals == _aggregate(rows, oneSecond).totals
              IN totals.amount # None =>
                   /\ totals.amount = SumFunctionOnSet([n \in rows |-> charge[n].usd], rows)
                   /\ totals.tokens = SumFunctionOnSet([n \in rows |-> charge[n].tokens], rows)
    /\ \A answer \in read_requests :
         /\ answer.code = 200
         /\ \A item \in answer.items :
              /\ item.status # "legacy"
              /\ item.request \in told => item.status = "available"
=============================================================================
