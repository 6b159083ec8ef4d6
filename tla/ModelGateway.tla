---------------------------- MODULE ModelGateway ----------------------------
(***************************************************************************)
(* POST /v1/responses: the governed model call and the budget it is        *)
(* admitted against (gateway/responses.py, consumption_admission.py,       *)
(* consumption_affordability.py, endpoint_catalog.py, openrouter.py).      *)
(*                                                                         *)
(* Admission takes a month lock and an incident lock, then reads its       *)
(* balances one statement at a time under READ COMMITTED, so each read is  *)
(* an action; it books the worst case of the call and commits.  Settlement *)
(* takes neither lock.  The provider may charge a call whatever it answers.*)
(* A process may die at any point, and the transaction it had open is gone.*)
(***************************************************************************)
EXTENDS Integers, Sequences, FiniteSets, FiniteSetsExt

CONSTANTS
    Clients,        \* requests in flight at once
    Incidents,      \* incidents a caller may name
    Models,         \* concrete models an alias may be assigned to
    Pinned,         \* the inference provider of every assignment
    Endpoints,      \* model -> what the endpoint catalog lists for it
    InputTokens,    \* text_input_bound of a request
    Policies,       \* the [tokens, usd] limits an administrator may set
    FreeOutput,     \* bound: the longest output of a call without a cap
    MaxCalls,       \* bound: calls in one behaviour
    MaxMonth,       \* bound: months
    None            \* an absent row, limit, price, cap or answer

ASSUME GatewayAssumption ==
    /\ MaxCalls \in Nat /\ MaxMonth \in Nat \ {0}
    /\ InputTokens \in Nat \ {0} /\ FreeOutput \in Nat
    /\ Policies \subseteq [tokens : Nat \cup {None}, usd : Nat \cup {None}]

VARIABLES
    policy,         \* the consumption policy: version, tokens, usd
    month,          \* the UTC month
    reservation,    \* reservation_id (the request's) -> its row
    event,          \* request -> its accepted audit event
    attribution,    \* request -> its attribution: the model called, and credited
    call,           \* the request each client has in flight
    sent,           \* calls sent so far; it numbers them
    charge,         \* history: what the provider charged for each request
    told,           \* history: the requests that were answered 200
    raced           \* history: a settlement fell between the reads of one sum

gvars == <<policy, month, reservation, event, attribution, call, sent, charge, told, raced>>

Calls == 1..MaxCalls

\* The rows of the tables, and the body of a usage.
PolicyRow == [version : Nat, tokens : Nat \cup {None}, usd : Nat \cup {None}]
ReservationRow ==
    [incident : Incidents \cup {None}, period : 1..MaxMonth, version : Nat, model : Models,
     tokenExposure : Nat \cup {None}, usdExposure : Nat \cup {None},
     settledTokens : Nat \cup {None}, settledUsd : Nat \cup {None},
     state : {"reserved", "settled"}]
EventRow ==
    [ok : BOOLEAN, stage : {"refused", "upstream", "response"},
     incident : Incidents \cup {None}, month : 1..MaxMonth,
     availability : {"absent", "partial", "complete"}, complete : BOOLEAN,
     tokens : Nat, usd : Nat, model : Models \cup {None}]
AttributionRow == [model : Models, credited : BOOLEAN]
UsageBody == [input : Nat, output : Nat, total : Nat, cost : Nat \cup {None}]

\* None is nothing that could stand in its place.
ASSUME NoneAssumption ==
    /\ None \notin Int \cup Models \cup Incidents
    /\ None \notin PolicyRow /\ None \notin ReservationRow /\ None \notin EventRow
    /\ None \notin AttributionRow /\ None \notin UsageBody

-----------------------------------------------------------------------------
(* The endpoint catalog: prices and capacities of the routed model. *)

MaxOrNone(values) == IF None \in values THEN None ELSE Max(values)
MinOrNone(values) == IF None \in values THEN None ELSE Min(values)

\* _endpoint_metadata: a missing limit is the context window's, a missing fee 0.
_endpoint_metadata(raw) ==
    [prompt |-> IF raw.prompt = None THEN raw.context ELSE raw.prompt,
     completion |-> IF raw.completion = None THEN raw.context ELSE raw.completion,
     context |-> raw.context,
     promptPrice |-> raw.promptPrice, completionPrice |-> raw.completionPrice,
     fee |-> IF raw.fee = None THEN 0 ELSE raw.fee]

EndpointMetadata ==
    [prompt : Nat \ {0}, completion : Nat \ {0}, context : (Nat \ {0}) \cup {None},
     promptPrice : Nat \cup {None}, completionPrice : Nat \cup {None}, fee : Nat]

\* What a catalog that is not refused lists: positive capacities, no negative price.
ASSUME CatalogAssumption ==
    \A model \in Models :
        /\ IsFiniteSet(Endpoints[model])
        /\ \A raw \in Endpoints[model] : _endpoint_metadata(raw) \in EndpointMetadata

\* The pinned provider's endpoints; the router may send a call to any of them.
Matches(model) ==
    {_endpoint_metadata(raw) : raw \in {e \in Endpoints[model] : e.provider = Pinned}}

\* The highest prices and input bound, the lowest output cap.
_most_conservative(matches) ==
    [prompt |-> Max({e.prompt : e \in matches}),
     completion |-> Min({e.completion : e \in matches}),
     context |-> MinOrNone({e.context : e \in matches}),
     promptPrice |-> MaxOrNone({e.promptPrice : e \in matches}),
     completionPrice |-> MaxOrNone({e.completionPrice : e \in matches}),
     fee |-> Max({e.fee : e \in matches})]

select(model) == _most_conservative(Matches(model))

-----------------------------------------------------------------------------
(* calculate_affordability: the output cap the balances justify. *)

\* The largest number of tokens `available` pays for, by bisection.
_affordable_output_tokens(available, price, ceiling) ==
    LET search[range \in (0..ceiling) \X (0..ceiling)] ==
            LET low == range[1]
                high == range[2]
                candidate == (low + high + 1) \div 2
            IN IF low >= high THEN low
               ELSE IF price * candidate <= available
               THEN search[<<candidate, high>>]
               ELSE search[<<low, candidate - 1>>]
    IN search[<<0, ceiling>>]

\* The worst case of the input, and what is left of the month after it.
_input_bound(endpoint) == Min({InputTokens, endpoint.prompt})
_fixed_cost(endpoint) == endpoint.promptPrice * _input_bound(endpoint) + endpoint.fee

_output_ceiling(endpoint, tokens, usd) ==
    Min({endpoint.completion}
        \cup (IF endpoint.context = None THEN {}
              ELSE {endpoint.context - _input_bound(endpoint)})
        \cup (IF tokens = None THEN {} ELSE {tokens - _input_bound(endpoint)})
        \cup (IF usd = None \/ endpoint.completionPrice = 0 THEN {}
              ELSE {_affordable_output_tokens(usd - _fixed_cost(endpoint),
                        endpoint.completionPrice, endpoint.completion)}))

\* None stands for AffordabilityDenied.
calculate_affordability(endpoint, tokens, usd) ==
    IF \/ tokens # None /\ tokens < 0
       \/ usd # None /\ (usd < 0 \/ usd < _fixed_cost(endpoint))
    THEN None
    ELSE LET ceiling == _output_ceiling(endpoint, tokens, usd)
         IN IF ceiling <= 0 THEN None ELSE ceiling

\* The exposure a reservation books.
token_exposure(endpoint, cap) == _input_bound(endpoint) + cap
usd_exposure(endpoint, cap) == _fixed_cost(endpoint) + cap * endpoint.completionPrice

-----------------------------------------------------------------------------
(* What the balances are read from. *)

OfMonth(p, state) ==
    {n \in Calls : /\ reservation[n] # None
                   /\ reservation[n].period = p
                   /\ reservation[n].state = state}

OfIncident(i, p, state) == {n \in OfMonth(p, state) : reservation[n].incident = i}

Amount(v) == IF v = None THEN 0 ELSE v      \* SUM skips NULL

_incident_sum(i, p, state) ==
    LET rows == OfIncident(i, p, state)
    IN SumFunctionOnSet([n \in rows |->
            Amount(IF state = "settled" THEN reservation[n].settledTokens
                   ELSE reservation[n].tokenExposure)], rows)

_period_sum(p, state) ==
    LET rows == OfMonth(p, state)
    IN SumFunctionOnSet([n \in rows |->
            Amount(IF state = "settled" THEN reservation[n].settledUsd
                   ELSE reservation[n].usdExposure)], rows)

\* The USD of this request is its reservation's to account for.
OwnsUsage(n) ==
    /\ reservation[n] # None
    /\ \/ reservation[n].state = "reserved" /\ reservation[n].usdExposure # None
       \/ reservation[n].state = "settled" /\ reservation[n].settledUsd # None

\* Mutant: every audited success counts, whether a reservation has it or not.
LegacyAll(p) ==
    {n \in Calls : event[n] # None /\ event[n].ok /\ event[n].complete /\ event[n].month = p}

\* The audited successes no reservation accounts for.
Legacy(p) ==
    {n \in Calls : /\ event[n] # None
                   /\ event[n].ok
                   /\ event[n].complete
                   /\ event[n].month = p
                   /\ ~OwnsUsage(n)}

_legacy_usage(p) == SumFunctionOnSet([n \in Legacy(p) |-> event[n].usd], Legacy(p))

-----------------------------------------------------------------------------
(* Requests. *)

NoCall ==
    [n |-> 0, pc |-> "idle", incident |-> None, model |-> None, period |-> 0,
     policy |-> None, tokens |-> None, usd |-> None, cap |-> None,
     reserved |-> FALSE, tries |-> 0, result |-> None]

Step(c, pc) == call' = [call EXCEPT ![c].pc = pc]

\* The event of a request that never reached the provider.
Refusal(incident, model) ==
    [ok |-> FALSE, stage |-> "refused", incident |-> incident, month |-> month,
     availability |-> "absent", complete |-> FALSE, tokens |-> 0, usd |-> 0, model |-> model]

\* _finish without attribution: the refusal is told, or 503 audit_unavailable.
\* Neither leaves anything an admission counts.
RefusalKept(n, incident, model) ==
    event' \in {event, [event EXCEPT ![n] = Refusal(incident, model)]}

Refuse(c) ==
    /\ RefusalKept(call[c].n, call[c].incident, call[c].model)
    /\ call' = [call EXCEPT ![c] = NoCall]
    /\ UNCHANGED <<policy, month, reservation, attribution, sent, charge, told, raced>>

\* Validation, authentication and the invoke grant (422, 401, 403, 503), then
\* the alias, which may have been reassigned or withdrawn since the last call;
\* now() is read as admission is called.
create(c) ==
    /\ call[c].pc = "idle"
    /\ sent < MaxCalls
    /\ sent' = sent + 1
    /\ \/ RefusalKept(sent + 1, None, None) /\ UNCHANGED call
       \/ UNCHANGED event /\ \E i \in Incidents \cup {None}, m \in Models :
            call' = [call EXCEPT ![c] = [NoCall EXCEPT !.n = sent + 1, !.pc = "routed",
                        !.incident = i, !.model = m, !.period = month]]
    /\ UNCHANGED <<policy, month, reservation, attribution, charge, told, raced>>

-----------------------------------------------------------------------------
(* ConsumptionAdmissionService.admit. *)

InMonth == {"month", "incident settled", "incident reserved", "legacy",
            "settled", "reserved", "book"}
InIncident == InMonth \ {"month"}

\* Mutant: admissions of one month do not wait for each other.
MonthUnlocked(p) == TRUE

MonthFree(p) == \A d \in Clients : call[d].pc \in InMonth => call[d].period # p
IncidentFree(i) == \A d \in Clients : call[d].pc \in InIncident => call[d].incident # i

lock_month(c) ==
    /\ call[c].pc = "routed"
    /\ MonthFree(call[c].period)
    /\ Step(c, "month")
    /\ UNCHANGED <<policy, month, reservation, event, attribution, sent, charge, told, raced>>

Limited(p) == p.tokens # None \/ p.usd # None

\* The incident's lock, the policy in force, and the routed model's endpoints
\* when a limit needs them: an unreachable or stale catalog denies the call.
lock_incident(c) ==
    LET model == call[c].model
    IN /\ call[c].pc = "month"
       /\ call[c].incident = None \/ IncidentFree(call[c].incident)
       /\ \/ policy = None /\ Refuse(c)
          \/ /\ policy # None
             /\ ~Limited(policy)
             /\ call' = [call EXCEPT ![c].pc = "admitted", ![c].policy = policy]
             /\ UNCHANGED <<policy, month, reservation, event, attribution, sent,
                            charge, told, raced>>
          \/ policy # None /\ Limited(policy) /\ Refuse(c)     \* fetch fails
          \/ /\ policy # None
             /\ Limited(policy)
             /\ Matches(model) # {}
             /\ call' = [call EXCEPT ![c].policy = policy,
                    ![c].pc = IF policy.tokens # None /\ call[c].incident # None
                              THEN "incident settled"
                              ELSE IF policy.usd # None THEN "legacy" ELSE "book"]
             /\ UNCHANGED <<policy, month, reservation, event, attribution, sent,
                            charge, told, raced>>

\* One SELECT of a balance: what it found is taken off what is left.
Reads(c, at, next, field, left) ==
    /\ call[c].pc = at
    /\ call' = [call EXCEPT ![c].pc = next, ![c][field] = left]
    /\ UNCHANGED <<policy, month, reservation, event, attribution, sent, charge, told, raced>>

_incident_remaining(c) ==
    \/ Reads(c, "incident settled", "incident reserved", "tokens",
             call[c].policy.tokens
               - _incident_sum(call[c].incident, call[c].period, "settled"))
    \/ Reads(c, "incident reserved", IF call[c].policy.usd # None THEN "legacy" ELSE "book",
             "tokens", call[c].tokens
               - _incident_sum(call[c].incident, call[c].period, "reserved"))

_monthly_remaining(c) ==
    \/ Reads(c, "legacy", "settled", "usd",
             call[c].policy.usd - _legacy_usage(call[c].period))
    \/ Reads(c, "settled", "reserved", "usd",
             call[c].usd - _period_sum(call[c].period, "settled"))
    \/ Reads(c, "reserved", "book", "usd",
             call[c].usd - _period_sum(call[c].period, "reserved"))

Priced(endpoint) == endpoint.promptPrice # None /\ endpoint.completionPrice # None

\* The cap, or None when the call is not affordable or has no known bound.
Affordable(c) ==
    LET endpoint == select(call[c].model)
    IN IF call[c].policy.usd # None /\ ~Priced(endpoint) THEN None
       ELSE calculate_affordability(endpoint, call[c].tokens, call[c].usd)

Booking(c, cap) ==
    LET endpoint == select(call[c].model)
    IN [incident |-> call[c].incident, period |-> call[c].period,
        version |-> call[c].policy.version, model |-> call[c].model,
        tokenExposure |-> IF call[c].policy.tokens # None
                          THEN token_exposure(endpoint, cap) ELSE None,
        usdExposure |-> IF call[c].policy.usd # None
                        THEN usd_exposure(endpoint, cap) ELSE None,
        settledTokens |-> None, settledUsd |-> None, state |-> "reserved"]

\* The reservation and its commit; an incident that does not exist breaks its
\* foreign key.
book(c) ==
    LET cap == Affordable(c)
    IN /\ call[c].pc = "book"
       /\ \/ (cap = None \/ call[c].incident # None) /\ Refuse(c)
          \/ /\ cap # None
             /\ reservation' = [reservation EXCEPT ![call[c].n] = Booking(c, cap)]
             /\ call' = [call EXCEPT ![c].pc = "admitted", ![c].cap = cap,
                                     ![c].reserved = TRUE, ![c].tokens = None,
                                     ![c].usd = None]
             /\ UNCHANGED <<policy, month, event, attribution, sent, charge, told, raced>>

-----------------------------------------------------------------------------
(* The router's evidence, and what of it is accepted. *)

\* How a call may have been served: by the pinned provider at once, after a
\* retry inside it, or through a fallback nobody asked for; possibly under the
\* dated name of the model.
At(provider, model) == [provider |-> provider, model |-> model]
Dated(model) == <<model, "dated">>
Paths(model) ==
    {<<At(Pinned, model)>>, <<At(Pinned, Dated(model))>>,
     <<At(Pinned, model), At(Pinned, model)>>,
     <<At("other", model), At(Pinned, model)>>,
     <<At(Pinned, model), At("other", model)>>, <<At("other", model)>>}

\* No dated name is missing, and no path.
ASSUME PathsAssumption ==
    \A model \in Models : Dated(model) # None /\ None \notin Paths(model)

Last(path) == path[Len(path)]

\* Metadata names the endpoints selected, and the attempts or none of them.
Metadata(path) ==
    [attempt : {Len(path)}, selected : {path, <<Last(path)>>}, attempts : {path, None}]

_matches_provider(evidence) == evidence.provider = Pinned

\* Mutant: only the endpoint that answered is looked at.
SelectedLast(meta) ==
    IF _matches_provider(Last(meta.selected)) THEN Last(meta.selected).model ELSE None

\* The model that served, or None when the evidence is not closed: every
\* attempt and selected endpoint names the provider and one and the same model.
_selected_model(meta) ==
    LET count == IF meta.attempts = None THEN 1 ELSE Len(meta.attempts)
        selected == IF meta.attempts = None /\ Len(meta.selected) # 1
                    THEN <<>> ELSE meta.selected
        agrees(item) == _matches_provider(item) /\ item.model = selected[1].model
    IN IF /\ selected # <<>>
          /\ meta.attempt = count
          /\ \A i \in 1..Len(selected) : agrees(selected[i])
          /\ meta.attempts # None =>
               \A i \in 1..Len(meta.attempts) : agrees(meta.attempts[i])
       THEN selected[1].model
       ELSE None

\* The public catalog lists the dated name of a model once, or not at all.
_catalog_confirms_selected_model(selected, model) ==
    Cardinality({e \in Endpoints[model] :
                    e.provider = Pinned /\ e.dated /\ selected = Dated(model)}) = 1

\* What the adapter makes of a call that was served along a path.
Judged(model, path, meta) ==
    LET selected == _selected_model(meta)
    IN [model |-> IF \/ selected = model
                     \/ _catalog_confirms_selected_model(selected, model)
                  THEN selected ELSE None,
        honest |-> /\ \A i \in 1..Len(path) : _matches_provider(path[i])
                   /\ selected = Last(path).model]

Evidences(model) ==
    UNION {{Judged(model, path, meta) : meta \in Metadata(path)} : path \in Paths(model)}

\* The usage of a body: absent, or with fields that may be missing or wrong.
Usages(in, out, cost) ==
    {None,
     [input |-> in, output |-> out, total |-> in + out, cost |-> cost],
     [input |-> in, output |-> out, total |-> in + out, cost |-> None],
     [input |-> in, output |-> out, total |-> in + out + 1, cost |-> cost]}

\* "complete" asks for every field and a total that adds up.
_consumption(usage) ==
    IF usage = None THEN "absent"
    ELSE IF usage.cost # None /\ usage.total = usage.input + usage.output
    THEN "complete" ELSE "partial"

NoUsage == [input |-> 0, output |-> 0, total |-> 0, cost |-> 0]

\* Whether a failure says that the provider did any work.
Charged(usage) == usage # None /\ usage # NoUsage

-----------------------------------------------------------------------------
(* The provider and its answers. *)

\* What one attempt may cost: at any endpoint of the pinned provider, the
\* request's own text and the longest output its cap and the endpoint allow.
Costs(c) ==
    {LET in == _input_bound(e)
         out == Min({e.completion, IF call[c].cap = None THEN FreeOutput ELSE call[c].cap})
     IN [in |-> in, out |-> out, tokens |-> in + out,
         usd |-> Amount(e.promptPrice) * in + e.fee + out * Amount(e.completionPrice)] :
        e \in Matches(call[c].model)}

Result(kind, http, fast, credited, usage) ==
    [kind |-> kind, http |-> http, fast |-> fast, credited |-> credited, availability |-> _consumption(usage),
     charged |-> Charged(usage), tokens |-> IF usage = None THEN None ELSE usage.total,
     usd |-> IF usage = None THEN None ELSE usage.cost]

Charges(n, cost, honest) ==
    charge' = [charge EXCEPT ![n].tokens = @ + cost.tokens, ![n].usd = @ + cost.usd,
                             ![n].honest = honest]

\* Mutant: a timeout is sent again too.
RetriesTimeout(tries, result) == tries = 0 /\ result.kind \in {"unavailable", "timeout"}

\* _provider_create: once, and only a fast HTTP 503 that reports no usage.
Retries(tries, result) ==
    tries = 0 /\ result.http = 503 /\ result.fast /\ ~result.charged

\* What the handler keeps of the last attempt.
Kept(result) ==
    [ok |-> result.kind = "ok", credited |-> result.credited, availability |-> result.availability,
     complete |-> result.availability = "complete",
     tokens |-> IF result.availability = "complete" THEN result.tokens ELSE 0,
     usd |-> IF result.availability = "complete" THEN result.usd ELSE 0]

Received(c, result) ==
    call' = [call EXCEPT ![c].tries = 1,
        ![c].pc = IF Retries(call[c].tries, result) THEN "admitted" ELSE "answered",
        ![c].result = IF Retries(call[c].tries, result) THEN None ELSE Kept(result)]

\* A 2xx body: OpenRouterProvider.create returns a result or names the fault.
answers(c) ==
    \E cost \in Costs(c), served \in Evidences(call[c].model), sound \in BOOLEAN :
    \E usage \in Usages(cost.in, cost.out, cost.usd) :
        LET kind == IF served.model = None THEN "evidence_invalid"
                    ELSE IF sound THEN "ok" ELSE "invalid_response"
        IN /\ Charges(call[c].n, cost, served.model # None => served.honest)
           /\ Received(c, Result(kind, 200, TRUE, served.model # None, usage))

\* An HTTP error: a 503 that reports no usage did no work, one that does did.
fails(c) ==
    \E kind \in {"unavailable", "invalid_response"}, fast \in BOOLEAN :
        \/ /\ Received(c, Result(kind, 503, fast, FALSE, NoUsage))
           /\ kind = "unavailable"
           /\ UNCHANGED charge
        \/ \E cost \in Costs(c) : \E usage \in Usages(cost.in, cost.out, cost.usd) \ {None} :
             /\ Charges(call[c].n, cost, TRUE)
             /\ Received(c, Result(kind, IF kind = "unavailable" THEN 503 ELSE 400,
                                   fast, FALSE, usage))

\* No answer in time: the provider may have done the work.
times_out(c) ==
    /\ Received(c, Result("timeout", 0, FALSE, FALSE, None))
    /\ \/ UNCHANGED charge
       \/ \E cost \in Costs(c) : Charges(call[c].n, cost, TRUE)

\* The assignment does not make a ProviderRequest: its identifiers were stored
\* before the rules they break.  What was booked for the call stays booked.
refuse_request(c) ==
    /\ call[c].pc = "admitted"
    /\ call[c].tries = 0
    /\ Refuse(c)

provider_create(c) ==
    /\ call[c].pc = "admitted"
    /\ answers(c) \/ fails(c) \/ times_out(c)
    /\ UNCHANGED <<policy, month, reservation, event, attribution, sent, told, raced>>

-----------------------------------------------------------------------------
(* Settlement and the audited answer. *)

\* An admission is between two sums that together stand for one balance.
BetweenSums(n) ==
    \E d \in Clients :
        /\ call[d].pc \in {"incident reserved", "reserved"}
        /\ call[d].period = reservation[n].period

Settled(n, result) ==
    [reservation EXCEPT ![n].state = "settled", ![n].settledTokens = result.tokens,
                        ![n].settledUsd = result.usd]

\* _settle_exact: complete usage settles; a failure to store it is ignored.
_settle_exact(c) ==
    /\ call[c].pc = "answered"
    /\ Step(c, "accounted")
    /\ \/ /\ call[c].reserved
          /\ call[c].result.complete
          /\ reservation' = Settled(call[c].n, call[c].result)
          /\ raced' = (raced \/ BetweenSums(call[c].n))
       \/ UNCHANGED <<reservation, raced>>
    /\ UNCHANGED <<policy, month, event, attribution, sent, charge, told>>

\* append_response: the event and the attribution are one transaction.
Evidence(c) ==
    [ok |-> call[c].result.ok,
     stage |-> IF call[c].result.ok THEN "response" ELSE "upstream",
     incident |-> call[c].incident, month |-> month,
     availability |-> call[c].result.availability, complete |-> call[c].result.complete,
     tokens |-> call[c].result.tokens, usd |-> call[c].result.usd, model |-> call[c].model]

append_response(c) ==
    /\ event' = [event EXCEPT ![call[c].n] = Evidence(c)]
    /\ attribution' = [attribution EXCEPT ![call[c].n] =
                          [model |-> call[c].model, credited |-> call[c].result.credited]]

_finish(c) ==
    /\ call[c].pc = "accounted"
    /\ \/ /\ append_response(c)
          /\ told' = IF call[c].result.ok THEN told \cup {call[c].n} ELSE told
       \/ UNCHANGED <<event, attribution, told>>        \* 503 audit_unavailable
    /\ call' = [call EXCEPT ![c] = NoCall]
    /\ UNCHANGED <<policy, month, reservation, sent, charge, raced>>

-----------------------------------------------------------------------------
(* The surroundings. *)

\* The process dies: locks and an uncommitted transaction go with it.
Crash(c) ==
    /\ call[c].pc # "idle"
    /\ call' = [call EXCEPT ![c] = NoCall]
    /\ UNCHANGED <<policy, month, reservation, event, attribution, sent, charge, told, raced>>

replace_policy ==
    /\ policy # None
    /\ \E limits \in Policies :
         policy' = [version |-> policy.version + 1, tokens |-> limits.tokens,
                    usd |-> limits.usd]
    /\ policy.version < 2
    /\ UNCHANGED <<month, reservation, event, attribution, call, sent, charge, told, raced>>

MonthEnds ==
    /\ month < MaxMonth
    /\ month' = month + 1
    /\ UNCHANGED <<policy, reservation, event, attribution, call, sent, charge, told, raced>>

GatewayInit ==
    /\ \/ policy = None
       \/ \E limits \in Policies :
            policy = [version |-> 1, tokens |-> limits.tokens, usd |-> limits.usd]
    /\ month = 1
    /\ reservation = [n \in Calls |-> None]
    /\ event = [n \in Calls |-> None]
    /\ attribution = [n \in Calls |-> None]
    /\ call = [c \in Clients |-> NoCall]
    /\ sent = 0
    /\ charge = [n \in Calls |-> [tokens |-> 0, usd |-> 0, honest |-> TRUE]]
    /\ told = {}
    /\ raced = FALSE

admit(c) ==
    \/ lock_month(c) \/ lock_incident(c) \/ _incident_remaining(c) \/ _monthly_remaining(c) \/ book(c)

Advance(c) ==
    \/ admit(c) \/ refuse_request(c) \/ provider_create(c) \/ _settle_exact(c) \/ _finish(c)

GatewayNext ==
    \/ \E c \in Clients : create(c) \/ Advance(c) \/ Crash(c)
    \/ replace_policy \/ MonthEnds

GatewaySpec == GatewayInit /\ [][GatewayNext]_gvars

-----------------------------------------------------------------------------
(* Properties. *)

\* What the provider charges for a request, over all its attempts and whichever
\* endpoint it was sent to, is within what was booked before it was contacted.
\* The booking names the model that was called, and outlives a crash.
ExposureCovers ==
    \A n \in Calls : reservation[n] # None =>
        LET r == reservation[n]
        IN /\ r.tokenExposure = None \/ charge[n].tokens <= r.tokenExposure
           /\ r.usdExposure = None \/ charge[n].usd <= r.usdExposure
           /\ event[n] # None => event[n].model = r.model

\* The accounts in which the monthly balance counts a request.
Accounts(n) ==
    {<<"audit", p>> : p \in {q \in 1..MaxMonth : n \in Legacy(q)}}
    \cup (IF reservation[n] # None
             /\ (IF reservation[n].state = "settled" THEN reservation[n].settledUsd
                 ELSE reservation[n].usdExposure) # None
          THEN {<<"reservation", reservation[n].period>>} ELSE {})

\* A success that was told, and whose cost is known, is counted against the
\* monthly budget once: not by its audit event and its reservation both, not in
\* two months, and never not at all, whatever the policy was when it started.
CountedOnce ==
    \A n \in told : event[n].complete => Cardinality(Accounts(n)) = 1

\* What the requests of a month and of an incident really cost.
MonthCharge(p) ==
    SumFunctionOnSet([n \in Calls |-> charge[n].usd],
                     {n \in Calls : reservation[n] # None /\ reservation[n].period = p})
IncidentCharge(i, p) ==
    SumFunctionOnSet([n \in Calls |-> charge[n].tokens],
                     {n \in Calls : /\ reservation[n] # None
                                    /\ reservation[n].incident = i
                                    /\ reservation[n].period = p})

\* Concurrent admissions cannot oversubscribe a limit: while the first policy
\* stands, a month never costs more than its limit, nor an incident in it.
BudgetHeld ==
    policy # None /\ policy.version = 1 =>
        /\ policy.usd # None =>
             \A p \in 1..MaxMonth : MonthCharge(p) <= policy.usd
        /\ policy.tokens # None =>
             \A i \in Incidents, p \in 1..MaxMonth :
                 IncidentCharge(i, p) <= policy.tokens

\* The same, except where a settlement committed between the two sums of one
\* admission: the row it moved is then in neither of them.
BudgetHeldUnraced == raced \/ BudgetHeld

\* A request is credited to the model that served it, and to the pinned provider
\* only when no attempt of it went anywhere else; every success is credited.
CreditedServed ==
    /\ \A n \in Calls : attribution[n] # None /\ attribution[n].credited => charge[n].honest
    /\ \A n \in told : attribution[n] # None /\ attribution[n].credited
=============================================================================
