--------------------------- MODULE MCModelGateway ---------------------------
(* Two calls in flight against two endpoints of unlike price and capacity. *)
EXTENDS UsageReads, TLC

CONSTANTS c1, c2, m1

MCEndpoints ==
    (m1 :> {[provider |-> "p", prompt |-> None, completion |-> 1, context |-> 4,
             promptPrice |-> 1, completionPrice |-> 2, fee |-> 1, dated |-> TRUE],
            [provider |-> "p", prompt |-> 2, completion |-> None, context |-> 3,
             promptPrice |-> 0, completionPrice |-> 1, fee |-> None, dated |-> FALSE],
            [provider |-> "other", prompt |-> 1, completion |-> 1, context |-> None,
             promptPrice |-> None, completionPrice |-> 1, fee |-> 0, dated |-> FALSE]})

MCPolicies == {[tokens |-> None, usd |-> None], [tokens |-> 3, usd |-> None],
               [tokens |-> 4, usd |-> 6]}

\* Bound: a replacement sets both limits, and comes in the first month.
ReplacedByLimits ==
    policy # None /\ policy.version = 2 => policy.usd # None /\ month = 1

Sym == Permutations({c1, c2})
=============================================================================
