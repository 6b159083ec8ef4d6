---------------------------- MODULE MCInvestigator ----------------------------
(* An investigation of three steps, two more after a refusal, of a service that can be       *)
(* restarted, rolled back to another tag or have one flag set.                               *)
EXTENDS Investigator

MCCatalog ==
    [service |-> "checkout",
     operations |-> [restart |-> {}, rollback |-> {"to_tag"}, flagset |-> {"flag", "variant"}],
     available_tags |-> {"v1", "v2"}, running |-> "v2",
     flags |-> [failure |-> [variant |-> "on", allowed |-> {"off", "on"}]]]

Names(service, operation, parameters) ==
    [service |-> service, operation |-> operation, parameters |-> parameters]

MCProposals ==
    {NoOperation, Names("checkout", "rollback", [to_tag |-> "v1"]),
     Names("checkout", "rollback", [to_tag |-> "v2"]), Names("cart", "restart", <<>>),
     Names("checkout", "restart", [to_tag |-> "v1"]),
     Names("checkout", "flagset", [flag |-> "failure", variant |-> "on"])}
=============================================================================
