-------------------------- MODULE MCDeployExecutor --------------------------
(***************************************************************************)
(* DeployExecutor with two rollbacks, a restart and a flag change sent by  *)
(* two concurrent callers.                                                 *)
(***************************************************************************)
EXTENDS DeployExecutor, TLC

CONSTANTS t1, t2, k1, k2, k3, k4

AllOperations ==
    (k1 :> "deployment.rollback") @@ (k2 :> "deployment.rollback") @@ (k3 :> "service.restart")
        @@ (k4 :> "flag.set")
Symmetric == Permutations(Tasks) \cup Permutations({k1, k2})
=============================================================================
