----------------------------- MODULE MCRunnerPool -----------------------------
(* Requests of both kinds under two settings: one interactive check at a time *)
(* on the host and two batch runs in containers; and batch runs in microVMs   *)
(* with limits that do not limit.                                             *)
EXTENDS RunnerPool

Containers == [OBR_INTERACTIVE_RUNNER |-> "local", OBR_BATCH_RUNNER |-> Unset,
               OBR_WORKER_RUNNER |-> "container", OBR_MICROVM_RUNTIME |-> Unset,
               OBR_INTERACTIVE_RUNNER_MAX |-> 1, OBR_BATCH_RUNNER_MAX |-> 2]
MicroVMs == [OBR_INTERACTIVE_RUNNER |-> Unset, OBR_BATCH_RUNNER |-> "microvm",
             OBR_WORKER_RUNNER |-> Unset, OBR_MICROVM_RUNTIME |-> "firecracker",
             OBR_INTERACTIVE_RUNNER_MAX |-> 0, OBR_BATCH_RUNNER_MAX |-> Unset]
MCEnvironments == {Containers, MicroVMs}

(* Requests differ in nothing but their names, so of the ways to choose their *)
(* kinds one with each number of batch requests is enough.                    *)
FewKinds == \A c, d \in Calls : c < d /\ kind(c) = "batch" => kind(d) = "batch"
MCInit == RunnerInit /\ FewKinds
MCSpec == MCInit /\ [][RunnerNext]_vars /\ RunnerFairness
=============================================================================
