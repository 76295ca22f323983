---------------------------- MODULE MCReviewFlow ----------------------------
(* Two runs, a gateway resume and a CLI resume on one thread, a candidate   *)
(* that needs a human and one that does not, a lane that passes or fails.   *)
EXTENDS ReviewFlow, TLC

FlowSymmetry == Permutations(Runs) \cup Permutations(Proxied)

MCPackNames == {"strict_patch_gate_v1", "single_owner_handoff_v1"}
MCPacks == [n \in MCPackNames |-> StrictDefault]

FlowJob(protected) ==
  [patch |-> [files |-> {"A"}, importing |-> {}], protected_paths |-> protected,
   policy_pack_name |-> None, protocol_events |-> None, approval_decision |-> None]

MCJobs == {FlowJob({}), FlowJob({"A"})}

MCInteractiveAnswers ==
  {[ok |-> TRUE, diagnostics |-> {}, goals |-> FALSE, lsp_required |-> FALSE]}

\* Real tools, strict acceptance: everything passed, or the audit failed.
MCBatchAnswers ==
  {b \in batch_verify_answers(TRUE, TRUE, TRUE) : b.build /\ b.fresh_checker}
=============================================================================
