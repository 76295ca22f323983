------------------------- MODULE MCObligationGraph -------------------------
(* A small thread: two runs, one resume, jobs chosen so that every verdict  *)
(* and every fallback of the pack lookup occurs.                            *)
EXTENDS ObligationGraph, TLC

\* Runs are only compared with one another.
RunSymmetry == Permutations(Runs)

MCPackNames == {"strict_patch_gate_v1", "single_owner_handoff_v1",
                "reviewer_gated_execution_v1", "missing_v1"}

MCPacks ==
  [n \in MCPackNames \ {"missing_v1"} |->
     [StrictDefault EXCEPT
        !.enabled = IF n = "single_owner_handoff_v1" THEN {"handoff_legality"} ELSE {},
        !.reviewer_gated_execution = (n = "reviewer_gated_execution_v1")]]

MCJob(files, protected, pack, events, approval) ==
  [patch |-> [files |-> files, importing |-> {}], protected_paths |-> protected,
   policy_pack_name |-> pack, protocol_events |-> events, approval_decision |-> approval]

RefusedLog == [refuses |-> {"handoff_legality"}]
LegalLog   == [refuses |-> {}]

MCJobs ==
  {MCJob({"A"}, {"A"}, None, LegalLog, None),
   MCJob({"B"}, {"A"}, None, RefusedLog, None),
   MCJob({"B"}, {}, "reviewer_gated_execution_v1", None, "rejected"),
   MCJob({"B"}, {"A"}, "reviewer_gated_execution_v1", None, None),
   MCJob({"A", "B"}, {}, "missing_v1", None, None)}

MCInteractiveAnswers ==
  {[ok |-> TRUE,  diagnostics |-> {}, goals |-> FALSE, lsp_required |-> TRUE],
   [ok |-> TRUE,  diagnostics |-> {}, goals |-> TRUE,  lsp_required |-> FALSE],
   [ok |-> FALSE, diagnostics |-> {"error"}, goals |-> FALSE, lsp_required |-> FALSE]}

\* Production: real auditor and checker, strict acceptance.
ProductionAnswers == batch_verify_answers(TRUE, TRUE, TRUE)

\* Development: the auditor's test double answers ok with a blocking reason.
DevelopmentAnswers == batch_verify_answers(FALSE, FALSE, FALSE)

\* A pass, a failed audit, and the double's answer for a passing build.
MCBatchAnswers ==
  {b \in ProductionAnswers : b.build /\ b.fresh_checker}
    \cup {b \in DevelopmentAnswers : b.build}
============================================================================
