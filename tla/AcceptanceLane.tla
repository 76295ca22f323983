--------------------------- MODULE AcceptanceLane ---------------------------
(***************************************************************************)
(* The pure part of the gateway's batch lane: what the axiom auditors and   *)
(* the fresh checkers of the repository can return, combine_batch_results   *)
(* and apply_acceptance_strict.  A reason code or a captured error text is  *)
(* a string standing for its kind.                                          *)
(***************************************************************************)
EXTENDS PolicyRules, Integers

AxiomAuditResult == [ok : BOOLEAN, trust_level : TrustLevels,
                     blocked_reasons : SUBSET {"audit_failed", "non_real_axiom_audit"}]

BatchVerifyResult == [ok : BOOLEAN, build : BOOLEAN, axiom_audit : AxiomAuditResult,
                      fresh_checker : BOOLEAN, trust_level : TrustLevels,
                      axiom_evidence_real : BOOLEAN, fresh_evidence_real : BOOLEAN]

\* What a runner hands the tools: the command's exit code, or -1 when the
\* command could not be started or ran out of time.
ExitCodes == {0, 1, -1}

BuildRunner_run == {code = 0 : code \in ExitCodes}
FreshCheckerReal_run == {code = 0 : code \in ExitCodes}
FreshChecker_run == {TRUE}     \* the test double

\* AxiomAuditorReal never answers "warning".
AxiomAuditorReal_run ==
  {IF code = 0
   THEN [ok |-> TRUE, trust_level |-> "clean", blocked_reasons |-> {}]
   ELSE [ok |-> FALSE, trust_level |-> "blocked", blocked_reasons |-> {"audit_failed"}] :
     code \in ExitCodes}

\* AxiomAuditor, the test double: ok, yet with a blocking reason.
AxiomAuditor_run == {[ok |-> TRUE, trust_level |-> "clean",
                      blocked_reasons |-> {"non_real_axiom_audit"}]}

combine_batch_results(build, audit, fresh, axiomReal, freshReal) ==
  [ok |-> build /\ audit.ok /\ fresh /\ audit.trust_level # "blocked",
   build |-> build, axiom_audit |-> audit, fresh_checker |-> fresh,
   trust_level |-> audit.trust_level,
   axiom_evidence_real |-> axiomReal, fresh_evidence_real |-> freshReal]

\* A mistake: one real tool is enough.
StrictNeedsOneReal(combined) ==
  IF combined.axiom_evidence_real \/ combined.fresh_evidence_real
    THEN combined
    ELSE [combined EXCEPT !.ok = FALSE, !.trust_level = "blocked"]

apply_acceptance_strict(combined) ==
  IF combined.axiom_evidence_real /\ combined.fresh_evidence_real
    THEN combined
    ELSE [combined EXCEPT !.ok = FALSE, !.trust_level = "blocked"]

\* Everything POST batch-verify can answer.  Which auditor and checker are
\* installed, and whether strict acceptance is on, is the gateway's
\* configuration.
batch_verify_answers(axiomReal, freshReal, strict) ==
  {LET combined == combine_batch_results(build, audit, fresh, axiomReal, freshReal)
   IN IF strict THEN apply_acceptance_strict(combined) ELSE combined :
     build \in BuildRunner_run,
     audit \in IF axiomReal THEN AxiomAuditorReal_run ELSE AxiomAuditor_run,
     fresh \in IF freshReal THEN FreshCheckerReal_run ELSE FreshChecker_run}
=============================================================================
