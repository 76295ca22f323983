---------------------------- MODULE PolicyRules ----------------------------
(***************************************************************************)
(* The pure policy code of packages/policy: PolicyEngine.evaluate, the     *)
(* patch summary it reads, and the order in which the graph consults the   *)
(* protocol evaluators.  Nothing here has state; ObligationGraph applies   *)
(* these operators inside its nodes, and MCPolicyRules enumerates them.    *)
(*                                                                         *)
(* Data that only travels is abstracted.  A file is a member of Files, a   *)
(* glob is the set of files it matches, a patch is the set of files it     *)
(* writes together with those whose new text holds an import line.  A log  *)
(* of protocol events is the set of obligation classes that refuse it.     *)
(***************************************************************************)
EXTENDS Naturals, Sequences

CONSTANTS Files,    \* paths a patch may write
          None      \* Python's None, and an absent dictionary key

TrustLevels == {"clean", "warning", "blocked"}

\* PolicyDecision.decision.  "lower_trust" and "failed" are in the schema
\* too, but no code path produces them.
Decisions == {"accepted", "rejected", "blocked", "needs_review"}

(* Obligation classes in the order in which evaluate_protocol tries them.   *)
ProtocolClasses ==
  <<"handoff_legality", "lock_ownership_invariant", "delegation_admissibility",
    "state_transition_preservation", "artifact_admissibility",
    "side_effect_authorization", "evidence_complete_execution_token">>

ClassNames == {ProtocolClasses[i] : i \in DOMAIN ProtocolClasses}

\* Why a verdict was given; "none" stands for the empty list of reasons.
Reasons ==
  {"interactive_errors_present", "batch_verify_failed", "axiom_blocked",
   "trust_compiler_detected", "trust_gate_review", "trust_delta_requires_review",
   "path_rule_review", "protected_path_touched", "imports_changed_requires_review",
   "accepted", "missing_approval_token", "none"} \cup ClassNames

\* A gate of a pack: a path rule (levels not consulted) or a trust gate
\* whose globs match `files`.  `anywhere` is a trust gate without globs.
PathRule  == [files : SUBSET Files, require_human : BOOLEAN]
TrustGate == [when_trust_level : SUBSET TrustLevels, files : SUBSET Files,
              anywhere : BOOLEAN, require_human : BOOLEAN]

\* The fields of a PolicyPack that some code reads.  The seven protocol flags
\* are the set `enabled`.  block_sorry_ax, block_unexpected_custom_axioms,
\* protected_paths and allow_interactive_warnings are loaded and never read.
PolicyPack == [allow_trust_compiler            : BOOLEAN,
               require_human_if_imports_change : BOOLEAN,
               require_human_on_trust_delta    : BOOLEAN,
               path_rules                      : SUBSET PathRule,
               trust_gates                     : SUBSET TrustGate,
               reviewer_gated_execution        : BOOLEAN,
               enabled                         : SUBSET ClassNames]

Patch == [files : SUBSET Files, importing : SUBSET Files]

PatchMetadata == [changed_files : SUBSET Files,
                  protected_paths_touched : BOOLEAN,
                  imports_changed : BOOLEAN,
                  trust_delta : BOOLEAN]

----------------------------------------------------------------------------
\* A mistake: the protected paths looked for as a whole, not one by one.
SummarizeAllProtected(patch, protected_paths) ==
  [changed_files           |-> patch.files,
   protected_paths_touched |-> patch.files # {} /\ patch.files \subseteq protected_paths,
   imports_changed         |-> patch.files \cap patch.importing # {},
   trust_delta             |-> FALSE]

(* summarize_patch with before = {}: every file of the patch counts as     *)
(* changed, and an import line anywhere in a written file counts as an     *)
(* import change.  The graph puts no trust_delta into the metadata.        *)
summarize_patch(patch, protected_paths) ==
  [changed_files           |-> patch.files,
   protected_paths_touched |-> patch.files \cap protected_paths # {},
   imports_changed         |-> patch.files \cap patch.importing # {},
   trust_delta             |-> FALSE]

HasErrorDiagnostic(interactive) ==
  interactive # None /\ "error" \in interactive.diagnostics

\* for tg in pack.trust_gates: level matches, then path, then require_human.
TrustGateFires(tg, level, changed) ==
  /\ level \in tg.when_trust_level
  /\ IF tg.anywhere THEN changed # {} ELSE changed \cap tg.files # {}
  /\ tg.require_human

PathRuleFires(rule, changed) == changed \cap rule.files # {} /\ rule.require_human

(* The early returns of PolicyEngine.evaluate, in order.  `batch` is None   *)
(* when no acceptance-lane result is in the state, and then the four gates  *)
(* that read it are skipped.                                                *)
EvaluationGates(interactive, batch, meta, pack) ==
  LET lane == batch # None
      gate(when, decision, reason) ==
        [when |-> when, decision |-> decision, reason |-> reason]
  IN << gate(HasErrorDiagnostic(interactive), "rejected", "interactive_errors_present"),
        gate(lane /\ ~batch.ok, "rejected", "batch_verify_failed"),
        gate(lane /\ batch.axiom_audit.blocked_reasons # {}, "blocked", "axiom_blocked"),
        gate(lane /\ batch.trust_level = "warning" /\ ~pack.allow_trust_compiler,
             "needs_review", "trust_compiler_detected"),
        gate(lane /\ \E tg \in pack.trust_gates :
                        TrustGateFires(tg, batch.trust_level, meta.changed_files),
             "needs_review", "trust_gate_review"),
        gate(meta.trust_delta /\ pack.require_human_on_trust_delta,
             "needs_review", "trust_delta_requires_review"),
        gate(\E rule \in pack.path_rules : PathRuleFires(rule, meta.changed_files),
             "needs_review", "path_rule_review"),
        gate(meta.protected_paths_touched, "needs_review", "protected_path_touched"),
        gate(meta.imports_changed /\ pack.require_human_if_imports_change,
             "needs_review", "imports_changed_requires_review"),
        gate(TRUE, "accepted", "accepted") >>

\* The first gate whose condition holds decides.
FirstGate(gates) ==
  CHOOSE i \in DOMAIN gates : gates[i].when /\ \A j \in 1..(i-1) : ~gates[j].when

evaluate(interactive, batch, meta, pack) ==
  LET gates == EvaluationGates(interactive, batch, meta, pack)
      i == FirstGate(gates)
  IN [decision |-> gates[i].decision, reason |-> gates[i].reason]

----------------------------------------------------------------------------
\* A mistake: the status "failed" in the place of a decision.
RefusalAsStatus(class) ==
  IF class = "evidence_complete_execution_token" THEN "blocked" ELSE "failed"

(* The loop of evaluate_protocol: the first enabled class, in order, that   *)
(* refuses the log decides.  Only the evidence token yields "blocked".      *)
ProtocolRefusal(class) ==
  IF class = "evidence_complete_execution_token" THEN "blocked" ELSE "rejected"

RefusingClasses(refuses, pack) ==
  {i \in DOMAIN ProtocolClasses : ProtocolClasses[i] \in refuses \cap pack.enabled}

protocol_decision(refuses, pack) ==
  LET hits == RefusingClasses(refuses, pack)
  IN IF hits = {} THEN None
     ELSE LET first == CHOOSE i \in hits : \A j \in hits : i <= j
          IN [decision |-> ProtocolRefusal(ProtocolClasses[first]),
              reason   |-> ProtocolClasses[first]]
============================================================================
