---------------------------- MODULE PolicyCases ----------------------------
(***************************************************************************)
(* Enumerates what PolicyEngine.evaluate can be asked, as a walk: it starts *)
(* at any lane result with the laxest pack and an empty patch, and a step  *)
(* makes the case harder in one respect.  PolicyEngine has no such steps;  *)
(* they compare its verdicts on neighbouring inputs.                       *)
(***************************************************************************)
EXTENDS AcceptanceLane

VARIABLE asked   \* the arguments of evaluate and of summarize_patch

CaseVerdict ==
  evaluate(asked.interactive, asked.batch,
           summarize_patch(asked.patch, asked.protected_paths), asked.pack)

\* What the gateway answers under any configuration of real tools and test
\* doubles, and a stub gateway's "warning", which no auditor here answers.
LaneResults ==
  LET answers == UNION {batch_verify_answers(axiomReal, freshReal, strict) :
                          axiomReal, freshReal, strict \in BOOLEAN}
  IN answers \cup {[b EXCEPT !.trust_level = "warning"] : b \in {b \in answers : b.ok}}

Check(diagnostics) ==
  [ok |-> diagnostics = {}, diagnostics |-> diagnostics, goals |-> FALSE, lsp_required |-> FALSE]

LaxPack ==
  [allow_trust_compiler |-> TRUE, require_human_if_imports_change |-> FALSE,
   require_human_on_trust_delta |-> FALSE, path_rules |-> {}, trust_gates |-> {},
   reviewer_gated_execution |-> FALSE, enabled |-> {}]

CaseInit ==
  \E b \in {b \in LaneResults : b.build \/ b.fresh_checker} :
    asked = [interactive |-> Check({}), batch |-> b, pack |-> LaxPack,
             patch |-> [files |-> {}, importing |-> {}], protected_paths |-> {}]

WriteFile(f) ==
  \E imports \in SUBSET {f} :
    asked' = [asked EXCEPT !.patch = [files |-> @.files \cup {f},
                                      importing |-> @.importing \cup imports]]

ProtectFile(f) == asked' = [asked EXCEPT !.protected_paths = @ \cup {f}]

\* At most one rule: a path rule, or a trust gate on one file or anywhere.
Tightened(pack, f) ==
  {[pack EXCEPT !.allow_trust_compiler = FALSE],
   [pack EXCEPT !.require_human_if_imports_change = TRUE]}
  \cup
  (IF pack.path_rules # {} \/ pack.trust_gates # {} THEN {}
   ELSE {[pack EXCEPT !.path_rules = {[files |-> {f}, require_human |-> TRUE]}]}
          \cup {[pack EXCEPT !.trust_gates =
                   {[when_trust_level |-> {"clean", "warning"}, files |-> {f},
                     anywhere |-> anywhere, require_human |-> TRUE]}] :
                anywhere \in BOOLEAN})

TightenPack(f) ==
  \E pack \in Tightened(asked.pack, f) : asked' = [asked EXCEPT !.pack = pack]

Diagnose(severity) ==
  /\ asked.interactive.diagnostics = {}
  /\ asked' = [asked EXCEPT !.interactive = Check({severity})]

CaseNext ==
  \/ \E f \in Files : WriteFile(f) \/ ProtectFile(f) \/ TightenPack(f)
  \/ \E severity \in {"error", "warning"} : Diagnose(severity)

CaseSpec == CaseInit /\ [][CaseNext]_asked

----------------------------------------------------------------------------
Severity(decision) ==
  CASE decision = "accepted" -> 0 [] decision = "needs_review" -> 1 [] OTHER -> 2

(* Writing another file, protecting a file, setting a flag, adding a rule   *)
(* or a gate, or one more diagnostic never makes policy laxer: the verdict  *)
(* moves from accepted to needs_review to refused and never back.           *)
HarderCaseNeverLoosens ==
  [][Severity(CaseVerdict.decision) <= Severity(CaseVerdict'.decision)]_asked
=============================================================================
