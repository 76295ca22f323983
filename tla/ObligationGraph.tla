-------------------------- MODULE ObligationGraph --------------------------
(***************************************************************************)
(* The patch-admissibility graph of apps/orchestrator: one thread_id, any  *)
(* number of invocations of the compiled graph on it, concurrent or one    *)
(* after another, sharing the thread's checkpoint.                         *)
(*                                                                         *)
(* An invocation is a run (`obr run-patch-obligation`, input built by      *)
(* make_initial_state) or a resume (input built by make_resume_state).  It *)
(* merges its input over the checkpoint's channels, then executes one node *)
(* at a time on its own copy of the channels and writes that copy back to  *)
(* the checkpoint after every node.  The gateway's answers are choices; a  *)
(* node that raises, or a process that dies, leaves the checkpoint of the  *)
(* node before it.                                                         *)
(***************************************************************************)
EXTENDS AcceptanceLane

CONSTANTS Runs, Resumes,      \* identities of the invocations
          Jobs,               \* what a caller may ask a run to judge
          PackNames,          \* names a caller or OBR_POLICY_PACK may give
          Packs,              \* loadable pack name -> PolicyPack
          EnvPack,            \* OBR_POLICY_PACK, or None
          InteractiveAnswers, \* what interactive-check may answer
          BatchAnswers        \* what batch-verify may answer

Invocations == Runs \cup Resumes

\* protocol_events: None when absent or empty, else the classes refusing it.
EventLogs == [refuses : SUBSET ClassNames]

Job == [patch             : Patch,
        protected_paths   : SUBSET Files,
        policy_pack_name  : PackNames \cup {None},
        protocol_events   : EventLogs \cup {None},
        approval_decision : {"approved", "rejected", None}]

InteractiveResult == [ok : BOOLEAN, diagnostics : SUBSET {"error", "warning"},
                      goals : BOOLEAN, lsp_required : BOOLEAN]

Verdict == [decision : Decisions, reason : Reasons]

\* The parts of a WitnessBundle taken from the state.
AcceptanceFields  == {"ok", "trust_level", "reasons", "build", "axiom_audit", "fresh_checker"}
InteractiveFields == {"ok", "diagnostics", "goals", "phase", "stdout", "stderr", "timing_ms"}
DefaultAcceptance == [ok |-> TRUE, trust_level |-> "clean", evidence |-> None]
DefaultInteractive == [ok |-> TRUE, diagnostics |-> {}, goals |-> FALSE]
DefaultVerdict == [decision |-> "accepted", reason |-> "none"]

Statuses == {"initialized", "retrieving_context", "drafting", "checking_interactive",
             "repairing", "auditing", "awaiting_approval", "batch_verifying",
             "accepted", "rejected", "failed"}

Nodes == {"init_environment", "retrieve_context", "draft_candidate", "interactive_check",
          "batch_verify", "audit_trust", "evaluate_protocol", "policy_review",
          "interrupt_for_approval", "review_posted", "finalize",
          "repair_from_diagnostics", "repair_from_goals", "resume_with_approval"}

ASSUME GraphAssumption ==
  /\ Runs \cap Resumes = {}
  /\ None \notin Invocations
  /\ Jobs \subseteq Job
  /\ {"strict_patch_gate_v1", "single_owner_handoff_v1"} \subseteq PackNames
  /\ DOMAIN Packs \subseteq PackNames /\ \A n \in DOMAIN Packs : Packs[n] \in PolicyPack
  /\ EnvPack \in PackNames \cup {None}
  /\ InteractiveAnswers \subseteq InteractiveResult
  /\ BatchAnswers \subseteq BatchVerifyResult

(* The gateway's transports answer ok only without an error diagnostic:     *)
(* SubprocessLeanTransport and the double then report none at all, run_check*)
(* computes ok from the severities.                                         *)
ASSUME InteractiveAssumption ==
  \A a \in InteractiveAnswers : a.ok => "error" \notin a.diagnostics

(* None is a value of its own: no record or string equals it.               *)
ASSUME NoneAssumption ==
  /\ None \notin PackNames
  /\ None \notin BatchVerifyResult
  /\ None \notin InteractiveResult
  /\ None \notin Verdict
  /\ None \notin EventLogs
  /\ None \notin Statuses
  /\ None \notin {"approved", "rejected"}

VARIABLES pc,          \* pc[i]: the node i executes next
          ch,          \* ch[i]: i's copy of the state channels
          checkpoint,  \* the thread's persisted channels
          answer       \* answer[i]: what the gateway answered i's batch-verify

graphVars == <<pc, ch, checkpoint, answer>>

----------------------------------------------------------------------------
(* State factories                                                         *)

\* No checkpoint yet: every channel is absent.
NoChannels ==
  [obligation_id |-> None, session_id |-> None, patch |-> None, protected_paths |-> {},
   interactive_result |-> None, batch_result |-> None, policy_decision |-> None,
   approval_required |-> FALSE, approval_decision |-> None, status |-> None,
   artifacts |-> <<>>, policy_pack_name |-> None, protocol_events |-> None]

EmptyPatch == [files |-> {}, importing |-> {}]

Given(value, old) == IF value # None THEN value ELSE old

\* Two mistakes in make_initial_state: a channel left to the checkpoint.
InitialStateKeepsVerdict(run, job, old) ==
  [obligation_id |-> run, session_id |-> None, patch |-> job.patch,
   protected_paths |-> job.protected_paths,
   interactive_result |-> None, batch_result |-> None,
   policy_decision |-> old.policy_decision,
   approval_required |-> FALSE, approval_decision |-> job.approval_decision,
   status |-> "initialized", artifacts |-> <<>>,
   policy_pack_name |-> Given(job.policy_pack_name, old.policy_pack_name),
   protocol_events |-> Given(job.protocol_events, old.protocol_events)]

InitialStateKeepsApproval(run, job, old) ==
  [InitialStateKeepsVerdict(run, job, [old EXCEPT !.policy_decision = None])
     EXCEPT !.approval_required = old.approval_required,
            !.approval_decision = Given(job.approval_decision, old.approval_decision)]

(* make_initial_state, merged over the channels `old` of the checkpoint.    *)
(* Every channel is set except policy_pack_name and protocol_events, which  *)
(* are only set when the caller gives them.                                 *)
make_initial_state(run, job, old) ==
  [obligation_id |-> run, session_id |-> None, patch |-> job.patch,
   protected_paths |-> job.protected_paths,
   interactive_result |-> None, batch_result |-> None, policy_decision |-> None,
   approval_required |-> FALSE, approval_decision |-> job.approval_decision,
   status |-> "initialized", artifacts |-> <<>>,
   policy_pack_name |-> Given(job.policy_pack_name, old.policy_pack_name),
   protocol_events |-> Given(job.protocol_events, old.protocol_events)]

\* A mistake in make_resume_state: the delivered witnesses are kept.
ResumeStateKeepsArtifacts(decision, old) ==
  [old EXCEPT !.approval_required = TRUE, !.approval_decision = decision,
              !.status = "awaiting_approval"]

(* make_resume_state, merged likewise: it overwrites the evidence channels  *)
(* with empty values, so none of the interrupted run's survives.            *)
make_resume_state(decision, old) ==
  [obligation_id |-> None, session_id |-> None, patch |-> EmptyPatch,
   protected_paths |-> {},
   interactive_result |-> None, batch_result |-> None, policy_decision |-> None,
   approval_required |-> TRUE, approval_decision |-> decision,
   status |-> "awaiting_approval", artifacts |-> <<>>,
   policy_pack_name |-> old.policy_pack_name,
   protocol_events |-> old.protocol_events]

----------------------------------------------------------------------------
(* Routing                                                                 *)

route_start(s) ==
  IF s.approval_required /\ s.approval_decision \in {"approved", "rejected"}
    THEN "resume_with_approval" ELSE "init_environment"

route_after_interactive(s) ==
  IF s.interactive_result = None       THEN "batch_verify"
  ELSE IF ~s.interactive_result.ok     THEN "repair_from_diagnostics"
  ELSE IF s.interactive_result.goals   THEN "repair_from_goals"
  ELSE "batch_verify"

\* A mistake in the routing: only a refusal stops the run.
RouteReviewToFinalize(s) ==
  IF s.policy_decision # None /\ s.policy_decision.decision \in {"rejected", "blocked"}
    THEN "end" ELSE "finalize"

\* Another: whatever is not accepted is put before a human.
RouteRefusedToReview(s) ==
  IF s.policy_decision = None \/ s.policy_decision.decision = "accepted"
    THEN "finalize" ELSE "interrupt_for_approval"

route_after_policy(s) ==
  IF s.policy_decision = None                        THEN "finalize"
  ELSE IF s.policy_decision.decision = "accepted"     THEN "finalize"
  ELSE IF s.policy_decision.decision = "needs_review" THEN "interrupt_for_approval"
  ELSE "end"

route_after_resume(s) == IF s.approval_decision = "approved" THEN "finalize" ELSE "end"

----------------------------------------------------------------------------
(* Policy: which pack judges, and the verdict of the two judging nodes      *)

LoadPack(name) == IF name \in DOMAIN Packs THEN Packs[name] ELSE None

PackName(s, default) == Given(s.policy_pack_name, Given(EnvPack, default))

\* _DEFAULT_PACK of graph.py: PolicyPack with its defaults.
StrictDefault ==
  [allow_trust_compiler |-> FALSE, require_human_if_imports_change |-> TRUE,
   require_human_on_trust_delta |-> TRUE, path_rules |-> {}, trust_gates |-> {},
   reviewer_gated_execution |-> FALSE, enabled |-> {}]

load_pack_for_review(s) == Given(LoadPack(PackName(s, "strict_patch_gate_v1")), StrictDefault)

\* evaluate_protocol judges with another default pack, and with no pack at
\* all when the name cannot be loaded.
ProtocolVerdict(s) ==
  LET pack == LoadPack(PackName(s, "single_owner_handoff_v1"))
  IN IF s.protocol_events = None \/ pack = None THEN None
     ELSE protocol_decision(s.protocol_events.refuses, pack)

\* A mistake in policy_review: a protocol rejection is judged again.
OnlyBlockedIsFinal(s) == s.policy_decision # None /\ s.policy_decision.decision = "blocked"

AlreadyRefused(s) ==
  s.policy_decision # None /\ s.policy_decision.decision \in {"rejected", "blocked"}

ReviewVerdict(s) ==
  LET pack == load_pack_for_review(s)
  IN IF pack.reviewer_gated_execution /\ s.approval_decision \notin {"approved", "rejected"}
       THEN [decision |-> "blocked", reason |-> "missing_approval_token"]
       ELSE evaluate(s.interactive_result, s.batch_result,
                     summarize_patch(s.patch, s.protected_paths), pack)

----------------------------------------------------------------------------
(* Witness assembly: each part is validated against a schema that forbids   *)
(* unknown fields, and a failed validation is replaced by a default.        *)

WitnessAcceptance(batch) ==
  IF batch # None /\ DOMAIN batch \subseteq AcceptanceFields
    THEN [ok |-> batch.ok, trust_level |-> batch.trust_level, evidence |-> batch.axiom_audit]
    ELSE DefaultAcceptance

WitnessInteractive(interactive) ==
  IF interactive # None /\ DOMAIN interactive \subseteq InteractiveFields
    THEN [ok |-> interactive.ok, diagnostics |-> interactive.diagnostics,
          goals |-> interactive.goals]
    ELSE DefaultInteractive

\* approval_decision is a string, never a dict: WitnessBundle.approval is {}.
Witness(s) ==
  [obligation_id |-> s.obligation_id,
   interactive   |-> WitnessInteractive(s.interactive_result),
   acceptance    |-> WitnessAcceptance(s.batch_result),
   policy        |-> Given(s.policy_decision, DefaultVerdict),
   approval      |-> None]

----------------------------------------------------------------------------
(* Node execution                                                          *)

InFlight(i) == pc[i] \in Nodes

\* i leaves its node for `next` with channels s, checkpointed.
Goto(i, next, s) ==
  /\ pc' = [pc EXCEPT ![i] = next]
  /\ ch' = [ch EXCEPT ![i] = s]
  /\ checkpoint' = s

\* A mistake: init_environment that forgets to put session_id in its update.
InitEnvironmentNoSession(i) ==
  /\ pc[i] = "init_environment"
  /\ Goto(i, "retrieve_context", [ch[i] EXCEPT !.status = "initialized"])
  /\ UNCHANGED answer

InitEnvironment(i) ==
  /\ pc[i] = "init_environment"
  /\ Goto(i, "retrieve_context", [ch[i] EXCEPT !.session_id = i, !.status = "initialized"])
  /\ UNCHANGED answer

RetrieveContext(i) ==
  /\ pc[i] = "retrieve_context"
  /\ Goto(i, "draft_candidate", [ch[i] EXCEPT !.status = "retrieving_context"])
  /\ UNCHANGED answer

DraftCandidate(i) ==
  /\ pc[i] = "draft_candidate"
  /\ Goto(i, "interactive_check", [ch[i] EXCEPT !.status = "drafting"])
  /\ UNCHANGED answer

InteractiveCheck(i) ==
  /\ pc[i] = "interactive_check"
  /\ IF ch[i].session_id = None
       THEN LET s == [ch[i] EXCEPT !.status = "failed"]
            IN Goto(i, route_after_interactive(s), s)
       ELSE \E result \in InteractiveAnswers :
              LET s == [ch[i] EXCEPT !.interactive_result = result,
                                     !.status = "checking_interactive"]
              IN Goto(i, route_after_interactive(s), s)
  /\ UNCHANGED answer

BatchVerify(i) ==
  /\ pc[i] = "batch_verify"
  /\ IF ch[i].session_id = None
       THEN /\ Goto(i, "audit_trust", [ch[i] EXCEPT !.status = "failed"])
            /\ UNCHANGED answer
       ELSE \E result \in BatchAnswers :
              /\ Goto(i, "audit_trust", [ch[i] EXCEPT !.batch_result = result,
                                                      !.status = "batch_verifying"])
              /\ answer' = [answer EXCEPT ![i] = result]

AuditTrust(i) ==
  /\ pc[i] = "audit_trust"
  /\ Goto(i, "evaluate_protocol", [ch[i] EXCEPT !.status = "auditing"])
  /\ UNCHANGED answer

EvaluateProtocol(i) ==
  /\ pc[i] = "evaluate_protocol"
  /\ LET verdict == ProtocolVerdict(ch[i])
     IN Goto(i, "policy_review",
             IF verdict = None THEN ch[i]
             ELSE [ch[i] EXCEPT !.policy_decision = verdict, !.status = "auditing"])
  /\ UNCHANGED answer

PolicyReview(i) ==
  /\ pc[i] = "policy_review"
  /\ LET s == IF AlreadyRefused(ch[i])
                THEN [ch[i] EXCEPT !.status = "auditing"]
                ELSE [ch[i] EXCEPT !.policy_decision = ReviewVerdict(ch[i]),
                                   !.status = "auditing"]
     IN Goto(i, route_after_policy(s), s)
  /\ UNCHANGED answer

\* interrupt_for_approval, first half: the POST /v1/reviews inside the try
\* block, whose failure is swallowed.  ReviewFlow adds the store's side.
PostReview(i) ==
  /\ pc[i] = "interrupt_for_approval"
  /\ pc' = [pc EXCEPT ![i] = "review_posted"]
  /\ UNCHANGED <<ch, checkpoint, answer>>

\* Second half: the node returns.
InterruptForApproval(i) ==
  /\ pc[i] = "review_posted"
  /\ Goto(i, "end", [ch[i] EXCEPT !.approval_required = TRUE, !.status = "awaiting_approval"])
  /\ UNCHANGED answer

Finalize(i) ==
  /\ pc[i] = "finalize"
  /\ Goto(i, "end", [ch[i] EXCEPT !.status = "accepted",
                                  !.artifacts = Append(ch[i].artifacts, Witness(ch[i]))])
  /\ UNCHANGED answer

Repair(i) ==
  /\ pc[i] \in {"repair_from_diagnostics", "repair_from_goals"}
  /\ Goto(i, "end", [ch[i] EXCEPT !.status = "repairing"])
  /\ UNCHANGED answer

ResumeWithApproval(i) ==
  /\ pc[i] = "resume_with_approval"
  /\ LET s == [ch[i] EXCEPT !.approval_required = FALSE,
                            !.status = IF ch[i].approval_decision = "approved"
                                         THEN "accepted" ELSE "rejected"]
     IN Goto(i, route_after_resume(s), s)
  /\ UNCHANGED answer

\* The node raises (_with_tracing re-raises) or the process is killed.
Abort(i) ==
  /\ InFlight(i)
  /\ pc' = [pc EXCEPT ![i] = "aborted"]
  /\ UNCHANGED <<ch, checkpoint, answer>>

----------------------------------------------------------------------------
(* Invocation                                                              *)

RunObligation(r) ==
  /\ pc[r] = "idle"
  /\ \E job \in Jobs :
       LET s == make_initial_state(r, job, checkpoint) IN Goto(r, route_start(s), s)
  /\ UNCHANGED answer

ResumeThread(q, decision) ==
  /\ pc[q] = "idle"
  /\ LET s == make_resume_state(decision, checkpoint) IN Goto(q, route_start(s), s)
  /\ UNCHANGED answer

GraphInit ==
  /\ pc = [i \in Invocations |-> "idle"]
  /\ ch = [i \in Invocations |-> NoChannels]
  /\ checkpoint = NoChannels
  /\ answer = [i \in Invocations |-> None]

\* Every node but interrupt_for_approval's POST.
LocalNode(i) ==
  \/ InitEnvironment(i) \/ RetrieveContext(i) \/ DraftCandidate(i) \/ InteractiveCheck(i)
  \/ BatchVerify(i) \/ AuditTrust(i) \/ EvaluateProtocol(i) \/ PolicyReview(i)
  \/ InterruptForApproval(i) \/ Finalize(i) \/ Repair(i) \/ ResumeWithApproval(i)

GraphNext ==
  \/ \E i \in Invocations : LocalNode(i) \/ PostReview(i) \/ Abort(i)
  \/ \E r \in Runs : RunObligation(r)
  \/ \E q \in Resumes, d \in {"approved", "rejected"} : ResumeThread(q, d)

GraphSpec == GraphInit /\ [][GraphNext]_graphVars

----------------------------------------------------------------------------
(* Properties                                                              *)

WitnessBundle ==
  [obligation_id : Runs \cup {None},
   interactive : [ok : BOOLEAN, diagnostics : SUBSET {"error", "warning"}, goals : BOOLEAN],
   acceptance : [ok : BOOLEAN, trust_level : TrustLevels,
                 evidence : AxiomAuditResult \cup {None}],
   policy : Verdict, approval : {None}]

Channels ==
  [obligation_id : Runs \cup {None}, session_id : Invocations \cup {None},
   patch : Patch \cup {None}, protected_paths : SUBSET Files,
   interactive_result : InteractiveResult \cup {None},
   batch_result : BatchVerifyResult \cup {None},
   policy_decision : Verdict \cup {None},
   approval_required : BOOLEAN, approval_decision : {"approved", "rejected", None},
   status : Statuses \cup {None}, artifacts : Seq(WitnessBundle),
   policy_pack_name : PackNames \cup {None}, protocol_events : EventLogs \cup {None}]

(* Type invariant.                                                          *)
GraphTypeOK ==
  /\ pc \in [Invocations -> Nodes \cup {"idle", "end", "aborted"}]
  /\ ch \in [Invocations -> Channels]
  /\ checkpoint \in Channels
  /\ answer \in [Invocations -> BatchVerifyResult \cup {None}]

Ended(i, status) == pc[i] = "end" /\ ch[i].status = status

InteractiveClear(r) ==
  /\ ch[r].interactive_result # None
  /\ ch[r].interactive_result.ok /\ ~ch[r].interactive_result.goals

LanePassed(r) ==
  /\ answer[r] # None /\ answer[r].ok /\ answer[r].axiom_audit.blocked_reasons = {}
  /\ InteractiveClear(r)

(* The acceptance lane is the only way to acceptance: a run that ends       *)
(* accepted, or that stops to wait for a human, was itself told by the      *)
(* gateway that build, audit and fresh check passed, whatever other         *)
(* invocations left in the checkpoint.                                      *)
AcceptedPassedLane ==
  \A r \in Runs : Ended(r, "accepted") \/ Ended(r, "awaiting_approval") => LanePassed(r)

(* A candidate that touches a protected path of its obligation is never     *)
(* accepted by the run that judges it: only a resume can accept it.         *)
ProtectedNeedsHuman ==
  \A r \in Runs : Ended(r, "accepted") => ch[r].patch.files \cap ch[r].protected_paths = {}

(* A protocol refusal survives policy_review: a judged run whose event log  *)
(* an enabled class refuses ends refused, without a witness and without a   *)
(* review, even when the patch itself would be accepted.                    *)
ProtocolRefusalIsFinal ==
  \A r \in Runs : pc[r] = "end" /\ answer[r] # None /\ ProtocolVerdict(ch[r]) # None
                   => ch[r].status = "auditing" /\ ch[r].artifacts = <<>>

(* A refusal is founded on what the run judged, never on a verdict that     *)
(* another invocation left on the thread: the event log among its channels  *)
(* is refused, the lanes' own answer to it is bad, or its pack wants a      *)
(* token its caller did not send.  That log and that pack are its caller's  *)
(* or, where the caller named none, the ones an earlier run left behind:    *)
(* make_initial_state inherits those two, and a run may be refused for them.*)
RefusalHasCause ==
  \A r \in Runs : Ended(r, "auditing") =>
    \/ ProtocolVerdict(ch[r]) # None
    \/ ~answer[r].ok \/ answer[r].axiom_audit.blocked_reasons # {}
    \/ /\ load_pack_for_review(ch[r]).reviewer_gated_execution
       /\ ch[r].approval_decision = None

(* route_start separates the two inputs whatever the checkpoint holds: an   *)
(* approval left by an earlier resume never carries a fresh run past the    *)
(* lanes, and a resume never re-enters them.                                *)
StaleApprovalIgnored ==
  /\ \A r \in Runs : pc[r] # "resume_with_approval"
  /\ \A q \in Resumes : pc[q] \in {"idle", "resume_with_approval", "finalize", "end", "aborted"}

(* A finished invocation is accepted exactly when it delivered one witness, *)
(* and the thread never shows two, however often it is re-run or resumed.   *)
OneWitnessPerAcceptance ==
  /\ \A i \in Invocations :
       pc[i] = "end" => (ch[i].status = "accepted" <=> Len(ch[i].artifacts) = 1)
  /\ Len(checkpoint.artifacts) <= 1

\* policy_review let the run go on.
PassedReview(r) ==
  \/ pc[r] \in {"interrupt_for_approval", "review_posted", "finalize"}
  \/ Ended(r, "accepted")
  \/ Ended(r, "awaiting_approval")

(* What a run has behind it at each node.                                   *)
RunEvidence(r) ==
  /\ pc[r] \in {"retrieve_context", "draft_candidate", "interactive_check", "batch_verify"}
       => ch[r].session_id # None
  /\ pc[r] \in {"batch_verify", "audit_trust", "evaluate_protocol", "policy_review"}
       => InteractiveClear(r)
  /\ pc[r] \in {"audit_trust", "evaluate_protocol", "policy_review"}
       => answer[r] # None /\ ch[r].batch_result = answer[r]
  /\ PassedReview(r) => LanePassed(r)

(* The inductive strengthening of AcceptedPassedLane and StaleApprovalIgnored: *)
(* no run reaches a node without the evidence the nodes before it gather.   *)
LaneInv == StaleApprovalIgnored /\ \A r \in Runs : RunEvidence(r)

\* What evaluate_protocol and policy_review make of the channels together.
JointVerdict(s) == Given(ProtocolVerdict(s), ReviewVerdict(s))

\* The two judging nodes are behind r, and decided on the lanes' answer to r.
Judged(r, decisions) ==
  /\ ch[r].policy_decision = JointVerdict(ch[r])
  /\ ch[r].policy_decision.decision \in decisions
  /\ ch[r].batch_result = answer[r]
  /\ answer[r] # None /\ InteractiveClear(r)

Delivered(i) == IF pc[i] = "end" /\ ch[i].status = "accepted" THEN 1 ELSE 0

BeforeLane == {"init_environment", "retrieve_context", "draft_candidate", "interactive_check",
               "batch_verify", "repair_from_diagnostics", "repair_from_goals"}

BeforeVerdict == BeforeLane \cup {"audit_trust", "evaluate_protocol"}

(* What the verdict channel, the gateway's answer and the status of a run    *)
(* hold at each node.                                                       *)
RunRecord(r) ==
  /\ pc[r] # "idle" => /\ ch[r].obligation_id = r
                       /\ ch[r].interactive_result \in InteractiveAnswers \cup {None}
  /\ pc[r] \in {"idle"} \cup BeforeLane => answer[r] = None
  /\ pc[r] \in BeforeVerdict => ch[r].policy_decision = None
  /\ pc[r] = "policy_review" => ch[r].policy_decision = ProtocolVerdict(ch[r])
  /\ pc[r] \in {"interrupt_for_approval", "review_posted"} => Judged(r, {"needs_review"})
  /\ pc[r] = "finalize" => Judged(r, {"accepted"})
  /\ pc[r] = "end" =>
       \/ ch[r].status = "repairing" /\ answer[r] = None
       \/ ch[r].status = "auditing" /\ Judged(r, {"rejected", "blocked"})
       \/ ch[r].status = "awaiting_approval" /\ Judged(r, {"needs_review"})
       \/ ch[r].status = "accepted" /\ Judged(r, {"accepted"})

(* A resume delivers only on an approval.                                   *)
ResumeRecord(q) ==
  /\ pc[q] = "finalize" => ch[q].approval_decision = "approved"
  /\ pc[q] = "end" => \/ ch[q].status = "accepted" /\ ch[q].approval_decision = "approved"
                      \/ ch[q].status = "rejected"

(* The witness channel of a live invocation is as long as what it delivered.*)
WitnessRecord(i) ==
  pc[i] \in Nodes \cup {"end"} => Len(ch[i].artifacts) = Delivered(i)

(* The inductive strengthening of ProtectedNeedsHuman, ProtocolRefusalIsFinal, *)
(* RefusalHasCause and OneWitnessPerAcceptance, on top of LaneInv.           *)
VerdictInv ==
  /\ \A r \in Runs : RunRecord(r)
  /\ \A q \in Resumes : ResumeRecord(q)
  /\ \A i \in Invocations : WitnessRecord(i)
  /\ Len(checkpoint.artifacts) <= 1

----------------------------------------------------------------------------
(* What the documentation says and the code does not do                    *)

(* docs/architecture/reviewer-gated-execution.md: with the token `rejected` *)
(* execution is terminated.  policy_review only asks that a token is there. *)
RejectedTokenTerminates ==
  \A r \in Runs : Ended(r, "accepted") =>
    ~(/\ load_pack_for_review(ch[r]).reviewer_gated_execution
      /\ ch[r].approval_decision = "rejected")

============================================================================
