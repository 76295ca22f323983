--------------------------- MODULE ReviewFlowProofs ---------------------------
(* Human review: no run and no resume accepts more than the abstract gate   *)
(* of AcceptanceGate allows, whatever is lost, late, re-posted or resumed   *)
(* twice.                                                                   *)
EXTENDS ReviewFlow, ObligationGraphProofs

----------------------------------------------------------------------------
(* The flow and the graph                                                   *)

(* resume reads only decided records into its request.                      *)
LEMMA DecidedStep ==
  ASSUME RequestsDecided, [FlowNext]_flowVars
  PROVE  RequestsDecided'
<1>1. ASSUME NEW q \in Proxied, ResumeRead(q)
      PROVE  RequestsDecided'
  BY <1>1 DEF ResumeRead, RequestsDecided
<1>2. CASE UNCHANGED req
  BY <1>2 DEF RequestsDecided
<1> QED
  BY <1>1, <1>2 DEF FlowNext, PostReviewSent, PostReviewLost, create_pending_review,
     review_decision, ResumeForward, cmd_resume, reviewVars, flowVars

(* resume_review asks its client to resume only with a reviewer's decision. *)
LEMMA DecidedRequests == FlowSpec => []RequestsDecided
<1>1. FlowInit => RequestsDecided
  BY DEF FlowInit, RequestsDecided
<1> QED BY <1>1, DecidedStep, PTL DEF FlowSpec

(* A step of the flow is, on the graph's variables, a step of the graph.    *)
LEMMA FlowStepIsGraphStep ==
  ASSUME RequestsDecided, [FlowNext]_flowVars
  PROVE  [GraphNext]_graphVars
<1>1. ASSUME NEW q \in Proxied, ResumeForward(q)
      PROVE  GraphNext
  <2>1. q \in Resumes /\ req[q].decision \in {"approved", "rejected"}
    BY <1>1, ProxiedAssumption DEF RequestsDecided, ResumeForward, Rulings
  <2> QED BY <1>1, <2>1 DEF ResumeForward, GraphNext
<1> QED
  BY <1>1 DEF FlowNext, GraphNext, PostReviewSent, PostReviewLost, create_pending_review,
     review_decision, ResumeRead, cmd_resume, flowVars, Rulings

(* Seen without its review variables, the flow is the obligation graph: what*)
(* is proved of the graph holds of the flow.                                *)
THEOREM FlowImplementsGraph == FlowSpec => GraphSpec
<1>1. FlowInit => GraphInit
  BY DEF FlowInit
<1> QED BY <1>1, FlowStepIsGraphStep, DecidedRequests, PTL DEF FlowSpec, GraphSpec

----------------------------------------------------------------------------
(* What a step does to one run                                              *)

Still(i) == pc'[i] = pc[i] /\ ch'[i] = ch[i] /\ answer'[i] = answer[i]

(* A step of the graph is, seen from one invocation, a step of its own or   *)
(* nothing.                                                                 *)
LEMMA OwnStep ==
  ASSUME GraphTypeOK, [GraphNext]_graphVars, NEW i \in Invocations
  PROVE  \/ Still(i)
         \/ LocalNode(i) \/ PostReview(i) \/ Abort(i)
         \/ i \in Runs /\ RunObligation(i)
         \/ i \in Resumes /\ \E d \in Rulings : ResumeThread(i, d)
<1> USE DEF Still
<1>1. ASSUME NEW j \in Invocations \ {i}, LocalNode(j)
      PROVE  Still(i)
  BY <1>1, LocalNodeFrame
<1>2. ASSUME NEW j \in Invocations \ {i}, PostReview(j) \/ Abort(j)
      PROVE  Still(i)
  BY <1>2 DEF GraphTypeOK, PostReview, Abort
<1>3. ASSUME NEW r \in Runs, r # i, RunObligation(r)
      PROVE  Still(i)
  BY <1>3, GotoEffect DEF RunObligation, Invocations
<1>4. ASSUME NEW q \in Resumes, q # i, NEW d \in Rulings, ResumeThread(q, d)
      PROVE  Still(i)
  BY <1>4, GotoEffect DEF ResumeThread, Invocations
<1>5. CASE UNCHANGED graphVars
  BY <1>5 DEF graphVars
<1>6. CASE GraphNext
  BY <1>1, <1>2, <1>3, <1>4, <1>6 DEF GraphNext, Rulings
<1> QED BY <1>5, <1>6

(* A run without an answer has not passed; one not behind policy_review is  *)
(* not judged.                                                              *)
LEMMA UnjudgedPlaces ==
  ASSUME VerdictInv, NEW r \in Runs
  PROVE  /\ pc[r] \in {"idle"} \cup BeforeLane => ~LanePassed(r)
         /\ pc[r] \in {"idle"} \cup BeforeVerdict \cup {"policy_review"} =>
              ~JudgedAs(r, "accepted") /\ ~JudgedAs(r, "needs_review")
<1>1. RunRecord(r)
  BY DEF VerdictInv
<1>2. pc[r] \in {"idle"} \cup BeforeLane => ~LanePassed(r)
  BY <1>1 DEF RunRecord, LanePassed
<1>3. pc[r] \in BeforeVerdict => ch[r].policy_decision = None
  BY <1>1 DEF RunRecord
<1>4. pc[r] = "policy_review" =>
        ch[r].policy_decision = None \/ ch[r].policy_decision.decision \in {"rejected", "blocked"}
  BY <1>1, JointVerdictType DEF RunRecord
<1> QED BY <1>2, <1>3, <1>4 DEF JudgedAs, BeforeVerdict

(* What the gate knows of one run, and the ways a step may change it.       *)
Cleared(r)  == JudgedAs(r, "accepted")
Flagged(r)  == JudgedAs(r, "needs_review")
Accepted(i) == Ended(i, "accepted")

KeepsVerdict(r) == (Cleared(r)' <=> Cleared(r)) /\ (Flagged(r)' <=> Flagged(r))

RunRests(r) ==
  (LanePassed(r)' <=> LanePassed(r)) /\ KeepsVerdict(r) /\ (Accepted(r)' <=> Accepted(r))

RunPasses(r) == LanePassed(r)' /\ KeepsVerdict(r) /\ (Accepted(r)' <=> Accepted(r))

RunIsJudged(r) ==
  /\ LanePassed(r) /\ LanePassed(r)' /\ (Accepted(r)' <=> Accepted(r))
  /\ ~Cleared(r) /\ ~Flagged(r)
  /\ \/ Cleared(r)' /\ ~Flagged(r)'
     \/ Flagged(r)' /\ ~Cleared(r)'

RunAccepts(r) ==
  /\ Cleared(r) /\ KeepsVerdict(r) /\ (LanePassed(r)' <=> LanePassed(r))
  /\ Accepted(r)'

(* What any step of the graph does to what the gate knows of one run: the   *)
(* lane passes in batch_verify, policy clears or flags in policy_review, the*)
(* run accepts in finalize, and nothing is ever taken back.                 *)
LEMMA RunGateStep ==
  ASSUME GraphTypeOK, LaneInv, VerdictInv, [GraphNext]_graphVars, NEW r \in Runs
  PROVE  RunRests(r) \/ RunPasses(r) \/ RunIsJudged(r) \/ RunAccepts(r)
<1> USE DEF Accepted, Ended
<1>0. r \in Invocations /\ r \notin Resumes /\ RunRecord(r) /\ RunEvidence(r)
  BY GraphAssumption DEF Invocations, VerdictInv, LaneInv
\* Lanes, verdict and answer untouched: only the acceptance may change.
<1>1. ASSUME ch'[r].interactive_result = ch[r].interactive_result, answer'[r] = answer[r]
      PROVE  LanePassed(r)' <=> LanePassed(r)
  BY <1>1 DEF LanePassed, InteractiveClear
<1>2. ASSUME LanePassed(r)' <=> LanePassed(r),
             ch'[r].policy_decision = ch[r].policy_decision
      PROVE  KeepsVerdict(r)
  BY <1>2 DEF KeepsVerdict, Cleared, Flagged, JudgedAs
<1>3. ASSUME ~LanePassed(r), ~LanePassed(r)'
      PROVE  KeepsVerdict(r)
  BY <1>3 DEF KeepsVerdict, Cleared, Flagged, JudgedAs
<1>4. CASE Still(r)
  BY <1>1, <1>2, <1>4 DEF Still, RunRests
<1>5. CASE PostReview(r) \/ Abort(r)
  <2>1. /\ ch' = ch /\ answer' = answer /\ pc[r] # "end" /\ pc'[r] # "end"
    BY <1>0, <1>5 DEF PostReview, Abort, InFlight, Nodes, GraphTypeOK
  <2> QED BY <1>1, <1>2, <2>1 DEF RunRests
<1>6. CASE RunObligation(r)
  <2>1. /\ pc[r] = "idle" /\ answer' = answer /\ pc'[r] = "init_environment"
    BY <1>0, <1>6, RouteStartSeparates, GotoEffect DEF RunObligation
  <2>2. ~LanePassed(r) /\ ~LanePassed(r)'
    BY <1>0, <2>1 DEF RunRecord, LanePassed
  <2> QED BY <1>3, <2>1, <2>2 DEF RunRests
<1>7. CASE \/ InitEnvironment(r) \/ RetrieveContext(r) \/ DraftCandidate(r)
           \/ InteractiveCheck(r) \/ BatchVerify(r) \/ AuditTrust(r) \/ Repair(r)
  <2>1. CASE /\ pc[r] \in BeforeLane /\ answer'[r] = answer[r]
             /\ (pc'[r] \in BeforeLane \/ (pc'[r] = "end" /\ ch'[r].status = "repairing"))
    <3>1. ~LanePassed(r) /\ ~LanePassed(r)'
      BY <1>0, <2>1 DEF RunRecord, LanePassed
    <3> QED BY <1>3, <2>1, <3>1 DEF RunRests, BeforeLane
  <2>2. CASE pc[r] = "batch_verify" /\ pc'[r] = "audit_trust"
    <3>1. ch[r].policy_decision = None /\ ch'[r].policy_decision = None
      BY <1>0, <1>7, <2>2, LaneNodeEffect DEF RunRecord, BeforeVerdict, BeforeLane
    <3>2. KeepsVerdict(r)
      BY <3>1 DEF KeepsVerdict, Cleared, Flagged, JudgedAs
    <3>3. ~LanePassed(r)
      BY <2>2, UnjudgedPlaces DEF BeforeLane
    <3> QED BY <2>2, <3>2, <3>3 DEF RunRests, RunPasses
  <2>3. CASE /\ pc[r] = "audit_trust" /\ pc'[r] = "evaluate_protocol"
             /\ Lanes(ch'[r]) = Lanes(ch[r]) /\ answer'[r] = answer[r]
    <3>1. /\ ch'[r].interactive_result = ch[r].interactive_result
          /\ ch'[r].policy_decision = ch[r].policy_decision
      BY <1>0, <1>7, <2>3, LaneNodeEffect DEF Lanes
    <3> QED BY <1>1, <1>2, <2>3, <3>1 DEF RunRests
  <2>4. \/ /\ pc[r] \in BeforeLane /\ answer'[r] = answer[r]
           /\ (pc'[r] \in BeforeLane \/ (pc'[r] = "end" /\ ch'[r].status = "repairing"))
        \/ pc[r] = "batch_verify" /\ pc'[r] = "audit_trust"
        \/ /\ pc[r] = "audit_trust" /\ pc'[r] = "evaluate_protocol"
           /\ Lanes(ch'[r]) = Lanes(ch[r]) /\ answer'[r] = answer[r]
    BY <1>0, <1>7, LaneNodeEffect
  <2> QED BY <2>1, <2>2, <2>3, <2>4
<1>8. CASE EvaluateProtocol(r) \/ PolicyReview(r)
  <2>1. LanePassed(r)' <=> LanePassed(r)
    BY <1>0, <1>1, <1>8, JudgingNodeEffect DEF Lanes
  <2>2. pc[r] \in {"evaluate_protocol", "policy_review"} /\ ~Cleared(r) /\ ~Flagged(r)
    <3>1. pc[r] \in {"evaluate_protocol", "policy_review"}
      BY <1>8 DEF EvaluateProtocol, PolicyReview
    <3> QED BY <3>1, UnjudgedPlaces DEF Cleared, Flagged, BeforeVerdict
  <2>3. ~Accepted(r) /\ ~Accepted(r)'
    BY <1>0, <1>8, <2>2, JudgingNodeEffect
  <2>4. ~(Cleared(r)' /\ Flagged(r)')
    BY DEF Cleared, Flagged, JudgedAs
  <2>5. Cleared(r)' \/ Flagged(r)' => LanePassed(r)'
    BY DEF Cleared, Flagged, JudgedAs
  <2> QED BY <2>1, <2>2, <2>3, <2>4, <2>5 DEF RunRests, RunIsJudged, KeepsVerdict
<1>9. CASE InterruptForApproval(r) \/ Finalize(r) \/ ResumeWithApproval(r)
  <2>1. (LanePassed(r)' <=> LanePassed(r)) /\ KeepsVerdict(r)
    BY <1>0, <1>1, <1>2, <1>9, LastNodeEffect DEF Lanes
  <2>2. \/ /\ pc[r] = "review_posted" /\ pc'[r] = "end"
           /\ ch'[r].status = "awaiting_approval"
        \/ pc[r] = "finalize" /\ pc'[r] = "end" /\ ch'[r].status = "accepted"
    BY <1>0, <1>9, LastNodeEffect DEF LaneInv, StaleApprovalIgnored
  <2>3. pc[r] = "finalize" => Cleared(r)
    <3>1. pc[r] = "finalize" => LanePassed(r) /\ Judged(r, {"accepted"})
      BY <1>0 DEF RunRecord, RunEvidence, PassedReview
    <3> QED BY <3>1, JointVerdictType DEF Judged, Cleared, JudgedAs
  <2> QED BY <2>1, <2>2, <2>3 DEF RunRests, RunAccepts
<1> QED
  BY <1>0, <1>4, <1>5, <1>6, <1>7, <1>8, <1>9, OwnStep DEF LocalNode

----------------------------------------------------------------------------
(* The review record                                                        *)

(* What was put before a human stays flagged.                               *)
LEMMA EarnedStays ==
  ASSUME GraphTypeOK, LaneInv, VerdictInv, [GraphNext]_graphVars,
         NEW payload \in Payloads, Earned(payload)
  PROVE  Earned(payload)'
<1> DEFINE r == payload.obligation_id
<1>1. r \in Runs /\ Flagged(r)
  BY DEF Payloads, Earned, Flagged
<1>2. Flagged(r)'
  <2> HIDE DEF r
  <2> QED BY <1>1, RunGateStep DEF RunRests, RunPasses, RunIsJudged, RunAccepts, KeepsVerdict
<1> QED BY <1>2 DEF Earned, Flagged

(* A review payload is sent for a run that policy flagged, behind its lanes.*)
LEMMA SentPayloadIsEarned ==
  ASSUME GraphTypeOK, LaneInv, VerdictInv, NEW i \in Invocations, PostReview(i)
  PROVE  ReviewPayload(i) \in Payloads /\ Earned(ReviewPayload(i))
<1>1. pc[i] = "interrupt_for_approval" /\ i \in Runs
  BY DEF PostReview, Invocations, LaneInv, StaleApprovalIgnored
<1>2. /\ ch[i].obligation_id = i /\ Judged(i, {"needs_review"}) /\ LanePassed(i)
  BY <1>1 DEF VerdictInv, RunRecord, LaneInv, RunEvidence, PassedReview
<1>3. /\ ch[i].policy_decision # None /\ ch[i].policy_decision.decision = "needs_review"
      /\ ch[i].batch_result = answer[i] /\ answer[i] # None /\ answer[i].ok
  BY <1>2, JointVerdictType DEF Judged, LanePassed
<1>4. ReviewPayload(i) = [obligation_id |-> i, batch_ok |-> TRUE, policy |-> "needs_review"]
  <2>1. answer[i].ok \in BOOLEAN
    BY <1>3 DEF GraphTypeOK, BatchVerifyResult
  <2>2. answer[i].ok = TRUE
    BY <1>3, <2>1
  <2> QED BY <1>2, <1>3, <2>2 DEF ReviewPayload
<1> QED BY <1>1, <1>2, <1>3, <1>4 DEF Payloads, Decisions, Earned, JudgedAs

(* A resume through the gateway runs with the decision of the record its    *)
(* handler read, to its end.                                                *)
LEMMA ResumeLinkStep ==
  ASSUME GraphTypeOK, RequestsDecided, [FlowNext]_flowVars,
         NEW q \in Proxied, ResumeLink(q)
  PROVE  ResumeLink(q)'
<1>0. q \in Invocations /\ q \in Resumes /\ q \notin Runs
  BY ProxiedAssumption, GraphAssumption DEF Invocations
<1>1. CASE ResumeForward(q)
  <2>1. req[q] # NoReview /\ req[q].decision \in Rulings /\ req' = req
    BY <1>1 DEF ResumeForward, RequestsDecided, reviewVars
  <2>2. ch'[q] = make_resume_state(req[q].decision, checkpoint)
    BY <1>0, <1>1, GotoEffect DEF ResumeForward, ResumeThread
  <2> QED BY <2>1, <2>2 DEF ResumeLink, make_resume_state
<1>2. CASE ResumeRead(q)
  <2>1. pc[q] = "idle" /\ pc' = pc
    BY <1>2 DEF ResumeRead, ResumeLink, graphVars
  <2> QED BY <2>1 DEF ResumeLink
<1>3. CASE req'[q] = req[q] /\ Still(q)
  BY <1>3 DEF ResumeLink, Still
<1>4. CASE req'[q] = req[q] /\ (LocalNode(q) \/ PostReview(q) \/ Abort(q))
  <2>1. pc[q] # "idle"
    BY <1>4 DEF LocalNode, InitEnvironment, RetrieveContext, DraftCandidate,
       InteractiveCheck, BatchVerify, AuditTrust, EvaluateProtocol, PolicyReview,
       InterruptForApproval, Finalize, Repair, ResumeWithApproval, PostReview, Abort,
       InFlight, Nodes
  <2>2. CASE LocalNode(q)
    <3>1. ch'[q].approval_decision = ch[q].approval_decision
      BY <1>0, <2>2, LaneNodeEffect, JudgingNodeEffect, LastNodeEffect DEF LocalNode, Inputs
    <3> QED BY <1>4, <2>1, <3>1 DEF ResumeLink
  <2>3. CASE PostReview(q) \/ Abort(q)
    BY <1>4, <2>1, <2>3 DEF ResumeLink, PostReview, Abort
  <2> QED BY <1>4, <2>2, <2>3
<1>5. CASE ~ResumeForward(q) /\ ~ResumeRead(q)
  <2>1. req'[q] = req[q]
    <3>1. ASSUME NEW p \in Proxied, ResumeRead(p)
          PROVE  req'[q] = req[q]
      BY <1>5, <3>1 DEF ResumeRead, RequestsDecided
    <3> QED BY <3>1 DEF FlowNext, PostReviewSent, PostReviewLost, create_pending_review,
         review_decision, ResumeForward, cmd_resume, reviewVars, flowVars
  <2>2. Still(q) \/ LocalNode(q) \/ PostReview(q) \/ Abort(q)
    <3>1. ASSUME NEW p \in Resumes \ {q}, NEW d \in Rulings, ResumeThread(p, d)
          PROVE  Still(q)
      BY <1>0, <3>1, GotoEffect DEF ResumeThread, Invocations, Still
    <3>2. ASSUME NEW r \in Runs, RunObligation(r)
          PROVE  Still(q)
      BY <1>0, <3>2, GotoEffect DEF RunObligation, Invocations, Still
    <3>3. ASSUME NEW i \in Invocations \ {q}, LocalNode(i) \/ PostReview(i) \/ Abort(i)
          PROVE  Still(q)
      BY <1>0, <3>3, LocalNodeFrame DEF PostReview, Abort, GraphTypeOK, Still
    <3>4. CASE UNCHANGED graphVars
      BY <3>4 DEF graphVars, Still
    <3>5. ASSUME NEW p \in Proxied, ResumeForward(p)
          PROVE  Still(q)
      BY <1>5, <3>1, <3>5, ProxiedAssumption DEF ResumeForward, RequestsDecided
    <3> QED BY <1>5, <3>1, <3>2, <3>3, <3>4, <3>5 DEF FlowNext, PostReviewSent,
         PostReviewLost, create_pending_review, review_decision, ResumeRead, cmd_resume,
         flowVars
  <2> QED BY <1>3, <1>4, <2>1, <2>2
<1> QED BY <1>1, <1>2, <1>5

(* What is known of a record stays known.                                   *)
LEMMA SoundStays ==
  ASSUME GraphTypeOK, LaneInv, VerdictInv, [GraphNext]_graphVars,
         approvals \subseteq approvals', NEW record, SoundRecord(record)
  PROVE  /\ record # NoReview => /\ record.payload \in Payloads /\ Earned(record.payload)'
                                 /\ record.decision = "approved"
                                      => record.payload.obligation_id \in approvals'
BY EarnedStays DEF SoundRecord

(* FlowInv is inductive, given the graph's invariants.                      *)
LEMMA FlowInvStep ==
  ASSUME GraphTypeOK, LaneInv, VerdictInv, FlowInv, [FlowNext]_flowVars
  PROVE  FlowInv'
<1> USE DEF Rulings
<1>0. /\ review \in Records /\ SoundRecord(review)
      /\ outbox \subseteq Payloads /\ \A payload \in outbox : Earned(payload)
      /\ req \in [Proxied -> Records] /\ approvals \subseteq Runs /\ RequestsDecided
      /\ \A q \in Proxied : SoundRecord(req[q]) /\ ResumeLink(q)
  BY DEF FlowInv, FlowTypeOK
<1>1. [GraphNext]_graphVars
  BY <1>0, FlowStepIsGraphStep
<1>2. RequestsDecided'
  BY <1>0, DecidedStep
<1>3. \A q \in Proxied : ResumeLink(q)'
  BY <1>0, ResumeLinkStep
<1>4. \A payload \in outbox : payload \in Payloads /\ Earned(payload)'
  BY <1>0, <1>1, EarnedStays
\* It is enough that new payloads, the record and what was read are sound.
<1>5. ASSUME outbox' \subseteq outbox \cup {p \in Payloads : Earned(p)'},
             review' \in Records, SoundRecord(review)',
             req' \in [Proxied -> Records], \A q \in Proxied : SoundRecord(req[q])',
             approvals' \subseteq Runs
      PROVE  FlowInv'
  BY <1>2, <1>3, <1>4, <1>5 DEF FlowInv, FlowTypeOK
\* Steps that leave the store and the requests alone.
<1>6. ASSUME UNCHANGED <<review, req, approvals>>,
             outbox' \subseteq outbox \cup {p \in Payloads : Earned(p)'}
      PROVE  FlowInv'
  <2>1. SoundRecord(review)' /\ \A q \in Proxied : SoundRecord(req[q])'
    BY <1>0, <1>1, <1>6, SoundStays DEF SoundRecord
  <2> QED BY <1>0, <1>5, <1>6, <2>1
<1>7. ASSUME NEW i \in Invocations, PostReviewSent(i)
      PROVE  FlowInv'
  <2>1. PICK p : p = ReviewPayload(i)
    OBVIOUS
  <2>2. p \in Payloads /\ Earned(p)
    BY <1>7, <2>1, SentPayloadIsEarned DEF PostReviewSent
  <2>3. Earned(p)'
    BY <1>1, <2>2, EarnedStays
  <2>4. outbox' = outbox \cup {p} /\ UNCHANGED <<review, req, approvals>>
    BY <1>7, <2>1 DEF PostReviewSent
  <2> QED BY <1>6, <2>2, <2>3, <2>4
<1>8. ASSUME NEW payload \in outbox, create_pending_review(payload)
      PROVE  FlowInv'
  <2>1. review' = [payload |-> payload, decision |-> None]
    BY <1>8 DEF create_pending_review, put
  <2>2. payload \in Payloads /\ Earned(payload)'
    BY <1>4, <1>8
  <2>3. UNCHANGED <<req, approvals>> /\ outbox' \subseteq outbox
    BY <1>8 DEF create_pending_review
  <2>4. review' \in Records /\ SoundRecord(review)'
    BY <2>1, <2>2, NoneAssumption DEF Records, SoundRecord
  <2>5. \A q \in Proxied : SoundRecord(req[q])'
    BY <1>0, <1>1, <2>3, SoundStays DEF SoundRecord
  <2> QED BY <1>0, <1>5, <2>3, <2>4, <2>5
<1>9. ASSUME NEW decision \in Rulings, review_decision(decision)
      PROVE  FlowInv'
  <2>1. /\ review # NoReview /\ review' = [review EXCEPT !.decision = decision]
        /\ UNCHANGED <<outbox, req>>
        /\ approvals' = IF decision = "approved"
                          THEN approvals \cup {review.payload.obligation_id} ELSE approvals
    BY <1>9 DEF review_decision, set_decision
  <2>2. review.payload \in Payloads /\ review.payload.obligation_id \in Runs
    BY <1>0, <2>1 DEF SoundRecord, Payloads
  <2>3. approvals \subseteq approvals' /\ approvals' \subseteq Runs
    BY <1>0, <2>1, <2>2
  <2>4. review' = [payload |-> review.payload, decision |-> decision]
    BY <1>0, <2>1 DEF Records
  <2>5. review' \in Records /\ SoundRecord(review)'
    BY <1>0, <1>1, <2>1, <2>2, <2>4, EarnedStays DEF Records, SoundRecord
  <2>6. \A q \in Proxied : SoundRecord(req[q])'
    BY <1>0, <1>1, <2>1, <2>3, SoundStays DEF SoundRecord
  <2> QED BY <1>0, <1>5, <2>1, <2>3, <2>5, <2>6
<1>10. ASSUME NEW q \in Proxied, ResumeRead(q)
       PROVE  FlowInv'
  <2>1. req' = [req EXCEPT ![q] = review] /\ UNCHANGED <<review, outbox, approvals>>
    BY <1>10 DEF ResumeRead
  <2>2. req' \in [Proxied -> Records]
    BY <1>0, <2>1
  <2>3. \A p \in Proxied : req'[p] = IF p = q THEN review ELSE req[p]
    BY <1>0, <2>1
  <2>4. SoundRecord(review)' /\ \A p \in Proxied : SoundRecord(req[p])'
    BY <1>0, <1>1, <2>1, <2>3, SoundStays DEF SoundRecord
  <2> QED BY <1>0, <1>5, <2>1, <2>2, <2>4
<1> QED
  BY <1>6, <1>7, <1>8, <1>9, <1>10 DEF FlowNext, PostReviewLost, ResumeForward, cmd_resume,
     reviewVars, flowVars

(* What the graph's theorems say of the flow.                               *)
LEMMA FlowGraphInvariants == FlowSpec => [](GraphTypeOK /\ LaneInv /\ VerdictInv)
BY FlowImplementsGraph, GraphTypeCorrect, LaneInvariant, VerdictInvariant, PTL

THEOREM FlowInvariant == FlowSpec => []FlowInv
<1>1. FlowInit => FlowInv
  <2> SUFFICES ASSUME FlowInit
               PROVE  FlowInv
    OBVIOUS
  <2>1. /\ review = NoReview /\ outbox = {} /\ approvals = {}
        /\ req = [q \in Proxied |-> NoReview]
        /\ \A q \in Proxied : pc[q] = "idle"
    BY ProxiedAssumption DEF FlowInit, GraphInit, Invocations
  <2>2. NoReview \in Records
    BY DEF NoReview, Records
  <2> QED BY <2>1, <2>2 DEF FlowInv, FlowTypeOK, RequestsDecided, SoundRecord, ResumeLink
<1> QED BY <1>1, FlowInvStep, FlowGraphInvariants, PTL DEF FlowSpec

(* The review store and the requests hold what their types say.             *)
THEOREM FlowTypeCorrect == FlowSpec => []FlowTypeOK
<1>1. FlowInv => FlowTypeOK
  BY DEF FlowInv
<1> QED BY <1>1, FlowInvariant, PTL

(* For any runs and resumes, and any loss, delay or repetition of payloads: *)
(* a human only ever sees a candidate that passed its lanes and that policy *)
(* flagged.                                                                 *)
THEOREM ReviewsShowEarned == FlowSpec => []ReviewsAreEarned
<1>1. FlowInv => ReviewsAreEarned
  <2> SUFFICES ASSUME FlowInv
               PROVE  ReviewsAreEarned
    OBVIOUS
  <2>1. ASSUME NEW record, SoundRecord(record), record.payload # None
        PROVE  Earned(record.payload)
    BY <2>1 DEF SoundRecord, NoReview
  <2> QED BY <2>1 DEF FlowInv, ReviewsAreEarned
<1> QED BY <1>1, FlowInvariant, PTL

(* Behind every acceptance through the gateway stands a human's approval of *)
(* an obligation that passed its lanes and that policy flagged.             *)
THEOREM AcceptanceHasHuman == FlowSpec => []HumanBehindAcceptance
<1>1. VerdictInv /\ FlowInv => HumanBehindAcceptance
  <2> SUFFICES ASSUME VerdictInv, FlowInv, NEW q \in Proxied, Ended(q, "accepted")
               PROVE  \E r \in approvals : /\ r = req[q].payload.obligation_id
                                           /\ JudgedAs(r, "needs_review")
    BY DEF HumanBehindAcceptance
  <2>1. ch[q].approval_decision = "approved" /\ pc[q] # "idle"
    BY ProxiedAssumption DEF VerdictInv, ResumeRecord, Ended
  <2>2. req[q] # NoReview /\ req[q].decision = "approved" /\ SoundRecord(req[q])
    BY <2>1 DEF FlowInv, ResumeLink
  <2> QED BY <2>2 DEF SoundRecord, Earned
<1> QED BY <1>1, FlowInvariant, FlowGraphInvariants, PTL

----------------------------------------------------------------------------
(* The flow implements the gate                                             *)

(* What a resume may do to the gate's view: it accepts on the approval it   *)
(* was granted, or nothing.                                                 *)
LEMMA ResumeGateStep ==
  ASSUME GraphTypeOK, LaneInv, VerdictInv, FlowInv, [GraphNext]_graphVars, NEW q \in Proxied
  PROVE  \/ Accepted(q)' <=> Accepted(q)
         \/ Accepted(q)' /\ q \in approved
<1> USE DEF Accepted, Ended
<1>0. q \in Invocations /\ q \in Resumes /\ q \notin Runs /\ ResumeRecord(q) /\ ResumeLink(q)
  BY ProxiedAssumption, GraphAssumption DEF Invocations, VerdictInv, FlowInv
<1>1. CASE Still(q)
  BY <1>1 DEF Still
<1>2. CASE LocalNode(q)
  <2>1. Finalize(q) \/ ResumeWithApproval(q)
    BY <1>0, <1>2 DEF LaneInv, StaleApprovalIgnored, LocalNode, InitEnvironment,
       RetrieveContext, DraftCandidate, InteractiveCheck, BatchVerify, AuditTrust,
       EvaluateProtocol, PolicyReview, InterruptForApproval, Repair
  <2>2. pc[q] \in {"finalize", "resume_with_approval"}
    BY <2>1 DEF Finalize, ResumeWithApproval
  <2>3. CASE pc[q] = "finalize"
    <3>1. ch[q].approval_decision = "approved" /\ req[q].decision = "approved"
      BY <1>0, <2>3 DEF ResumeRecord, ResumeLink
    <3>2. pc'[q] = "end" /\ ch'[q].status = "accepted"
      BY <1>0, <2>1, <2>3, LastNodeEffect
    <3> QED BY <3>1, <3>2 DEF approved
  <2>4. CASE pc[q] = "resume_with_approval"
    BY <1>0, <2>1, <2>4, LastNodeEffect
  <2> QED BY <2>2, <2>3, <2>4
<1>3. CASE PostReview(q) \/ Abort(q)
  BY <1>0, <1>3 DEF PostReview, Abort, InFlight, Nodes, GraphTypeOK
<1>4. ASSUME NEW d \in Rulings, ResumeThread(q, d)
      PROVE  Accepted(q)' <=> Accepted(q)
  BY <1>0, <1>4, RouteStartSeparates, GotoEffect DEF ResumeThread, Rulings
<1> QED BY <1>0, <1>1, <1>2, <1>3, <1>4, OwnStep

(* The graph moves one invocation at a time.                                *)
LEMMA OneMoves ==
  ASSUME GraphTypeOK, GraphNext
  PROVE  \E i \in Invocations : \A j \in Invocations \ {i} : Still(j)
<1> USE DEF Still
<1>1. ASSUME NEW i \in Invocations, LocalNode(i) \/ PostReview(i) \/ Abort(i)
      PROVE  \A j \in Invocations \ {i} : Still(j)
  BY <1>1, LocalNodeFrame DEF PostReview, Abort, GraphTypeOK
<1>2. ASSUME NEW r \in Runs, RunObligation(r)
      PROVE  r \in Invocations /\ \A j \in Invocations \ {r} : Still(j)
  BY <1>2, GotoEffect DEF RunObligation, Invocations
<1>3. ASSUME NEW q \in Resumes, NEW d \in Rulings, ResumeThread(q, d)
      PROVE  q \in Invocations /\ \A j \in Invocations \ {q} : Still(j)
  BY <1>3, GotoEffect DEF ResumeThread, Invocations
<1> QED BY <1>1, <1>2, <1>3 DEF GraphNext, Rulings

(* What rests in every run leaves the gate's sets alone.                    *)
LEMMA SetsRest ==
  ASSUME \A r \in Runs : RunRests(r), \A q \in Proxied : Accepted(q)' <=> Accepted(q)
  PROVE  UNCHANGED <<passedRuns, judgedRuns("accepted"), judgedRuns("needs_review"),
                     acceptedInvocations>>
BY DEF RunRests, KeepsVerdict, passedRuns, judgedRuns, Cleared, Flagged,
       acceptedInvocations, Accepted

(* A step of the graph is a step of the gate, or invisible to it.           *)
LEMMA GraphGateStep ==
  ASSUME GraphTypeOK, LaneInv, VerdictInv, FlowInv, [GraphNext]_graphVars,
         UNCHANGED <<filed, approved>>
  PROVE  [Gate!Next]_Gate!gateVars
<1> DEFINE cleared == judgedRuns("accepted")
           flagged == judgedRuns("needs_review")
<1>0. /\ Runs \cap Proxied = {} /\ Runs \subseteq Invocations
      /\ Proxied \subseteq Invocations
  BY ProxiedAssumption, GraphAssumption DEF Invocations
<1>1. \A j \in Invocations : Still(j) =>
        (j \in Runs => RunRests(j)) /\ (Accepted(j)' <=> Accepted(j))
  BY DEF Still, RunRests, KeepsVerdict, Cleared, Flagged, JudgedAs, LanePassed,
     InteractiveClear, Accepted, Ended
<1>2. CASE \A j \in Invocations : Still(j)
  BY <1>0, <1>1, <1>2, SetsRest DEF Gate!gateVars
<1>3. CASE GraphNext
  <2>1. PICK i \in Invocations : \A j \in Invocations \ {i} : Still(j)
    BY <1>3, OneMoves
  <2>2. \A j \in Invocations \ {i} :
          (j \in Runs => RunRests(j)) /\ (Accepted(j)' <=> Accepted(j))
    BY <1>1, <2>1
  <2>3. CASE i \in Runs /\ RunRests(i)
    BY <1>0, <2>2, <2>3, SetsRest DEF Gate!gateVars, RunRests
  <2>4. CASE i \in Runs /\ RunPasses(i)
    <3>1. Gate!Pass(i)
      BY <1>0, <2>2, <2>4 DEF Gate!Pass, RunRests, RunPasses, KeepsVerdict, passedRuns,
         judgedRuns, Cleared, Flagged, acceptedInvocations, Accepted
    <3> QED BY <2>4, <3>1 DEF Gate!Next
  <2>5. CASE i \in Runs /\ RunIsJudged(i)
    <3>1. passedRuns' = passedRuns /\ i \in passedRuns
      BY <1>0, <2>2, <2>5 DEF RunRests, RunIsJudged, passedRuns
    <3>2. acceptedInvocations' = acceptedInvocations
      BY <1>0, <2>2, <2>5 DEF RunRests, RunIsJudged, acceptedInvocations, Accepted
    <3>3. i \notin cleared /\ i \notin flagged
      BY <2>5 DEF RunIsJudged, judgedRuns, Cleared, Flagged
    <3>4. \/ cleared' = cleared \cup {i} /\ flagged' = flagged
          \/ flagged' = flagged \cup {i} /\ cleared' = cleared
      BY <1>0, <2>2, <2>5 DEF RunRests, RunIsJudged, KeepsVerdict, judgedRuns, Cleared,
         Flagged
    <3> HIDE DEF cleared, flagged
    <3>5. Gate!Clear(i) \/ Gate!Flag(i)
      BY <3>1, <3>2, <3>3, <3>4 DEF Gate!Clear, Gate!Flag, cleared, flagged
    <3> QED BY <2>5, <3>5 DEF Gate!Next
  <2>6. CASE i \in Runs /\ RunAccepts(i)
    <3>1. Gate!Accept(i)
      BY <1>0, <2>2, <2>6 DEF Gate!Accept, RunRests, RunAccepts, KeepsVerdict, passedRuns,
         judgedRuns, Cleared, Flagged, acceptedInvocations, Accepted
    <3> QED BY <2>6, <3>1 DEF Gate!Next
  <2>7. CASE i \in Proxied
    <3>1. \A r \in Runs : RunRests(r)
      BY <1>0, <2>2, <2>7
    <3>2. CASE Accepted(i)' <=> Accepted(i)
      BY <1>0, <2>2, <3>1, <3>2, SetsRest DEF Gate!gateVars
    <3>3. CASE Accepted(i)' /\ i \in approved
      <4>1. acceptedInvocations' = acceptedInvocations \cup {i}
        BY <1>0, <2>2, <2>7, <3>3 DEF acceptedInvocations, Accepted
      <4>2. UNCHANGED <<passedRuns, judgedRuns("accepted"), judgedRuns("needs_review")>>
        BY <3>1 DEF RunRests, KeepsVerdict, passedRuns, judgedRuns, Cleared, Flagged
      <4>3. Gate!Accept(i)
        BY <3>3, <4>1, <4>2 DEF Gate!Accept
      <4> QED BY <2>7, <4>3 DEF Gate!Next
    <3> QED BY <2>7, <3>2, <3>3, ResumeGateStep
  <2>8. CASE i \notin Runs /\ i \notin Proxied
    BY <1>0, <2>2, <2>8, SetsRest DEF Gate!gateVars
  <2> QED BY <2>3, <2>4, <2>5, <2>6, <2>7, <2>8, RunGateStep
<1>4. CASE UNCHANGED graphVars
  BY <1>2, <1>4 DEF graphVars, Still
<1> QED BY <1>3, <1>4

(* What the review endpoints do is a step of the gate as well.              *)
LEMMA ReviewGateStep ==
  ASSUME FlowInv, UNCHANGED graphVars,
         \/ \E payload \in outbox : create_pending_review(payload)
         \/ \E decision \in Rulings : review_decision(decision)
         \/ \E q \in Proxied : ResumeRead(q)
  PROVE  [Gate!Next]_Gate!gateVars
<1> USE DEF Rulings
<1>0. /\ review \in Records /\ SoundRecord(review)
      /\ outbox \subseteq Payloads /\ \A payload \in outbox : Earned(payload)
      /\ req \in [Proxied -> Records]
  BY DEF FlowInv, FlowTypeOK
<1>1. UNCHANGED <<passedRuns, judgedRuns("accepted"), judgedRuns("needs_review"),
                  acceptedInvocations>>
  BY DEF graphVars, passedRuns, judgedRuns, acceptedInvocations, Ended, JudgedAs, LanePassed,
     InteractiveClear
<1>2. ASSUME NEW payload \in outbox, create_pending_review(payload)
      PROVE  Gate!Next
  <2> DEFINE o == payload.obligation_id
  <2>1. /\ review' = [payload |-> payload, decision |-> None] /\ req' = req
        /\ payload \in Payloads /\ payload # None /\ o \in Runs
    BY <1>0, <1>2, FlowNoneAssumption DEF create_pending_review, put, Payloads
  <2>2. review' # NoReview
    BY <2>1 DEF NoReview
  <2>3. filed' = [obligation |-> o, ruling |-> None] /\ approved' = approved
    BY <2>1, <2>2 DEF filed, approved
  <2>4. o \in judgedRuns("needs_review")
    BY <1>0, <2>1 DEF judgedRuns, Earned
  <2> HIDE DEF o
  <2>5. Gate!File(o)
    BY <1>1, <2>3, <2>4 DEF Gate!File
  <2> QED BY <2>1, <2>5 DEF Gate!Next
<1>3. ASSUME NEW decision \in Rulings, review_decision(decision)
      PROVE  Gate!Next
  <2>1. /\ review # NoReview /\ req' = req
        /\ review' = [payload |-> review.payload, decision |-> decision]
    BY <1>0, <1>3 DEF review_decision, set_decision, Records
  <2>2. review' # NoReview
    BY <2>1, NoneAssumption DEF NoReview
  <2>3. /\ filed = [obligation |-> review.payload.obligation_id, ruling |-> review.decision]
        /\ filed' = [obligation |-> review.payload.obligation_id, ruling |-> decision]
        /\ approved' = approved
    BY <2>1, <2>2 DEF filed, approved
  <2>4. filed # None
    BY <1>0, <2>1, <2>3, FlowNoneAssumption DEF SoundRecord, Payloads, Records
  <2>5. filed' = [filed EXCEPT !.ruling = decision]
    BY <2>3
  <2>6. Gate!Rule(decision)
    BY <1>1, <2>3, <2>4, <2>5 DEF Gate!Rule
  <2> QED BY <2>6 DEF Gate!Next
<1>4. ASSUME NEW q \in Proxied, ResumeRead(q)
      PROVE  [Gate!Next]_Gate!gateVars
  <2>1. /\ review # NoReview /\ review.decision \in Rulings /\ review' = review
        /\ req[q] = NoReview /\ req' = [req EXCEPT ![q] = review]
    BY <1>4 DEF ResumeRead
  <2>2. filed = [obligation |-> review.payload.obligation_id, ruling |-> review.decision]
        /\ filed' = filed
    BY <2>1 DEF filed
  <2>3. filed # None
    BY <1>0, <2>1, <2>2, FlowNoneAssumption DEF SoundRecord, Payloads, Records
  <2>4. CASE review.decision = "approved"
    <3>1. approved' = approved \cup {q}
      BY <1>0, <2>1, <2>4 DEF approved
    <3>2. Gate!Grant(q)
      BY <1>1, <2>2, <2>3, <2>4, <3>1 DEF Gate!Grant
    <3> QED BY <3>2 DEF Gate!Next
  <2>5. CASE review.decision = "rejected"
    <3>1. q \notin approved
      BY <2>1, NoneAssumption DEF approved, NoReview
    <3>2. approved' = approved
      BY <1>0, <2>1, <2>5, <3>1 DEF approved
    <3> QED BY <1>1, <2>2, <3>2 DEF Gate!gateVars
  <2> QED BY <2>1, <2>4, <2>5
<1> QED BY <1>2, <1>3, <1>4

(* The detailed flow - nodes, checkpoint, lossy review store, proxied and   *)
(* repeated resumes - implements the abstract gate: each of its steps is a  *)
(* step of the gate under the mapping, or invisible to it.                  *)
THEOREM FlowImplementsGate == FlowSpec => ImplementsGate
<1>1. FlowInit => Gate!Init
  <2> SUFFICES ASSUME FlowInit
               PROVE  Gate!Init
    OBVIOUS
  <2>1. \A i \in Invocations : pc[i] = "idle" /\ answer[i] = None
    BY DEF FlowInit, GraphInit
  <2>2. passedRuns = {} /\ judgedRuns("accepted") = {} /\ judgedRuns("needs_review") = {}
    BY <2>1 DEF passedRuns, judgedRuns, JudgedAs, LanePassed, Invocations
  <2>3. acceptedInvocations = {}
    BY <2>1, ProxiedAssumption DEF acceptedInvocations, Ended, Invocations
  <2>4. filed = None /\ approved = {}
    BY NoneAssumption DEF FlowInit, filed, approved, NoReview
  <2> QED BY <2>2, <2>3, <2>4 DEF Gate!Init
<1>2. GraphTypeOK /\ LaneInv /\ VerdictInv /\ FlowInv /\ [FlowNext]_flowVars
        => [Gate!Next]_Gate!gateVars
  <2> SUFFICES ASSUME GraphTypeOK, LaneInv, VerdictInv, FlowInv, [FlowNext]_flowVars
               PROVE  [Gate!Next]_Gate!gateVars
    OBVIOUS
  <2>1. [GraphNext]_graphVars
    BY FlowStepIsGraphStep DEF FlowInv
  <2>2. CASE UNCHANGED <<review, req>>
    <3>1. UNCHANGED <<filed, approved>>
      BY <2>2 DEF filed, approved
    <3> QED BY <2>1, <3>1, GraphGateStep
  <2>3. CASE \/ \E payload \in outbox : create_pending_review(payload)
             \/ \E decision \in Rulings : review_decision(decision)
             \/ \E q \in Proxied : ResumeRead(q)
    <3>1. UNCHANGED graphVars
      BY <2>3 DEF create_pending_review, review_decision, ResumeRead
    <3> QED BY <2>3, <3>1, ReviewGateStep
  <2> QED
    BY <2>2, <2>3 DEF FlowNext, PostReviewSent, PostReviewLost, ResumeForward, cmd_resume,
       reviewVars, flowVars
<1> QED
  BY <1>1, <1>2, FlowInvariant, FlowGraphInvariants, PTL DEF FlowSpec, ImplementsGate, Gate!Spec

(* The gate keeps its own promise, for the flow's variables in its place.   *)
LEMMA GateKeepsPromise == Gate!Spec => []Gate!AcceptanceRestsOnLane
<1>0. Runs \cap Proxied = {}
  BY ProxiedAssumption, GraphAssumption
<1>1. Gate!Init => Gate!GateInv
  BY DEF Gate!Init, Gate!GateInv
<1>2. Gate!GateInv /\ [Gate!Next]_Gate!gateVars => Gate!GateInv'
  <2> SUFFICES ASSUME Gate!GateInv, [Gate!Next]_Gate!gateVars
               PROVE  Gate!GateInv'
    OBVIOUS
  <2> USE DEF Gate!GateInv
  <2>1. ASSUME NEW o \in Runs, Gate!Pass(o) \/ Gate!Clear(o) \/ Gate!Flag(o)
        PROVE  Gate!GateInv'
    BY <2>1 DEF Gate!Pass, Gate!Clear, Gate!Flag
  <2>2. ASSUME NEW o \in Runs, Gate!File(o)
        PROVE  Gate!GateInv'
    BY <2>2 DEF Gate!File
  <2>3. ASSUME NEW ruling \in {"approved", "rejected"}, Gate!Rule(ruling)
        PROVE  Gate!GateInv'
    BY <2>3 DEF Gate!Rule
  <2>4. ASSUME NEW q \in Proxied, Gate!Grant(q)
        PROVE  Gate!GateInv'
    BY <2>4 DEF Gate!Grant
  <2>5. ASSUME NEW i \in Runs \cup Proxied, Gate!Accept(i)
        PROVE  Gate!GateInv'
    BY <2>5 DEF Gate!Accept
  <2>6. CASE UNCHANGED Gate!gateVars
    BY <2>6 DEF Gate!gateVars
  <2> QED BY <2>1, <2>2, <2>3, <2>4, <2>5, <2>6 DEF Gate!Next
<1>3. Gate!GateInv => Gate!AcceptanceRestsOnLane
  BY <1>0 DEF Gate!GateInv, Gate!AcceptanceRestsOnLane
<1> QED BY <1>1, <1>2, <1>3, PTL DEF Gate!Spec

(* What the refinement is for: nothing is accepted on a thread none of whose*)
(* obligations passed the lane, and no run accepts what policy flagged.     *)
THEOREM FlowRestsOnLane == FlowSpec => []Gate!AcceptanceRestsOnLane
BY FlowImplementsGate, GateKeepsPromise, PTL DEF ImplementsGate
============================================================================
