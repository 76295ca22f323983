----------------------------- MODULE ReviewFlow -----------------------------
(***************************************************************************)
(* Human review: the obligation graph together with the gateway's review   *)
(* store and review endpoints, the orchestrator's resume endpoint and the  *)
(* CLI's resume.                                                           *)
(*                                                                         *)
(* interrupt_for_approval sends the review payload to the gateway, which   *)
(* stores it before, or after, the node has returned (the client gives up  *)
(* waiting, not the server), or never sees it.  approve and reject write   *)
(* the thread's record; resume reads the record and only then asks the     *)
(* orchestrator to resume the thread with the decision it read.  The CLI   *)
(* resumes with the decision of its --decision flag.                       *)
(***************************************************************************)
EXTENDS ObligationGraph

CONSTANT Proxied     \* resumes sent through the gateway; the others are CLI

ASSUME ProxiedAssumption == Proxied \subseteq Resumes

Payloads == [obligation_id : Runs, batch_ok : BOOLEAN, policy : Decisions]

Rulings == {"approved", "rejected"}

(* None is neither a payload nor an entry of the abstract gate's docket.    *)
ASSUME FlowNoneAssumption ==
  /\ None \notin Payloads
  /\ None \notin [obligation : Runs, ruling : Rulings \cup {None}]

VARIABLES review,    \* the review store's record of the thread
          outbox,    \* review payloads sent and not yet stored
          req,       \* req[q]: the record that q's gateway handler read
          approvals  \* observation: obligations whose record was approved

reviewVars == <<review, outbox, req, approvals>>
flowVars   == <<graphVars, reviewVars>>

NoReview == [payload |-> None, decision |-> None]

\* What a reviewer is shown, of what the properties tell apart.
ReviewPayload(i) ==
  [obligation_id |-> ch[i].obligation_id,
   batch_ok      |-> ch[i].batch_result # None /\ ch[i].batch_result.ok,
   policy        |-> ch[i].policy_decision.decision]

----------------------------------------------------------------------------
(* The review store, InMemoryReviewStore or PostgresReviewStore.            *)

\* Create or replace; clears any prior decision.
put(payload) == review' = [payload |-> payload, decision |-> None]

\* A mistake: the payload's status stored as the decision.
CreateWithStatus(payload) ==
  /\ review' = [payload |-> payload, decision |-> "awaiting_review"]
  /\ outbox' = outbox \ {payload}
  /\ UNCHANGED <<graphVars, req, approvals>>

\* Overwrites whatever decision is there, whether or not it was resumed.
set_decision(decision) ==
  /\ review # NoReview
  /\ review' = [review EXCEPT !.decision = decision]

----------------------------------------------------------------------------
(* interrupt_for_approval's POST, and the gateway's side of it              *)

PostReviewSent(i) ==
  /\ PostReview(i)
  /\ outbox' = outbox \cup {ReviewPayload(i)}
  /\ UNCHANGED <<review, req, approvals>>

\* Gateway unreachable or answering an error, or the payload not validating:
\* `except Exception: pass`.
PostReviewLost(i) == PostReview(i) /\ UNCHANGED reviewVars

create_pending_review(payload) ==
  /\ put(payload)
  /\ outbox' = outbox \ {payload}
  /\ UNCHANGED <<graphVars, req, approvals>>

\* approve_review and reject_review; without a record they answer 400.
review_decision(decision) ==
  /\ set_decision(decision)
  /\ approvals' = IF decision = "approved"
                    THEN approvals \cup {review.payload.obligation_id} ELSE approvals
  /\ UNCHANGED <<graphVars, outbox, req>>

\* A mistake: any record is forwarded, "approved" when undecided (as cmd_resume
\* defaults its flag).
ResumeReadDefaults(q) ==
  /\ req[q] = NoReview
  /\ review # NoReview
  /\ req' = [req EXCEPT ![q] = [review EXCEPT !.decision = Given(@, "approved")]]
  /\ UNCHANGED <<graphVars, review, outbox, approvals>>

\* resume_review up to its client.post: 404 without a record, 400 without a
\* decision.
ResumeRead(q) ==
  /\ req[q] = NoReview
  /\ review # NoReview /\ review.decision \in Rulings
  /\ req' = [req EXCEPT ![q] = review]
  /\ UNCHANGED <<graphVars, review, outbox, approvals>>

\* The orchestrator's resume handler.  The reply changes nothing at the
\* gateway, so a timeout or a 5xx is a client that resumes again.
ResumeForward(q) ==
  /\ req[q] # NoReview
  /\ ResumeThread(q, req[q].decision)
  /\ UNCHANGED reviewVars

\* cmd_resume: the review store is not consulted.
cmd_resume(q, decision) == ResumeThread(q, decision) /\ UNCHANGED reviewVars

----------------------------------------------------------------------------
FlowInit ==
  /\ GraphInit
  /\ review = NoReview
  /\ outbox = {}
  /\ req = [q \in Proxied |-> NoReview]
  /\ approvals = {}

FlowNext ==
  \/ \E i \in Invocations :
       \/ (LocalNode(i) \/ Abort(i)) /\ UNCHANGED reviewVars
       \/ PostReviewSent(i)
       \/ PostReviewLost(i)
  \/ \E r \in Runs : RunObligation(r) /\ UNCHANGED reviewVars
  \/ \E payload \in outbox : create_pending_review(payload)
  \/ \E decision \in Rulings : review_decision(decision)
  \/ \E q \in Proxied : ResumeRead(q) \/ ResumeForward(q)
  \/ \E q \in Resumes \ Proxied, d \in Rulings : cmd_resume(q, d)

FlowSpec == FlowInit /\ [][FlowNext]_flowVars

----------------------------------------------------------------------------
(* Properties                                                              *)

Records == [payload : Payloads \cup {None}, decision : Rulings \cup {None}]

(* Type invariant.                                                          *)
FlowTypeOK ==
  /\ review \in Records
  /\ outbox \subseteq Payloads
  /\ req \in [Proxied -> Records]
  /\ approvals \subseteq Runs

JudgedAs(r, decision) ==
  LanePassed(r) /\ ch[r].policy_decision # None /\ ch[r].policy_decision.decision = decision

Earned(payload) == /\ JudgedAs(payload.obligation_id, "needs_review")
                   /\ payload.batch_ok /\ payload.policy = "needs_review"

(* A human is only ever asked about a candidate whose lanes passed and which*)
(* policy flagged: whatever is stored, on its way or held by a handler.     *)
ReviewsAreEarned ==
  \A payload \in outbox \cup {review.payload} \cup {req[q].payload : q \in Proxied} :
    payload # None => Earned(payload)

(* Behind every acceptance through the gateway stands a human's approval of *)
(* an obligation that passed the lane: no re-posted payload, reversed       *)
(* decision, repeated resume or leftover checkpoint makes one up.           *)
HumanBehindAcceptance ==
  \A q \in Proxied : Ended(q, "accepted") =>
    \E r \in approvals : /\ r = req[q].payload.obligation_id
                         /\ JudgedAs(r, "needs_review")

\* Every request in flight was read from a decided record.
RequestsDecided ==
  /\ DOMAIN req = Proxied
  /\ \A q \in Proxied : req[q] # NoReview => req[q].decision \in Rulings

\* A record that is there shows an earned payload, and an approval it holds
\* has been seen.
SoundRecord(record) ==
  record # NoReview => /\ record.payload \in Payloads /\ Earned(record.payload)
                       /\ record.decision = "approved"
                            => record.payload.obligation_id \in approvals

\* A resume runs with the decision of the record its handler read.
ResumeLink(q) ==
  pc[q] # "idle" => req[q] # NoReview /\ ch[q].approval_decision = req[q].decision

(* The inductive strengthening of ReviewsAreEarned and HumanBehindAcceptance.*)
FlowInv ==
  /\ FlowTypeOK /\ RequestsDecided
  /\ \A payload \in outbox : Earned(payload)
  /\ SoundRecord(review)
  /\ \A q \in Proxied : SoundRecord(req[q]) /\ ResumeLink(q)

(* The refinement mapping: what the abstract gate's variables are here.     *)
passedRuns           == {r \in Runs : LanePassed(r)}
judgedRuns(decision) == {r \in Runs : JudgedAs(r, decision)}
filed    == IF review = NoReview THEN None
            ELSE [obligation |-> review.payload.obligation_id, ruling |-> review.decision]
approved == {q \in Proxied : req[q].decision = "approved"}
acceptedInvocations == {i \in Runs \cup Proxied : Ended(i, "accepted")}

(* The flow implements the abstract gate.                                   *)
Gate == INSTANCE AcceptanceGate WITH
  Obligations <- Runs,
  Grants   <- Proxied,
  passed   <- passedRuns,
  cleared  <- judgedRuns("accepted"),
  flagged  <- judgedRuns("needs_review"),
  docket   <- filed,
  granted  <- approved,
  accepted <- acceptedInvocations

(* Refinement: every step of the flow is a step of the gate or invisible.   *)
ImplementsGate == Gate!Spec
=============================================================================
