------------------------- MODULE ProtocolEvaluator -------------------------
(***************************************************************************)
(* packages/policy's protocol evaluators, which decide whether a log of    *)
(* multi-agent protocol events keeps the obligations a pack enables.  Each *)
(* evaluator is a loop over the log with a few accumulators and an early   *)
(* return; here one event is read per step by all of them, so that the     *)
(* state after a step is what each evaluator has concluded of that prefix. *)
(*                                                                         *)
(* An event is what _validate_events leaves of it: its kind, the agent and *)
(* the task it names (None when missing or malformed), whether its payload *)
(* carries artifacts, and whether it says evidence_complete.               *)
(***************************************************************************)
EXTENDS PolicyRules

CONSTANTS Agents, Tasks,
          Events,       \* the events a log may hold
          MaxEvents     \* length of the longest log

Kinds == {"claim", "delegate", "approve", "reject", "lock", "release", "execute", "recover"}

Event == [kind : Kinds, agent : Agents \cup {None}, task : Tasks \cup {None},
          artifacts : BOOLEAN, evidence_complete : BOOLEAN]

RefusalReasons == {"delegate_without_prior_claim", "owner_mismatch", "lock_conflict",
                   "release_without_lock", "invalid_state_transition",
                   "artifact_not_admissible", "side_effect_unauthorized"}

ASSUME ProtocolAssumption ==
  /\ Events \subseteq Event /\ MaxEvents \in Nat
  /\ None \notin Agents \cup Tasks \cup RefusalReasons
  /\ None \notin [decision : Decisions, reason : ClassNames]

\* Classes that refuse at an event, and classes that wait for an event.
LoopClasses == ClassNames \ {"evidence_complete_execution_token"}

VARIABLES log,               \* the events read so far
          claim,             \* owner and task of the last claim
          current_holder,    \* who holds the lock
          seen_approve,
          evidence_seen,     \* some event said evidence_complete
          refusal            \* refusal[c]: the reason c returned, or None

protocolVars == <<log, claim, current_holder, seen_approve, evidence_seen, refusal>>

----------------------------------------------------------------------------
(* The early returns, one operator per evaluator.                           *)

handoff_legality(ev) ==
  IF ev.kind # "delegate"          THEN None
  ELSE IF claim.owner = None       THEN "delegate_without_prior_claim"
  ELSE IF ev.agent # claim.owner   THEN "owner_mismatch"
  ELSE None

\* The task is only compared when both the claim and the delegate name one.
delegation_admissibility(ev) ==
  IF ev.kind = "delegate" /\ handoff_legality(ev) = None
     /\ claim.task # None /\ ev.task # None /\ ev.task # claim.task
    THEN "invalid_state_transition"
    ELSE handoff_legality(ev)

\* A mistake: anybody may release the lock.
LockReleasedByAnyone(ev) ==
  IF ev.kind = "lock" /\ current_holder \notin {None, ev.agent} THEN "lock_conflict"
  ELSE IF ev.kind = "release" /\ current_holder = None THEN "release_without_lock"
  ELSE None

lock_ownership_invariant(ev) ==
  IF ev.kind = "lock" /\ current_holder \notin {None, ev.agent} THEN "lock_conflict"
  ELSE IF ev.kind = "release" /\ current_holder = None THEN "release_without_lock"
  ELSE IF ev.kind = "release" /\ ev.agent # current_holder THEN "lock_conflict"
  ELSE None

IsEffect(ev) == ev.kind \in {"execute", "recover"}

state_transition_preservation(ev) ==
  IF IsEffect(ev) /\ ~seen_approve THEN "invalid_state_transition" ELSE None

\* A mistake: recover is not treated as a side effect.
OnlyExecuteIsEffect(ev) ==
  IF ev.kind = "execute" /\ ~seen_approve THEN "side_effect_unauthorized" ELSE None

side_effect_authorization(ev) ==
  IF IsEffect(ev) /\ ~seen_approve THEN "side_effect_unauthorized" ELSE None

artifact_admissibility(ev) ==
  IF ev.artifacts /\ ev.kind \notin {"approve", "execute"}
    THEN "artifact_not_admissible" ELSE None

\* evaluate_protocol_obligation's dispatch, for the classes that loop.
Returns(class, ev) ==
  CASE class = "handoff_legality"              -> handoff_legality(ev)
    [] class = "lock_ownership_invariant"      -> lock_ownership_invariant(ev)
    [] class = "delegation_admissibility"      -> delegation_admissibility(ev)
    [] class = "state_transition_preservation" -> state_transition_preservation(ev)
    [] class = "artifact_admissibility"        -> artifact_admissibility(ev)
    [] class = "side_effect_authorization"     -> side_effect_authorization(ev)

----------------------------------------------------------------------------
Init ==
  /\ log = <<>>
  /\ claim = [owner |-> None, task |-> None]
  /\ current_holder = None
  /\ seen_approve = FALSE /\ evidence_seen = FALSE
  /\ refusal = [c \in LoopClasses |-> None]

\* A mistake: the first claim of a log is kept for good.
FirstClaimStays(ev) ==
  IF ev.kind = "claim" /\ claim.owner = None THEN [owner |-> ev.agent, task |-> ev.task] ELSE claim

NextClaim(ev) ==
  IF ev.kind = "claim" THEN [owner |-> ev.agent, task |-> ev.task] ELSE claim

NextHolder(ev) ==
  IF lock_ownership_invariant(ev) # None THEN current_holder
  ELSE IF ev.kind = "lock"    THEN ev.agent
  ELSE IF ev.kind = "release" THEN None
  ELSE current_holder

\* A mistake: an evaluator that goes on after its refusal and returns the last.
ReadOn(ev) ==
  /\ log' = Append(log, ev)
  /\ claim' = NextClaim(ev)
  /\ current_holder' = NextHolder(ev)
  /\ seen_approve' = (seen_approve \/ ev.kind = "approve")
  /\ evidence_seen' = (evidence_seen \/ ev.evidence_complete)
  /\ refusal' = [c \in LoopClasses |-> Returns(c, ev)]

\* One iteration of every loop; an evaluator that has returned stays so.
Read(ev) ==
  /\ log' = Append(log, ev)
  /\ claim' = NextClaim(ev)
  /\ current_holder' =
       IF refusal["lock_ownership_invariant"] = None THEN NextHolder(ev) ELSE current_holder
  /\ seen_approve' = (seen_approve \/ ev.kind = "approve")
  /\ evidence_seen' = (evidence_seen \/ ev.evidence_complete)
  /\ refusal' = [c \in LoopClasses |->
                   IF refusal[c] # None THEN refusal[c] ELSE Returns(c, ev)]

Next == Len(log) < MaxEvents /\ \E ev \in Events : Read(ev)

Spec == Init /\ [][Next]_protocolVars

\* The classes that refuse the whole log, as evaluate_protocol asks them.
Refuses ==
  {c \in LoopClasses : refusal[c] # None}
    \cup (IF evidence_seen THEN {} ELSE {"evidence_complete_execution_token"})

----------------------------------------------------------------------------
(* Properties                                                              *)

(* Type invariant.                                                          *)
ProtocolTypeOK ==
  /\ log \in Seq(Event)
  /\ claim \in [owner : Agents \cup {None}, task : Tasks \cup {None}]
  /\ current_holder \in Agents \cup {None}
  /\ seen_approve \in BOOLEAN /\ evidence_seen \in BOOLEAN
  /\ refusal \in [LoopClasses -> RefusalReasons \cup {None}]

\* The last index before n of an event of s with a kind in `kinds`, or 0.
Earlier(s, n, kinds) == {i \in 1..(n-1) : s[i].kind \in kinds}
Greatest(S) == CHOOSE i \in S : \A j \in S : j <= i
LastBefore(s, n, kinds) ==
  IF Earlier(s, n, kinds) = {} THEN 0 ELSE Greatest(Earlier(s, n, kinds))

(* Who owns the lock before event n, read off the log: whoever locked last, *)
(* unless that lock was released. There is one lock, whatever task, the     *)
(* resource, its events name.                                               *)
LockKinds == {"lock", "release"}
HolderAfter(s, i) == IF i # 0 /\ s[i].kind = "lock" THEN s[i].agent ELSE None
OwnerBefore(s, n) == HolderAfter(s, LastBefore(s, n, LockKinds))

LockKept(s, n) ==
  /\ s[n].kind = "lock"    => OwnerBefore(s, n) \in {None, s[n].agent}
  /\ s[n].kind = "release" => OwnerBefore(s, n) = s[n].agent /\ s[n].agent # None

OneLockIsKept ==
  refusal["lock_ownership_invariant"] = None <=> \A n \in DOMAIN log : LockKept(log, n)

(* Who holds a resource before event n, and what may be done with it then.  *)
HolderBefore(s, n, resource) ==
  LET before == {i \in Earlier(s, n, LockKinds) : s[i].task = resource}
  IN IF before = {} THEN None ELSE HolderAfter(s, Greatest(before))

ResourceKept(s, n) ==
  /\ s[n].kind = "lock"    => HolderBefore(s, n, s[n].task) \in {None, s[n].agent}
  /\ s[n].kind = "release" => HolderBefore(s, n, s[n].task) = s[n].agent /\ s[n].agent # None

(* "only one holder per resource; release must be by holder; no lock while  *)
(* held by another" (multi-agent-protocol.md:15): the lock evaluator accepts *)
(* exactly the logs that keep this for each resource by itself.             *)
OneHolderPerResource ==
  refusal["lock_ownership_invariant"] = None
    <=> \A n \in DOMAIN log : ResourceKept(log, n)

OfOneResource ==
  \A i, j \in DOMAIN log :
    log[i].kind \in LockKinds /\ log[j].kind \in LockKinds => log[i].task = log[j].task

(* The lock evaluator accepts exactly the logs in which the one lock it     *)
(* knows is only taken free or by its owner and only released by its owner; *)
(* on logs about a single resource that is what multi-agent-protocol.md:15  *)
(* says, and on logs about several it is not.                               *)
LockVerdictIsOwnership == OneLockIsKept /\ (OfOneResource => OneHolderPerResource)

ByOwner(s, n) ==
  LET claimed == LastBefore(s, n, {"claim"})
  IN claimed # 0 /\ s[claimed].agent = s[n].agent /\ s[n].agent # None

ForTask(s, n) ==
  LET claimed == LastBefore(s, n, {"claim"})
  IN s[n].task = s[claimed].task \/ None \in {s[n].task, s[claimed].task}

(* The handoff evaluator accepts exactly the logs in which every delegate   *)
(* is by the agent that claimed last, and that agent has a name; the        *)
(* delegation evaluator those in which it is also for the task that was     *)
(* claimed last, where both name one.                                       *)
HandoffVerdictIsLastClaim ==
  /\ refusal["handoff_legality"] = None
       <=> \A n \in DOMAIN log : log[n].kind = "delegate" => ByOwner(log, n)
  /\ refusal["delegation_admissibility"] = None
       <=> \A n \in DOMAIN log :
             log[n].kind = "delegate" => ByOwner(log, n) /\ ForTask(log, n)

ApprovedBefore(s, n) == \E i \in 1..(n-1) : s[i].kind = "approve"

(* The two classes that guard side effects agree on every log, and both     *)
(* refuse exactly when some effect precedes every approval.                 *)
EffectsNeedApproval ==
  /\ (refusal["state_transition_preservation"] = None)
       <=> (refusal["side_effect_authorization"] = None)
  /\ refusal["side_effect_authorization"] = None
       <=> \A n \in DOMAIN log : IsEffect(log[n]) => ApprovedBefore(log, n)

(* What makes the three inductive: each accumulator is what it stands for,  *)
(* read off the log.                                                        *)
ClaimIsLast ==
  LET claimed == LastBefore(log, Len(log) + 1, {"claim"})
  IN claim = IF claimed = 0 THEN [owner |-> None, task |-> None]
             ELSE [owner |-> log[claimed].agent, task |-> log[claimed].task]

HolderIsOwner ==
  refusal["lock_ownership_invariant"] = None =>
    current_holder = OwnerBefore(log, Len(log) + 1)

ApprovalIsSeen == seen_approve = ApprovedBefore(log, Len(log) + 1)

ProtocolInv ==
  /\ ProtocolTypeOK /\ ClaimIsLast /\ HolderIsOwner /\ ApprovalIsSeen
  /\ OneLockIsKept /\ HandoffVerdictIsLastClaim /\ EffectsNeedApproval

\* The verdict of evaluate_protocol under a pack that enables every class.
FullVerdict == protocol_decision(Refuses, [enabled |-> ClassNames])

(* What a longer log can change of the verdict of a pack with every class:  *)
(* a rejection stays, for the same class or one tried before it; only a     *)
(* missing evidence token can still be made good.                           *)
RejectionIsPermanent ==
  [][FullVerdict # None /\ FullVerdict.decision = "rejected"
       => FullVerdict' # None /\ FullVerdict'.decision = "rejected"]_protocolVars
=============================================================================
