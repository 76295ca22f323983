------------------------ MODULE ProtocolEvaluatorProofs ------------------------
(* The one-pass verdicts are what they should say of the whole log, for any   *)
(* agents, tasks and events and logs of any length.                           *)
EXTENDS ProtocolEvaluator, WellFoundedInduction, TLAPS

----------------------------------------------------------------------------
(* Reading a log: the last event of some kinds                              *)

(* A non-empty set of indices has a greatest one.                           *)
LEMMA GreatestIndex ==
  ASSUME NEW n \in Nat, NEW S, S \subseteq 1..n, S # {}
  PROVE  \E i \in S : \A j \in S : j <= i
<1> DEFINE R == {ss \in Nat \X Nat : ss[1] < ss[2]}
           T == {n - i : i \in S}
<1>1. IsWellFoundedOn(R, Nat)
  BY NatLessThanWellFounded DEF OpToRel
<1>2. T \subseteq Nat /\ T # {}
  <2>1. \A i \in S : i \in 1..n
    OBVIOUS
  <2>2. \A i \in 1..n : n - i \in Nat
    OBVIOUS
  <2>3. \A i \in S : n - i \in Nat
    BY <2>1, <2>2, Zenon
  <2>4. PICK i \in S : TRUE
    OBVIOUS
  <2>5. n - i \in T
    OBVIOUS
  <2>. QED  BY <2>3, <2>5
<1>3. \A i, j \in Nat : <<j, i>> \notin R => i <= j
  OBVIOUS
<1>4. PICK t \in T : \A u \in T : <<u, t>> \notin R
  <2> HIDE DEF R, T
  <2>. QED  BY <1>1, <1>2, WFMin
<1>5. \A u \in T : t <= u
  <2> HIDE DEF R, T
  <2>. QED  BY <1>2, <1>3, <1>4
<1>6. PICK i \in S : t = n - i
  OBVIOUS
<1>7. \A j \in S : n - i <= n - j
  BY <1>5, <1>6
<1>. QED  BY <1>6, <1>7

(* LastBefore is 0 or an earlier index.                                     *)
LEMMA LastBeforeIsEarlier ==
  ASSUME NEW s, NEW n \in Nat \ {0}, NEW kinds
  PROVE  LastBefore(s, n, kinds) \in 0..(n-1)
<1>1. CASE Earlier(s, n, kinds) = {}
  BY <1>1 DEF LastBefore
<1>2. CASE Earlier(s, n, kinds) # {}
  <2>1. n - 1 \in Nat /\ Earlier(s, n, kinds) \subseteq 1..(n-1)
    BY DEF Earlier
  <2>2. PICK i \in Earlier(s, n, kinds) : \A j \in Earlier(s, n, kinds) : j <= i
    BY <1>2, <2>1, GreatestIndex
  <2>3. LastBefore(s, n, kinds) \in Earlier(s, n, kinds)
    BY <1>2, <2>2 DEF LastBefore, Greatest
  <2>. QED  BY <2>1, <2>3
<1>. QED  BY <1>1, <1>2

(* An event read later changes nothing of what was before an earlier one.   *)
LEMMA LaterEventsDoNotMatter ==
  ASSUME NEW s \in Seq(Event), NEW ev \in Event, NEW n \in 1..(Len(s) + 1), NEW kinds
  PROVE  LastBefore(Append(s, ev), n, kinds) = LastBefore(s, n, kinds)
<1>1. \A i \in 1..(n-1) : Append(s, ev)[i] = s[i]
  OBVIOUS
<1>2. Earlier(Append(s, ev), n, kinds) = Earlier(s, n, kinds)
  BY <1>1 DEF Earlier
<1>. QED  BY <1>2 DEF LastBefore

(* The event read last is the last of its kind; otherwise it is as before.  *)
LEMMA OneMoreEvent ==
  ASSUME NEW s \in Seq(Event), NEW ev \in Event, NEW kinds
  PROVE  LastBefore(Append(s, ev), Len(s) + 2, kinds)
           = IF ev.kind \in kinds THEN Len(s) + 1 ELSE LastBefore(s, Len(s) + 1, kinds)
<1> DEFINE t == Append(s, ev)
           n == Len(s) + 1
<1>1. Len(s) \in Nat /\ t[n] = ev /\ \A i \in 1..Len(s) : t[i] = s[i]
  OBVIOUS
<1> HIDE DEF t
<1>2. (n + 1) - 1 = n /\ n - 1 = Len(s) /\ n + 1 = Len(s) + 2
  BY <1>1
<1>3. CASE ev.kind \in kinds
  <2>1. n \in Earlier(t, n + 1, kinds) /\ \A j \in Earlier(t, n + 1, kinds) : j <= n
    BY <1>1, <1>3 DEF Earlier
  <2>2. Greatest(Earlier(t, n + 1, kinds)) = n
    <3>1. \A i \in Earlier(t, n + 1, kinds) :
            (\A j \in Earlier(t, n + 1, kinds) : j <= i) => i = n
      BY <1>1, <2>1 DEF Earlier
    <3>. QED  BY <2>1, <3>1 DEF Greatest
  <2>3. LastBefore(t, n + 1, kinds) = n
    BY <2>1, <2>2 DEF LastBefore
  <2>. QED  BY <1>2, <1>3, <2>3 DEF t
<1>4. CASE ev.kind \notin kinds
  <2>1. Earlier(t, n + 1, kinds) = Earlier(s, n, kinds)
    BY <1>1, <1>4 DEF Earlier
  <2>2. LastBefore(t, n + 1, kinds) = LastBefore(s, n, kinds)
    BY <2>1 DEF LastBefore
  <2>. QED  BY <1>2, <1>4, <2>2 DEF t
<1>. QED  BY <1>3, <1>4

(* So what the properties say of an event that was read stays so.           *)
LEMMA VerdictsOnEarlierEvents ==
  ASSUME NEW s \in Seq(Event), NEW ev \in Event, NEW n \in 1..(Len(s) + 1)
  PROVE  /\ OwnerBefore(Append(s, ev), n) = OwnerBefore(s, n)
         /\ ApprovedBefore(Append(s, ev), n) = ApprovedBefore(s, n)
         /\ n <= Len(s) =>
              /\ Append(s, ev)[n] = s[n]
              /\ LockKept(Append(s, ev), n) = LockKept(s, n)
              /\ ByOwner(Append(s, ev), n) = ByOwner(s, n)
              /\ ByOwner(s, n) => ForTask(Append(s, ev), n) = ForTask(s, n)
<1> DEFINE t == Append(s, ev)
<1>1. \A i \in 1..Len(s) : t[i] = s[i]
  OBVIOUS
<1>2. \A kinds : LastBefore(t, n, kinds) = LastBefore(s, n, kinds)
  BY LaterEventsDoNotMatter
<1>3. \A kinds : LastBefore(s, n, kinds) \in 0..(n-1)
  BY LastBeforeIsEarlier
<1> HIDE DEF t
<1>4. \A kinds : LastBefore(s, n, kinds) # 0 =>
        t[LastBefore(s, n, kinds)] = s[LastBefore(s, n, kinds)]
  BY <1>1, <1>3
<1>5. OwnerBefore(t, n) = OwnerBefore(s, n)
  BY <1>2, <1>4 DEF OwnerBefore, HolderAfter, LockKinds
<1>6. ApprovedBefore(t, n) = ApprovedBefore(s, n)
  BY <1>1 DEF ApprovedBefore
<1>7. ASSUME n <= Len(s)
      PROVE  /\ t[n] = s[n] /\ LockKept(t, n) = LockKept(s, n)
             /\ ByOwner(t, n) = ByOwner(s, n)
             /\ ByOwner(s, n) => ForTask(t, n) = ForTask(s, n)
  <2>1. t[n] = s[n]
    BY <1>1, <1>7
  <2>2. LockKept(t, n) = LockKept(s, n)
    BY <1>5, <2>1 DEF LockKept
  <2> DEFINE claimed == LastBefore(s, n, {"claim"})
  <2>3. LastBefore(t, n, {"claim"}) = claimed /\ (claimed # 0 => t[claimed] = s[claimed])
    BY <1>2, <1>4
  <2>4. ByOwner(t, n) <=> claimed # 0 /\ t[claimed].agent = t[n].agent /\ t[n].agent # None
    BY <2>3 DEF ByOwner
  <2>5. ByOwner(s, n) <=> claimed # 0 /\ s[claimed].agent = s[n].agent /\ s[n].agent # None
    BY DEF ByOwner
  <2>6. ForTask(t, n) <=> t[n].task = t[claimed].task \/ None \in {t[n].task, t[claimed].task}
    BY <2>3 DEF ForTask
  <2>7. ForTask(s, n) <=> s[n].task = s[claimed].task \/ None \in {s[n].task, s[claimed].task}
    BY DEF ForTask
  <2>8. ByOwner(t, n) \in BOOLEAN /\ ByOwner(s, n) \in BOOLEAN
        /\ ForTask(t, n) \in BOOLEAN /\ ForTask(s, n) \in BOOLEAN
    BY DEF ByOwner, ForTask
  <2> HIDE DEF claimed
  <2>9. ByOwner(t, n) = ByOwner(s, n)
    BY <2>1, <2>3, <2>4, <2>5, <2>8
  <2>10. ByOwner(s, n) => ForTask(t, n) = ForTask(s, n)
    BY <2>1, <2>3, <2>5, <2>6, <2>7, <2>8
  <2>. QED  BY <2>1, <2>2, <2>9, <2>10
<1>. QED  BY <1>5, <1>6, <1>7 DEF t

----------------------------------------------------------------------------
(* The early returns against the log                                        *)

LEMMA ReasonsAreReasons ==
  /\ "delegate_without_prior_claim" # None /\ "owner_mismatch" # None
  /\ "lock_conflict" # None /\ "release_without_lock" # None
  /\ "invalid_state_transition" # None /\ "side_effect_unauthorized" # None
BY ProtocolAssumption DEF RefusalReasons

(* Each evaluator that has not returned yet returns at the next event just  *)
(* when that event breaks its property of the log.                          *)
LEMMA ReturnsWhenBroken ==
  ASSUME ProtocolInv, NEW ev \in Event
  PROVE  LET t == Append(log, ev)
             n == Len(log) + 1
         IN /\ refusal["lock_ownership_invariant"] = None =>
                 (lock_ownership_invariant(ev) = None <=> LockKept(t, n))
            /\ handoff_legality(ev) = None <=> (ev.kind = "delegate" => ByOwner(t, n))
            /\ delegation_admissibility(ev) = None
                 <=> (ev.kind = "delegate" => ByOwner(t, n) /\ ForTask(t, n))
            /\ state_transition_preservation(ev) = None
                 <=> (IsEffect(ev) => ApprovedBefore(t, n))
            /\ side_effect_authorization(ev) = None
                 <=> (IsEffect(ev) => ApprovedBefore(t, n))
<1> DEFINE t == Append(log, ev)
           n == Len(log) + 1
           claimed == LastBefore(log, n, {"claim"})
<1>1. log \in Seq(Event) /\ n \in 1..(Len(log) + 1) /\ n \in Nat \ {0}
      /\ t[n] = ev /\ \A i \in 1..Len(log) : t[i] = log[i]
  BY DEF ProtocolInv, ProtocolTypeOK
<1>2. OwnerBefore(t, n) = OwnerBefore(log, n) /\ ApprovedBefore(t, n) = ApprovedBefore(log, n)
  BY <1>1, VerdictsOnEarlierEvents
<1>3. LastBefore(t, n, {"claim"}) = claimed /\ claimed \in 0..(n-1)
  BY <1>1, LaterEventsDoNotMatter, LastBeforeIsEarlier
<1>4. claimed # 0 => t[claimed] = log[claimed]
  <2> HIDE DEF claimed, t
  <2>. QED  BY <1>1, <1>3
<1>5. claim = IF claimed = 0 THEN [owner |-> None, task |-> None]
              ELSE [owner |-> log[claimed].agent, task |-> log[claimed].task]
  BY DEF ProtocolInv, ClaimIsLast
<1>6. ByOwner(t, n) <=> claimed # 0 /\ t[claimed].agent = ev.agent /\ ev.agent # None
  BY <1>1, <1>3 DEF ByOwner
<1>7. ForTask(t, n) <=> ev.task = t[claimed].task \/ None \in {ev.task, t[claimed].task}
  BY <1>1, <1>3 DEF ForTask
<1>8. seen_approve = ApprovedBefore(t, n)
  BY <1>2 DEF ProtocolInv, ApprovalIsSeen
<1>9. refusal["lock_ownership_invariant"] = None =>
        (lock_ownership_invariant(ev) = None <=> LockKept(t, n))
  <2> SUFFICES ASSUME refusal["lock_ownership_invariant"] = None
               PROVE  lock_ownership_invariant(ev) = None <=> LockKept(t, n)
    OBVIOUS
  <2>1. current_holder = OwnerBefore(t, n)
    BY <1>2 DEF ProtocolInv, HolderIsOwner
  <2>2. LockKept(t, n) <=>
          /\ ev.kind = "lock" => OwnerBefore(t, n) \in {None, ev.agent}
          /\ ev.kind = "release" => OwnerBefore(t, n) = ev.agent /\ ev.agent # None
    BY <1>1 DEF LockKept
  <2> HIDE DEF t, n
  <2>. QED  BY <2>1, <2>2, ReasonsAreReasons DEF lock_ownership_invariant
<1> HIDE DEF t, n, claimed
<1>10. handoff_legality(ev) = None <=> (ev.kind = "delegate" => ByOwner(t, n))
  BY <1>4, <1>5, <1>6, ReasonsAreReasons DEF handoff_legality
<1>11. delegation_admissibility(ev) = None
         <=> (ev.kind = "delegate" => ByOwner(t, n) /\ ForTask(t, n))
  <2>1. CASE ev.kind = "delegate" /\ ByOwner(t, n)
    <3>1. handoff_legality(ev) = None
      BY <1>10, <2>1
    <3>2. claim.task = t[claimed].task
      BY <1>4, <1>5, <1>6, <2>1
    <3>. QED  BY <1>7, <2>1, <3>1, <3>2, ReasonsAreReasons DEF delegation_admissibility
  <2>2. CASE ~(ev.kind = "delegate" /\ ByOwner(t, n))
    BY <1>10, <2>2 DEF delegation_admissibility
  <2>. QED  BY <2>1, <2>2
<1>12. state_transition_preservation(ev) = None <=> (IsEffect(ev) => ApprovedBefore(t, n))
  BY <1>8, ReasonsAreReasons DEF state_transition_preservation
<1>13. side_effect_authorization(ev) = None <=> (IsEffect(ev) => ApprovedBefore(t, n))
  BY <1>8, ReasonsAreReasons DEF side_effect_authorization
<1>. QED  BY <1>9, <1>10, <1>11, <1>12, <1>13 DEF t, n

LEMMA LoopClassNames ==
  LoopClasses = {"handoff_legality", "lock_ownership_invariant", "delegation_admissibility",
                 "state_transition_preservation", "artifact_admissibility",
                 "side_effect_authorization"}
<1>1. ClassNames = {ProtocolClasses[1], ProtocolClasses[2], ProtocolClasses[3],
                    ProtocolClasses[4], ProtocolClasses[5], ProtocolClasses[6],
                    ProtocolClasses[7]}
  <2>1. DOMAIN ProtocolClasses = {1, 2, 3, 4, 5, 6, 7}
    BY DEF ProtocolClasses
  <2>. QED  BY <2>1 DEF ClassNames
<1>. QED  BY <1>1 DEF LoopClasses, ProtocolClasses

LEMMA ReturnTypes ==
  ASSUME NEW ev, NEW c \in LoopClasses
  PROVE  Returns(c, ev) \in RefusalReasons \cup {None}
<1>1. handoff_legality(ev) \in RefusalReasons \cup {None}
  BY DEF handoff_legality, RefusalReasons
<1>2. delegation_admissibility(ev) \in RefusalReasons \cup {None}
  BY <1>1 DEF delegation_admissibility, RefusalReasons
<1>3. /\ lock_ownership_invariant(ev) \in RefusalReasons \cup {None}
      /\ state_transition_preservation(ev) \in RefusalReasons \cup {None}
      /\ artifact_admissibility(ev) \in RefusalReasons \cup {None}
      /\ side_effect_authorization(ev) \in RefusalReasons \cup {None}
  BY DEF lock_ownership_invariant, state_transition_preservation, artifact_admissibility,
         side_effect_authorization, RefusalReasons
<1>. QED  BY <1>1, <1>2, <1>3, LoopClassNames DEF Returns

----------------------------------------------------------------------------
(* The invariant                                                            *)

LEMMA InitInv == Init => ProtocolInv
<1> SUFFICES ASSUME Init PROVE ProtocolInv
  OBVIOUS
<1>1. log = <<>> /\ Len(log) = 0 /\ DOMAIN log = {} /\ 1..0 = {}
  BY DEF Init
<1>2. \A kinds : LastBefore(log, Len(log) + 1, kinds) = 0
  <2>1. \A kinds : Earlier(log, Len(log) + 1, kinds) = {}
    BY <1>1 DEF Earlier
  <2>. QED  BY <2>1 DEF LastBefore
<1>3. \A c \in LoopClasses : refusal[c] = None
  BY DEF Init
<1>4. ProtocolTypeOK
  <2>1. log \in Seq(Event)
    BY <1>1
  <2>2. /\ claim \in [owner : Agents \cup {None}, task : Tasks \cup {None}]
        /\ current_holder \in Agents \cup {None}
        /\ refusal \in [LoopClasses -> RefusalReasons \cup {None}]
    BY DEF Init
  <2>3. seen_approve \in BOOLEAN /\ evidence_seen \in BOOLEAN
    BY Zenon DEF Init
  <2>. QED  BY <2>1, <2>2, <2>3, Zenon DEF ProtocolTypeOK
<1>5. ClaimIsLast /\ HolderIsOwner /\ ApprovalIsSeen
  <2>1. OwnerBefore(log, Len(log) + 1) = None
    BY <1>2 DEF OwnerBefore, HolderAfter, LockKinds
  <2>2. ~ApprovedBefore(log, Len(log) + 1)
    BY <1>1 DEF ApprovedBefore
  <2>3. ClaimIsLast
    BY <1>2 DEF Init, ClaimIsLast
  <2>4. HolderIsOwner
    BY <2>1 DEF Init, HolderIsOwner
  <2>5. seen_approve = FALSE /\ ApprovedBefore(log, Len(log) + 1) = FALSE
    BY <2>2, Zenon DEF Init, ApprovedBefore
  <2>6. ApprovalIsSeen
    BY <2>5, Zenon DEF ApprovalIsSeen
  <2>. QED  BY <2>3, <2>4, <2>6
<1>6. OneLockIsKept /\ HandoffVerdictIsLastClaim /\ EffectsNeedApproval
  BY <1>1, <1>3, LoopClassNames
     DEF OneLockIsKept, HandoffVerdictIsLastClaim, EffectsNeedApproval
<1>. QED  BY <1>4, <1>5, <1>6 DEF ProtocolInv

(* One turn of every loop.                                                  *)
LEMMA ReadStep ==
  ASSUME ProtocolInv, NEW ev \in Event, Read(ev)
  PROVE  ProtocolInv'
<1> DEFINE n == Len(log) + 1
<1>1. log \in Seq(Event) /\ log' = Append(log, ev)
  BY DEF ProtocolInv, ProtocolTypeOK, Read
<1>2. /\ log' \in Seq(Event) /\ Len(log') = n /\ Len(log') + 1 = Len(log) + 2
      /\ DOMAIN log' = DOMAIN log \cup {n} /\ DOMAIN log = 1..Len(log)
      /\ log'[n] = ev /\ n \in 1..(Len(log) + 1) /\ n \in Nat \ {0}
      /\ \A i \in DOMAIN log : log'[i] = log[i]
  BY <1>1
<1>3. \A c \in LoopClasses :
        refusal'[c] = IF refusal[c] # None THEN refusal[c] ELSE Returns(c, ev)
  BY DEF Read
<1>4. ev.agent \in Agents \cup {None} /\ ev.task \in Tasks \cup {None} /\ ev.kind \in Kinds
      /\ ev.evidence_complete \in BOOLEAN
  BY DEF Event
<1>5. ProtocolTypeOK'
  <2>1. claim' \in [owner : Agents \cup {None}, task : Tasks \cup {None}]
    BY <1>4 DEF ProtocolInv, ProtocolTypeOK, Read, NextClaim
  <2>2. current_holder' \in Agents \cup {None}
    BY <1>4 DEF ProtocolInv, ProtocolTypeOK, Read, NextHolder
  <2>3. seen_approve' \in BOOLEAN /\ evidence_seen' \in BOOLEAN
    BY <1>4 DEF ProtocolInv, ProtocolTypeOK, Read
  <2>4. refusal' \in [LoopClasses -> RefusalReasons \cup {None}]
    <3>1. refusal' = [c \in LoopClasses |->
                        IF refusal[c] # None THEN refusal[c] ELSE Returns(c, ev)]
      BY DEF Read
    <3>2. \A c \in LoopClasses :
            (IF refusal[c] # None THEN refusal[c] ELSE Returns(c, ev)) \in RefusalReasons \cup {None}
      BY ReturnTypes DEF ProtocolInv, ProtocolTypeOK
    <3>. QED  BY <3>1, <3>2
  <2>. QED  BY <1>2, <2>1, <2>2, <2>3, <2>4 DEF ProtocolTypeOK
<1>6. \A kinds : LastBefore(log', Len(log') + 1, kinds)
        = IF ev.kind \in kinds THEN n ELSE LastBefore(log, n, kinds)
  BY <1>1, <1>2, OneMoreEvent
<1>7. \A kinds : LastBefore(log, n, kinds) \in 0..Len(log)
  BY <1>2, LastBeforeIsEarlier
<1>8. \A kinds : LastBefore(log, n, kinds) # 0 =>
        log'[LastBefore(log, n, kinds)] = log[LastBefore(log, n, kinds)]
  BY <1>2, <1>7
<1>9. ClaimIsLast'
  <2> DEFINE claimed == LastBefore(log, n, {"claim"})
  <2>1. LastBefore(log', Len(log') + 1, {"claim"}) = IF ev.kind = "claim" THEN n ELSE claimed
    BY <1>6
  <2>2. claimed # 0 => log'[claimed] = log[claimed]
    BY <1>8
  <2>3. claim = IF claimed = 0 THEN [owner |-> None, task |-> None]
                ELSE [owner |-> log[claimed].agent, task |-> log[claimed].task]
    BY DEF ProtocolInv, ClaimIsLast
  <2>4. claim' = IF ev.kind = "claim" THEN [owner |-> ev.agent, task |-> ev.task] ELSE claim
    BY DEF Read, NextClaim
  <2> HIDE DEF claimed, n
  <2>5. claim' = LET last == IF ev.kind = "claim" THEN n ELSE claimed
                 IN IF last = 0 THEN [owner |-> None, task |-> None]
                    ELSE [owner |-> log'[last].agent, task |-> log'[last].task]
    BY <1>2, <2>2, <2>3, <2>4
  <2>. QED  BY <2>1, <2>5 DEF ClaimIsLast
<1>10. HolderIsOwner'
  <2> SUFFICES ASSUME refusal'["lock_ownership_invariant"] = None
               PROVE  current_holder' = OwnerBefore(log', Len(log') + 1)
    BY DEF HolderIsOwner
  <2>1. refusal["lock_ownership_invariant"] = None /\ lock_ownership_invariant(ev) = None
    BY <1>3, LoopClassNames DEF Returns
  <2>2. current_holder' = IF ev.kind = "lock" THEN ev.agent
                          ELSE IF ev.kind = "release" THEN None ELSE current_holder
    BY <2>1 DEF Read, NextHolder
  <2> DEFINE last == LastBefore(log, n, {"lock", "release"})
  <2>3. LastBefore(log', Len(log') + 1, {"lock", "release"})
          = IF ev.kind \in {"lock", "release"} THEN n ELSE last
    BY <1>6
  <2>4. last # 0 => log'[last] = log[last]
    BY <1>8
  <2>5. current_holder = IF last = 0 THEN None
                         ELSE IF log[last].kind = "lock" THEN log[last].agent ELSE None
    BY <2>1 DEF ProtocolInv, HolderIsOwner, OwnerBefore, HolderAfter, LockKinds
  <2> HIDE DEF last, n
  <2>. QED  BY <1>2, <2>2, <2>3, <2>4, <2>5 DEF OwnerBefore, HolderAfter, LockKinds
<1>11. ApprovalIsSeen'
  <2>1. ApprovedBefore(log', Len(log') + 1) <=> ApprovedBefore(log, n) \/ ev.kind = "approve"
    <3>1. 1..((Len(log') + 1) - 1) = (1..(n-1)) \cup {n} /\ \A i \in 1..(n-1) : log'[i] = log[i]
      BY <1>2
    <3> HIDE DEF n
    <3>. QED  BY <1>2, <3>1 DEF ApprovedBefore
  <2>2. seen_approve' = (seen_approve \/ ev.kind = "approve")
    BY DEF Read
  <2>. QED  BY <2>1, <2>2 DEF ProtocolInv, ApprovalIsSeen, ApprovedBefore
<1>12. /\ refusal["lock_ownership_invariant"] = None =>
            (lock_ownership_invariant(ev) = None <=> LockKept(log', n))
       /\ handoff_legality(ev) = None <=> (ev.kind = "delegate" => ByOwner(log', n))
       /\ delegation_admissibility(ev) = None
            <=> (ev.kind = "delegate" => ByOwner(log', n) /\ ForTask(log', n))
       /\ state_transition_preservation(ev) = None <=> (IsEffect(ev) => ApprovedBefore(log', n))
       /\ side_effect_authorization(ev) = None <=> (IsEffect(ev) => ApprovedBefore(log', n))
  BY <1>1, ReturnsWhenBroken
<1>13. \A m \in DOMAIN log :
         /\ log'[m] = log[m]
         /\ LockKept(log', m) = LockKept(log, m)
         /\ ByOwner(log', m) = ByOwner(log, m)
         /\ ByOwner(log, m) => ForTask(log', m) = ForTask(log, m)
         /\ ApprovedBefore(log', m) = ApprovedBefore(log, m)
  BY <1>1, <1>2, VerdictsOnEarlierEvents
<1> HIDE DEF n
<1>14. /\ refusal'["lock_ownership_invariant"] = None <=>
            refusal["lock_ownership_invariant"] = None /\ lock_ownership_invariant(ev) = None
       /\ refusal'["handoff_legality"] = None <=>
            refusal["handoff_legality"] = None /\ handoff_legality(ev) = None
       /\ refusal'["delegation_admissibility"] = None <=>
            refusal["delegation_admissibility"] = None /\ delegation_admissibility(ev) = None
       /\ refusal'["state_transition_preservation"] = None <=>
            refusal["state_transition_preservation"] = None
              /\ state_transition_preservation(ev) = None
       /\ refusal'["side_effect_authorization"] = None <=>
            refusal["side_effect_authorization"] = None /\ side_effect_authorization(ev) = None
  BY <1>3, LoopClassNames DEF Returns
<1>15. OneLockIsKept'
  <2>1. refusal["lock_ownership_invariant"] = None <=> \A m \in DOMAIN log : LockKept(log, m)
    BY DEF ProtocolInv, OneLockIsKept
  <2>. QED  BY <1>2, <1>12, <1>13, <1>14, <2>1 DEF OneLockIsKept
<1>16. HandoffVerdictIsLastClaim'
  <2>1. /\ refusal["handoff_legality"] = None
             <=> \A m \in DOMAIN log : log[m].kind = "delegate" => ByOwner(log, m)
        /\ refusal["delegation_admissibility"] = None
             <=> \A m \in DOMAIN log :
                   log[m].kind = "delegate" => ByOwner(log, m) /\ ForTask(log, m)
    BY DEF ProtocolInv, HandoffVerdictIsLastClaim
  <2>. QED  BY <1>2, <1>12, <1>13, <1>14, <2>1 DEF HandoffVerdictIsLastClaim
<1>17. EffectsNeedApproval'
  <2>1. /\ (refusal["state_transition_preservation"] = None)
             <=> (refusal["side_effect_authorization"] = None)
        /\ refusal["side_effect_authorization"] = None
             <=> \A m \in DOMAIN log : IsEffect(log[m]) => ApprovedBefore(log, m)
    BY DEF ProtocolInv, EffectsNeedApproval
  <2>. QED  BY <1>2, <1>12, <1>13, <1>14, <2>1 DEF EffectsNeedApproval
<1>. QED  BY <1>5, <1>9, <1>10, <1>11, <1>15, <1>16, <1>17 DEF ProtocolInv

LEMMA NextKeepsInv == ProtocolInv /\ [Next]_protocolVars => ProtocolInv'
<1> SUFFICES ASSUME ProtocolInv, [Next]_protocolVars PROVE ProtocolInv'
  OBVIOUS
<1>1. CASE Next
  <2>1. PICK ev \in Events : Read(ev)
    BY <1>1 DEF Next
  <2>2. ev \in Event
    BY ProtocolAssumption
  <2>. QED  BY <2>1, <2>2, ReadStep
<1>2. CASE UNCHANGED protocolVars
  <2>1. UNCHANGED <<log, claim, current_holder, seen_approve, evidence_seen, refusal>>
    BY <1>2 DEF protocolVars
  <2>. QED  BY <2>1 DEF ProtocolInv, ProtocolTypeOK, ClaimIsLast, HolderIsOwner, ApprovalIsSeen,
                        OneLockIsKept, HandoffVerdictIsLastClaim, EffectsNeedApproval
<1>. QED  BY <1>1, <1>2

----------------------------------------------------------------------------
(* The theorems                                                             *)

(* The invariant behind the theorems below: what every evaluator of         *)
(* protocol_evaluator.py remembers is what the log says.                    *)
THEOREM ProtocolInvariant == Spec => []ProtocolInv
<1>. QED  BY InitInv, NextKeepsInv, PTL DEF Spec

(* On a log about one resource it is held by whoever holds the one lock.    *)
LEMMA OneResourceIsTheLock ==
  ASSUME OfOneResource, NEW n \in DOMAIN log, Len(log) \in Nat, log \in Seq(Event)
  PROVE  ResourceKept(log, n) <=> LockKept(log, n)
<1>1. CASE log[n].kind \notin LockKinds
  BY <1>1 DEF ResourceKept, LockKept, LockKinds
<1>2. CASE log[n].kind \in LockKinds
  <2>1. Earlier(log, n, LockKinds) \subseteq DOMAIN log
    BY DEF Earlier
  <2>2. \A i \in Earlier(log, n, LockKinds) : log[i].task = log[n].task
    BY <1>2, <2>1 DEF Earlier, OfOneResource
  <2>3. {i \in Earlier(log, n, LockKinds) : log[i].task = log[n].task}
          = Earlier(log, n, LockKinds)
    BY <2>2
  <2>4. HolderBefore(log, n, log[n].task) = OwnerBefore(log, n)
    BY <2>3 DEF HolderBefore, OwnerBefore, LastBefore, HolderAfter
  <2>. QED  BY <2>4 DEF ResourceKept, LockKept
<1>. QED  BY <1>1, <1>2

(* The lock evaluator accepts exactly the logs in which its one lock is     *)
(* taken free or by its owner and released by its owner; of a log about one *)
(* resource it says what the doc says of each resource.                     *)
THEOREM LockVerdictIsRight == Spec => []LockVerdictIsOwnership
<1>1. ProtocolInv => LockVerdictIsOwnership
  <2>. SUFFICES ASSUME ProtocolInv, OfOneResource PROVE OneHolderPerResource
    BY DEF ProtocolInv, LockVerdictIsOwnership
  <2>1. log \in Seq(Event) /\ Len(log) \in Nat
    BY DEF ProtocolInv, ProtocolTypeOK
  <2>2. \A n \in DOMAIN log : ResourceKept(log, n) <=> LockKept(log, n)
    BY <2>1, OneResourceIsTheLock
  <2>. QED  BY <2>2 DEF ProtocolInv, OneLockIsKept, OneHolderPerResource
<1>. QED  BY <1>1, ProtocolInvariant, PTL

(* The handoff and delegation evaluators accept exactly the logs whose      *)
(* delegates are by the last claimer, and for the task claimed.             *)
THEOREM HandoffVerdictIsRight == Spec => []HandoffVerdictIsLastClaim
<1>1. ProtocolInv => HandoffVerdictIsLastClaim
  BY DEF ProtocolInv
<1>. QED  BY <1>1, ProtocolInvariant, PTL

(* The two evaluators of side effects refuse exactly the logs in which an   *)
(* effect precedes every approval.                                          *)
THEOREM EffectVerdictIsRight == Spec => []EffectsNeedApproval
<1>1. ProtocolInv => EffectsNeedApproval
  BY DEF ProtocolInv
<1>. QED  BY <1>1, ProtocolInvariant, PTL

----------------------------------------------------------------------------
(* What a longer log can change                                             *)

LEMMA FirstClass ==
  ASSUME NEW hits, hits \subseteq 1..7, hits # {}
  PROVE  \E i \in hits : \A j \in hits : i <= j
<1> DEFINE S == {8 - i : i \in hits}
<1>1. \A i \in hits : i \in 1..7 /\ 8 - i \in 1..7
  OBVIOUS
<1>2. S \subseteq 1..7 /\ S # {}
  BY <1>1
<1>3. PICK k \in S : \A j \in S : j <= k
  <2> HIDE DEF S
  <2>. QED  BY <1>2, GreatestIndex
<1>4. PICK i \in hits : k = 8 - i
  OBVIOUS
<1>5. \A j \in hits : 8 - j <= 8 - i
  BY <1>3, <1>4
<1>. QED  BY <1>1, <1>4, <1>5

(* The verdict is a rejection just when one of the looping evaluators has   *)
(* refused: the evidence token is tried last.                               *)
Rejected == FullVerdict # None /\ FullVerdict.decision = "rejected"

LEMMA RejectedWhenSomeRefuse == Rejected <=> \E c \in LoopClasses : refusal[c] # None
<1> DEFINE token == "evidence_complete_execution_token"
           hits == RefusingClasses(Refuses, [enabled |-> ClassNames])
           first == CHOOSE i \in hits : \A j \in hits : i <= j
           verdict == [decision |-> ProtocolRefusal(ProtocolClasses[first]),
                       reason   |-> ProtocolClasses[first]]
<1>1. /\ DOMAIN ProtocolClasses = 1..7 /\ ProtocolClasses[7] = token
      /\ \A i \in 1..6 : ProtocolClasses[i] # token
  BY DEF ProtocolClasses
<1>2. \A i \in 1..7 : ProtocolClasses[i] \in ClassNames
  BY <1>1 DEF ClassNames
<1>3. \A c \in LoopClasses : \E i \in 1..6 : c = ProtocolClasses[i]
  BY <1>1 DEF LoopClasses, ClassNames
<1>4. token \notin LoopClasses
  BY DEF LoopClasses
<1>5. \A i \in 1..6 : ProtocolClasses[i] \in LoopClasses
  BY <1>1, <1>2 DEF LoopClasses
<1>6. hits \subseteq 1..7 /\ \A i \in 1..7 : i \in hits <=> ProtocolClasses[i] \in Refuses
  BY <1>1, <1>2 DEF RefusingClasses
<1>7. \A i \in 1..6 : i \in hits <=> refusal[ProtocolClasses[i]] # None
  BY <1>1, <1>5, <1>6 DEF Refuses
<1>8. FullVerdict = IF hits = {} THEN None ELSE verdict
  BY DEF FullVerdict, protocol_decision
<1>9. hits # {} => first \in hits /\ \A j \in hits : first <= j
  <2> SUFFICES ASSUME hits # {} PROVE first \in hits /\ \A j \in hits : first <= j
    OBVIOUS
  <2>1. PICK i \in hits : \A j \in hits : i <= j
    <3> HIDE DEF hits
    <3>. QED  BY <1>6, FirstClass
  <2> HIDE DEF hits
  <2>. QED  BY <2>1
<1>10. verdict.decision = ProtocolRefusal(ProtocolClasses[first])
  OBVIOUS
<1> HIDE DEF hits, first
<1>11. \A i \in hits : i \in 1..7
  BY <1>6
<1>12. ASSUME first \in 1..6
       PROVE  verdict.decision = "rejected" /\ verdict # None
  <2>1. ProtocolRefusal(ProtocolClasses[first]) = "rejected"
    BY <1>1, <1>12 DEF ProtocolRefusal
  <2>2. verdict \in [decision : Decisions, reason : ClassNames]
    BY <1>2, <1>12, <2>1 DEF Decisions
  <2>. QED  BY <1>10, <2>1, <2>2, ProtocolAssumption
<1>13. ASSUME first = 7
       PROVE  verdict.decision # "rejected"
  BY <1>1, <1>10, <1>13 DEF ProtocolRefusal
<1> HIDE DEF verdict
<1>14. ASSUME FullVerdict # None, FullVerdict.decision = "rejected"
       PROVE  \E c \in LoopClasses : refusal[c] # None
  <2>1. hits # {} /\ FullVerdict = verdict
    BY <1>8, <1>14
  <2>2. first \in 1..6
    <3>1. first \in 1..7 /\ first # 7
      BY <1>11, <1>9, <1>13, <1>14, <2>1
    <3>. QED  BY <3>1
  <2>. QED  BY <1>5, <1>7, <1>9, <2>1, <2>2
<1>15. ASSUME NEW c \in LoopClasses, refusal[c] # None
       PROVE  FullVerdict # None /\ FullVerdict.decision = "rejected"
  <2>1. PICK i \in 1..6 : c = ProtocolClasses[i]
    BY <1>3
  <2>2. i \in hits
    BY <1>7, <1>15, <2>1
  <2>3. first \in 1..6
    <3>1. first \in 1..7 /\ first <= i
      BY <1>11, <1>9, <2>2
    <3>. QED  BY <3>1
  <2>. QED  BY <1>8, <1>12, <2>2, <2>3
<1>. QED  BY <1>14, <1>15 DEF Rejected

(* A rejection of a prefix is a rejection of every longer log; only a       *)
(* missing evidence token can still be made good (evaluate_protocol).       *)
THEOREM RejectionsStay == Spec => RejectionIsPermanent
<1> DEFINE some == \E c \in LoopClasses : refusal[c] # None
<1>1. [Next]_protocolVars => [some => some']_protocolVars
  <2> SUFFICES ASSUME Next, NEW c \in LoopClasses, refusal[c] # None
               PROVE  refusal'[c] # None
    OBVIOUS
  <2>1. PICK ev : Read(ev)
    BY DEF Next
  <2>. QED  BY <2>1 DEF Read
<1>2. Rejected <=> some
  BY RejectedWhenSomeRefuse
<1> HIDE DEF some
<1>3. Spec => [][Rejected => Rejected']_protocolVars
  BY <1>1, <1>2, PTL DEF Spec
<1>4. (Rejected => Rejected') <=> (FullVerdict # None /\ FullVerdict.decision = "rejected"
         => FullVerdict' # None /\ FullVerdict'.decision = "rejected")
  BY DEF Rejected
<1>. QED  BY <1>3, <1>4, PTL DEF RejectionIsPermanent
=============================================================================
