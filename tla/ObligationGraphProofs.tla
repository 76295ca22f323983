----------------------- MODULE ObligationGraphProofs -----------------------
(* What PolicyEngine.evaluate and the protocol loop return, for every pack, *)
(* patch and lane result, and that no harder case is judged more laxly;     *)
(* from it that the obligation graph ends accepted, or waits for a human,   *)
(* only on lane results of its own; and what verdicts and witnesses of any  *)
(* number of runs rest on.                                                  *)
EXTENDS ObligationGraph, PolicyCases, WellFoundedInduction, TLAPS

----------------------------------------------------------------------------
(* The policy code                                                          *)

(* A non-empty set of naturals has a least element.                          *)
LEMMA LeastElement ==
  ASSUME NEW S, S \subseteq Nat, S # {}
  PROVE  \E i \in S : \A j \in S : i <= j
<1> DEFINE R == {ss \in Nat \X Nat : ss[1] < ss[2]}
<1>1. IsWellFoundedOn(R, Nat)
  BY NatLessThanWellFounded DEF OpToRel
<1>2. \A i, j \in Nat : <<j, i>> \notin R => i <= j
  OBVIOUS
<1>3. PICK i \in S : \A j \in S : <<j, i>> \notin R
  <2> HIDE DEF R
  <2> QED BY <1>1, WFMin
<1> HIDE DEF R
<1>4. \A j \in S : i <= j
  BY <1>2, <1>3
<1> QED BY <1>4

(* FirstGate picks a gate that fires and before which none does, as soon as *)
(* some gate fires: the early returns of evaluate are read in order.        *)
LEMMA FirstGateIsFirst ==
  ASSUME NEW n \in Nat, NEW gates, DOMAIN gates = 1..n,
         NEW k \in 1..n, gates[k].when
  PROVE  /\ FirstGate(gates) \in 1..n
         /\ gates[FirstGate(gates)].when
         /\ \A j \in 1..(FirstGate(gates) - 1) : ~gates[j].when
<1> DEFINE S == {i \in 1..n : gates[i].when}
<1>1. PICK i \in S : \A j \in S : i <= j
  <2>1. S \subseteq Nat /\ S # {}
    OBVIOUS
  <2> HIDE DEF S
  <2> QED BY <2>1, LeastElement
<1>2. i \in 1..n /\ gates[i].when /\ \A j \in 1..(i-1) : ~gates[j].when
  BY <1>1
<1> QED BY <1>2 DEF FirstGate

(* The ten gates are a total decision procedure: evaluate returns the       *)
(* verdict of a gate whose condition holds and before which none does.      *)
LEMMA EvaluateTakesFirstGate ==
  ASSUME NEW interactive, NEW batch, NEW meta, NEW pack
  PROVE  LET gates == EvaluationGates(interactive, batch, meta, pack)
         IN \E i \in 1..10 :
              /\ gates[i].when
              /\ \A j \in 1..(i-1) : ~gates[j].when
              /\ evaluate(interactive, batch, meta, pack)
                   = [decision |-> gates[i].decision, reason |-> gates[i].reason]
<1> DEFINE gates == EvaluationGates(interactive, batch, meta, pack)
<1>1. DOMAIN gates = 1..10 /\ gates[10].when
  BY DEF EvaluationGates
<1>2. /\ FirstGate(gates) \in 1..10
      /\ gates[FirstGate(gates)].when
      /\ \A j \in 1..(FirstGate(gates) - 1) : ~gates[j].when
  <2>1. 10 \in Nat /\ 10 \in 1..10
    OBVIOUS
  <2> HIDE DEF gates
  <2> QED BY <1>1, <2>1, FirstGateIsFirst, Zenon
<1>3. evaluate(interactive, batch, meta, pack)
        = [decision |-> gates[FirstGate(gates)].decision,
           reason |-> gates[FirstGate(gates)].reason]
  BY DEF evaluate
<1> QED BY <1>2, <1>3

(* evaluate returns one of the four decisions that policy_review can route. *)
LEMMA EvaluateType ==
  ASSUME NEW interactive, NEW batch, NEW meta, NEW pack
  PROVE  evaluate(interactive, batch, meta, pack)
           \in [decision : Decisions, reason : Reasons]
<1> DEFINE gates == EvaluationGates(interactive, batch, meta, pack)
<1>1. \A i \in 1..10 : gates[i].decision \in Decisions /\ gates[i].reason \in Reasons
  <2>1. \A i \in 1..10 : gates[i].decision \in Decisions
    BY SMTT(60) DEF EvaluationGates, Decisions
  <2>2. \A i \in 1..10 : gates[i].reason \in Reasons
    BY SMTT(60) DEF EvaluationGates, Reasons
  <2> QED BY <2>1, <2>2
<1>2. PICK i \in 1..10 : evaluate(interactive, batch, meta, pack)
                           = [decision |-> gates[i].decision, reason |-> gates[i].reason]
  BY EvaluateTakesFirstGate
<1> HIDE DEF gates
<1> QED BY <1>1, <1>2

(* No pack, patch or trust level makes evaluate accept a candidate, or hand *)
(* it to a human, against the acceptance lane: a failed lane, a blocking    *)
(* audit reason and an interactive error always refuse.                     *)
THEOREM LaneVerdictDominates ==
  ASSUME NEW interactive, NEW batch, NEW meta, NEW pack, batch # None,
         evaluate(interactive, batch, meta, pack).decision \in {"accepted", "needs_review"}
  PROVE  batch.ok /\ batch.axiom_audit.blocked_reasons = {} /\ ~HasErrorDiagnostic(interactive)
<1> DEFINE gates == EvaluationGates(interactive, batch, meta, pack)
<1>1. PICK i \in 1..10 :
        /\ gates[i].when
        /\ \A j \in 1..(i-1) : ~gates[j].when
        /\ evaluate(interactive, batch, meta, pack)
             = [decision |-> gates[i].decision, reason |-> gates[i].reason]
  BY EvaluateTakesFirstGate
<1>2. gates[i].decision \in {"accepted", "needs_review"}
  BY <1>1
<1>3. i \notin {1, 2, 3}
  BY <1>2 DEF EvaluationGates
<1>4. ~gates[1].when /\ ~gates[2].when /\ ~gates[3].when
  <2>1. 1 \in 1..(i-1) /\ 2 \in 1..(i-1) /\ 3 \in 1..(i-1)
    BY <1>3
  <2> HIDE DEF gates
  <2> QED BY <1>1, <2>1
<1>5. /\ gates[1].when <=> HasErrorDiagnostic(interactive)
      /\ gates[2].when <=> batch # None /\ ~batch.ok
      /\ gates[3].when <=> batch # None /\ batch.axiom_audit.blocked_reasons # {}
  BY DEF EvaluationGates
<1> HIDE DEF gates
<1> QED BY <1>4, <1>5

(* evaluate_protocol refuses or stays silent; it never accepts.             *)
LEMMA ProtocolDecisionType ==
  ASSUME NEW refuses, NEW pack, protocol_decision(refuses, pack) # None
  PROVE  protocol_decision(refuses, pack)
           \in [decision : {"rejected", "blocked"}, reason : Reasons]
<1> DEFINE hits == RefusingClasses(refuses, pack)
           first == CHOOSE i \in hits : \A j \in hits : i <= j
<1>1. hits \subseteq 1..7
  BY DEF RefusingClasses, ProtocolClasses
<1>2. hits # {}
  BY DEF protocol_decision
<1>3. PICK i \in hits : \A j \in hits : i <= j
  <2>1. hits \subseteq Nat
    BY <1>1
  <2> HIDE DEF hits
  <2> QED BY <1>2, <2>1, LeastElement
<1>4. first \in 1..7
  BY <1>1, <1>3
<1>5. ProtocolClasses[first] \in Reasons
  <2>1. \A k \in 1..7 : ProtocolClasses[k] \in Reasons
    BY DEF ProtocolClasses, ClassNames, Reasons
  <2> HIDE DEF first
  <2> QED BY <1>4, <2>1
<1>6. protocol_decision(refuses, pack)
        = [decision |-> ProtocolRefusal(ProtocolClasses[first]),
           reason |-> ProtocolClasses[first]]
  BY <1>2 DEF protocol_decision
<1>7. ProtocolRefusal(ProtocolClasses[first]) \in {"rejected", "blocked"}
  BY DEF ProtocolRefusal
<1> HIDE DEF hits, first
<1> QED BY <1>5, <1>6, <1>7

(* evaluate accepts a candidate only past every gate: nothing a gate asks a *)
(* human about was found.                                                   *)
THEOREM AcceptancePassesEveryGate ==
  ASSUME NEW interactive, NEW batch, NEW meta, NEW pack,
         evaluate(interactive, batch, meta, pack).decision = "accepted"
  PROVE  /\ ~HasErrorDiagnostic(interactive)
         /\ batch # None => /\ batch.ok /\ batch.axiom_audit.blocked_reasons = {}
                            /\ batch.trust_level = "warning" => pack.allow_trust_compiler
                            /\ \A tg \in pack.trust_gates :
                                 ~TrustGateFires(tg, batch.trust_level, meta.changed_files)
         /\ \A rule \in pack.path_rules : ~PathRuleFires(rule, meta.changed_files)
         /\ ~meta.protected_paths_touched
         /\ meta.imports_changed => ~pack.require_human_if_imports_change
<1> DEFINE gates == EvaluationGates(interactive, batch, meta, pack)
<1>1. PICK i \in 1..10 :
        /\ gates[i].when
        /\ \A j \in 1..(i-1) : ~gates[j].when
        /\ evaluate(interactive, batch, meta, pack)
             = [decision |-> gates[i].decision, reason |-> gates[i].reason]
  BY EvaluateTakesFirstGate
<1>2. gates[i].decision = "accepted"
  BY <1>1
<1>3. i = 10
  BY <1>2 DEF EvaluationGates
<1>4. \A j \in {1, 2, 3, 4, 5, 7, 8, 9} : ~gates[j].when
  <2>1. \A j \in {1, 2, 3, 4, 5, 7, 8, 9} : j \in 1..(i-1)
    BY <1>3
  <2> HIDE DEF gates
  <2> QED BY <1>1, <2>1
<1>5. /\ gates[1].when <=> HasErrorDiagnostic(interactive)
      /\ gates[2].when <=> batch # None /\ ~batch.ok
      /\ gates[3].when <=> batch # None /\ batch.axiom_audit.blocked_reasons # {}
      /\ gates[4].when <=> batch # None /\ batch.trust_level = "warning"
                                        /\ ~pack.allow_trust_compiler
  BY DEF EvaluationGates
<1>6. /\ gates[5].when <=> batch # None /\ \E tg \in pack.trust_gates :
                             TrustGateFires(tg, batch.trust_level, meta.changed_files)
      /\ gates[7].when <=> \E rule \in pack.path_rules :
                             PathRuleFires(rule, meta.changed_files)
      /\ gates[8].when <=> meta.protected_paths_touched
      /\ gates[9].when <=> meta.imports_changed /\ pack.require_human_if_imports_change
  BY DEF EvaluationGates
<1> HIDE DEF gates
<1> QED BY <1>4, <1>5, <1>6

(* evaluate refuses for the lanes alone: what the patch touches and how the *)
(* pack is set can only hand a candidate to a human.                        *)
LEMMA RefusalComesFromLanes ==
  ASSUME NEW interactive, NEW batch, NEW meta, NEW pack,
         evaluate(interactive, batch, meta, pack).decision \in {"rejected", "blocked"}
  PROVE  \/ HasErrorDiagnostic(interactive)
         \/ batch # None /\ (~batch.ok \/ batch.axiom_audit.blocked_reasons # {})
<1> DEFINE gates == EvaluationGates(interactive, batch, meta, pack)
<1>1. PICK i \in 1..10 :
        /\ gates[i].when
        /\ evaluate(interactive, batch, meta, pack)
             = [decision |-> gates[i].decision, reason |-> gates[i].reason]
  BY EvaluateTakesFirstGate
<1>2. gates[i].decision \in {"rejected", "blocked"}
  BY <1>1
<1>3. i \in {1, 2, 3}
  BY <1>2 DEF EvaluationGates
<1>4. /\ gates[1].when <=> HasErrorDiagnostic(interactive)
      /\ gates[2].when <=> batch # None /\ ~batch.ok
      /\ gates[3].when <=> batch # None /\ batch.axiom_audit.blocked_reasons # {}
  BY DEF EvaluationGates
<1> HIDE DEF gates
<1> QED BY <1>1, <1>3, <1>4

(* The two lines the verdicts can cross: the lanes refuse, or some gate asks *)
(* for a human.                                                              *)
LanesRefuse(interactive, batch) ==
  \/ HasErrorDiagnostic(interactive)
  \/ batch # None /\ (~batch.ok \/ batch.axiom_audit.blocked_reasons # {})

AsksForHuman(batch, meta, pack) ==
  \/ /\ batch # None
     /\ \/ batch.trust_level = "warning" /\ ~pack.allow_trust_compiler
        \/ \E tg \in pack.trust_gates :
             TrustGateFires(tg, batch.trust_level, meta.changed_files)
  \/ meta.trust_delta /\ pack.require_human_on_trust_delta
  \/ \E rule \in pack.path_rules : PathRuleFires(rule, meta.changed_files)
  \/ meta.protected_paths_touched
  \/ meta.imports_changed /\ pack.require_human_if_imports_change

(* The gates in two groups: how severe a verdict is depends on whether one   *)
(* of each fires, not on their order.                                        *)
LEMMA SeverityOfVerdict ==
  ASSUME NEW interactive, NEW batch, NEW meta, NEW pack
  PROVE  Severity(evaluate(interactive, batch, meta, pack).decision)
           = IF LanesRefuse(interactive, batch) THEN 2
             ELSE IF AsksForHuman(batch, meta, pack) THEN 1 ELSE 0
<1> DEFINE gates == EvaluationGates(interactive, batch, meta, pack)
<1>1. PICK i \in 1..10 :
        /\ gates[i].when
        /\ \A j \in 1..(i-1) : ~gates[j].when
        /\ evaluate(interactive, batch, meta, pack)
             = [decision |-> gates[i].decision, reason |-> gates[i].reason]
  BY EvaluateTakesFirstGate
<1>2. LanesRefuse(interactive, batch) <=> gates[1].when \/ gates[2].when \/ gates[3].when
  BY DEF LanesRefuse, EvaluationGates
<1>3. AsksForHuman(batch, meta, pack)
        <=> \/ gates[4].when \/ gates[5].when \/ gates[6].when
            \/ gates[7].when \/ gates[8].when \/ gates[9].when
  BY DEF AsksForHuman, EvaluationGates
<1>4. /\ \A k \in 1..3 : Severity(gates[k].decision) = 2
      /\ \A k \in 4..9 : Severity(gates[k].decision) = 1
      /\ Severity(gates[10].decision) = 0
  BY DEF EvaluationGates, Severity
<1>5. Severity(evaluate(interactive, batch, meta, pack).decision) = Severity(gates[i].decision)
  BY <1>1
<1> HIDE DEF gates
<1>6. CASE i \in 1..3
  <2>1. i = 1 \/ i = 2 \/ i = 3
    BY <1>6
  <2>2. gates[1].when \/ gates[2].when \/ gates[3].when
    BY <1>1, <2>1
  <2> QED BY <1>2, <1>4, <1>5, <1>6, <2>2
<1>7. CASE i \in 4..9
  <2>1. 1 \in 1..(i-1) /\ 2 \in 1..(i-1) /\ 3 \in 1..(i-1)
    BY <1>7
  <2>2. i = 4 \/ i = 5 \/ i = 6 \/ i = 7 \/ i = 8 \/ i = 9
    BY <1>7
  <2>3. AsksForHuman(batch, meta, pack)
    BY <1>1, <1>3, <2>2
  <2>4. ~LanesRefuse(interactive, batch)
    BY <1>1, <1>2, <2>1
  <2> QED BY <1>4, <1>5, <1>7, <2>3, <2>4
<1>8. CASE i = 10
  <2>1. \A j \in 1..9 : j \in 1..(i-1)
    BY <1>8
  <2>2. /\ ~gates[1].when /\ ~gates[2].when /\ ~gates[3].when /\ ~gates[4].when
        /\ ~gates[5].when /\ ~gates[6].when /\ ~gates[7].when /\ ~gates[8].when
        /\ ~gates[9].when
    BY <1>1, <2>1
  <2> QED BY <1>2, <1>3, <1>4, <1>5, <1>8, <2>2
<1> QED BY <1>6, <1>7, <1>8

(* A pack that asks for more, and a patch that does more.                    *)
Stricter(pack, other) ==
  /\ other.allow_trust_compiler => pack.allow_trust_compiler
  /\ pack.require_human_if_imports_change => other.require_human_if_imports_change
  /\ pack.require_human_on_trust_delta => other.require_human_on_trust_delta
  /\ pack.path_rules \subseteq other.path_rules
  /\ pack.trust_gates \subseteq other.trust_gates

DoesMore(meta, other) ==
  /\ meta.changed_files \subseteq other.changed_files
  /\ meta.protected_paths_touched => other.protected_paths_touched
  /\ meta.imports_changed => other.imports_changed
  /\ meta.trust_delta => other.trust_delta

(* For every lane result, pack and patch: a stricter pack, a patch that does *)
(* more or an error where there was none never improves the verdict.         *)
THEOREM StricterNeverLoosens ==
  ASSUME NEW interactive, NEW interactive2, NEW batch, NEW meta, NEW meta2,
         NEW pack, NEW pack2, Stricter(pack, pack2), DoesMore(meta, meta2),
         HasErrorDiagnostic(interactive) => HasErrorDiagnostic(interactive2)
  PROVE  Severity(evaluate(interactive, batch, meta, pack).decision)
           <= Severity(evaluate(interactive2, batch, meta2, pack2).decision)
<1>1. LanesRefuse(interactive, batch) => LanesRefuse(interactive2, batch)
  BY DEF LanesRefuse
<1>2. AsksForHuman(batch, meta, pack) => AsksForHuman(batch, meta2, pack2)
  <2>1. \A tg, level : TrustGateFires(tg, level, meta.changed_files)
                         => TrustGateFires(tg, level, meta2.changed_files)
    BY DEF TrustGateFires, DoesMore
  <2>2. \A rule : PathRuleFires(rule, meta.changed_files)
                    => PathRuleFires(rule, meta2.changed_files)
    BY DEF PathRuleFires, DoesMore
  <2> QED BY <2>1, <2>2 DEF AsksForHuman, Stricter, DoesMore
<1> QED BY <1>1, <1>2, SeverityOfVerdict

(* The walk asks what evaluate can be asked.                                 *)
CaseTypeOK ==
  asked \in [interactive : [ok : BOOLEAN, diagnostics : SUBSET {"error", "warning"},
                            goals : BOOLEAN, lsp_required : BOOLEAN],
             batch : LaneResults, patch : Patch,
             protected_paths : SUBSET Files, pack : PolicyPack]

(* Each way in which the walk tightens a pack.                               *)
LEMMA TightenedIsStricter ==
  ASSUME NEW pack \in PolicyPack, NEW f \in Files, NEW pack2 \in Tightened(pack, f)
  PROVE  pack2 \in PolicyPack /\ Stricter(pack, pack2)
<1>1. [files |-> {f}, require_human |-> TRUE] \in PathRule
  BY DEF PathRule
<1>2. \A anywhere \in BOOLEAN :
        [when_trust_level |-> {"clean", "warning"}, files |-> {f},
         anywhere |-> anywhere, require_human |-> TRUE] \in TrustGate
  BY DEF TrustGate, TrustLevels
<1>3. CASE pack2 = [pack EXCEPT !.allow_trust_compiler = FALSE]
  BY <1>3 DEF PolicyPack, Stricter
<1>4. CASE pack2 = [pack EXCEPT !.require_human_if_imports_change = TRUE]
  BY <1>4 DEF PolicyPack, Stricter
<1>5. ASSUME NEW rule \in PathRule, pack.path_rules = {},
             pack2 = [pack EXCEPT !.path_rules = {rule}]
      PROVE  pack2 \in PolicyPack /\ Stricter(pack, pack2)
  BY <1>5 DEF PolicyPack, Stricter
<1>6. ASSUME NEW gate \in TrustGate, pack.trust_gates = {},
             pack2 = [pack EXCEPT !.trust_gates = {gate}]
      PROVE  pack2 \in PolicyPack /\ Stricter(pack, pack2)
  BY <1>6 DEF PolicyPack, Stricter
<1> QED BY <1>1, <1>2, <1>3, <1>4, <1>5, <1>6 DEF Tightened

(* What a step makes of the question: the same lane result, and the rest     *)
(* harder.                                                                   *)
Harder(a, b) ==
  /\ b.batch = a.batch
  /\ HasErrorDiagnostic(a.interactive) => HasErrorDiagnostic(b.interactive)
  /\ Stricter(a.pack, b.pack)
  /\ DoesMore(summarize_patch(a.patch, a.protected_paths),
              summarize_patch(b.patch, b.protected_paths))

(* So every step of the walk asks a harder question.                         *)
LEMMA StepIsHarder ==
  ASSUME CaseTypeOK, CaseNext
  PROVE  CaseTypeOK' /\ Harder(asked, asked')
<1> DEFINE Interactive == [ok : BOOLEAN, diagnostics : SUBSET {"error", "warning"},
                           goals : BOOLEAN, lsp_required : BOOLEAN]
           Asked == [interactive : Interactive, batch : LaneResults, patch : Patch,
                     protected_paths : SUBSET Files, pack : PolicyPack]
<1>0. asked \in Asked
  BY DEF CaseTypeOK
<1>1. /\ Stricter(asked.pack, asked.pack)
      /\ \A meta : DoesMore(meta, meta)
  BY DEF Stricter, DoesMore
<1>2. /\ \A p \in Patch : [asked EXCEPT !.patch = p] \in Asked
      /\ \A ps \in SUBSET Files : [asked EXCEPT !.protected_paths = ps] \in Asked
      /\ \A p \in PolicyPack : [asked EXCEPT !.pack = p] \in Asked
      /\ \A i \in Interactive : [asked EXCEPT !.interactive = i] \in Asked
  <2> HIDE DEF Interactive
  <2> QED BY <1>0
<1>3. ASSUME NEW f \in Files, WriteFile(f)
      PROVE  asked' \in Asked /\ Harder(asked, asked')
  <2>1. PICK imports \in SUBSET {f} :
          asked' = [asked EXCEPT !.patch =
                     [files |-> asked.patch.files \cup {f},
                      importing |-> asked.patch.importing \cup imports]]
    BY <1>3 DEF WriteFile
  <2> DEFINE p == [files |-> asked.patch.files \cup {f},
                   importing |-> asked.patch.importing \cup imports]
  <2>2. p \in Patch
    BY <1>0 DEF Patch
  <2>3. DoesMore(summarize_patch(asked.patch, asked.protected_paths),
                 summarize_patch(p, asked.protected_paths))
    BY DEF DoesMore, summarize_patch
  <2>4. asked' = [asked EXCEPT !.patch = p]
    BY <2>1
  <2> HIDE DEF p, Interactive
  <2>5. /\ asked'.patch = p /\ asked'.pack = asked.pack /\ asked'.batch = asked.batch
        /\ asked'.interactive = asked.interactive
        /\ asked'.protected_paths = asked.protected_paths
    BY <1>0, <2>4
  <2> QED BY <1>1, <1>2, <2>2, <2>3, <2>4, <2>5 DEF Harder
<1>4. ASSUME NEW f \in Files, ProtectFile(f)
      PROVE  asked' \in Asked /\ Harder(asked, asked')
  <2> DEFINE ps == asked.protected_paths \cup {f}
  <2>1. asked' = [asked EXCEPT !.protected_paths = ps] /\ ps \in SUBSET Files
    BY <1>0, <1>4 DEF ProtectFile
  <2>2. DoesMore(summarize_patch(asked.patch, asked.protected_paths),
                 summarize_patch(asked.patch, ps))
    BY DEF DoesMore, summarize_patch
  <2> HIDE DEF ps, Interactive
  <2>3. /\ asked'.protected_paths = ps /\ asked'.pack = asked.pack
        /\ asked'.batch = asked.batch /\ asked'.patch = asked.patch
        /\ asked'.interactive = asked.interactive
    BY <1>0, <2>1
  <2> QED BY <1>1, <1>2, <2>1, <2>2, <2>3 DEF Harder
<1>5. ASSUME NEW f \in Files, TightenPack(f)
      PROVE  asked' \in Asked /\ Harder(asked, asked')
  <2>1. PICK pack \in Tightened(asked.pack, f) : asked' = [asked EXCEPT !.pack = pack]
    BY <1>5 DEF TightenPack
  <2>2. pack \in PolicyPack /\ Stricter(asked.pack, pack)
    BY <1>0, TightenedIsStricter
  <2> HIDE DEF Interactive
  <2>3. /\ asked'.pack = pack /\ asked'.batch = asked.batch /\ asked'.patch = asked.patch
        /\ asked'.interactive = asked.interactive
        /\ asked'.protected_paths = asked.protected_paths
    BY <1>0, <2>1
  <2> QED BY <1>1, <1>2, <2>1, <2>2, <2>3 DEF Harder
<1>6. ASSUME NEW severity \in {"error", "warning"}, Diagnose(severity)
      PROVE  asked' \in Asked /\ Harder(asked, asked')
  <2>1. Check({severity}) \in Interactive
    BY DEF Check
  <2>2. asked' = [asked EXCEPT !.interactive = Check({severity})]
    BY <1>6 DEF Diagnose
  <2>3. ~HasErrorDiagnostic(asked.interactive)
    BY <1>6 DEF Diagnose, HasErrorDiagnostic
  <2> HIDE DEF Interactive
  <2>4. /\ asked'.pack = asked.pack /\ asked'.batch = asked.batch
        /\ asked'.patch = asked.patch /\ asked'.protected_paths = asked.protected_paths
    BY <1>0, <2>2
  <2> QED BY <1>1, <1>2, <2>1, <2>2, <2>3, <2>4 DEF Harder
<1>7. asked' \in Asked => CaseTypeOK'
  BY DEF CaseTypeOK
<1> HIDE DEF Asked
<1> QED BY <1>3, <1>4, <1>5, <1>6, <1>7 DEF CaseNext

(* From any answer of the lanes, writing a file, protecting one, tightening  *)
(* the pack or one more diagnostic never makes evaluate's verdict laxer.     *)
THEOREM HarderCasesNeverLoosen == CaseSpec => HarderCaseNeverLoosens
<1>1. CaseInit => CaseTypeOK
  <2> SUFFICES ASSUME CaseInit PROVE CaseTypeOK
    OBVIOUS
  <2>1. PICK b \in LaneResults :
          asked = [interactive |-> Check({}), batch |-> b, pack |-> LaxPack,
                   patch |-> [files |-> {}, importing |-> {}], protected_paths |-> {}]
    BY DEF CaseInit
  <2>2. LaxPack \in PolicyPack
    BY DEF LaxPack, PolicyPack
  <2>3. /\ [files |-> {}, importing |-> {}] \in Patch
        /\ Check({}) \in [ok : BOOLEAN, diagnostics : SUBSET {"error", "warning"},
                          goals : BOOLEAN, lsp_required : BOOLEAN]
    BY DEF Check, Patch
  <2> QED BY <2>1, <2>2, <2>3 DEF CaseTypeOK
<1>2. CaseTypeOK /\ [CaseNext]_asked => CaseTypeOK'
  BY StepIsHarder DEF CaseTypeOK
<1>3. CaseTypeOK /\ CaseNext
        => Severity(CaseVerdict.decision) <= Severity(CaseVerdict'.decision)
  BY StepIsHarder, StricterNeverLoosens DEF Harder, CaseVerdict
<1>4. CaseTypeOK /\ [CaseNext]_asked
        => [Severity(CaseVerdict.decision) <= Severity(CaseVerdict'.decision)]_asked
  BY <1>3
<1> QED BY <1>1, <1>2, <1>4, PTL DEF CaseSpec, HarderCaseNeverLoosens

----------------------------------------------------------------------------
(* Type correctness                                                         *)

Positions == Nodes \cup {"idle", "end", "aborted"}

(* A node that moves its invocation to a legal place with well-typed        *)
(* channels keeps the state well typed.                                     *)
LEMMA GotoType ==
  ASSUME GraphTypeOK, NEW i \in Invocations, NEW next \in Positions, NEW s \in Channels,
         Goto(i, next, s), answer' \in [Invocations -> BatchVerifyResult \cup {None}]
  PROVE  GraphTypeOK'
BY DEF GraphTypeOK, Goto, Positions

(* Routing functions name nodes or the end of the graph.                    *)
LEMMA RouteTypes ==
  ASSUME NEW s
  PROVE  /\ route_start(s) \in Positions
         /\ route_after_interactive(s) \in Positions
         /\ route_after_policy(s) \in Positions
         /\ route_after_resume(s) \in Positions
BY DEF route_start, route_after_interactive, route_after_policy, route_after_resume,
       Positions, Nodes

(* The state factories build well-typed channels from well-typed ones.      *)
LEMMA FactoryTypes ==
  ASSUME NEW old \in Channels
  PROVE  /\ \A r \in Runs, job \in Jobs : make_initial_state(r, job, old) \in Channels
         /\ \A d \in {"approved", "rejected"} : make_resume_state(d, old) \in Channels
<1>1. \A job \in Jobs : job \in Job
  BY GraphAssumption
<1>2. ASSUME NEW r \in Runs, NEW job \in Jobs
      PROVE  make_initial_state(r, job, old) \in Channels
  BY <1>1 DEF make_initial_state, Channels, Job, Given, Statuses
<1>3. ASSUME NEW d \in {"approved", "rejected"}
      PROVE  make_resume_state(d, old) \in Channels
  <2>1. EmptyPatch \in Patch
    BY DEF EmptyPatch, Patch
  <2> QED BY <2>1 DEF make_resume_state, Channels, Statuses
<1> QED BY <1>2, <1>3

(* The verdicts of the two judging nodes are decisions of the schema.       *)
LEMMA VerdictTypes ==
  ASSUME NEW s
  PROVE  /\ ReviewVerdict(s) \in Verdict
         /\ ProtocolVerdict(s) # None => ProtocolVerdict(s) \in Verdict
<1>1. ReviewVerdict(s) \in Verdict
  <2>1. CASE /\ load_pack_for_review(s).reviewer_gated_execution
             /\ s.approval_decision \notin {"approved", "rejected"}
    BY <2>1 DEF ReviewVerdict, Verdict, Decisions, Reasons
  <2>2. CASE ~(/\ load_pack_for_review(s).reviewer_gated_execution
               /\ s.approval_decision \notin {"approved", "rejected"})
    BY <2>2, EvaluateType DEF ReviewVerdict, Verdict
  <2> QED BY <2>1, <2>2
<1>2. ASSUME ProtocolVerdict(s) # None
      PROVE  ProtocolVerdict(s) \in Verdict
  BY <1>2, ProtocolDecisionType DEF ProtocolVerdict, Verdict, Decisions
<1> QED BY <1>1, <1>2

(* A witness is well typed whichever of its parts had to be defaulted.      *)
LEMMA WitnessType ==
  ASSUME NEW s \in Channels
  PROVE  Witness(s) \in WitnessBundle
<1>1. WitnessInteractive(s.interactive_result)
        \in [ok : BOOLEAN, diagnostics : SUBSET {"error", "warning"}, goals : BOOLEAN]
  BY DEF WitnessInteractive, DefaultInteractive, Channels, InteractiveResult
<1>2. WitnessAcceptance(s.batch_result)
        \in [ok : BOOLEAN, trust_level : TrustLevels, evidence : AxiomAuditResult \cup {None}]
  BY DEF WitnessAcceptance, DefaultAcceptance, Channels, BatchVerifyResult, TrustLevels
<1>3. Given(s.policy_decision, DefaultVerdict) \in Verdict
  BY DEF Given, DefaultVerdict, Channels, Verdict, Decisions, Reasons
<1>4. s.obligation_id \in Runs \cup {None}
  BY DEF Channels
<1> QED BY <1>1, <1>2, <1>3, <1>4 DEF Witness, WitnessBundle

(* Every node of the graph keeps the state well typed.                      *)
LEMMA LocalNodeType ==
  ASSUME GraphTypeOK, NEW i \in Invocations, LocalNode(i)
  PROVE  GraphTypeOK'
<1> USE DEF Positions, Nodes, Statuses
<1>0. ch[i] \in Channels /\ answer \in [Invocations -> BatchVerifyResult \cup {None}]
  BY DEF GraphTypeOK
<1>1. CASE InitEnvironment(i)
  <2>1. [ch[i] EXCEPT !.session_id = i, !.status = "initialized"] \in Channels
    BY <1>0 DEF Channels
  <2> QED BY <1>0, <1>1, <2>1, GotoType DEF InitEnvironment
<1>2. CASE RetrieveContext(i)
  <2>1. [ch[i] EXCEPT !.status = "retrieving_context"] \in Channels
    BY <1>0 DEF Channels
  <2> QED BY <1>0, <1>2, <2>1, GotoType DEF RetrieveContext
<1>3. CASE DraftCandidate(i)
  <2>1. [ch[i] EXCEPT !.status = "drafting"] \in Channels
    BY <1>0 DEF Channels
  <2> QED BY <1>0, <1>3, <2>1, GotoType DEF DraftCandidate
<1>4. CASE InteractiveCheck(i)
  <2>1. PICK s \in Channels : Goto(i, route_after_interactive(s), s)
    <3>1. [ch[i] EXCEPT !.status = "failed"] \in Channels
      BY <1>0 DEF Channels
    <3>2. \A result \in InteractiveAnswers :
            [ch[i] EXCEPT !.interactive_result = result,
                          !.status = "checking_interactive"] \in Channels
      BY <1>0, GraphAssumption DEF Channels
    <3> QED BY <1>4, <3>1, <3>2 DEF InteractiveCheck
  <2>2. answer' = answer
    BY <1>4 DEF InteractiveCheck
  <2> QED BY <1>0, <2>1, <2>2, GotoType, RouteTypes
<1>5. CASE BatchVerify(i)
  <2>1. [ch[i] EXCEPT !.status = "failed"] \in Channels
    BY <1>0 DEF Channels
  <2>2. \A result \in BatchAnswers :
          /\ result \in BatchVerifyResult
          /\ [ch[i] EXCEPT !.batch_result = result,
                           !.status = "batch_verifying"] \in Channels
    BY <1>0, GraphAssumption DEF Channels
  <2>3. PICK s \in Channels : Goto(i, "audit_trust", s)
    BY <1>5, <2>1, <2>2 DEF BatchVerify
  <2>4. answer' \in [Invocations -> BatchVerifyResult \cup {None}]
    BY <1>0, <1>5, <2>2 DEF BatchVerify
  <2> QED BY <2>3, <2>4, GotoType
<1>6. CASE AuditTrust(i)
  <2>1. [ch[i] EXCEPT !.status = "auditing"] \in Channels
    BY <1>0 DEF Channels
  <2> QED BY <1>0, <1>6, <2>1, GotoType DEF AuditTrust
<1>7. CASE EvaluateProtocol(i)
  <2>1. \A verdict \in Verdict :
          [ch[i] EXCEPT !.policy_decision = verdict, !.status = "auditing"] \in Channels
    BY <1>0 DEF Channels
  <2>2. PICK s \in Channels : Goto(i, "policy_review", s)
    BY <1>0, <1>7, <2>1, VerdictTypes DEF EvaluateProtocol
  <2>3. answer' = answer
    BY <1>7 DEF EvaluateProtocol
  <2> QED BY <1>0, <2>2, <2>3, GotoType
<1>8. CASE PolicyReview(i)
  <2>1. [ch[i] EXCEPT !.status = "auditing"] \in Channels
    BY <1>0 DEF Channels
  <2>2. [ch[i] EXCEPT !.policy_decision = ReviewVerdict(ch[i]),
                      !.status = "auditing"] \in Channels
    BY <1>0, VerdictTypes DEF Channels
  <2>3. PICK s \in Channels : Goto(i, route_after_policy(s), s)
    BY <1>8, <2>1, <2>2 DEF PolicyReview
  <2>4. answer' = answer
    BY <1>8 DEF PolicyReview
  <2> QED BY <1>0, <2>3, <2>4, GotoType, RouteTypes
<1>9. CASE InterruptForApproval(i)
  <2>1. [ch[i] EXCEPT !.approval_required = TRUE, !.status = "awaiting_approval"] \in Channels
    BY <1>0 DEF Channels
  <2> QED BY <1>0, <1>9, <2>1, GotoType DEF InterruptForApproval
<1>10. CASE Finalize(i)
  <2>1. Append(ch[i].artifacts, Witness(ch[i])) \in Seq(WitnessBundle)
    <3>1. ch[i].artifacts \in Seq(WitnessBundle)
      BY <1>0 DEF Channels
    <3> QED BY <1>0, <3>1, WitnessType
  <2>2. [ch[i] EXCEPT !.status = "accepted",
                      !.artifacts = Append(ch[i].artifacts, Witness(ch[i]))] \in Channels
    BY <1>0, <2>1 DEF Channels
  <2> QED BY <1>0, <1>10, <2>2, GotoType DEF Finalize
<1>11. CASE Repair(i)
  <2>1. [ch[i] EXCEPT !.status = "repairing"] \in Channels
    BY <1>0 DEF Channels
  <2> QED BY <1>0, <1>11, <2>1, GotoType DEF Repair
<1>12. CASE ResumeWithApproval(i)
  <2>1. \A status \in {"accepted", "rejected"} :
          [ch[i] EXCEPT !.approval_required = FALSE, !.status = status] \in Channels
    BY <1>0 DEF Channels
  <2>2. PICK s \in Channels : Goto(i, route_after_resume(s), s)
    BY <1>12, <2>1 DEF ResumeWithApproval
  <2>3. answer' = answer
    BY <1>12 DEF ResumeWithApproval
  <2> QED BY <1>0, <2>2, <2>3, GotoType, RouteTypes
<1> QED
  BY <1>1, <1>2, <1>3, <1>4, <1>5, <1>6, <1>7, <1>8, <1>9, <1>10, <1>11, <1>12 DEF LocalNode

(* The type invariant holds of every behaviour of the graph, for every set  *)
(* of invocations, packs, jobs and gateway answers.                         *)
THEOREM GraphTypeCorrect == GraphSpec => []GraphTypeOK
<1>1. GraphInit => GraphTypeOK
  BY DEF GraphInit, GraphTypeOK, Nodes, Channels, NoChannels
<1>2. GraphTypeOK /\ [GraphNext]_graphVars => GraphTypeOK'
  <2> SUFFICES ASSUME GraphTypeOK, [GraphNext]_graphVars
               PROVE  GraphTypeOK'
    OBVIOUS
  <2>1. ASSUME NEW i \in Invocations, LocalNode(i)
        PROVE  GraphTypeOK'
    BY <2>1, LocalNodeType
  <2>2. ASSUME NEW i \in Invocations, PostReview(i) \/ Abort(i)
        PROVE  GraphTypeOK'
    BY <2>2 DEF GraphTypeOK, PostReview, Abort, Nodes
  <2>3. ASSUME NEW r \in Runs, RunObligation(r)
        PROVE  GraphTypeOK'
    <3>1. PICK job \in Jobs : LET s == make_initial_state(r, job, checkpoint)
                              IN Goto(r, route_start(s), s)
      BY <2>3 DEF RunObligation
    <3>2. make_initial_state(r, job, checkpoint) \in Channels
      BY FactoryTypes DEF GraphTypeOK
    <3>3. r \in Invocations /\ answer' \in [Invocations -> BatchVerifyResult \cup {None}]
      BY <2>3 DEF RunObligation, GraphTypeOK, Invocations
    <3> QED BY <3>1, <3>2, <3>3, RouteTypes, GotoType
  <2>4. ASSUME NEW q \in Resumes, NEW d \in {"approved", "rejected"}, ResumeThread(q, d)
        PROVE  GraphTypeOK'
    <3>1. make_resume_state(d, checkpoint) \in Channels
      BY FactoryTypes DEF GraphTypeOK
    <3>2. q \in Invocations /\ answer' \in [Invocations -> BatchVerifyResult \cup {None}]
      BY <2>4 DEF ResumeThread, GraphTypeOK, Invocations
    <3> QED BY <2>4, <3>1, <3>2, RouteTypes, GotoType DEF ResumeThread
  <2>5. CASE UNCHANGED graphVars
    BY <2>5 DEF GraphTypeOK, graphVars
  <2> QED BY <2>1, <2>2, <2>3, <2>4, <2>5 DEF GraphNext
<1> QED BY <1>1, <1>2, PTL DEF GraphSpec

----------------------------------------------------------------------------
(* The acceptance lane                                                      *)

(* What a run has behind it only depends on its own place and channels.     *)
LEMMA EvidenceFrame ==
  ASSUME NEW r \in Runs, RunEvidence(r),
         pc'[r] = pc[r], ch'[r] = ch[r], answer'[r] = answer[r]
  PROVE  RunEvidence(r)'
BY DEF RunEvidence, PassedReview, Ended, LanePassed, InteractiveClear

(* A node that sends its invocation to `next` with channels s.              *)
LEMMA GotoEffect ==
  ASSUME GraphTypeOK, NEW i \in Invocations, NEW next, NEW s, Goto(i, next, s)
  PROVE  /\ pc'[i] = next /\ ch'[i] = s
         /\ \A j \in Invocations \ {i} : pc'[j] = pc[j] /\ ch'[j] = ch[j]
BY DEF GraphTypeOK, Goto

(* A node changes no other invocation.                                      *)
LEMMA LocalNodeFrame ==
  ASSUME GraphTypeOK, NEW i \in Invocations, LocalNode(i)
  PROVE  \A j \in Invocations \ {i} :
           pc'[j] = pc[j] /\ ch'[j] = ch[j] /\ answer'[j] = answer[j]
<1>1. PICK next, s : Goto(i, next, s)
  BY DEF LocalNode, InitEnvironment, RetrieveContext, DraftCandidate, InteractiveCheck,
         BatchVerify, AuditTrust, EvaluateProtocol, PolicyReview, InterruptForApproval,
         Finalize, Repair, ResumeWithApproval
<1>2. \A j \in Invocations \ {i} : answer'[j] = answer[j]
  BY DEF LocalNode, InitEnvironment, RetrieveContext, DraftCandidate, InteractiveCheck,
         BatchVerify, AuditTrust, EvaluateProtocol, PolicyReview, InterruptForApproval,
         Finalize, Repair, ResumeWithApproval, GraphTypeOK
<1> QED BY <1>1, <1>2, GotoEffect

(* policy_review lets a run go on only when its lane passed.                *)
LEMMA PolicyReviewNeedsLane ==
  ASSUME NEW s, s.batch_result # None,
         ReviewVerdict(s).decision \in {"accepted", "needs_review"}
  PROVE  s.batch_result.ok /\ s.batch_result.axiom_audit.blocked_reasons = {}
<1> DEFINE missing == /\ load_pack_for_review(s).reviewer_gated_execution
                      /\ s.approval_decision \notin {"approved", "rejected"}
           meta == summarize_patch(s.patch, s.protected_paths)
           pack == load_pack_for_review(s)
<1>1. ~missing
  BY DEF ReviewVerdict
<1>2. ReviewVerdict(s) = evaluate(s.interactive_result, s.batch_result, meta, pack)
  BY <1>1 DEF ReviewVerdict
<1>3. evaluate(s.interactive_result, s.batch_result, meta, pack).decision
        \in {"accepted", "needs_review"}
  BY <1>2
<1> HIDE DEF missing, meta, pack
<1> QED BY <1>3, LaneVerdictDominates

(* Every node keeps a run's evidence for the place it goes to.              *)
LEMMA LocalNodeEvidence ==
  ASSUME GraphTypeOK, LaneInv, NEW r \in Runs, LocalNode(r)
  PROVE  RunEvidence(r)' /\ pc'[r] # "resume_with_approval"
<1> USE DEF RunEvidence, PassedReview, Ended, LanePassed, InteractiveClear
<1>0. /\ r \in Invocations /\ r # None /\ RunEvidence(r)
      /\ ch[r] \in Channels /\ pc[r] # "resume_with_approval"
      /\ answer \in [Invocations -> BatchVerifyResult \cup {None}]
  BY GraphAssumption DEF Invocations, LaneInv, StaleApprovalIgnored, GraphTypeOK
<1>1. CASE InitEnvironment(r)
  <2> DEFINE s == [ch[r] EXCEPT !.session_id = r, !.status = "initialized"]
  <2>1. s.session_id = r
    BY <1>0 DEF Channels
  <2>2. pc'[r] = "retrieve_context" /\ ch'[r] = s
    BY <1>0, <1>1, GotoEffect DEF InitEnvironment
  <2> HIDE DEF s
  <2> QED BY <1>0, <2>1, <2>2
<1>2. CASE RetrieveContext(r)
  <2> DEFINE s == [ch[r] EXCEPT !.status = "retrieving_context"]
  <2>1. s.session_id # None
    BY <1>0, <1>2 DEF Channels, RetrieveContext
  <2>2. pc'[r] = "draft_candidate" /\ ch'[r] = s
    BY <1>0, <1>2, GotoEffect DEF RetrieveContext
  <2> HIDE DEF s
  <2> QED BY <2>1, <2>2
<1>3. CASE DraftCandidate(r)
  <2> DEFINE s == [ch[r] EXCEPT !.status = "drafting"]
  <2>1. s.session_id # None
    BY <1>0, <1>3 DEF Channels, DraftCandidate
  <2>2. pc'[r] = "interactive_check" /\ ch'[r] = s
    BY <1>0, <1>3, GotoEffect DEF DraftCandidate
  <2> HIDE DEF s
  <2> QED BY <2>1, <2>2
<1>4. CASE InteractiveCheck(r)
  <2>1. ch[r].session_id # None
    BY <1>0, <1>4 DEF InteractiveCheck
  <2>2. PICK result \in InteractiveAnswers :
          LET s == [ch[r] EXCEPT !.interactive_result = result, !.status = "checking_interactive"]
          IN Goto(r, route_after_interactive(s), s)
    BY <1>4, <2>1 DEF InteractiveCheck
  <2> DEFINE s == [ch[r] EXCEPT !.interactive_result = result,
                                !.status = "checking_interactive"]
  <2>3. s.interactive_result = result /\ s.session_id # None
    BY <1>0, <2>1 DEF Channels
  <2>4. pc'[r] = route_after_interactive(s) /\ ch'[r] = s
    BY <1>0, <2>2, GotoEffect
  <2>5. result # None
    BY GraphAssumption, NoneAssumption
  <2> HIDE DEF s
  <2>6. \/ /\ route_after_interactive(s) = "batch_verify" /\ result.ok /\ ~result.goals
        \/ route_after_interactive(s) \in {"repair_from_diagnostics", "repair_from_goals"}
    BY <2>3, <2>5 DEF route_after_interactive
  <2> QED BY <2>3, <2>4, <2>5, <2>6
<1>5. CASE BatchVerify(r)
  <2>1. pc[r] = "batch_verify" /\ ch[r].session_id # None /\ InteractiveClear(r)
    BY <1>0, <1>5 DEF BatchVerify
  <2>2. PICK result \in BatchAnswers :
          /\ Goto(r, "audit_trust", [ch[r] EXCEPT !.batch_result = result,
                                                  !.status = "batch_verifying"])
          /\ answer' = [answer EXCEPT ![r] = result]
    BY <1>5, <2>1 DEF BatchVerify
  <2> DEFINE s == [ch[r] EXCEPT !.batch_result = result, !.status = "batch_verifying"]
  <2>3. s.interactive_result = ch[r].interactive_result /\ s.batch_result = result
    BY <1>0 DEF Channels
  <2>4. pc'[r] = "audit_trust" /\ ch'[r] = s /\ answer'[r] = result
    BY <1>0, <2>2, GotoEffect
  <2>5. result # None
    BY GraphAssumption, NoneAssumption
  <2> HIDE DEF s
  <2> QED BY <2>1, <2>3, <2>4, <2>5
<1>6. CASE AuditTrust(r) \/ EvaluateProtocol(r)
  <2> DEFINE audited == [ch[r] EXCEPT !.status = "auditing"]
             judged(v) == [ch[r] EXCEPT !.policy_decision = v, !.status = "auditing"]
             SameLanes(s) == /\ s.interactive_result = ch[r].interactive_result
                             /\ s.batch_result = ch[r].batch_result
  <2>1. SameLanes(audited) /\ SameLanes(ch[r]) /\ \A v : SameLanes(judged(v))
    BY <1>0 DEF Channels
  <2>2. \/ Goto(r, "evaluate_protocol", audited)
        \/ Goto(r, "policy_review", ch[r])
        \/ \E v : Goto(r, "policy_review", judged(v))
    BY <1>6 DEF AuditTrust, EvaluateProtocol
  <2> HIDE DEF audited, judged
  <2>3. PICK next, s : /\ next \in {"evaluate_protocol", "policy_review"}
                       /\ Goto(r, next, s) /\ SameLanes(s)
    BY <2>1, <2>2
  <2>4. pc[r] \in {"audit_trust", "evaluate_protocol"} /\ answer' = answer
    BY <1>6 DEF AuditTrust, EvaluateProtocol
  <2>5. pc'[r] \in {"evaluate_protocol", "policy_review"} /\ ch'[r] = s
    BY <1>0, <2>3, GotoEffect
  <2> QED BY <1>0, <2>3, <2>4, <2>5
<1>7. CASE PolicyReview(r)
  <2> DEFINE verdict == IF AlreadyRefused(ch[r]) THEN ch[r].policy_decision
                                                 ELSE ReviewVerdict(ch[r])
  <2>1. PICK s : /\ Goto(r, route_after_policy(s), s)
                 /\ s.interactive_result = ch[r].interactive_result
                 /\ s.batch_result = ch[r].batch_result
                 /\ s.policy_decision = verdict /\ s.status = "auditing"
    <3> DEFINE kept == [ch[r] EXCEPT !.status = "auditing"]
               judged == [ch[r] EXCEPT !.policy_decision = ReviewVerdict(ch[r]),
                                       !.status = "auditing"]
               s == IF AlreadyRefused(ch[r]) THEN kept ELSE judged
    <3>1. Goto(r, route_after_policy(s), s)
      BY <1>7 DEF PolicyReview
    <3>2. /\ s.interactive_result = ch[r].interactive_result
          /\ s.batch_result = ch[r].batch_result
          /\ s.policy_decision = verdict /\ s.status = "auditing"
      BY <1>0 DEF Channels
    <3> HIDE DEF s, verdict
    <3> QED BY <3>1, <3>2
  <2>2. pc[r] = "policy_review" /\ answer' = answer
    BY <1>7 DEF PolicyReview
  <2>3. pc'[r] = route_after_policy(s) /\ ch'[r] = s
    BY <1>0, <2>1, GotoEffect
  <2>4. InteractiveClear(r) /\ answer[r] # None /\ ch[r].batch_result = answer[r]
    BY <1>0, <2>2
  <2>5. verdict # None
    BY VerdictTypes, NoneAssumption DEF AlreadyRefused
  <2>6. verdict.decision \in {"accepted", "needs_review"} => LanePassed(r)'
    <3> SUFFICES ASSUME verdict.decision \in {"accepted", "needs_review"}
                 PROVE  LanePassed(r)'
      OBVIOUS
    <3>1. ReviewVerdict(ch[r]).decision \in {"accepted", "needs_review"}
      BY DEF AlreadyRefused
    <3>2. answer[r].ok /\ answer[r].axiom_audit.blocked_reasons = {}
      BY <2>4, <3>1, PolicyReviewNeedsLane
    <3> HIDE DEF verdict
    <3> QED BY <2>1, <2>2, <2>3, <2>4, <3>2
  <2> HIDE DEF verdict
  <2>7. \/ /\ route_after_policy(s) \in {"finalize", "interrupt_for_approval"}
           /\ verdict.decision \in {"accepted", "needs_review"}
        \/ route_after_policy(s) = "end"
    BY <2>1, <2>5 DEF route_after_policy
  <2> QED BY <2>1, <2>3, <2>6, <2>7
<1>8. CASE InterruptForApproval(r) \/ Finalize(r)
  <2> DEFINE waiting == [ch[r] EXCEPT !.approval_required = TRUE,
                                      !.status = "awaiting_approval"]
             done == [ch[r] EXCEPT !.status = "accepted",
                                   !.artifacts = Append(ch[r].artifacts, Witness(ch[r]))]
  <2>0. /\ waiting.interactive_result = ch[r].interactive_result
        /\ done.interactive_result = ch[r].interactive_result
    BY <1>0 DEF Channels
  <2>1. PICK s : Goto(r, "end", s) /\ s.interactive_result = ch[r].interactive_result
    <3>1. Goto(r, "end", waiting) \/ Goto(r, "end", done)
      BY <1>8 DEF InterruptForApproval, Finalize
    <3> HIDE DEF waiting, done
    <3> QED BY <2>0, <3>1
  <2>2. pc[r] \in {"review_posted", "finalize"} /\ answer' = answer
    BY <1>8 DEF InterruptForApproval, Finalize
  <2>3. pc'[r] = "end" /\ ch'[r] = s
    BY <1>0, <2>1, GotoEffect
  <2>4. LanePassed(r)
    BY <1>0, <2>2
  <2> HIDE DEF waiting, done
  <2>5. LanePassed(r)'
    BY <2>1, <2>2, <2>3, <2>4
  <2> QED BY <2>3, <2>5
<1>9. CASE Repair(r)
  <2> DEFINE s == [ch[r] EXCEPT !.status = "repairing"]
  <2>1. s.status = "repairing"
    BY <1>0 DEF Channels
  <2>2. pc'[r] = "end" /\ ch'[r] = s
    BY <1>0, <1>9, GotoEffect DEF Repair
  <2> HIDE DEF s
  <2> QED BY <2>1, <2>2
<1>10. CASE ResumeWithApproval(r)
  BY <1>0, <1>10 DEF ResumeWithApproval
<1> QED
  BY <1>1, <1>2, <1>3, <1>4, <1>5, <1>6, <1>7, <1>8, <1>9, <1>10 DEF LocalNode

(* A started invocation begins where route_start sends its input: a run at  *)
(* its first node, a resume at resume_with_approval.                        *)
LEMMA RouteStartSeparates ==
  ASSUME NEW old
  PROVE  /\ \A r \in Runs, job \in Jobs :
              route_start(make_initial_state(r, job, old)) = "init_environment"
         /\ \A d \in {"approved", "rejected"} :
              route_start(make_resume_state(d, old)) = "resume_with_approval"
BY DEF route_start, make_initial_state, make_resume_state

(* LaneInv is inductive.                                                    *)
THEOREM LaneInvariant == GraphSpec => []LaneInv
<1>0. Runs \cap Resumes = {} /\ Runs \subseteq Invocations /\ Resumes \subseteq Invocations
  BY GraphAssumption DEF Invocations
<1>1. GraphInit => LaneInv
  BY <1>0 DEF GraphInit, LaneInv, StaleApprovalIgnored, RunEvidence, PassedReview, Ended
<1>2. GraphTypeOK /\ LaneInv /\ [GraphNext]_graphVars => LaneInv'
  <2> SUFFICES ASSUME GraphTypeOK, LaneInv, [GraphNext]_graphVars
               PROVE  LaneInv'
    OBVIOUS
  <2> DEFINE ResumePlaces == {"idle", "resume_with_approval", "finalize", "end", "aborted"}
  <2>0. /\ \A r \in Runs : RunEvidence(r) /\ pc[r] # "resume_with_approval"
        /\ \A q \in Resumes : pc[q] \in ResumePlaces
    BY DEF LaneInv, StaleApprovalIgnored
  \* It is enough to look at the invocation that moves.
  <2>1. ASSUME NEW i \in Invocations,
               \A j \in Invocations \ {i} :
                 pc'[j] = pc[j] /\ ch'[j] = ch[j] /\ answer'[j] = answer[j],
               i \in Runs => RunEvidence(i)' /\ pc'[i] # "resume_with_approval",
               i \in Resumes => pc'[i] \in ResumePlaces
        PROVE  LaneInv'
    <3>1. \A r \in Runs : RunEvidence(r)' /\ pc'[r] # "resume_with_approval"
      BY <1>0, <2>0, <2>1, EvidenceFrame
    <3>2. \A q \in Resumes : pc'[q] \in ResumePlaces
      BY <1>0, <2>0, <2>1
    <3> QED BY <3>1, <3>2 DEF LaneInv, StaleApprovalIgnored
  <2>2. ASSUME NEW r \in Runs, LocalNode(r)
        PROVE  LaneInv'
    BY <1>0, <2>1, <2>2, LocalNodeEvidence, LocalNodeFrame
  <2>3. ASSUME NEW q \in Resumes, LocalNode(q)
        PROVE  LaneInv'
    <3>1. pc[q] \in ResumePlaces
      BY <2>0
    <3>2. \/ Finalize(q)
          \/ ResumeWithApproval(q)
      BY <2>3, <3>1 DEF LocalNode, InitEnvironment, RetrieveContext, DraftCandidate,
         InteractiveCheck, BatchVerify, AuditTrust, EvaluateProtocol, PolicyReview,
         InterruptForApproval, Repair
    <3>3. pc'[q] \in {"end", "finalize"}
      BY <1>0, <3>2, GotoEffect DEF Finalize, ResumeWithApproval, route_after_resume
    <3> QED BY <1>0, <2>1, <2>3, <3>3, LocalNodeFrame
  <2>4. ASSUME NEW i \in Invocations, PostReview(i) \/ Abort(i)
        PROVE  LaneInv'
    <3>1. /\ \A j \in Invocations \ {i} : pc'[j] = pc[j]
          /\ ch' = ch /\ answer' = answer
          /\ \/ pc[i] = "interrupt_for_approval" /\ pc'[i] = "review_posted"
             \/ pc'[i] = "aborted"
      BY <2>4 DEF GraphTypeOK, PostReview, Abort
    <3>2. i \in Runs => RunEvidence(i)'
      BY <2>0, <3>1 DEF RunEvidence, PassedReview, Ended, LanePassed, InteractiveClear
    <3>3. i \in Resumes => pc'[i] = "aborted"
      BY <2>0, <3>1
    <3> QED BY <1>0, <2>1, <3>1, <3>2, <3>3
  <2>5. ASSUME NEW r \in Runs, RunObligation(r)
        PROVE  LaneInv'
    <3>1. PICK job \in Jobs : LET s == make_initial_state(r, job, checkpoint)
                              IN Goto(r, route_start(s), s)
      BY <2>5 DEF RunObligation
    <3>2. pc'[r] = "init_environment" /\ answer' = answer
      BY <1>0, <2>5, <3>1, RouteStartSeparates, GotoEffect DEF RunObligation
    <3>3. RunEvidence(r)'
      BY <3>2 DEF RunEvidence, PassedReview, Ended
    <3> QED BY <1>0, <2>1, <3>1, <3>2, <3>3, GotoEffect
  <2>6. ASSUME NEW q \in Resumes, NEW d \in {"approved", "rejected"}, ResumeThread(q, d)
        PROVE  LaneInv'
    <3>1. pc'[q] = "resume_with_approval" /\ answer' = answer
      BY <1>0, <2>6, RouteStartSeparates, GotoEffect DEF ResumeThread
    <3>2. \A j \in Invocations \ {q} : pc'[j] = pc[j] /\ ch'[j] = ch[j]
      BY <1>0, <2>6, GotoEffect DEF ResumeThread
    <3> QED BY <1>0, <2>1, <3>1, <3>2
  <2>7. CASE UNCHANGED graphVars
    <3>1. \A r \in Runs : RunEvidence(r)'
      BY <2>0, <2>7, EvidenceFrame DEF graphVars
    <3> QED BY <2>0, <2>7, <3>1 DEF graphVars, LaneInv, StaleApprovalIgnored
  <2> QED BY <2>2, <2>3, <2>4, <2>5, <2>6, <2>7 DEF GraphNext, Invocations
<1> QED BY <1>1, <1>2, GraphTypeCorrect, PTL DEF GraphSpec

(* For any number of runs and resumes on the thread, any packs and any      *)
(* answers of the gateway: a run that ends accepted, or waits for a human,  *)
(* was told by the gateway that its own lanes passed.                       *)
THEOREM AcceptanceNeedsLane == GraphSpec => []AcceptedPassedLane
<1>1. LaneInv => AcceptedPassedLane
  BY DEF LaneInv, RunEvidence, PassedReview, AcceptedPassedLane
<1> QED BY <1>1, LaneInvariant, PTL

(* An approval left in the checkpoint never carries a run past the lanes.   *)
THEOREM ApprovalIsNotInherited == GraphSpec => []StaleApprovalIgnored
<1>1. LaneInv => StaleApprovalIgnored
  BY DEF LaneInv
<1> QED BY <1>1, LaneInvariant, PTL

----------------------------------------------------------------------------
(* The verdict of a run                                                     *)

(* The channels the caller gave: no node writes them.                       *)
Inputs(s) == <<s.obligation_id, s.patch, s.protected_paths, s.approval_decision,
               s.policy_pack_name, s.protocol_events>>

Lanes(s) == <<s.interactive_result, s.batch_result>>

(* Both verdicts are functions of the inputs and the lanes' results.        *)
LEMMA VerdictFrame ==
  ASSUME NEW s, NEW t, Inputs(s) = Inputs(t)
  PROVE  /\ ProtocolVerdict(s) = ProtocolVerdict(t)
         /\ load_pack_for_review(s) = load_pack_for_review(t)
         /\ Lanes(s) = Lanes(t) => JointVerdict(s) = JointVerdict(t)
<1>1. /\ s.protocol_events = t.protocol_events /\ s.policy_pack_name = t.policy_pack_name
      /\ s.patch = t.patch /\ s.protected_paths = t.protected_paths
      /\ s.approval_decision = t.approval_decision
  BY DEF Inputs
<1>2. ProtocolVerdict(s) = ProtocolVerdict(t)
  BY <1>1 DEF ProtocolVerdict, PackName
<1>3. load_pack_for_review(s) = load_pack_for_review(t)
  BY <1>1 DEF load_pack_for_review, PackName
<1>4. ASSUME Lanes(s) = Lanes(t)
      PROVE  JointVerdict(s) = JointVerdict(t)
  <2>1. s.interactive_result = t.interactive_result /\ s.batch_result = t.batch_result
    BY <1>4 DEF Lanes
  <2>2. ReviewVerdict(s) = ReviewVerdict(t)
    BY <1>1, <1>3, <2>1 DEF ReviewVerdict
  <2> QED BY <1>2, <2>2 DEF JointVerdict
<1> QED BY <1>2, <1>3, <1>4

(* The nodes before the judging ones leave the verdict and the witnesses    *)
(* alone, and only batch_verify takes an answer of the gateway.             *)
LEMMA LaneNodeEffect ==
  ASSUME GraphTypeOK, NEW i \in Invocations,
         \/ InitEnvironment(i) \/ RetrieveContext(i) \/ DraftCandidate(i)
         \/ InteractiveCheck(i) \/ BatchVerify(i) \/ AuditTrust(i) \/ Repair(i)
  PROVE  /\ Inputs(ch'[i]) = Inputs(ch[i])
         /\ ch'[i].policy_decision = ch[i].policy_decision
         /\ ch'[i].artifacts = ch[i].artifacts
         /\ ch'[i].interactive_result \in InteractiveAnswers \cup {ch[i].interactive_result}
         /\ checkpoint' = ch'[i]
         /\ \/ /\ pc[i] \in BeforeLane /\ answer'[i] = answer[i]
               /\ \/ pc'[i] \in BeforeLane
                  \/ pc'[i] = "end" /\ ch'[i].status = "repairing"
            \/ pc[i] = "batch_verify" /\ pc'[i] = "audit_trust"
            \/ /\ pc[i] = "audit_trust" /\ pc'[i] = "evaluate_protocol"
               /\ Lanes(ch'[i]) = Lanes(ch[i]) /\ answer'[i] = answer[i]
<1> USE DEF BeforeLane
<1> DEFINE Untouched(s) == /\ Inputs(s) = Inputs(ch[i])
                           /\ s.policy_decision = ch[i].policy_decision
                           /\ s.artifacts = ch[i].artifacts
                           /\ s.interactive_result
                                \in InteractiveAnswers \cup {ch[i].interactive_result}
<1>0. ch[i] \in Channels
  BY DEF GraphTypeOK
<1>1. ASSUME NEW status
      PROVE  LET s == [ch[i] EXCEPT !.status = status]
             IN Untouched(s) /\ s.status = status /\ Lanes(s) = Lanes(ch[i])
  BY <1>0 DEF Channels, Inputs, Lanes
<1>2. Untouched([ch[i] EXCEPT !.session_id = i, !.status = "initialized"])
  BY <1>0 DEF Channels, Inputs
<1>3. /\ \A result \in InteractiveAnswers :
           Untouched([ch[i] EXCEPT !.interactive_result = result,
                                   !.status = "checking_interactive"])
      /\ \A result :
           Untouched([ch[i] EXCEPT !.batch_result = result, !.status = "batch_verifying"])
  BY <1>0 DEF Channels, Inputs
<1> DEFINE Places(next, s) ==
      \/ /\ pc[i] \in BeforeLane /\ answer'[i] = answer[i]
         /\ \/ next \in BeforeLane
            \/ next = "end" /\ s.status = "repairing"
      \/ pc[i] = "batch_verify" /\ next = "audit_trust"
      \/ /\ pc[i] = "audit_trust" /\ next = "evaluate_protocol"
         /\ Lanes(s) = Lanes(ch[i]) /\ answer'[i] = answer[i]
<1>4. \E next, s : Goto(i, next, s) /\ Untouched(s) /\ Places(next, s)
  <2> HIDE DEF Untouched
  <2>1. CASE InitEnvironment(i)
    BY <1>2, <2>1 DEF InitEnvironment
  <2>2. CASE RetrieveContext(i)
    BY <1>1, <2>2 DEF RetrieveContext
  <2>3. CASE DraftCandidate(i)
    BY <1>1, <2>3 DEF DraftCandidate
  <2>4. CASE InteractiveCheck(i)
    <3>1. \A s : route_after_interactive(s) \in BeforeLane
      BY DEF route_after_interactive
    <3>2. PICK s : Goto(i, route_after_interactive(s), s) /\ Untouched(s)
      BY <1>1, <1>3, <2>4 DEF InteractiveCheck
    <3>3. pc[i] \in BeforeLane /\ answer' = answer
      BY <2>4 DEF InteractiveCheck
    <3> QED BY <3>1, <3>2, <3>3
  <2>5. CASE BatchVerify(i)
    BY <1>1, <1>3, <2>5 DEF BatchVerify
  <2>6. CASE AuditTrust(i)
    BY <1>1, <2>6 DEF AuditTrust
  <2>7. CASE Repair(i)
    BY <1>1, <2>7 DEF Repair
  <2> QED BY <2>1, <2>2, <2>3, <2>4, <2>5, <2>6, <2>7
<1>5. PICK next, s : Goto(i, next, s) /\ Untouched(s) /\ Places(next, s)
  BY <1>4
<1>6. pc'[i] = next /\ ch'[i] = s /\ checkpoint' = s
  BY <1>5, GotoEffect DEF Goto
<1> QED BY <1>5, <1>6

(* evaluate_protocol writes a refusal or nothing; policy_review judges what *)
(* was not refused, and goes where its verdict sends it.                    *)
LEMMA JudgingNodeEffect ==
  ASSUME GraphTypeOK, NEW i \in Invocations, EvaluateProtocol(i) \/ PolicyReview(i)
  PROVE  /\ Inputs(ch'[i]) = Inputs(ch[i]) /\ Lanes(ch'[i]) = Lanes(ch[i])
         /\ ch'[i].artifacts = ch[i].artifacts
         /\ checkpoint' = ch'[i] /\ answer' = answer
         /\ \/ /\ pc[i] = "evaluate_protocol" /\ pc'[i] = "policy_review"
               /\ ch'[i].policy_decision
                    = Given(ProtocolVerdict(ch[i]), ch[i].policy_decision)
            \/ /\ pc[i] = "policy_review" /\ pc'[i] = route_after_policy(ch'[i])
               /\ ch'[i].status = "auditing"
               /\ ch'[i].policy_decision = IF AlreadyRefused(ch[i]) THEN ch[i].policy_decision
                                                                    ELSE ReviewVerdict(ch[i])
<1> DEFINE Untouched(s) == /\ Inputs(s) = Inputs(ch[i]) /\ Lanes(s) = Lanes(ch[i])
                           /\ s.artifacts = ch[i].artifacts
           kept == [ch[i] EXCEPT !.status = "auditing"]
           judged(v) == [ch[i] EXCEPT !.policy_decision = v, !.status = "auditing"]
<1>0. ch[i] \in Channels
  BY DEF GraphTypeOK
<1>1. /\ Untouched(kept) /\ kept.status = "auditing"
      /\ kept.policy_decision = ch[i].policy_decision
  BY <1>0 DEF Channels, Inputs, Lanes
<1>2. ASSUME NEW v
      PROVE  /\ Untouched(judged(v)) /\ judged(v).status = "auditing"
             /\ judged(v).policy_decision = v
  BY <1>0 DEF Channels, Inputs, Lanes
<1>3. Untouched(ch[i])
  OBVIOUS
<1>4. CASE EvaluateProtocol(i)
  <2>1. PICK s : /\ Goto(i, "policy_review", s) /\ Untouched(s)
                 /\ s.policy_decision = Given(ProtocolVerdict(ch[i]), ch[i].policy_decision)
    <3>1. CASE ProtocolVerdict(ch[i]) = None
      <4> HIDE DEF Untouched
      <4> QED BY <1>3, <1>4, <3>1 DEF EvaluateProtocol, Given
    <3>2. CASE ProtocolVerdict(ch[i]) # None
      <4>1. Goto(i, "policy_review", judged(ProtocolVerdict(ch[i])))
        BY <1>4, <3>2 DEF EvaluateProtocol
      <4> HIDE DEF Untouched, judged
      <4> QED BY <1>2, <3>2, <4>1 DEF Given
    <3> QED BY <3>1, <3>2
  <2>2. pc'[i] = "policy_review" /\ ch'[i] = s /\ checkpoint' = s
    BY <2>1, GotoEffect DEF Goto
  <2> QED BY <1>4, <2>1, <2>2 DEF EvaluateProtocol
<1>5. CASE PolicyReview(i)
  <2>1. PICK s : /\ Goto(i, route_after_policy(s), s) /\ Untouched(s)
                 /\ s.status = "auditing"
                 /\ s.policy_decision = IF AlreadyRefused(ch[i]) THEN ch[i].policy_decision
                                                                 ELSE ReviewVerdict(ch[i])
    <3>1. CASE AlreadyRefused(ch[i])
      <4>1. Goto(i, route_after_policy(kept), kept)
        BY <1>5, <3>1 DEF PolicyReview
      <4> HIDE DEF Untouched, kept
      <4> QED BY <1>1, <3>1, <4>1
    <3>2. CASE ~AlreadyRefused(ch[i])
      <4>1. LET s == judged(ReviewVerdict(ch[i])) IN Goto(i, route_after_policy(s), s)
        BY <1>5, <3>2 DEF PolicyReview
      <4> HIDE DEF Untouched, judged
      <4> QED BY <1>2, <3>2, <4>1
    <3> QED BY <3>1, <3>2
  <2>2. pc'[i] = route_after_policy(s) /\ ch'[i] = s /\ checkpoint' = s
    BY <2>1, GotoEffect DEF Goto
  <2> QED BY <1>5, <2>1, <2>2 DEF PolicyReview
<1> QED BY <1>4, <1>5

(* The nodes that end an invocation keep its verdict; finalize alone adds a *)
(* witness.                                                                 *)
LEMMA LastNodeEffect ==
  ASSUME GraphTypeOK, NEW i \in Invocations,
         InterruptForApproval(i) \/ Finalize(i) \/ ResumeWithApproval(i)
  PROVE  /\ Inputs(ch'[i]) = Inputs(ch[i]) /\ Lanes(ch'[i]) = Lanes(ch[i])
         /\ ch'[i].policy_decision = ch[i].policy_decision
         /\ checkpoint' = ch'[i] /\ answer' = answer
         /\ \/ /\ pc[i] = "review_posted" /\ pc'[i] = "end"
               /\ ch'[i].status = "awaiting_approval" /\ ch'[i].artifacts = ch[i].artifacts
            \/ /\ pc[i] = "finalize" /\ pc'[i] = "end" /\ ch'[i].status = "accepted"
               /\ Len(ch'[i].artifacts) = Len(ch[i].artifacts) + 1
            \/ /\ pc[i] = "resume_with_approval" /\ ch'[i].artifacts = ch[i].artifacts
               /\ \/ pc'[i] = "finalize" /\ ch[i].approval_decision = "approved"
                  \/ pc'[i] = "end" /\ ch'[i].status = "rejected"
<1> DEFINE Untouched(s) == /\ Inputs(s) = Inputs(ch[i]) /\ Lanes(s) = Lanes(ch[i])
                           /\ s.policy_decision = ch[i].policy_decision
<1>0. ch[i] \in Channels
  BY DEF GraphTypeOK
<1>1. CASE InterruptForApproval(i)
  <2> DEFINE s == [ch[i] EXCEPT !.approval_required = TRUE, !.status = "awaiting_approval"]
  <2>1. Untouched(s) /\ s.status = "awaiting_approval" /\ s.artifacts = ch[i].artifacts
    BY <1>0 DEF Channels, Inputs, Lanes
  <2>2. pc'[i] = "end" /\ ch'[i] = s /\ checkpoint' = s
    BY <1>1, GotoEffect DEF InterruptForApproval, Goto
  <2> HIDE DEF s
  <2> QED BY <1>1, <2>1, <2>2 DEF InterruptForApproval
<1>2. CASE Finalize(i)
  <2> DEFINE s == [ch[i] EXCEPT !.status = "accepted",
                                !.artifacts = Append(ch[i].artifacts, Witness(ch[i]))]
  <2>1. /\ Untouched(s) /\ s.status = "accepted"
        /\ s.artifacts = Append(ch[i].artifacts, Witness(ch[i]))
    BY <1>0 DEF Channels, Inputs, Lanes
  <2>2. Len(Append(ch[i].artifacts, Witness(ch[i]))) = Len(ch[i].artifacts) + 1
    <3>1. ch[i].artifacts \in Seq(WitnessBundle)
      BY <1>0 DEF Channels
    <3> QED BY <1>0, <3>1, WitnessType
  <2>3. pc'[i] = "end" /\ ch'[i] = s /\ checkpoint' = s
    BY <1>2, GotoEffect DEF Finalize, Goto
  <2> HIDE DEF s
  <2> QED BY <1>2, <2>1, <2>2, <2>3 DEF Finalize
<1>3. CASE ResumeWithApproval(i)
  <2> DEFINE resumed(status) == [ch[i] EXCEPT !.approval_required = FALSE, !.status = status]
             status == IF ch[i].approval_decision = "approved" THEN "accepted" ELSE "rejected"
             s == resumed(status)
  <2>1. /\ Untouched(s) /\ s.status = status /\ s.artifacts = ch[i].artifacts
        /\ s.approval_decision = ch[i].approval_decision
    BY <1>0 DEF Channels, Inputs, Lanes
  <2>2. pc'[i] = route_after_resume(s) /\ ch'[i] = s /\ checkpoint' = s
    <3>1. Goto(i, route_after_resume(s), s)
      BY <1>3 DEF ResumeWithApproval
    <3> HIDE DEF s
    <3> QED BY <3>1, GotoEffect DEF Goto
  <2>3. pc[i] = "resume_with_approval" /\ answer' = answer
    BY <1>3 DEF ResumeWithApproval
  <2> HIDE DEF s
  <2> QED BY <2>1, <2>2, <2>3 DEF route_after_resume
<1> QED BY <1>1, <1>2, <1>3

(* The record of an invocation only depends on its own place and channels.  *)
LEMMA RecordFrame ==
  ASSUME NEW i \in Invocations,
         pc'[i] = pc[i], ch'[i] = ch[i], answer'[i] = answer[i]
  PROVE  /\ i \in Runs /\ RunRecord(i) => RunRecord(i)'
         /\ i \in Resumes /\ ResumeRecord(i) => ResumeRecord(i)'
         /\ WitnessRecord(i) => WitnessRecord(i)'
BY DEF RunRecord, ResumeRecord, WitnessRecord, Judged, Delivered, InteractiveClear

(* A protocol verdict is a refusal, and the joint verdict routes somewhere. *)
LEMMA JointVerdictType ==
  ASSUME NEW s
  PROVE  /\ JointVerdict(s) \in Verdict /\ JointVerdict(s) # None
         /\ ProtocolVerdict(s) # None
              => /\ ProtocolVerdict(s).decision \in {"rejected", "blocked"}
                 /\ JointVerdict(s) = ProtocolVerdict(s)
         /\ ProtocolVerdict(s) = None => JointVerdict(s) = ReviewVerdict(s)
<1>1. ASSUME ProtocolVerdict(s) # None
      PROVE  ProtocolVerdict(s).decision \in {"rejected", "blocked"}
  BY <1>1, ProtocolDecisionType DEF ProtocolVerdict
<1> QED BY <1>1, VerdictTypes, NoneAssumption DEF JointVerdict, Given

(* Every node a run executes keeps its record.                              *)
LEMMA LocalNodeRecord ==
  ASSUME GraphTypeOK, LaneInv, NEW r \in Runs, RunRecord(r), LocalNode(r)
  PROVE  RunRecord(r)'
<1>0. /\ r \in Invocations /\ RunEvidence(r) /\ pc[r] # "resume_with_approval"
  BY GraphAssumption DEF Invocations, LaneInv, StaleApprovalIgnored
<1>1. CASE \/ InitEnvironment(r) \/ RetrieveContext(r) \/ DraftCandidate(r)
           \/ InteractiveCheck(r) \/ BatchVerify(r) \/ AuditTrust(r) \/ Repair(r)
  <2>1. /\ pc[r] # "idle" /\ ch'[r].obligation_id = ch[r].obligation_id
        /\ ch'[r].interactive_result \in InteractiveAnswers \cup {ch[r].interactive_result}
    BY <1>0, <1>1, LaneNodeEffect DEF Inputs, BeforeLane
  <2>2. /\ ch'[r].policy_decision = ch[r].policy_decision
        /\ \/ /\ pc[r] \in BeforeLane /\ answer'[r] = answer[r]
              /\ \/ pc'[r] \in BeforeLane
                 \/ pc'[r] = "end" /\ ch'[r].status = "repairing"
           \/ pc[r] = "batch_verify" /\ pc'[r] = "audit_trust"
           \/ pc[r] = "audit_trust" /\ pc'[r] = "evaluate_protocol"
    BY <1>0, <1>1, LaneNodeEffect
  <2> QED BY <2>1, <2>2 DEF RunRecord, BeforeVerdict, BeforeLane
<1>2. CASE EvaluateProtocol(r) \/ PolicyReview(r)
  <2>1. Inputs(ch'[r]) = Inputs(ch[r]) /\ Lanes(ch'[r]) = Lanes(ch[r]) /\ answer' = answer
    BY <1>0, <1>2, JudgingNodeEffect
  <2>2. /\ ProtocolVerdict(ch'[r]) = ProtocolVerdict(ch[r])
        /\ JointVerdict(ch'[r]) = JointVerdict(ch[r])
    BY <2>1, VerdictFrame
  <2>3. /\ pc[r] # "idle" /\ ch'[r].obligation_id = r
        /\ ch'[r].interactive_result \in InteractiveAnswers \cup {None}
    BY <1>2, <2>1 DEF EvaluateProtocol, PolicyReview, RunRecord, Inputs, Lanes
  <2>4. CASE EvaluateProtocol(r)
    <3>1. /\ pc[r] = "evaluate_protocol" /\ pc'[r] = "policy_review"
          /\ ch'[r].policy_decision = Given(ProtocolVerdict(ch[r]), ch[r].policy_decision)
      BY <1>0, <2>4, JudgingNodeEffect DEF EvaluateProtocol
    <3>2. ch'[r].policy_decision = ProtocolVerdict(ch'[r])
      BY <2>2, <3>1 DEF RunRecord, BeforeVerdict, Given
    <3> QED BY <2>3, <3>1, <3>2 DEF RunRecord, BeforeVerdict, BeforeLane
  <2>5. CASE PolicyReview(r)
    <3>1. /\ pc[r] = "policy_review" /\ pc'[r] = route_after_policy(ch'[r])
          /\ ch'[r].status = "auditing"
          /\ ch'[r].policy_decision = IF AlreadyRefused(ch[r]) THEN ch[r].policy_decision
                                                               ELSE ReviewVerdict(ch[r])
      BY <1>0, <2>5, JudgingNodeEffect DEF PolicyReview
    <3>2. ch'[r].policy_decision = JointVerdict(ch'[r])
      <4>1. ch[r].policy_decision = ProtocolVerdict(ch[r])
        BY <3>1 DEF RunRecord
      <4>2. AlreadyRefused(ch[r]) <=> ProtocolVerdict(ch[r]) # None
        BY <4>1, JointVerdictType DEF AlreadyRefused
      <4> QED BY <2>2, <3>1, <4>1, <4>2, JointVerdictType
    <3>3. ch'[r].policy_decision # None /\ ch'[r].policy_decision.decision \in Decisions
      BY <3>2, JointVerdictType DEF Verdict
    <3>4. answer[r] # None /\ ch[r].batch_result = answer[r] /\ InteractiveClear(r)
      BY <1>0, <3>1 DEF RunEvidence
    <3>5. /\ answer'[r] # None /\ ch'[r].batch_result = answer'[r] /\ InteractiveClear(r)'
      BY <2>1, <3>4 DEF Lanes, InteractiveClear
    <3>6. \A decisions : ch'[r].policy_decision.decision \in decisions
                           => Judged(r, decisions)'
      BY <3>2, <3>5 DEF Judged
    <3>7. \/ pc'[r] = "finalize" /\ ch'[r].policy_decision.decision = "accepted"
          \/ /\ pc'[r] = "interrupt_for_approval"
             /\ ch'[r].policy_decision.decision = "needs_review"
          \/ pc'[r] = "end" /\ ch'[r].policy_decision.decision \in {"rejected", "blocked"}
      BY <3>1, <3>3 DEF route_after_policy, Decisions
    <3> QED BY <2>3, <3>1, <3>6, <3>7 DEF RunRecord, BeforeVerdict, BeforeLane
  <2> QED BY <1>2, <2>4, <2>5
<1>3. CASE InterruptForApproval(r) \/ Finalize(r) \/ ResumeWithApproval(r)
  <2>1. /\ Inputs(ch'[r]) = Inputs(ch[r]) /\ Lanes(ch'[r]) = Lanes(ch[r]) /\ answer' = answer
        /\ ch'[r].policy_decision = ch[r].policy_decision
    BY <1>0, <1>3, LastNodeEffect
  <2>2. JointVerdict(ch'[r]) = JointVerdict(ch[r])
    BY <2>1, VerdictFrame
  <2>3. \A decisions : Judged(r, decisions) => Judged(r, decisions)'
    BY <2>1, <2>2 DEF Judged, Lanes, InteractiveClear
  <2>4. \/ /\ pc[r] = "review_posted" /\ pc'[r] = "end"
           /\ ch'[r].status = "awaiting_approval"
        \/ pc[r] = "finalize" /\ pc'[r] = "end" /\ ch'[r].status = "accepted"
    BY <1>0, <1>3, LastNodeEffect
  <2>5. /\ ch'[r].obligation_id = r
        /\ ch'[r].interactive_result \in InteractiveAnswers \cup {None}
    BY <2>1, <2>4 DEF RunRecord, Inputs, Lanes
  <2> QED BY <2>3, <2>4, <2>5 DEF RunRecord, BeforeVerdict, BeforeLane
<1> QED BY <1>1, <1>2, <1>3 DEF LocalNode

(* A node keeps the count of witnesses right, on the thread as well.        *)
LEMMA LocalNodeWitness ==
  ASSUME GraphTypeOK, NEW i \in Invocations, WitnessRecord(i), LocalNode(i)
  PROVE  WitnessRecord(i)' /\ checkpoint' = ch'[i] /\ Len(checkpoint'.artifacts) <= 1
<1> USE DEF WitnessRecord, Delivered, Nodes
<1>1. CASE \/ InitEnvironment(i) \/ RetrieveContext(i) \/ DraftCandidate(i)
           \/ InteractiveCheck(i) \/ BatchVerify(i) \/ AuditTrust(i) \/ Repair(i)
  BY <1>1, LaneNodeEffect DEF BeforeLane
<1>2. CASE EvaluateProtocol(i) \/ PolicyReview(i)
  BY <1>2, JudgingNodeEffect DEF route_after_policy
<1>3. CASE InterruptForApproval(i) \/ Finalize(i) \/ ResumeWithApproval(i)
  BY <1>3, LastNodeEffect
<1> QED BY <1>1, <1>2, <1>3 DEF LocalNode

(* VerdictInv is inductive, given LaneInv.                                  *)
THEOREM VerdictInvariant == GraphSpec => []VerdictInv
<1>0. Runs \cap Resumes = {} /\ Runs \subseteq Invocations /\ Resumes \subseteq Invocations
  BY GraphAssumption DEF Invocations
<1>1. GraphInit => VerdictInv
  <2> SUFFICES ASSUME GraphInit PROVE VerdictInv
    OBVIOUS
  <2>1. NoChannels.artifacts = <<>>
    BY DEF NoChannels
  <2>2. /\ \A i \in Invocations : pc[i] = "idle" /\ answer[i] = None
        /\ checkpoint = NoChannels
    BY DEF GraphInit
  <2> QED BY <1>0, <2>1, <2>2 DEF VerdictInv, RunRecord, ResumeRecord, WitnessRecord,
       BeforeVerdict, BeforeLane, Nodes
<1>2. GraphTypeOK /\ LaneInv /\ VerdictInv /\ [GraphNext]_graphVars => VerdictInv'
  <2> SUFFICES ASSUME GraphTypeOK, LaneInv, VerdictInv, [GraphNext]_graphVars
               PROVE  VerdictInv'
    OBVIOUS
  <2>0. /\ \A r \in Runs : RunRecord(r)
        /\ \A q \in Resumes : ResumeRecord(q)
        /\ \A i \in Invocations : WitnessRecord(i)
        /\ Len(checkpoint.artifacts) <= 1
        /\ \A q \in Resumes :
             pc[q] \in {"idle", "resume_with_approval", "finalize", "end", "aborted"}
    BY DEF VerdictInv, LaneInv, StaleApprovalIgnored
  \* It is enough to look at the invocation that moves.
  <2>1. ASSUME NEW i \in Invocations,
               \A j \in Invocations \ {i} :
                 pc'[j] = pc[j] /\ ch'[j] = ch[j] /\ answer'[j] = answer[j],
               i \in Runs => RunRecord(i)', i \in Resumes => ResumeRecord(i)',
               WitnessRecord(i)', Len(checkpoint'.artifacts) <= 1
        PROVE  VerdictInv'
    BY <1>0, <2>0, <2>1, RecordFrame DEF VerdictInv
  <2>2. ASSUME NEW r \in Runs, LocalNode(r)
        PROVE  VerdictInv'
    BY <1>0, <2>0, <2>1, <2>2, LocalNodeRecord, LocalNodeWitness, LocalNodeFrame
  <2>3. ASSUME NEW q \in Resumes, LocalNode(q)
        PROVE  VerdictInv'
    <3>1. Finalize(q) \/ ResumeWithApproval(q)
      BY <2>0, <2>3 DEF LocalNode, InitEnvironment, RetrieveContext, DraftCandidate,
         InteractiveCheck, BatchVerify, AuditTrust, EvaluateProtocol, PolicyReview,
         InterruptForApproval, Repair
    <3>2. ch'[q].approval_decision = ch[q].approval_decision
      BY <1>0, <3>1, LastNodeEffect DEF Inputs
    <3>3. ResumeRecord(q)'
      BY <1>0, <2>0, <3>1, <3>2, LastNodeEffect DEF ResumeRecord
    <3> QED BY <1>0, <2>0, <2>1, <2>3, <3>3, LocalNodeWitness, LocalNodeFrame
  <2>4. ASSUME NEW i \in Invocations, PostReview(i) \/ Abort(i)
        PROVE  VerdictInv'
    <3>1. /\ \A j \in Invocations \ {i} : pc'[j] = pc[j]
          /\ ch' = ch /\ answer' = answer /\ checkpoint' = checkpoint
          /\ \/ pc[i] = "interrupt_for_approval" /\ pc'[i] = "review_posted"
             \/ pc[i] \in Nodes /\ pc'[i] = "aborted"
      BY <2>4 DEF GraphTypeOK, PostReview, Abort, InFlight
    <3>2. i \in Runs => RunRecord(i)'
      BY <2>0, <3>1 DEF RunRecord, BeforeVerdict, BeforeLane, Judged, InteractiveClear, Nodes
    <3>3. i \in Resumes => ResumeRecord(i)'
      BY <2>0, <3>1 DEF ResumeRecord
    <3>4. WitnessRecord(i)'
      BY <2>0, <3>1 DEF WitnessRecord, Delivered, Nodes
    <3> QED BY <2>0, <2>1, <3>1, <3>2, <3>3, <3>4
  <2>5. ASSUME NEW r \in Runs, RunObligation(r)
        PROVE  VerdictInv'
    <3>1. PICK job \in Jobs : LET s == make_initial_state(r, job, checkpoint)
                              IN Goto(r, route_start(s), s)
      BY <2>5 DEF RunObligation
    <3> DEFINE s == make_initial_state(r, job, checkpoint)
    <3>2. /\ s.policy_decision = None /\ s.obligation_id = r /\ s.artifacts = <<>>
          /\ s.interactive_result = None
      BY DEF make_initial_state
    <3>3. Goto(r, "init_environment", s)
      <4>1. route_start(s) = "init_environment"
        BY RouteStartSeparates
      <4>2. Goto(r, route_start(s), s)
        BY <3>1
      <4> HIDE DEF s
      <4> QED BY <4>1, <4>2
    <3> HIDE DEF s
    <3>4. /\ pc'[r] = "init_environment" /\ ch'[r] = s /\ checkpoint' = s
          /\ answer' = answer /\ pc[r] = "idle"
          /\ \A j \in Invocations \ {r} : pc'[j] = pc[j] /\ ch'[j] = ch[j]
      BY <1>0, <2>5, <3>3, GotoEffect DEF RunObligation, Goto
    <3>5. RunRecord(r)'
      BY <2>0, <3>2, <3>4 DEF RunRecord, BeforeVerdict, BeforeLane
    <3>6. WitnessRecord(r)' /\ Len(checkpoint'.artifacts) <= 1
      BY <3>2, <3>4 DEF WitnessRecord, Delivered
    <3> QED BY <1>0, <2>1, <3>4, <3>5, <3>6
  <2>6. ASSUME NEW q \in Resumes, NEW d \in {"approved", "rejected"}, ResumeThread(q, d)
        PROVE  VerdictInv'
    <3> DEFINE s == make_resume_state(d, checkpoint)
    <3>1. s.artifacts = <<>>
      BY DEF make_resume_state
    <3>2. /\ pc'[q] = "resume_with_approval" /\ ch'[q] = s /\ checkpoint' = s
          /\ answer' = answer
          /\ \A j \in Invocations \ {q} : pc'[j] = pc[j] /\ ch'[j] = ch[j]
      BY <1>0, <2>6, RouteStartSeparates, GotoEffect DEF ResumeThread, Goto
    <3> HIDE DEF s
    <3>3. ResumeRecord(q)' /\ WitnessRecord(q)' /\ Len(checkpoint'.artifacts) <= 1
      BY <3>1, <3>2 DEF ResumeRecord, WitnessRecord, Delivered
    <3> QED BY <1>0, <2>1, <3>2, <3>3
  <2>7. CASE UNCHANGED graphVars
    BY <1>0, <2>0, <2>7, RecordFrame DEF graphVars, VerdictInv
  <2> QED BY <2>2, <2>3, <2>4, <2>5, <2>6, <2>7 DEF GraphNext, Invocations
<1> QED BY <1>1, <1>2, GraphTypeCorrect, LaneInvariant, PTL DEF GraphSpec

(* A review verdict other than a missing token is evaluate's.               *)
LEMMA ReviewVerdictIsEvaluated ==
  ASSUME NEW s, ReviewVerdict(s).reason # "missing_approval_token"
                \/ ReviewVerdict(s).decision # "blocked"
  PROVE  ReviewVerdict(s) = evaluate(s.interactive_result, s.batch_result,
                                     summarize_patch(s.patch, s.protected_paths),
                                     load_pack_for_review(s))
BY DEF ReviewVerdict

(* For every pack, job and answer of the gateway, and however invocations   *)
(* interleave: a run never accepts a candidate that touches its obligation's*)
(* protected paths.                                                         *)
THEOREM ProtectedPathsNeedHuman == GraphSpec => []ProtectedNeedsHuman
<1>1. VerdictInv => ProtectedNeedsHuman
  <2> SUFFICES ASSUME VerdictInv, NEW r \in Runs, Ended(r, "accepted")
               PROVE  ch[r].patch.files \cap ch[r].protected_paths = {}
    BY DEF ProtectedNeedsHuman
  <2> DEFINE s == ch[r]
             meta == summarize_patch(s.patch, s.protected_paths)
  <2>1. s.policy_decision = JointVerdict(s) /\ s.policy_decision.decision = "accepted"
    BY DEF VerdictInv, RunRecord, Judged, Ended
  <2>2. ReviewVerdict(s).decision = "accepted"
    BY <2>1, JointVerdictType
  <2>3. evaluate(s.interactive_result, s.batch_result, meta,
                 load_pack_for_review(s)).decision = "accepted"
    BY <2>2, ReviewVerdictIsEvaluated
  <2>4. ~meta.protected_paths_touched
    BY <2>3, AcceptancePassesEveryGate
  <2> QED BY <2>4 DEF summarize_patch
<1> QED BY <1>1, VerdictInvariant, PTL

(* Whatever policy_review would say of the patch, a judged run whose event  *)
(* log an enabled class refuses ends refused, without witness or review.    *)
THEOREM ProtocolRefusalSurvives == GraphSpec => []ProtocolRefusalIsFinal
<1>1. GraphTypeOK /\ VerdictInv => ProtocolRefusalIsFinal
  <2> SUFFICES ASSUME GraphTypeOK, VerdictInv, NEW r \in Runs,
                      pc[r] = "end", answer[r] # None, ProtocolVerdict(ch[r]) # None
               PROVE  ch[r].status = "auditing" /\ ch[r].artifacts = <<>>
    BY DEF ProtocolRefusalIsFinal
  <2>1. r \in Invocations /\ ch[r].artifacts \in Seq(WitnessBundle)
    BY DEF Invocations, GraphTypeOK, Channels
  <2>2. \A decisions : Judged(r, decisions)
                         => {"rejected", "blocked"} \cap decisions # {}
    BY JointVerdictType DEF Judged
  <2>3. ~Judged(r, {"accepted"}) /\ ~Judged(r, {"needs_review"})
    BY <2>2
  <2>4. ch[r].status = "auditing"
    BY <2>3 DEF VerdictInv, RunRecord
  <2>5. Len(ch[r].artifacts) = 0
    BY <2>1, <2>4 DEF VerdictInv, WitnessRecord, Delivered
  <2> QED BY <2>1, <2>4, <2>5
<1> QED BY <1>1, GraphTypeCorrect, VerdictInvariant, PTL

(* A refused run was refused by the event log or the pack it judged with    *)
(* (its caller's, or inherited where the caller named none), by the lanes'  *)
(* answer to it, or for its missing token; an inherited verdict refuses     *)
(* nothing.                                                                 *)
THEOREM RefusalsAreFounded == GraphSpec => []RefusalHasCause
<1>1. GraphTypeOK /\ VerdictInv => RefusalHasCause
  <2> SUFFICES ASSUME GraphTypeOK, VerdictInv, NEW r \in Runs, Ended(r, "auditing"),
                      ProtocolVerdict(ch[r]) = None,
                      answer[r].ok, answer[r].axiom_audit.blocked_reasons = {}
               PROVE  /\ load_pack_for_review(ch[r]).reviewer_gated_execution
                      /\ ch[r].approval_decision = None
    BY DEF RefusalHasCause
  <2> DEFINE s == ch[r]
  <2>1. /\ ReviewVerdict(s).decision \in {"rejected", "blocked"}
        /\ s.batch_result = answer[r] /\ InteractiveClear(r)
    BY JointVerdictType DEF VerdictInv, RunRecord, Judged, Ended
  <2>2. s \in Channels
    BY DEF GraphTypeOK, Invocations
  <2>3. ~HasErrorDiagnostic(s.interactive_result)
    <3>1. s.interactive_result \in InteractiveAnswers
      BY <2>1 DEF VerdictInv, RunRecord, Ended, InteractiveClear
    <3> QED BY <2>1, <3>1, InteractiveAssumption DEF InteractiveClear, HasErrorDiagnostic
  <2>4. ~(evaluate(s.interactive_result, s.batch_result,
                   summarize_patch(s.patch, s.protected_paths),
                   load_pack_for_review(s)).decision \in {"rejected", "blocked"})
    BY <2>1, <2>3, RefusalComesFromLanes
  <2>5. /\ load_pack_for_review(s).reviewer_gated_execution
        /\ s.approval_decision \notin {"approved", "rejected"}
    BY <2>1, <2>4 DEF ReviewVerdict
  <2> QED BY <2>2, <2>5 DEF Channels
<1> QED BY <1>1, GraphTypeCorrect, VerdictInvariant, PTL

(* However often a thread is re-run or resumed, it shows at most one witness*)
(* and an invocation that ended has delivered one exactly when it accepted. *)
THEOREM WitnessesAreCounted == GraphSpec => []OneWitnessPerAcceptance
<1>1. VerdictInv => OneWitnessPerAcceptance
  <2> SUFFICES ASSUME VerdictInv
               PROVE  OneWitnessPerAcceptance
    OBVIOUS
  <2>1. ASSUME NEW i \in Invocations, pc[i] = "end"
        PROVE  ch[i].status = "accepted" <=> Len(ch[i].artifacts) = 1
    <3>1. Len(ch[i].artifacts) = Delivered(i)
      BY <2>1 DEF VerdictInv, WitnessRecord
    <3>2. ch[i].status = "accepted" => Delivered(i) = 1
      BY <2>1 DEF Delivered
    <3>3. ch[i].status # "accepted" => Delivered(i) = 0
      BY DEF Delivered
    <3> QED BY <3>1, <3>2, <3>3
  <2> QED BY <2>1 DEF VerdictInv, OneWitnessPerAcceptance
<1> QED BY <1>1, VerdictInvariant, PTL
============================================================================
