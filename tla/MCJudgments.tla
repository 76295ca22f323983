---------------------------- MODULE MCJudgments ----------------------------
(* What policy judges by itself, in one run: the cases of PolicyEngine with *)
(* two files, and the logs of the protocol evaluators. Neither knows of the *)
(* other, so logs are only read beside one of the cases.                    *)
EXTENDS PolicyCases, ProtocolEvaluator, TLC

Ev(kind, agent, task, artifacts, evidence) ==
  [kind |-> kind, agent |-> agent, task |-> task,
   artifacts |-> artifacts, evidence_complete |-> evidence]

(* Two named agents and a nameless one, every kind of event, claims and     *)
(* delegates and locks and releases about two tasks; at most one event kind *)
(* carries each payload flag where it makes a difference.                   *)
MCEvents ==
  {Ev(kind, agent, "t1", FALSE, FALSE) :
     kind \in {"claim", "delegate", "lock", "release"}, agent \in Agents \cup {None}}
  \cup {Ev(kind, agent, "t2", FALSE, FALSE) :
          kind \in {"delegate", "lock", "release"}, agent \in Agents}
  \cup {Ev(kind, None, None, FALSE, FALSE) : kind \in {"approve", "reject", "recover"}}
  \cup {Ev("claim", "a", None, TRUE, FALSE), Ev("execute", "b", "t1", TRUE, TRUE)}

CaseBesideLogs ==
  [interactive |-> Check({}), batch |-> CHOOSE b \in LaneResults : b.ok, pack |-> LaxPack,
   patch |-> [files |-> {}, importing |-> {}], protected_paths |-> {}]

MCNext ==
  \/ log = <<>> /\ CaseNext /\ UNCHANGED protocolVars
  \/ asked = CaseBesideLogs /\ Next /\ UNCHANGED asked

MCInit == CaseInit /\ Init

MCSpec == MCInit /\ [][MCNext]_<<asked, protocolVars>>
============================================================================
