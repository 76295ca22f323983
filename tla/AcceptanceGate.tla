--------------------------- MODULE AcceptanceGate ---------------------------
(***************************************************************************)
(* What the obligation runtime promises of one thread, without graph,      *)
(* checkpoint or HTTP: an obligation is cleared, or flagged for a human,   *)
(* only after it passed the acceptance lane; a flagged obligation may be   *)
(* put on the thread's docket, where a human rules on it; an invocation    *)
(* accepts only a cleared obligation, or on an approval that was the       *)
(* docket's ruling when the invocation was granted.                        *)
(*                                                                         *)
(* ReviewFlow implements this specification for the runs and the resumes   *)
(* that go through the gateway's review endpoint; a resume from the CLI is *)
(* outside it, and does not disturb it.                                    *)
(***************************************************************************)
CONSTANTS Obligations,   \* the runs of the thread
          Grants,        \* the resumes sent through the gateway
          None

VARIABLES passed,    \* obligations that passed the acceptance lane
          cleared,   \* ... and that policy accepts
          flagged,   \* ... and that policy hands to a human
          docket,    \* None, or the obligation under review and its ruling
          granted,   \* resumes that hold an approval
          accepted   \* invocations that ended in acceptance

gateVars == <<passed, cleared, flagged, docket, granted, accepted>>

Init ==
  /\ passed = {} /\ cleared = {} /\ flagged = {}
  /\ docket = None /\ granted = {} /\ accepted = {}

Pass(o) ==
  /\ passed' = passed \cup {o}
  /\ UNCHANGED <<cleared, flagged, docket, granted, accepted>>

Clear(o) ==
  /\ o \in passed \ flagged
  /\ cleared' = cleared \cup {o}
  /\ UNCHANGED <<passed, flagged, docket, granted, accepted>>

Flag(o) ==
  /\ o \in passed \ cleared
  /\ flagged' = flagged \cup {o}
  /\ UNCHANGED <<passed, cleared, docket, granted, accepted>>

\* A new entry replaces the old one and carries no ruling over.
File(o) ==
  /\ o \in flagged
  /\ docket' = [obligation |-> o, ruling |-> None]
  /\ UNCHANGED <<passed, cleared, flagged, granted, accepted>>

Rule(ruling) ==
  /\ docket # None
  /\ docket' = [docket EXCEPT !.ruling = ruling]
  /\ UNCHANGED <<passed, cleared, flagged, granted, accepted>>

Grant(q) ==
  /\ docket # None /\ docket.ruling = "approved"
  /\ granted' = granted \cup {q}
  /\ UNCHANGED <<passed, cleared, flagged, docket, accepted>>

Accept(i) ==
  /\ i \in cleared \cup granted
  /\ accepted' = accepted \cup {i}
  /\ UNCHANGED <<passed, cleared, flagged, docket, granted>>

Next ==
  \/ \E o \in Obligations : Pass(o) \/ Clear(o) \/ Flag(o) \/ File(o)
  \/ \E ruling \in {"approved", "rejected"} : Rule(ruling)
  \/ \E q \in Grants : Grant(q)
  \/ \E i \in Obligations \cup Grants : Accept(i)

Spec == Init /\ [][Next]_gateVars

(* Nothing is accepted on a thread none of whose obligations passed the     *)
(* lane, and no run accepts what policy flagged for a human.                *)
AcceptanceRestsOnLane ==
  /\ accepted # {} => passed # {}
  /\ accepted \cap Obligations \subseteq cleared
  /\ cleared \cap flagged = {}

(* The inductive strengthening of AcceptanceRestsOnLane: every acceptance   *)
(* goes back, through a grant or a clearance, to an obligation that passed. *)
GateInv ==
  /\ cleared \subseteq passed /\ flagged \subseteq passed /\ cleared \cap flagged = {}
  /\ docket # None => docket.obligation \in flagged
  /\ granted \subseteq Grants /\ (granted # {} => passed # {})
  /\ accepted \subseteq cleared \cup granted
=============================================================================
