----------------------------- MODULE Deployment -----------------------------
(***************************************************************************)
(* A deployment: one environment of OBR_* and store settings, any number   *)
(* of gateway processes that read it, a Postgres that comes and goes, and  *)
(* an orchestrator beside them.                                            *)
(*                                                                         *)
(* Several places read the same variables, each in its own way: startup    *)
(* (app.py) compares literally, what is built (deps.py) asks only whether  *)
(* a string is empty, what is reported (capabilities.py, routes_health.py) *)
(* parses it, batch-verify has a default of its own.  A variable that is   *)
(* not set is "", except where unset and empty differ.                     *)
(***************************************************************************)
EXTENDS AcceptanceLane

CONSTANTS
  Gateways,    \* gateway processes behind one load balancer
  Settings     \* environments

Flag == {"", "0", "1"}

SettingsAssumption ==
  Settings \subseteq
    [OBR_ENV : {"", "production", "Production"},
     OBR_USE_LEAN_LSP : Flag, OBR_USE_REAL_LEAN : Flag,
     OBR_USE_REAL_AXIOM_AUDIT : Flag, OBR_USE_REAL_FRESH_CHECKER : Flag,
     OBR_ACCEPTANCE_STRICT : Flag \cup {None},
     OBR_READY_FAIL_ON_DEGRADED : Flag,
     REVIEW_STORE : {"memory", "postgres", "pg"}, CHECKPOINTER : {"memory", "postgres"},
     REVIEW_STORE_POSTGRES_URI : {"", "db"}, DATABASE_URL : {"", "blank", "db"}]

ASSUME SettingsAssumption

VARIABLES
  env,       \* the environment, fixed once the deployment is made
  doubles,   \* test doubles injected with set_test_*
  up,        \* gateway processes that have started
  mem,       \* mem[g]: the record of the thread in g's memory
  db,        \* the record in Postgres
  dbUp,      \* Postgres can be reached
  waiting,   \* a run of the thread waits for its review
  saved,     \* its checkpoint is in Postgres
  latest     \* observation: what the thread's record may be by now

vars == <<env, doubles, up, mem, db, dbUp, waiting, saved, latest>>

NoReview == [payload |-> None, decision |-> None]
Posted   == [payload |-> "payload", decision |-> None]

env_truthy(value) == value = "1"      \* strip().lower() in ("1", "true", "yes")
literally_production == env.OBR_ENV = "production"
production == env.OBR_ENV \in {"production", "Production"}  \* strip().lower()

----------------------------------------------------------------------------
(* What is built: deps.py, _get_checkpointer                               *)

\* The injected double, the real thing, or nothing: then each use raises.
Mode(double, real) ==
  IF double \in doubles THEN "test_injected" ELSE IF real THEN "real" ELSE "unconfigured"

LeanMode(lsp, subprocess) ==
  IF "transport" \in doubles THEN "test_injected"
  ELSE IF lsp THEN "real_lsp" ELSE IF subprocess THEN "real_subprocess" ELSE "unconfigured"

lean_transport == LeanMode(env.OBR_USE_LEAN_LSP # "", env.OBR_USE_REAL_LEAN # "")
axiom_auditor  == Mode("auditor", env.OBR_USE_REAL_AXIOM_AUDIT # "")
fresh_checker  == Mode("checker", env.OBR_USE_REAL_FRESH_CHECKER # "")

\* The URI that `or` picks, DATABASE_URL as it is.
ReviewUri ==
  IF env.REVIEW_STORE_POSTGRES_URI # "" THEN env.REVIEW_STORE_POSTGRES_URI ELSE env.DATABASE_URL

\* A mistake: the review store looks at DATABASE_URL alone.
StoreOfDatabaseUrl ==
  IF env.REVIEW_STORE = "postgres" /\ env.DATABASE_URL # "" THEN "postgres" ELSE "memory"

\* Resolved once, when the module is imported.
review_store ==
  IF env.REVIEW_STORE = "postgres" /\ ReviewUri # "" THEN "postgres" ELSE "memory"

\* A mistake: the condition with both variables, and the wrong one of them.
CheckpointerByReviewStore ==
  IF env.CHECKPOINTER = "postgres" /\ env.REVIEW_STORE_POSTGRES_URI # "" THEN "postgres" ELSE "memory"

\* PostgresSaver, or a MemorySaver that the request which made it takes along.
get_checkpointer == IF env.DATABASE_URL # "" THEN "postgres" ELSE "memory"

----------------------------------------------------------------------------
(* What is reported: compute_capability_snapshot, /ready, _checkpointer_kind *)

capability_snapshot ==
  [lean_interactive |-> LeanMode(env_truthy(env.OBR_USE_LEAN_LSP), env_truthy(env.OBR_USE_REAL_LEAN)),
   axiom_audit      |-> Mode("auditor", env_truthy(env.OBR_USE_REAL_AXIOM_AUDIT)),
   fresh_checker    |-> Mode("checker", env_truthy(env.OBR_USE_REAL_FRESH_CHECKER)),
   review_store     |-> IF /\ env.REVIEW_STORE = "postgres"
                           /\ \/ env.REVIEW_STORE_POSTGRES_URI # ""
                              \/ env.DATABASE_URL \notin {"", "blank"}
                          THEN "postgres" ELSE "memory"]

degraded ==
  /\ ~production
  /\ \/ "unconfigured" \in {capability_snapshot.lean_interactive,
                            capability_snapshot.axiom_audit,
                            capability_snapshot.fresh_checker}
     \/ capability_snapshot.review_store = "memory"

\* _ready_check and the degraded rule; 503 otherwise.
ready ==
  /\ ~(env_truthy(env.OBR_READY_FAIL_ON_DEGRADED) /\ degraded)
  /\ capability_snapshot.review_store = "postgres" => dbUp

checkpointer_kind ==
  IF env.CHECKPOINTER = "postgres" /\ env.DATABASE_URL \notin {"", "blank"}
    THEN "postgres" ELSE "memory"

----------------------------------------------------------------------------
(* Starting and ending                                                     *)

\* A mistake: the tools are not asked about.
AssertStoresOnly ==
  literally_production =>
    /\ env.REVIEW_STORE # "memory" /\ env.CHECKPOINTER # "memory"
    /\ env.DATABASE_URL \notin {"", "blank"}

\* _assert_production_state, in the lifespan of the application.
assert_production_state ==
  literally_production =>
    /\ env.REVIEW_STORE # "memory" /\ env.CHECKPOINTER # "memory"
    /\ env.DATABASE_URL \notin {"", "blank"}
    /\ env.OBR_USE_REAL_AXIOM_AUDIT # ""
    /\ env.OBR_ACCEPTANCE_STRICT \in {None, "1"} => env.OBR_USE_REAL_FRESH_CHECKER # ""

\* Importing deps connects to the review store's database, if it has one.
Start(g) ==
  /\ g \notin up
  /\ assert_production_state
  /\ review_store = "postgres" => ReviewUri = "db" /\ dbUp
  /\ up' = up \cup {g}
  /\ UNCHANGED <<env, doubles, mem, db, dbUp, waiting, saved, latest>>

\* A process ends, and what it had in memory.
Stop(g) ==
  /\ g \in up
  /\ up' = up \ {g}
  /\ mem' = [mem EXCEPT ![g] = NoReview]
  /\ UNCHANGED <<env, doubles, db, dbUp, waiting, saved, latest>>

DatabaseGoes  == dbUp /\ dbUp' = FALSE /\ UNCHANGED <<env, doubles, up, mem, db, waiting, saved, latest>>
DatabaseComes == ~dbUp /\ dbUp' = TRUE /\ UNCHANGED <<env, doubles, up, mem, db, waiting, saved, latest>>

----------------------------------------------------------------------------
(* Requests, routed to any process                                         *)

\* What the store of g holds; PostgresReviewStore connects for each request.
Held(g) == IF review_store = "postgres" THEN db ELSE mem[g]

\* A write that is answered 200 ...
Write(g, rec) ==
  /\ IF review_store = "postgres"
       THEN dbUp /\ db' = rec /\ UNCHANGED mem
       ELSE mem' = [mem EXCEPT ![g] = rec] /\ UNCHANGED db
  /\ latest' = {rec}

\* ... and one that raises: Postgres was not reached, or went away before or
\* after its commit.
WriteRaises(rec) ==
  /\ review_store = "postgres"
  /\ \/ ~dbUp /\ UNCHANGED <<dbUp, db, latest>>
     \/ dbUp /\ dbUp' = FALSE /\ db' \in {db, rec} /\ latest' = latest \cup {rec}
  /\ UNCHANGED mem

\* interrupt_for_approval: the checkpoint, and the review at one gateway.
CheckpointAndPost(g) ==
  /\ g \in up
  /\ get_checkpointer = "postgres" => env.DATABASE_URL = "db" /\ dbUp
  /\ waiting' = TRUE
  /\ saved' = (get_checkpointer = "postgres")
  /\ \/ Write(g, Posted) /\ UNCHANGED dbUp
     \/ WriteRaises(Posted)
  /\ UNCHANGED <<env, doubles, up>>

decide_review(g, decision) ==
  /\ g \in up /\ Held(g) # NoReview
  /\ LET decided == [Held(g) EXCEPT !.decision = decision] IN
       \/ Write(g, decided) /\ UNCHANGED dbUp
       \/ WriteRaises(decided)
  /\ UNCHANGED <<env, doubles, up, waiting, saved>>

\* What a batch-verify can be answered at present: 500 for a missing auditor
\* or checker.
batch_verify ==
  IF "unconfigured" \in {axiom_auditor, fresh_checker} THEN {}
  ELSE batch_verify_answers(axiom_auditor = "real", fresh_checker = "real",
         env_truthy(env.OBR_ACCEPTANCE_STRICT) \/ literally_production)

----------------------------------------------------------------------------
Init ==
  /\ env \in Settings
  /\ doubles \in IF production THEN {{}} ELSE SUBSET {"transport", "auditor", "checker"}
  /\ up = {}
  /\ mem = [g \in Gateways |-> NoReview]
  /\ db = NoReview /\ dbUp = TRUE
  /\ waiting = FALSE /\ saved = FALSE
  /\ latest = {NoReview}

Next ==
  \/ \E g \in Gateways :
       \/ Start(g) \/ Stop(g)
       \/ CheckpointAndPost(g)
       \/ \E decision \in {"approved", "rejected"} : decide_review(g, decision)
  \/ DatabaseGoes \/ DatabaseComes

Spec == Init /\ [][Next]_vars

----------------------------------------------------------------------------
(* Properties                                                              *)

(* What readiness and capabilities promise is there: a gateway that is      *)
(* ready reaches its review store, a capability reported is built, and in   *)
(* production the auditor always is.                                        *)
ReadyMeansServing ==
  up # {} =>
    /\ ready /\ review_store = "postgres" => dbUp /\ ReviewUri = "db"
    /\ capability_snapshot.lean_interactive # "unconfigured" =>
         lean_transport # "unconfigured"
    /\ capability_snapshot.axiom_audit # "unconfigured" =>
         axiom_auditor = capability_snapshot.axiom_audit
    /\ capability_snapshot.fresh_checker # "unconfigured" =>
         fresh_checker = capability_snapshot.fresh_checker
    /\ literally_production => axiom_auditor = "real"

(* A batch-verify is ok on a test double's word only outside production and *)
(* without strict acceptance, and the auditor double's word never suffices: *)
(* policy refuses its blocking reason.                                      *)
StrictNeedsRealEvidence ==
  \A answer \in batch_verify : up # {} /\ answer.ok =>
    /\ answer.axiom_evidence_real \/ answer.axiom_audit.blocked_reasons # {}
    /\ (literally_production \/ env_truthy(env.OBR_ACCEPTANCE_STRICT)) =>
         answer.axiom_evidence_real /\ answer.fresh_evidence_real

(* Where the deployment says it keeps its state in Postgres, it does: what  *)
(* was acknowledged by one process is what every process has, whatever ends *)
(* or starts again, and the run that waits can be resumed.                  *)
StateSurvives ==
  /\ capability_snapshot.review_store = "postgres" =>
       \A g \in up : Held(g) \in latest
  /\ checkpointer_kind = "postgres" => (waiting => saved)

----------------------------------------------------------------------------
(* What makes them inductive: what the gateways that run were started with,  *)
(* whatever is in production or is read at import; the record in Postgres is *)
(* one of the latest; and each run that waits was saved where runs are.      *)
StartedSoundly ==
  up # {} =>
    /\ assert_production_state
    /\ review_store = "postgres" => ReviewUri = "db"

DeployInv ==
  /\ env \in Settings
  /\ production => doubles = {}
  /\ StartedSoundly
  /\ review_store = "postgres" => db \in latest
  /\ get_checkpointer = "postgres" => (waiting => saved)
=============================================================================
