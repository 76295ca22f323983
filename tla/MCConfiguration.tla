-------------------------- MODULE MCConfiguration --------------------------
(* What the program is configured with. Deployment: two gateways; every     *)
(* combination of the settings about tools, and every combination of those  *)
(* about stores. Packs: one with up to two imports and a base, on packs that *)
(* extend in turn (chains, circles, a pack reached twice, one too deep,      *)
(* conflicts, packs that are no PolicyPack), and one edit or removal after   *)
(* some were merged. Neither knows of the other, so packs are only written   *)
(* beside one environment in which nothing was started.                      *)
EXTENDS Deployment, PackLoader

ToolSettings ==
  [OBR_ENV : {"", "production", "Production"},
   OBR_USE_LEAN_LSP : Flag, OBR_USE_REAL_LEAN : {"", "1"},
   OBR_USE_REAL_AXIOM_AUDIT : Flag, OBR_USE_REAL_FRESH_CHECKER : Flag,
   OBR_ACCEPTANCE_STRICT : Flag \cup {None},
   OBR_READY_FAIL_ON_DEGRADED : {""},
   REVIEW_STORE : {"postgres"}, CHECKPOINTER : {"postgres"},
   REVIEW_STORE_POSTGRES_URI : {""}, DATABASE_URL : {"db"}]

StoreSettings ==
  [OBR_ENV : {"", "production", "Production"},
   OBR_USE_LEAN_LSP : {"1"}, OBR_USE_REAL_LEAN : {""},
   OBR_USE_REAL_AXIOM_AUDIT : {"1"}, OBR_USE_REAL_FRESH_CHECKER : {"1"},
   OBR_ACCEPTANCE_STRICT : {None},
   OBR_READY_FAIL_ON_DEGRADED : {"", "1"},
   REVIEW_STORE : {"memory", "postgres", "pg"}, CHECKPOINTER : {"memory", "postgres"},
   REVIEW_STORE_POSTGRES_URI : {"", "db"}, DATABASE_URL : {"", "blank", "db"}]

MCSettings == ToolSettings \cup StoreSettings

Body(flag, name, leftover) ==
  [reviewer_gated_execution |-> flag, name |-> name, import |-> leftover]
Written(bases, imports, policies, bodies) ==
  [extends : bases, import : imports, strict : policies, body : bodies]

MCPackFiles ==
  [n \in Names |->
     CASE n = "a" -> Written({Absent, "b"}, {<<>>, <<"b", "c">>, <<"c", "b">>, <<"c">>},
                             BOOLEAN,
                             {Body(Absent, Absent, Absent), Body("true", "refused", "none")})
       [] n = "b" -> Written({Absent, "d", "a"}, {<<>>}, {FALSE},
                             {Body("true", Absent, Absent), Body("false", "mine", "none")})
       [] n = "c" -> Written({Absent, "b"}, {<<>>}, {FALSE},
                             {Body("true", "refused", Absent)})
       [] n = "d" -> Written({Absent}, {<<>>}, {FALSE},
                             {Body("true", "ours", "none"), Body("false", Absent, Absent)})]

EnvBesidePacks ==
  CHOOSE e \in StoreSettings : e.OBR_ENV = "production" /\ e.DATABASE_URL = "db"

MCNext ==
  \/ files = [n \in Names |-> Absent] /\ Next /\ UNCHANGED packVars
  \/ /\ env = EnvBesidePacks /\ doubles = {} /\ up = {}
     /\ dbUp /\ ~waiting /\ latest = {NoReview}
     /\ PackNext /\ UNCHANGED vars

MCInit == Init /\ PackInit

MCSpec == MCInit /\ [][MCNext]_<<vars, packVars>>
============================================================================
