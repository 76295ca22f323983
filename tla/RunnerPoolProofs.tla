--------------------------- MODULE RunnerPoolProofs ---------------------------
(* The two pools the gateway keeps, for any settings and any number of        *)
(* requests: first the permits and commands of the runners, then the cache of *)
(* language servers.                                                          *)
EXTENDS RunnerPool, LspCache, FiniteSetTheorems, TLAPS

Busy == {"waiting", "starting", "running"}

(* What the pool relies on: a request between two phases has a run left, only *)
(* a running request has a running command, only one that has returned is     *)
(* answered, and of the requests that run in containers only those of whose   *)
(* runs one failed have left anything behind.                                 *)
CallsInOrder ==
  \A c \in Calls :
    /\ pc(c) \in Busy => call[c].runs >= 1
    /\ command[c] = "running" => pc(c) = "running"
    /\ call[c].answer # Unset => pc(c) = "returned"
    /\ Contained(c) /\ call[c].ok /\ ~call[c].failed => c \notin left

PoolInv == RunnerTypeOK /\ CallsInOrder /\ PermitsAddUp

LEMMA SettingIsNumber ==
  ASSUME RunnerTypeOK, NEW k \in Kinds, Limited(k)
  PROVE  setting(k) \in Int /\ setting(k) >= 1
BY RunnerAssumption DEF RunnerTypeOK, Limited, setting, Environment, Kinds

LEMMA UsersAreFinite ==
  ASSUME NEW k \in Kinds
  PROVE  IsFiniteSet(UsingRunner(k)) /\ Cardinality(UsingRunner(k)) \in Nat
<1>1. UsingRunner(k) \subseteq Calls /\ IsFiniteSet(Calls)
  BY RunnerAssumption DEF UsingRunner
<1>. QED  BY <1>1, FS_Subset, FS_CardinalityType

(* A request that goes from one phase to another, and is of the same kind,   *)
(* moves at most itself in or out of the users of its kind's runner.         *)
LEMMA UsersAfterMove ==
  ASSUME NEW c \in Calls, NEW k \in Kinds,
         call \in [Calls -> Call], call' \in [Calls -> Call],
         \A d \in Calls \ {c} : call'[d] = call[d],
         call'[c].kind = call[c].kind
  PROVE  /\ k # kind(c) => UsingRunner(k)' = UsingRunner(k)
         /\ pc(c)' \in {"starting", "running"} /\ kind(c) = k
              => UsingRunner(k)' = UsingRunner(k) \cup {c}
         /\ pc(c)' \notin {"starting", "running"} /\ kind(c) = k
              => UsingRunner(k)' = UsingRunner(k) \ {c}
BY DEF UsingRunner, pc, kind

(* Requests stay requests when one of them is updated by one.                *)
LEMMA CallUpdated ==
  ASSUME NEW c \in Calls, NEW e \in Call, call \in [Calls -> Call],
         call' = [call EXCEPT ![c] = e]
  PROVE  call' \in [Calls -> Call]
OBVIOUS

(* The permits are numbers, whatever is taken or given back.                 *)
LEMMA PermitsAreNumbers ==
  ASSUME NEW c \in Calls, RunnerTypeOK
  PROVE  /\ kind(c) \in Kinds /\ permits \in [Kinds -> Int]
         /\ [permits EXCEPT ![kind(c)] = @ + 1] \in [Kinds -> Int]
         /\ [permits EXCEPT ![kind(c)] = @ - 1] \in [Kinds -> Int]
<1>1. kind(c) \in Kinds /\ permits \in [Kinds -> Int]
  BY DEF RunnerTypeOK, kind, Call
<1>2. permits[kind(c)] + 1 \in Int /\ permits[kind(c)] - 1 \in Int
  BY <1>1
<1>. QED  BY <1>1, <1>2

LEMMA ReleaseType ==
  ASSUME NEW c \in Calls, RunnerTypeOK
  PROVE  release(c) \in [Kinds -> Int]
BY PermitsAreNumbers DEF release

LEMMA InitPool == RunnerInit => PoolInv
<1>. SUFFICES ASSUME RunnerInit PROVE PoolInv
  OBVIOUS
<1>1. RunnerTypeOK
  <2>1. \A k \in Kinds : Limited(k) => setting(k) \in Int
    BY RunnerAssumption DEF RunnerInit, Limited, setting, Environment, Kinds
  <2>2. permits \in [Kinds -> Int]
    BY <2>1 DEF RunnerInit
  <2>3. call \in [Calls -> Call]
    <3>1. ASSUME NEW k \in Kinds
          PROVE  [kind |-> k, pc |-> "idle", runs |-> 0, ok |-> TRUE, failed |-> FALSE,
                  expired |-> FALSE, answer |-> Unset] \in Call
      BY DEF Call, Phases, Answers
    <3>. QED  BY <3>1 DEF RunnerInit
  <2>. QED  BY <2>2, <2>3 DEF RunnerInit, RunnerTypeOK
<1>2. CallsInOrder
  BY DEF RunnerInit, CallsInOrder, Busy, pc
<1>3. PermitsAddUp
  <2>. SUFFICES ASSUME NEW k \in Kinds, Limited(k)
                PROVE  permits[k] >= 0
                       /\ permits[k] + Cardinality(UsingRunner(k)) = setting(k)
    BY DEF PermitsAddUp
  <2>1. UsingRunner(k) = {}
    BY DEF RunnerInit, UsingRunner, pc
  <2>2. Cardinality({}) = 0
    BY FS_EmptySet
  <2>3. permits[k] = setting(k)
    BY DEF RunnerInit
  <2>. QED  BY <1>1, <2>1, <2>2, <2>3, SettingIsNumber
<1>. QED  BY <1>1, <1>2, <1>3 DEF PoolInv

(* Steps that leave the users of every runner as they are keep the permits.  *)
LEMMA PermitsKept ==
  ASSUME PermitsAddUp, UNCHANGED <<env, permits>>,
         \A k \in Kinds : UsingRunner(k)' = UsingRunner(k)
  PROVE  PermitsAddUp'
<1>. SUFFICES ASSUME NEW k \in Kinds, Limited(k)'
              PROVE  (permits[k] >= 0)'
                     /\ (permits[k] + Cardinality(UsingRunner(k)) = setting(k))'
  BY DEF PermitsAddUp
<1>1. Limited(k) /\ setting(k)' = setting(k)
  BY DEF Limited, setting
<1>2. UsingRunner(k)' = UsingRunner(k)
  OBVIOUS
<1>. QED  BY <1>1, <1>2 DEF PermitsAddUp

(* A way out of a run: the request gives its permit back and leaves.         *)
LEMMA PermitGivenBack ==
  ASSUME NEW c \in Calls, PoolInv, RunnerTypeOK',
         pc(c) \in {"starting", "running"},
         pc(c)' \notin {"starting", "running"},
         \A d \in Calls \ {c} : call'[d] = call[d],
         call'[c].kind = call[c].kind,
         permits' = release(c), env' = env
  PROVE  PermitsAddUp'
<1>. SUFFICES ASSUME NEW k \in Kinds, Limited(k)'
              PROVE  (permits[k] >= 0)'
                     /\ (permits[k] + Cardinality(UsingRunner(k)) = setting(k))'
  BY DEF PermitsAddUp
<1>. USE DEF PoolInv
<1>1. Limited(k) /\ setting(k)' = setting(k)
  BY DEF Limited, setting
<1>2. permits[k] >= 0 /\ permits[k] + Cardinality(UsingRunner(k)) = setting(k)
  BY <1>1 DEF PermitsAddUp
<1>3. permits[k] \in Int /\ setting(k) \in Int /\ kind(c) \in Kinds
  BY <1>1, SettingIsNumber DEF RunnerTypeOK, kind, Call
<1>4. IsFiniteSet(UsingRunner(k)) /\ Cardinality(UsingRunner(k)) \in Nat
  BY UsersAreFinite
<1>5. CASE k # kind(c)
  <2>1. UsingRunner(k)' = UsingRunner(k)
    BY <1>5, UsersAfterMove DEF RunnerTypeOK
  <2>2. permits'[k] = permits[k]
    BY <1>5, <1>3 DEF release, RunnerTypeOK
  <2>. QED  BY <2>1, <2>2, <1>1, <1>2
<1>6. CASE k = kind(c)
  <2>1. UsingRunner(k)' = UsingRunner(k) \ {c}
    BY <1>6, UsersAfterMove DEF RunnerTypeOK
  <2>2. c \in UsingRunner(k)
    BY <1>6 DEF UsingRunner
  <2>3. Cardinality(UsingRunner(k)') = Cardinality(UsingRunner(k)) - 1
    BY <2>1, <2>2, <1>4, FS_RemoveElement
  <2>4. permits'[k] = permits[k] + 1
    BY <1>1, <1>3, <1>6 DEF release, RunnerTypeOK
  <2>. QED  BY <2>3, <2>4, <1>1, <1>2, <1>3, <1>4
<1>. QED  BY <1>5, <1>6

(* The kind of runner a request uses never changes.                          *)
LEMMA RunnerIsSettled ==
  ASSUME NEW c \in Calls, env' = env, call'[c].kind = call[c].kind
  PROVE  Contained(c)' = Contained(c)
BY DEF Contained, get_runner, runner_env, kind

LEMMA NextPool == PoolInv /\ [RunnerNext]_vars => PoolInv'
<1>. SUFFICES ASSUME PoolInv, [RunnerNext]_vars PROVE PoolInv'
  OBVIOUS
<1>. USE DEF PoolInv
<1>1. ASSUME NEW c \in Calls, Submit(c) PROVE PoolInv'
  <2>1. RunnerTypeOK'
    <3>. DEFINE n == IF kind(c) = "batch" THEN 3 ELSE 1
                e == [call[c] EXCEPT !.pc = "waiting", !.runs = n]
    <3>1. n \in 0..3
      OBVIOUS
    <3>2. call' = [call EXCEPT ![c] = e]
      BY <1>1 DEF Submit, RunnerTypeOK
    <3>3. e \in Call
      <4>. HIDE DEF n
      <4>. QED  BY <3>1 DEF RunnerTypeOK, Call, Phases
    <3>. QED  BY <1>1, <3>2, <3>3, CallUpdated DEF Submit, RunnerTypeOK
  <2>2. CallsInOrder'
    <3>1. \A d \in Calls : Contained(d)' = Contained(d)
      BY <1>1, RunnerIsSettled DEF Submit, RunnerTypeOK, Call
    <3>. QED  BY <3>1, <1>1 DEF Submit, RunnerTypeOK, CallsInOrder, Busy, Call, pc
  <2>3. \A k \in Kinds : UsingRunner(k)' = UsingRunner(k)
    BY <1>1 DEF Submit, RunnerTypeOK, UsingRunner, Call, pc, kind
  <2>. QED  BY <1>1, <2>1, <2>2, <2>3, PermitsKept DEF Submit
<1>2. ASSUME NEW c \in Calls, Acquire(c) PROVE PoolInv'
  <2>1. RunnerTypeOK'
    <3>1. permits' \in [Kinds -> Int]
      BY <1>2, PermitsAreNumbers DEF Acquire
    <3>. QED  BY <3>1, <1>2 DEF Acquire, RunnerTypeOK, Call, Phases
  <2>2. CallsInOrder'
    <3>1. \A d \in Calls : Contained(d)' = Contained(d)
      BY <1>2, RunnerIsSettled DEF Acquire, RunnerTypeOK, Call
    <3>. QED  BY <3>1, <1>2 DEF Acquire, RunnerTypeOK, CallsInOrder, Busy, Call, pc
  <2>3. ASSUME NEW k \in Kinds, Limited(k)'
        PROVE  (permits[k] >= 0)'
               /\ (permits[k] + Cardinality(UsingRunner(k)) = setting(k))'
    <3>1. Limited(k) /\ setting(k)' = setting(k)
      BY <1>2, <2>3 DEF Acquire, Limited, setting
    <3>2. permits[k] >= 0 /\ permits[k] + Cardinality(UsingRunner(k)) = setting(k)
      BY <3>1 DEF PermitsAddUp
    <3>3. permits[k] \in Int /\ setting(k) \in Int /\ kind(c) \in Kinds
      BY <3>1, SettingIsNumber DEF RunnerTypeOK, kind, Call
    <3>4. IsFiniteSet(UsingRunner(k)) /\ Cardinality(UsingRunner(k)) \in Nat
      BY UsersAreFinite
    <3>5. /\ \A d \in Calls \ {c} : call'[d] = call[d]
          /\ call'[c].kind = call[c].kind /\ pc(c)' = "starting"
      BY <1>2 DEF Acquire, RunnerTypeOK, Call, pc
    <3>6. CASE k # kind(c)
      <4>1. UsingRunner(k)' = UsingRunner(k)
        BY <2>1, <3>5, <3>6, UsersAfterMove DEF RunnerTypeOK
      <4>2. permits'[k] = permits[k]
        BY <1>2, <3>3, <3>6 DEF Acquire, RunnerTypeOK
      <4>. QED  BY <4>1, <4>2, <3>1, <3>2
    <3>7. CASE k = kind(c)
      <4>1. UsingRunner(k)' = UsingRunner(k) \cup {c}
        BY <2>1, <3>5, <3>7, UsersAfterMove DEF RunnerTypeOK
      <4>2. c \notin UsingRunner(k)
        BY <1>2 DEF Acquire, UsingRunner
      <4>3. Cardinality(UsingRunner(k)') = Cardinality(UsingRunner(k)) + 1
        BY <4>1, <4>2, <3>4, FS_AddElement
      <4>4. permits[k] > 0 /\ permits'[k] = permits[k] - 1
        BY <1>2, <3>1, <3>3, <3>7 DEF Acquire, RunnerTypeOK
      <4>. QED  BY <4>3, <4>4, <3>1, <3>2, <3>3, <3>4
    <3>. QED  BY <3>6, <3>7
  <2>4. PermitsAddUp'
    BY <2>3 DEF PermitsAddUp
  <2>. QED  BY <2>1, <2>2, <2>4
<1>3. ASSUME NEW c \in Calls, Start(c) PROVE PoolInv'
  <2>1. RunnerTypeOK'
    BY <1>3 DEF Start, RunnerTypeOK, Call, Phases
  <2>2. CallsInOrder'
    <3>1. \A d \in Calls : Contained(d)' = Contained(d)
      BY <1>3, RunnerIsSettled DEF Start, RunnerTypeOK, Call
    <3>. QED  BY <3>1, <1>3 DEF Start, RunnerTypeOK, CallsInOrder, Busy, Call, pc
  <2>3. \A k \in Kinds : UsingRunner(k)' = UsingRunner(k)
    BY <1>3 DEF Start, RunnerTypeOK, UsingRunner, Call, pc, kind
  <2>. QED  BY <1>3, <2>1, <2>2, <2>3, PermitsKept DEF Start
<1>4. ASSUME NEW c \in Calls, NEW ok \in BOOLEAN, Return(c, ok),
             pc(c) \in {"starting", "running"},
             ok => call[c].ok /\ (Contained(c) => left' = left),
             left' \in {left, left \cup {c}},
             command' \in [Calls -> {"none", "running", "ended"}],
             \A d \in Calls : command'[d] = "running" => command[d] = "running" /\ d # c
      PROVE  PoolInv'
  <2>1. call[c].runs \in 1..3
    BY <1>4 DEF RunnerTypeOK, CallsInOrder, Busy, Call, pc
  <2>2. RunnerTypeOK'
    <3>. DEFINE e == [call[c] EXCEPT !.runs = @ - 1, !.ok = ok,
                       !.pc = IF call[c].runs = 1 THEN "returned" ELSE "waiting"]
    <3>1. permits' \in [Kinds -> Int]
      BY <1>4, ReleaseType DEF Return
    <3>2. call[c].runs - 1 \in 0..3
      BY <2>1
    <3>3. e \in Call
      BY <1>4, <3>2 DEF RunnerTypeOK, Call, Phases
    <3>4. call' = [call EXCEPT ![c] = e]
      BY <1>4 DEF Return, RunnerTypeOK
    <3>5. left' \subseteq Calls
      BY <1>4 DEF RunnerTypeOK
    <3>. QED  BY <3>1, <3>3, <3>4, <3>5, <1>4, CallUpdated DEF Return, RunnerTypeOK
  <2>3. /\ \A d \in Calls \ {c} : call'[d] = call[d]
        /\ call'[c].kind = call[c].kind /\ call'[c].answer = call[c].answer
        /\ call'[c].runs = call[c].runs - 1 /\ call'[c].ok = ok
        /\ call'[c].failed = call[c].failed
        /\ call'[c].pc = IF call[c].runs = 1 THEN "returned" ELSE "waiting"
    BY <1>4 DEF Return, RunnerTypeOK, Call
  <2>4. CallsInOrder'
    <3>1. \A d \in Calls : Contained(d)' = Contained(d)
      BY <1>4, <2>3, RunnerIsSettled DEF Return
    <3>. QED  BY <3>1, <1>4, <2>1, <2>3 DEF CallsInOrder, Busy, pc
  <2>5. PermitsAddUp'
    <3>1. pc(c)' \notin {"starting", "running"}
      BY <2>3 DEF pc
    <3>2. permits' = release(c) /\ env' = env
      BY <1>4 DEF Return
    <3>. QED  BY <1>4, <2>2, <2>3, <3>1, <3>2, PermitGivenBack
  <2>. QED  BY <2>2, <2>4, <2>5
<1>5. ASSUME NEW c \in Calls, CommandNotFound(c) PROVE PoolInv'
  <2>1. \A d \in Calls : command'[d] = "running" => command[d] = "running" /\ d # c
    BY <1>5 DEF CommandNotFound, CallsInOrder, pc
  <2>. QED  BY <1>4, <1>5, <2>1 DEF CommandNotFound, RunnerTypeOK
<1>6. ASSUME NEW c \in Calls, Finish(c) \/ TimeLimit(c) PROVE PoolInv'
  <2>1. /\ command' \in [Calls -> {"none", "running", "ended"}]
        /\ \A d \in Calls : command'[d] = "running" => command[d] = "running" /\ d # c
    BY <1>6 DEF Finish, TimeLimit, RunnerTypeOK
  <2>2. CASE Finish(c)
    <3>1. PICK ok \in {call[c].ok, FALSE} :
            Return(c, ok) /\ (ok /\ Contained(c) => left' = left)
      BY <2>2 DEF Finish
    <3>2. ok \in BOOLEAN /\ (ok => call[c].ok) /\ left' \in {left, left \cup {c}}
      BY <2>2 DEF RunnerTypeOK, Call, Finish, MayLeave
    <3>. QED  BY <1>4, <2>1, <2>2, <3>1, <3>2 DEF Finish
  <2>3. CASE TimeLimit(c)
    BY <1>4, <2>1, <2>3 DEF TimeLimit, MayLeave
  <2>. QED  BY <1>6, <2>2, <2>3
<1>7. ASSUME NEW c \in Calls, Undecodable(c) PROVE PoolInv'
  <2>1. RunnerTypeOK'
    <3>. DEFINE e == [call[c] EXCEPT !.pc = "returned", !.failed = TRUE]
    <3>1. permits' \in [Kinds -> Int]
      BY <1>7, ReleaseType DEF Undecodable
    <3>2. e \in Call
      BY DEF RunnerTypeOK, Call, Phases
    <3>3. call' = [call EXCEPT ![c] = e]
      BY <1>7 DEF Undecodable, RunnerTypeOK
    <3>. QED  BY <3>1, <3>2, <3>3, <1>7, CallUpdated DEF Undecodable, MayLeave, RunnerTypeOK
  <2>2. /\ \A d \in Calls \ {c} : call'[d] = call[d]
        /\ call'[c].kind = call[c].kind /\ call'[c].answer = call[c].answer
        /\ call'[c].pc = "returned" /\ call'[c].failed
    BY <1>7 DEF Undecodable, RunnerTypeOK, Call
  <2>3. CallsInOrder'
    <3>1. \A d \in Calls : Contained(d)' = Contained(d)
      BY <1>7, <2>2, RunnerIsSettled DEF Undecodable
    <3>. QED
      BY <3>1, <1>7, <2>2 DEF Undecodable, MayLeave, RunnerTypeOK, CallsInOrder, Busy, pc
  <2>4. PermitsAddUp'
    BY <1>7, <2>1, <2>2, PermitGivenBack DEF Undecodable, pc
  <2>. QED  BY <2>1, <2>3, <2>4
<1>8. ASSUME NEW c \in Calls, Expire(c) \/ Answer(c) \/ LeftoversEnd(c) PROVE PoolInv'
  <2>1. RunnerTypeOK'
    <3>1. CASE Expire(c)
      BY <3>1 DEF Expire, RunnerTypeOK, Call
    <3>2. CASE Answer(c)
      <4>. DEFINE a == CASE call[c].expired -> "TimeoutError"
                         [] call[c].failed -> "raised"
                         [] OTHER -> "result"
      <4>1. a \in Answers
        BY DEF Answers
      <4>2. [call[c] EXCEPT !.answer = a] \in Call
        BY <4>1 DEF RunnerTypeOK, Call
      <4>3. call' = [call EXCEPT ![c] = [call[c] EXCEPT !.answer = a]]
        BY <3>2 DEF Answer, RunnerTypeOK
      <4>. QED  BY <3>2, <4>2, <4>3, CallUpdated DEF Answer, RunnerTypeOK
    <3>3. CASE LeftoversEnd(c)
      BY <3>3 DEF LeftoversEnd, RunnerTypeOK
    <3>. QED  BY <1>8, <3>1, <3>2, <3>3
  <2>2. CallsInOrder'
    <3>1. \A d \in Calls : Contained(d)' = Contained(d)
      BY <1>8, RunnerIsSettled DEF Expire, Answer, LeftoversEnd, RunnerTypeOK, Call
    <3>. QED  BY <3>1, <1>8 DEF Expire, Answer, LeftoversEnd, worker_done, RunnerTypeOK,
                                CallsInOrder, Busy, Call, pc
  <2>3. \A k \in Kinds : UsingRunner(k)' = UsingRunner(k)
    BY <1>8 DEF Expire, Answer, LeftoversEnd, RunnerTypeOK, UsingRunner, Call, pc, kind
  <2>. QED  BY <1>8, <2>1, <2>2, <2>3, PermitsKept DEF Expire, Answer, LeftoversEnd
<1>9. CASE UNCHANGED vars
  <2>1. RunnerTypeOK' /\ CallsInOrder' /\ \A k \in Kinds : UsingRunner(k)' = UsingRunner(k)
    BY <1>9 DEF vars, RunnerTypeOK, CallsInOrder, UsingRunner, pc, kind,
                Contained, get_runner, runner_env
  <2>. QED  BY <1>9, <2>1, PermitsKept DEF vars
<1>. QED
  BY <1>1, <1>2, <1>3, <1>5, <1>6, <1>7, <1>8, <1>9 DEF RunnerNext, CallStep

(* The inductive invariant.                                                  *)
THEOREM PoolInvariant == RunnerSpec => []PoolInv
BY InitPool, NextPool, PTL DEF RunnerSpec

(* The state stays in its types, for any settings and any number of requests.*)
THEOREM RunnerTypeCorrect == RunnerSpec => []RunnerTypeOK
<1>1. PoolInv => RunnerTypeOK
  BY DEF PoolInv
<1>. QED  BY <1>1, PoolInvariant, PTL

(* No path through _PoolLimitedRunner.run loses or makes a permit: whatever  *)
(* the limit, at most that many runs are under way.                          *)
THEOREM NoPermitIsLost == RunnerSpec => []PermitsAddUp
<1>1. PoolInv => PermitsAddUp
  BY DEF PoolInv
<1>. QED  BY <1>1, PoolInvariant, PTL

(* Whoever is answered, with TimeoutError or not, has no command running, and *)
(* where the runs are containers, one whose runs all returned 0 shares its    *)
(* workspace with no leftovers.                                               *)
THEOREM AnswersComeAfterTheRun == RunnerSpec => []AnswersAreQuiet
<1>1. PoolInv => AnswersAreQuiet
  BY DEF PoolInv, CallsInOrder, AnswersAreQuiet
<1>. QED  BY <1>1, PoolInvariant, PTL
-----------------------------------------------------------------------------
(* Some request opened document d in workspace w.                            *)
Opened(rs, d, w) == \E q \in Requests : rs[q].ws = w /\ rs[q].doc = d

(* What the cache relies on, besides its types. An idle request has named     *)
(* nothing, a started one its file, and one that reads has a server.         *)
RequestsInOrder ==
  \A r \in Requests :
    /\ IF at(r) = "idle"
       THEN req[r].ws = None /\ req[r].proc = None /\ req[r].answer = None
       ELSE req[r].ws \in Workspaces /\ req[r].doc \in Documents
    /\ at(r) \in {"starting", "open", "reading", "replying"} => req[r].proc # None

(* A server runs for the workspace it was started in: the cached one for its *)
(* key, a request's one for the request's; before it starts its pipes are    *)
(* empty.                                                                    *)
ServersHaveHomes ==
  /\ \A p \in alive : home[p] # None
  /\ \A w \in Keys(cached) : home[cached[w]] = w
  /\ \A r \in Requests : req[r].proc # None => home[req[r].proc] = req[r].ws
  /\ \A p \in Procs : home[p] = None => stdin[p] = <<>> /\ stdout[p] = <<>>

(* While a server starts there is room for it, and no entry in its place.    *)
RoomIsKept ==
  /\ IsFiniteSet(Keys(cached))
  /\ Cardinality(Keys(cached)) <= MaxSize
  /\ lock # None => /\ Cardinality(Keys(cached)) < MaxSize
                    /\ req[lock].ws \notin Keys(cached)

(* What is written to a server, and what it writes back, is of documents     *)
(* that were opened in its workspace.                                        *)
PipesAreHome ==
  \A p \in Procs :
    /\ \A i \in DOMAIN stdin[p] :
         stdin[p][i] \in Documents => Opened(req, stdin[p][i], home[p])
    /\ \A i \in DOMAIN stdout[p] :
         stdout[p][i].message.kind = "diagnostics"
           => Opened(req, stdout[p][i].message.about, home[p])

LspInv ==
  /\ LspTypeOK /\ RequestsInOrder /\ ServersHaveHomes /\ RoomIsKept /\ PipesAreHome
  /\ ErrorsStayInTheirWorkspace /\ OnlyRaisingStartsLeak
  /\ \A r \in Requests : req[r].answer = "not_started" => at(r) = "done"

(* A request replaced by another one.                                        *)
LEMMA RequestUpdated ==
  ASSUME NEW r \in Requests, req \in [Requests -> Request], NEW e \in Request,
         req' = [req EXCEPT ![r] = e]
  PROVE  /\ req' \in [Requests -> Request]
         /\ req'[r] = e
         /\ \A q \in Requests \ {r} : req'[q] = req[q]
OBVIOUS

(* Thread r goes to phase x with process p and answer a.                     *)
Moves(r, x, p, a) ==
  /\ req' \in [Requests -> Request]
  /\ \A q \in Requests \ {r} : req'[q] = req[q]
  /\ req'[r].pc = x /\ req'[r].proc = p /\ req'[r].answer = a
  /\ req'[r].op = req[r].op /\ req'[r].ws = req[r].ws /\ req'[r].doc = req[r].doc

(* How the requests are updated: by the next phase, by the phase and the     *)
(* answer, by the phase and the process, and by a new call.                  *)
LEMMA GotoMoves ==
  ASSUME NEW r \in Requests, req \in [Requests -> Request], NEW x \in LspPhases,
         Goto(r, x)
  PROVE  Moves(r, x, req[r].proc, req[r].answer)
<1>. DEFINE e == [req[r] EXCEPT !.pc = x]
<1>1. req[r] \in Request
  OBVIOUS
<1>2. /\ e.pc = x /\ e.proc = req[r].proc /\ e.answer = req[r].answer
      /\ e.op = req[r].op /\ e.ws = req[r].ws /\ e.doc = req[r].doc
  BY <1>1 DEF Request
<1>3. e \in Request
  BY <1>1 DEF Request
<1>4. req' = [req EXCEPT ![r] = e]
  BY DEF Goto
<1>. HIDE DEF e
<1>. QED  BY <1>2, <1>3, <1>4, RequestUpdated DEF Moves

LEMMA FinishMoves ==
  ASSUME NEW r \in Requests, req \in [Requests -> Request], NEW x \in LspPhases,
         NEW a \in LspAnswers, Finishes(r, x, a)
  PROVE  Moves(r, x, req[r].proc, a)
<1>. DEFINE e == [req[r] EXCEPT !.pc = x, !.answer = a]
<1>1. req[r] \in Request
  OBVIOUS
<1>2. /\ e.pc = x /\ e.proc = req[r].proc /\ e.answer = a
      /\ e.op = req[r].op /\ e.ws = req[r].ws /\ e.doc = req[r].doc
  BY <1>1 DEF Request
<1>3. e \in Request
  BY <1>1 DEF Request
<1>4. req' = [req EXCEPT ![r] = e]
  BY DEF Finishes
<1>. HIDE DEF e
<1>. QED  BY <1>2, <1>3, <1>4, RequestUpdated DEF Moves

LEMMA ProcMoves ==
  ASSUME NEW r \in Requests, req \in [Requests -> Request], NEW x \in LspPhases,
         NEW p \in Procs, req' = [req EXCEPT ![r].pc = x, ![r].proc = p]
  PROVE  Moves(r, x, p, req[r].answer)
<1>. DEFINE e == [req[r] EXCEPT !.pc = x, !.proc = p]
<1>1. req[r] \in Request
  OBVIOUS
<1>2. /\ e.pc = x /\ e.proc = p /\ e.answer = req[r].answer
      /\ e.op = req[r].op /\ e.ws = req[r].ws /\ e.doc = req[r].doc
  BY <1>1 DEF Request
<1>3. e \in Request
  BY <1>1 DEF Request
<1>4. req' = [req EXCEPT ![r] = e]
  OBVIOUS
<1>. HIDE DEF e
<1>. QED  BY <1>2, <1>3, <1>4, RequestUpdated DEF Moves

LEMMA CallMoves ==
  ASSUME NEW r \in Requests, req \in [Requests -> Request], NEW op \in Operations,
         NEW w \in Workspaces, NEW d \in Documents, LspCall(r, op, w, d)
  PROVE  /\ req' \in [Requests -> Request]
         /\ \A q \in Requests \ {r} : req'[q] = req[q]
         /\ req'[r].pc = "called" /\ req'[r].ws = w /\ req'[r].doc = d
         /\ req'[r].proc = req[r].proc /\ req'[r].answer = req[r].answer
<1>. DEFINE e == [req[r] EXCEPT !.pc = "called", !.op = op, !.ws = w, !.doc = d]
<1>1. req[r] \in Request
  OBVIOUS
<1>2. /\ e.pc = "called" /\ e.ws = w /\ e.doc = d
      /\ e.proc = req[r].proc /\ e.answer = req[r].answer
  BY <1>1 DEF Request
<1>3. e \in Request
  BY <1>1 DEF Request, LspPhases
<1>4. req' = [req EXCEPT ![r] = e]
  BY DEF LspCall
<1>. HIDE DEF e
<1>. QED  BY <1>2, <1>3, <1>4, RequestUpdated

(* What reads take from the stream they read: nothing, or the head or a part *)
(* of it.                                                                    *)
StreamStep(r) ==
  \/ UNCHANGED stdout
  \/ /\ Stream(r) # <<>>
     /\ Take(r, Tail(Stream(r))) \/ Take(r, <<LeftOf(Received(r))>> \o Tail(Stream(r)))

(* The head of what r reads is of diagnostics with an error.                 *)
BrokenAt(r) ==
  /\ Stream(r) # <<>>
  /\ Received(r).message.kind = "diagnostics" /\ Received(r).message.about \in Broken

LEMMA ReadsTake ==
  ASSUME NEW r
  PROVE  /\ \A m : Returns(r, m) => StreamStep(r)
         /\ Raises(r) => StreamStep(r)
         /\ ReadsOn(r) => StreamStep(r)
         /\ \A m : Returns(r, m) /\ m # None => Stream(r) # <<>> /\ m = Received(r).message
<1>1. \A m : Returns(r, m) => StreamStep(r)
  BY DEF Returns, StreamStep
<1>2. Raises(r) => StreamStep(r)
  BY DEF Raises, StreamStep
<1>3. ReadsOn(r) => StreamStep(r)
  BY DEF ReadsOn, StreamStep
<1>4. \A m : Returns(r, m) /\ m # None => Stream(r) # <<>> /\ m = Received(r).message
  BY DEF Returns
<1>. QED  BY <1>1, <1>2, <1>3, <1>4

(* Where each of a thread's steps takes it.                                  *)
LEMMA ThreadMoves ==
  ASSUME NEW r \in Requests, LspTypeOK
  PROVE  /\ Reuse(r) => Moves(r, "open", server_of(req[r].ws), req[r].answer)
         /\ \A kept : \A p \in Procs : Spawn(r, p, kept) => Moves(r, "starting", p, req[r].answer)
         /\ \A kept : SpawnFails(r, kept) => Moves(r, "done", req[r].proc, "not_ok")
         /\ Initialized(r) => Moves(r, "open", req[r].proc, req[r].answer)
         /\ StartRaises(r) => Moves(r, "done", req[r].proc, "not_started")
         /\ InitializeFails(r) =>
              \/ Moves(r, "done", req[r].proc, "not_ok") /\ req[r].proc \notin alive'
              \/ Moves(r, "done", req[r].proc, "not_started")
         /\ ReadsOn(r) => UNCHANGED req
         /\ DidOpen(r) =>
              IF req[r].proc \in alive THEN Moves(r, "reading", req[r].proc, req[r].answer)
              ELSE Moves(r, "touching", req[r].proc, "raised")
         /\ NoSuchFile(r) => \E a \in {"not_ok", "goals"} : Moves(r, "touching", req[r].proc, a)
         /\ ReadCheck(r) =>
              \/ UNCHANGED req
              \/ \E a \in {"ok", "raised"} : Moves(r, "touching", req[r].proc, a)
              \/ BrokenAt(r) /\ Moves(r, "touching", req[r].proc, "errors")
         /\ ReadOne(r) =>
              \/ Moves(r, "replying", req[r].proc, req[r].answer)
              \/ Moves(r, "touching", req[r].proc, "raised")
         /\ ReadReply(r) =>
              \E a \in {"goals", "raised"} : Moves(r, "touching", req[r].proc, a)
         /\ Touch(r) => Moves(r, "done", req[r].proc, req[r].answer)
<1>1. /\ \A x \in {"idle", "called", "starting", "open", "reading", "replying",
                   "touching", "done"} : x \in LspPhases
      /\ \A x \in {"ok", "errors", "not_ok", "goals", "raised", "not_started"} :
           x \in LspAnswers
  BY DEF LspPhases, LspAnswers
<1>2. req \in [Requests -> Request] /\ alive \subseteq Procs
  BY DEF LspTypeOK
<1>3. Reuse(r) => Moves(r, "open", server_of(req[r].ws), req[r].answer)
  BY <1>1, <1>2, ProcMoves DEF Reuse, Usable
<1>4. ASSUME NEW p \in Procs, NEW kept, Spawn(r, p, kept)
      PROVE  Moves(r, "starting", p, req[r].answer)
  BY <1>1, <1>2, <1>4, ProcMoves DEF Spawn
<1>5. ASSUME NEW kept, SpawnFails(r, kept)
      PROVE  Moves(r, "done", req[r].proc, "not_ok")
  BY <1>1, <1>2, <1>5, FinishMoves DEF SpawnFails
<1>6. ASSUME Initialized(r)
      PROVE  Moves(r, "open", req[r].proc, req[r].answer)
  BY <1>1, <1>2, <1>6, GotoMoves DEF Initialized
<1>14. ASSUME StartRaises(r)
       PROVE  Moves(r, "done", req[r].proc, "not_started")
  BY <1>1, <1>2, <1>14, FinishMoves DEF StartRaises
<1>7. ASSUME InitializeFails(r)
      PROVE  \/ Moves(r, "done", req[r].proc, "not_ok") /\ req[r].proc \notin alive'
             \/ Moves(r, "done", req[r].proc, "not_started")
  <2>1. \/ alive' = alive \ {req[r].proc} /\ Finishes(r, "done", "not_ok")
        \/ Finishes(r, "done", "not_started")
    BY <1>7 DEF InitializeFails
  <2>. QED  BY <1>1, <1>2, <2>1, FinishMoves
<1>15. ReadsOn(r) => UNCHANGED req
  BY DEF ReadsOn
<1>8. ASSUME DidOpen(r)
      PROVE  IF req[r].proc \in alive THEN Moves(r, "reading", req[r].proc, req[r].answer)
             ELSE Moves(r, "touching", req[r].proc, "raised")
  BY <1>1, <1>2, <1>8, FinishMoves, GotoMoves DEF DidOpen
<1>9. NoSuchFile(r) => \E a \in {"not_ok", "goals"} : Moves(r, "touching", req[r].proc, a)
  BY <1>1, <1>2, FinishMoves DEF NoSuchFile
<1>10. ASSUME ReadCheck(r)
       PROVE  \/ UNCHANGED req
              \/ \E a \in {"ok", "raised"} : Moves(r, "touching", req[r].proc, a)
              \/ BrokenAt(r) /\ Moves(r, "touching", req[r].proc, "errors")
  <2>1. CASE Raises(r) /\ Finishes(r, "touching", "raised")
    BY <1>1, <1>2, <2>1, FinishMoves
  <2>2. ASSUME NEW m \in Message \cup {None}, Returns(r, m),
               m # None /\ m.kind = "diagnostics" /\ m.about \in Broken,
               Finishes(r, "touching", "errors")
        PROVE  BrokenAt(r) /\ Moves(r, "touching", req[r].proc, "errors")
    BY <1>1, <1>2, <2>2, FinishMoves, ReadsTake DEF BrokenAt
  <2>3. CASE UNCHANGED req \/ Finishes(r, "touching", "ok")
    BY <1>1, <1>2, <2>3, FinishMoves
  <2>. QED  BY <1>10, <2>1, <2>2, <2>3 DEF ReadCheck
<1>11. ASSUME ReadOne(r)
       PROVE  \/ Moves(r, "replying", req[r].proc, req[r].answer)
              \/ Moves(r, "touching", req[r].proc, "raised")
  <2>1. Goto(r, "replying") \/ Finishes(r, "touching", "raised")
    BY <1>11 DEF ReadOne
  <2>. QED  BY <1>1, <1>2, <2>1, FinishMoves, GotoMoves
<1>12. ASSUME ReadReply(r)
       PROVE  \E a \in {"goals", "raised"} : Moves(r, "touching", req[r].proc, a)
  <2>1. Finishes(r, "touching", "goals") \/ Finishes(r, "touching", "raised")
    BY <1>12 DEF ReadReply
  <2>. QED  BY <1>1, <1>2, <2>1, FinishMoves
<1>13. Touch(r) => Moves(r, "done", req[r].proc, req[r].answer)
  BY <1>1, <1>2, GotoMoves DEF Touch
<1>. QED
  BY <1>3, <1>4, <1>5, <1>6, <1>7, <1>8, <1>9, <1>10, <1>11, <1>12, <1>13, <1>14, <1>15

(* Time stamps, the cache and the messages keep their types.                 *)
LEMMA TouchedType ==
  ASSUME NEW c, NEW w \in Workspaces, older \subseteq Workspaces \X Workspaces
  PROVE  Touched(c, w) \subseteq Workspaces \X Workspaces
BY DEF Touched, Keys

(* Eviction restricts the cache to what is kept.                             *)
LEMMA RestrictedCache ==
  ASSUME NEW kept, cached \in [Workspaces -> Procs \cup {None}]
  PROVE  /\ Restricted(kept) \in [Workspaces -> Procs \cup {None}]
         /\ \A w \in Workspaces :
              Restricted(kept)[w] = IF w \in kept THEN cached[w] ELSE None
BY DEF Restricted

LEMMA RepliesType ==
  ASSUME NEW input \in Input, NEW written \in Replies(input)
  PROVE  written \in Seq(Piece)
<1>1. Response \in Message /\ Notification \in Message
  BY DEF Notification, Response, Message
<1>2. input \in Documents => Diagnostics(input) \in Message
  BY DEF Diagnostics, Message
<1>3. \A m \in Message : Sent(m) \in Seq(Piece)
  BY DEF Sent, PieceOf, Piece
<1>4. input \in Documents => Sent(Notification) \o Sent(Diagnostics(input)) \in Seq(Piece)
  BY <1>1, <1>2, <1>3
<1>. QED  BY <1>1, <1>3, <1>4 DEF Replies

(* The requests after any step.                                              *)
LEMMA RequestsAfterStep ==
  ASSUME LspTypeOK, RequestsInOrder, [LspNext]_lspVars
  PROVE  /\ req' \in [Requests -> Request]
         /\ RequestsInOrder'
         /\ \A q \in Requests :
              at(q) # "idle" => req'[q].ws = req[q].ws /\ req'[q].doc = req[q].doc
<1>. USE DEF RequestsInOrder, at
<1>0. req \in [Requests -> Request] /\ None \notin Procs
  BY LspAssumption DEF LspTypeOK
<1>1. ASSUME NEW r \in Requests, NEW op \in Operations, NEW w \in Workspaces,
             NEW d \in Documents, LspCall(r, op, w, d)
      PROVE  /\ req' \in [Requests -> Request]
             /\ RequestsInOrder'
             /\ \A q \in Requests :
                  at(q) # "idle" => req'[q].ws = req[q].ws /\ req'[q].doc = req[q].doc
  <2>1. at(r) = "idle"
    BY <1>1 DEF LspCall
  <2>. QED  BY <1>0, <1>1, <2>1, CallMoves
<1>2. ASSUME NEW r \in Requests, ThreadStep(r)
      PROVE  \/ UNCHANGED req
             \/ \E x \in LspPhases \ {"idle"}, p \in Procs \cup {None}, a \in LspAnswers :
                  /\ Moves(r, x, p, a) /\ at(r) # "idle"
                  /\ x \in {"starting", "open", "reading", "replying"} => p # None
  <2>0. /\ \A x \in {"starting", "open", "reading", "replying", "touching", "done"} :
              x \in LspPhases \ {"idle"}
        /\ \A x \in {"ok", "errors", "not_ok", "goals", "raised", "not_started"} :
             x \in LspAnswers
        /\ req[r].proc \in Procs \cup {None} /\ req[r].answer \in LspAnswers
        /\ alive \subseteq Procs
    BY <1>0 DEF LspPhases, LspAnswers, Request, LspTypeOK
  <2>1. CASE Reuse(r)
    <3>1. at(r) = "called" /\ server_of(req[r].ws) \in Procs
      BY <2>0, <2>1 DEF Reuse, Usable
    <3>2. Moves(r, "open", server_of(req[r].ws), req[r].answer)
      BY <2>1, ThreadMoves
    <3>. QED  BY <1>0, <2>0, <3>1, <3>2
  <2>2. ASSUME NEW kept, SpawnFails(r, kept) \/ \E p \in Procs : Spawn(r, p, kept)
        PROVE  \E x \in LspPhases \ {"idle"}, p \in Procs \cup {None}, a \in LspAnswers :
                 /\ Moves(r, x, p, a) /\ at(r) # "idle"
                 /\ x \in {"starting", "open", "reading", "replying"} => p # None
    <3>1. CASE SpawnFails(r, kept)
      BY <2>0, <3>1, ThreadMoves DEF SpawnFails
    <3>2. ASSUME NEW p \in Procs, Spawn(r, p, kept)
          PROVE  Moves(r, "starting", p, req[r].answer) /\ at(r) # "idle" /\ p # None
      BY <1>0, <3>2, ThreadMoves DEF Spawn
    <3>. QED  BY <2>0, <2>2, <3>1, <3>2
  <2>3. CASE Initialized(r)
    <3>1. at(r) = "starting" /\ req[r].proc # None
      BY <2>3 DEF Initialized
    <3>2. Moves(r, "open", req[r].proc, req[r].answer)
      BY <2>3, ThreadMoves
    <3>. QED  BY <2>0, <3>1, <3>2
  <2>4. CASE InitializeFails(r) \/ StartRaises(r)
    <3>1. at(r) = "starting"
      BY <2>4 DEF InitializeFails, StartRaises
    <3>. QED  BY <2>0, <2>4, <3>1, ThreadMoves
  <2>11. CASE ReadsOn(r)
    BY <2>11 DEF ReadsOn
  <2>5. CASE DidOpen(r)
    <3>1. at(r) = "open"
      BY <2>5 DEF DidOpen
    <3>. QED  BY <2>0, <2>5, <3>1, ThreadMoves
  <2>6. CASE NoSuchFile(r)
    <3>1. at(r) = "open"
      BY <2>6 DEF NoSuchFile
    <3>. QED  BY <2>0, <2>6, <3>1, ThreadMoves
  <2>7. CASE ReadCheck(r)
    <3>1. at(r) = "reading"
      BY <2>7 DEF ReadCheck
    <3>. QED  BY <2>0, <2>7, <3>1, ThreadMoves
  <2>8. CASE ReadOne(r)
    <3>1. at(r) = "reading"
      BY <2>8 DEF ReadOne
    <3>. QED  BY <2>0, <2>8, <3>1, ThreadMoves
  <2>9. CASE ReadReply(r)
    <3>1. at(r) = "replying"
      BY <2>9 DEF ReadReply
    <3>. QED  BY <2>0, <2>9, <3>1, ThreadMoves
  <2>10. CASE Touch(r)
    <3>1. at(r) = "touching"
      BY <2>10 DEF Touch
    <3>. QED  BY <2>0, <2>10, <3>1, ThreadMoves
  <2>. QED
    BY <1>2, <2>1, <2>2, <2>3, <2>4, <2>5, <2>6, <2>7, <2>8, <2>9, <2>10, <2>11 DEF ThreadStep
<1>3. ASSUME NEW r \in Requests, ThreadStep(r)
      PROVE  /\ req' \in [Requests -> Request]
             /\ RequestsInOrder'
             /\ \A q \in Requests :
                  at(q) # "idle" => req'[q].ws = req[q].ws /\ req'[q].doc = req[q].doc
  BY <1>0, <1>2, <1>3 DEF Moves
<1>4. CASE UNCHANGED req
  BY <1>0, <1>4
<1>. QED
  BY <1>1, <1>3, <1>4 DEF LspNext, ServerStep, ServerExits, lspVars

(* What each action leaves alone.                                            *)
LEMMA LspFrames ==
  ASSUME NEW r
  PROVE  /\ \A op, w, d : LspCall(r, op, w, d) =>
              UNCHANGED <<lock, cached, older, home, alive, stdin, stdout, reads>>
         /\ Reuse(r) => UNCHANGED <<lock, cached, home, alive, stdin, stdout, reads>>
         /\ \A p, kept : Spawn(r, p, kept) => UNCHANGED <<older, stdout, reads>>
         /\ \A kept : SpawnFails(r, kept) => UNCHANGED <<lock, older, home, stdin, stdout, reads>>
         /\ Initialized(r) => UNCHANGED <<home, alive, stdin>>
         /\ StartRaises(r) => UNCHANGED <<cached, older, home, alive, stdin>>
         /\ InitializeFails(r) => UNCHANGED <<cached, older, home, stdin>>
         /\ DidOpen(r) => UNCHANGED <<lock, cached, older, home, alive, stdout, reads>>
         /\ NoSuchFile(r) =>
              UNCHANGED <<lock, cached, older, home, alive, stdin, stdout, reads>>
         /\ ReadsOn(r) => UNCHANGED <<lock, cached, older, home, alive, stdin>>
         /\ ReadCheck(r) => UNCHANGED <<lock, cached, older, home, alive, stdin>>
         /\ ReadOne(r) => UNCHANGED <<lock, cached, older, home, alive>>
         /\ ReadReply(r) => UNCHANGED <<lock, cached, older, home, alive, stdin>>
         /\ Touch(r) => UNCHANGED <<lock, cached, home, alive, stdin, stdout, reads>>
         /\ \/ ReadsOn(r) \/ ReadCheck(r) \/ ReadOne(r) \/ ReadReply(r)
            \/ Initialized(r) \/ StartRaises(r) \/ InitializeFails(r)
            => StreamStep(r)
<1>1. \A op, w, d : LspCall(r, op, w, d) =>
        UNCHANGED <<lock, cached, older, home, alive, stdin, stdout, reads>>
  BY DEF LspCall
<1>2. Reuse(r) => UNCHANGED <<lock, cached, home, alive, stdin, stdout, reads>>
  BY DEF Reuse
<1>3. \A p, kept : Spawn(r, p, kept) => UNCHANGED <<older, stdout, reads>>
  BY DEF Spawn
<1>4. \A kept : SpawnFails(r, kept) => UNCHANGED <<lock, older, home, stdin, stdout, reads>>
  BY DEF SpawnFails
<1>5. /\ Initialized(r) => UNCHANGED <<home, alive, stdin>> /\ StreamStep(r)
      /\ StartRaises(r) => UNCHANGED <<cached, older, home, alive, stdin>> /\ StreamStep(r)
  BY ReadsTake DEF Initialized, StartRaises, StreamStep
<1>6. InitializeFails(r) => UNCHANGED <<cached, older, home, stdin>> /\ StreamStep(r)
  BY ReadsTake DEF InitializeFails, NoResult
<1>7. DidOpen(r) => UNCHANGED <<lock, cached, older, home, alive, stdout, reads>>
  BY DEF DidOpen
<1>8. NoSuchFile(r) => UNCHANGED <<lock, cached, older, home, alive, stdin, stdout, reads>>
  BY DEF NoSuchFile
<1>9. ReadsOn(r) => UNCHANGED <<lock, cached, older, home, alive, stdin>> /\ StreamStep(r)
  BY ReadsTake DEF ReadsOn
<1>10. ReadCheck(r) => UNCHANGED <<lock, cached, older, home, alive, stdin>> /\ StreamStep(r)
  BY ReadsTake DEF ReadCheck
<1>11. ReadOne(r) => UNCHANGED <<lock, cached, older, home, alive>> /\ StreamStep(r)
  BY ReadsTake DEF ReadOne
<1>12. ReadReply(r) => UNCHANGED <<lock, cached, older, home, alive, stdin>> /\ StreamStep(r)
  BY ReadsTake DEF ReadReply
<1>13. Touch(r) => UNCHANGED <<lock, cached, home, alive, stdin, stdout, reads>>
  BY DEF Touch
<1>. QED
  BY <1>1, <1>2, <1>3, <1>4, <1>5, <1>6, <1>7, <1>8, <1>9, <1>10, <1>11, <1>12, <1>13

(* Where a thread is in _read, after any step.                               *)
LEMMA ReadsType ==
  ASSUME NEW r \in Requests, reads \in [Requests -> Reading],
         \/ ReadsOn(r) /\ Received(r).message \in Message
         \/ (\E m : Returns(r, m)) \/ Raises(r)
         \/ UNCHANGED reads
  PROVE  reads' \in [Requests -> Reading]
<1>1. AtLine \in Reading /\ InMiddle \in Reading /\ Torn \in Reading
  BY DEF AtLine, InMiddle, Torn, Reading
<1>2. \A m \in Message : Due(m) \in Reading
  BY DEF Due, Reading
<1>3. \/ \E e \in Reading : reads' = [reads EXCEPT ![r] = e]
      \/ UNCHANGED reads
  BY <1>1, <1>2 DEF ReadsOn, Returns, Raises
<1>. QED  BY <1>3

(* Whoever waits for a new server keeps holding the lock, and nobody else.   *)
LEMMA LockAfterMove ==
  ASSUME LspTypeOK, NEW r \in Requests, NEW x, NEW p, NEW a, Moves(r, x, p, a),
         \/ x = "starting" /\ lock = None /\ lock' = r
         \/ x # "starting" /\ at(r) = "starting" /\ lock' = None
         \/ x # "starting" /\ at(r) # "starting" /\ lock' = lock
  PROVE  \A q \in Requests : at(q)' = "starting" <=> lock' = q
<1>1. /\ \A q \in Requests : at(q) = "starting" <=> lock = q
      /\ None \notin Requests
  BY LspAssumption DEF LspTypeOK
<1>2. /\ \A q \in Requests \ {r} : at(q)' = at(q)
      /\ at(r)' = x
  BY DEF Moves, at
<1>. QED  BY <1>1, <1>2

(* Pipes stay pipes.                                                         *)
LEMMA TakeType ==
  ASSUME NEW r \in Requests, stdout \in [Procs -> Seq(Piece)],
         req[r].proc \in Procs, StreamStep(r)
  PROVE  stdout' \in [Procs -> Seq(Piece)]
<1>1. ASSUME Stream(r) # <<>>
      PROVE  /\ Tail(Stream(r)) \in Seq(Piece)
             /\ <<LeftOf(Received(r))>> \o Tail(Stream(r)) \in Seq(Piece)
  <2>1. Stream(r) \in Seq(Piece)
    BY DEF Stream
  <2>2. Tail(Stream(r)) \in Seq(Piece) /\ Received(r) \in Piece
    BY <1>1, <2>1 DEF Received
  <2>3. LeftOf(Received(r)) \in Piece
    BY <2>2 DEF LeftOf, PieceOf, Piece
  <2>. QED  BY <2>2, <2>3
<1>. QED  BY <1>1 DEF StreamStep, Take

LEMMA WriteType ==
  ASSUME NEW p \in Procs \cup {None}, NEW m \in Input, stdin \in [Procs -> Seq(Input)],
         stdin' = [stdin EXCEPT ![p] = Append(stdin[p], m)]
  PROVE  stdin' \in [Procs -> Seq(Input)]
<1>1. \A q \in Procs : Append(stdin[q], m) \in Seq(Input)
  OBVIOUS
<1>. QED  BY <1>1

(* Only a thread that is in _read takes from a stream.                       *)
LEMMA ReadersRead ==
  ASSUME NEW r,
         \/ ReadsOn(r) \/ ReadCheck(r) \/ ReadOne(r) \/ ReadReply(r)
         \/ Initialized(r) \/ StartRaises(r) \/ InitializeFails(r)
  PROVE  InRead(r)
BY DEF InRead, ReadsOn, ReadCheck, ReadOne, ReadReply, Initialized, StartRaises,
       InitializeFails

(* Types, action by action.                                                  *)
LEMMA LspNextType ==
  ASSUME LspTypeOK, RequestsInOrder, [LspNext]_lspVars
  PROVE  LspTypeOK'
<1>1. req' \in [Requests -> Request]
  BY RequestsAfterStep
<1>2. /\ lock \in Requests \cup {None}
      /\ \A r \in Requests : at(r) = "starting" <=> lock = r
      /\ cached \in [Workspaces -> Procs \cup {None}]
      /\ older \subseteq Workspaces \X Workspaces
      /\ home \in [Procs -> Workspaces \cup {None}]
      /\ alive \subseteq Procs
      /\ stdin \in [Procs -> Seq(Input)]
      /\ stdout \in [Procs -> Seq(Piece)]
      /\ reads \in [Requests -> Reading]
  BY DEF LspTypeOK
<1>3. \A r \in Requests : /\ at(r) # "idle" => req[r].ws \in Workspaces /\ req[r].doc \in Documents
                           /\ req[r].proc \in Procs \cup {None}
  BY DEF RequestsInOrder, Request, LspTypeOK
<1>11. \A r \in Requests : InRead(r) => req[r].proc \in Procs
  BY <1>3 DEF RequestsInOrder, InRead
<1>4. /\ \A q \in Requests : at(q)' = "starting" <=> lock' = q
      /\ lock' \in Requests \cup {None}
  <2>1. ASSUME NEW r \in Requests, NEW op \in Operations, NEW w \in Workspaces,
               NEW d \in Documents, LspCall(r, op, w, d)
        PROVE  <1>4!:
    <3>1. at(r) = "idle" /\ lock' = lock
      BY <2>1 DEF LspCall
    <3>2. /\ \A q \in Requests \ {r} : at(q)' = at(q)
          /\ at(r)' = "called"
      BY <1>2, <2>1, CallMoves DEF at, LspTypeOK
    <3>. QED  BY <1>2, <3>1, <3>2
  <2>2. ASSUME NEW r \in Requests, Reuse(r)
        PROVE  <1>4!:
    <3>1. at(r) = "called" /\ lock' = lock
      BY <2>2 DEF Reuse
    <3>. QED  BY <1>2, <2>2, <3>1, ThreadMoves, LockAfterMove
  <2>3. ASSUME NEW r \in Requests, NEW kept, SpawnFails(r, kept)
        PROVE  <1>4!:
    <3>1. at(r) = "called" /\ lock' = lock
      BY <2>3 DEF SpawnFails
    <3>. QED  BY <1>2, <2>3, <3>1, ThreadMoves, LockAfterMove
  <2>4. ASSUME NEW r \in Requests, NEW kept, NEW p \in Procs, Spawn(r, p, kept)
        PROVE  <1>4!:
    <3>1. lock = None /\ lock' = r
      BY <2>4 DEF Spawn
    <3>. QED  BY <1>2, <2>4, <3>1, ThreadMoves, LockAfterMove
  <2>5. ASSUME NEW r \in Requests, Initialized(r)
        PROVE  <1>4!:
    <3>1. at(r) = "starting" /\ lock' = None
      BY <2>5 DEF Initialized
    <3>. QED  BY <1>2, <2>5, <3>1, ThreadMoves, LockAfterMove
  <2>6. ASSUME NEW r \in Requests, InitializeFails(r) \/ StartRaises(r)
        PROVE  <1>4!:
    <3>1. at(r) = "starting" /\ lock' = None
      BY <2>6 DEF InitializeFails, StartRaises
    <3>. QED  BY <1>2, <2>6, <3>1, ThreadMoves, LockAfterMove
  <2>14. ASSUME NEW r \in Requests, ReadsOn(r)
         PROVE  <1>4!:
    BY <1>2, <2>14 DEF ReadsOn, at
  <2>7. ASSUME NEW r \in Requests, DidOpen(r)
        PROVE  <1>4!:
    <3>1. at(r) = "open" /\ lock' = lock
      BY <2>7 DEF DidOpen
    <3>. QED  BY <1>2, <2>7, <3>1, ThreadMoves, LockAfterMove
  <2>8. ASSUME NEW r \in Requests, NoSuchFile(r)
        PROVE  <1>4!:
    <3>1. at(r) = "open" /\ lock' = lock
      BY <2>8 DEF NoSuchFile
    <3>. QED  BY <1>2, <2>8, <3>1, ThreadMoves, LockAfterMove
  <2>9. ASSUME NEW r \in Requests, ReadCheck(r)
        PROVE  <1>4!:
    <3>1. at(r) = "reading" /\ lock' = lock
      BY <2>9 DEF ReadCheck
    <3>. QED  BY <1>2, <2>9, <3>1, ThreadMoves, LockAfterMove DEF at
  <2>10. ASSUME NEW r \in Requests, ReadOne(r)
        PROVE  <1>4!:
    <3>1. at(r) = "reading" /\ lock' = lock
      BY <2>10 DEF ReadOne
    <3>. QED  BY <1>2, <2>10, <3>1, ThreadMoves, LockAfterMove
  <2>11. ASSUME NEW r \in Requests, ReadReply(r)
        PROVE  <1>4!:
    <3>1. at(r) = "replying" /\ lock' = lock
      BY <2>11 DEF ReadReply
    <3>. QED  BY <1>2, <2>11, <3>1, ThreadMoves, LockAfterMove
  <2>12. ASSUME NEW r \in Requests, Touch(r)
        PROVE  <1>4!:
    <3>1. at(r) = "touching" /\ lock' = lock
      BY <2>12 DEF Touch
    <3>. QED  BY <1>2, <2>12, <3>1, ThreadMoves, LockAfterMove
  <2>13. CASE UNCHANGED <<lock, req>>
    BY <1>2, <2>13 DEF at
  <2>. QED
    BY <2>1, <2>2, <2>3, <2>4, <2>5, <2>6, <2>7, <2>8, <2>9, <2>10, <2>11, <2>12, <2>13,
       <2>14
    DEF LspNext, ThreadStep, ServerStep, ServerExits, lspVars
<1>5. cached' \in [Workspaces -> Procs \cup {None}]
  <2>1. ASSUME NEW kept, cached' = Restricted(kept)
        PROVE  <1>5!:
    BY <1>2, <2>1, RestrictedCache
  <2>2. ASSUME NEW r \in Requests, Initialized(r)
        PROVE  <1>5!:
    BY <1>2, <1>3, <2>2 DEF Initialized
  <2>3. CASE UNCHANGED cached
    BY <1>2, <2>3
  <2>. QED
    BY <2>1, <2>2, <2>3, LspFrames
    DEF LspNext, ThreadStep, SpawnFails, Spawn, ServerStep, ServerExits, lspVars
<1>6. older' \subseteq Workspaces \X Workspaces
  <2>1. ASSUME NEW r \in Requests, Reuse(r) \/ Initialized(r) \/ Touch(r)
        PROVE  <1>6!:
    <3>1. req[r].ws \in Workspaces
      BY <1>3, <2>1 DEF Reuse, Initialized, Touch
    <3>2. UNCHANGED older \/ \E c : older' = Touched(c, req[r].ws)
      BY <2>1 DEF Reuse, Initialized, Touch
    <3>. QED  BY <1>2, <3>1, <3>2, TouchedType
  <2>2. CASE UNCHANGED older
    BY <1>2, <2>2
  <2>. QED
    BY <2>1, <2>2, LspFrames DEF LspNext, ThreadStep, ServerStep, ServerExits, lspVars
<1>7. home' \in [Procs -> Workspaces \cup {None}] /\ alive' \subseteq Procs
  <2>1. ASSUME NEW r \in Requests, NEW kept,
               SpawnFails(r, kept) \/ \E p \in Procs : Spawn(r, p, kept)
        PROVE  <1>7!:
    BY <1>2, <1>3, <2>1 DEF Spawn, SpawnFails, StillAlive
  <2>2. ASSUME NEW p \in Procs, ServerExits(p)
        PROVE  <1>7!:
    BY <1>2, <2>2 DEF ServerExits
  <2>4. ASSUME NEW r \in Requests, InitializeFails(r)
        PROVE  <1>7!:
    BY <1>2, <2>4 DEF InitializeFails
  <2>3. CASE UNCHANGED <<home, alive>>
    BY <1>2, <2>3
  <2>. QED
    BY <2>1, <2>2, <2>3, <2>4, LspFrames DEF LspNext, ThreadStep, ServerStep, lspVars
<1>8. stdin' \in [Procs -> Seq(Input)]
  <2>1. ASSUME NEW r \in Requests, NEW kept, NEW p \in Procs, Spawn(r, p, kept)
        PROVE  <1>8!:
    <3>1. <<"initialize">> \in Seq(Input)
      BY DEF Input
    <3>. QED  BY <1>2, <2>1, <3>1 DEF Spawn
  <2>2. ASSUME NEW r \in Requests, DidOpen(r)
        PROVE  <1>8!:
    <3>1. req[r].doc \in Input
      BY <1>3, <2>2 DEF DidOpen, Input
    <3>2. stdin' = [stdin EXCEPT ![req[r].proc] = Append(stdin[req[r].proc], req[r].doc)] \/ UNCHANGED stdin
      BY <2>2 DEF DidOpen
    <3>. QED  BY <1>2, <1>3, <3>1, <3>2, WriteType
  <2>3. ASSUME NEW r \in Requests, ReadOne(r)
        PROVE  <1>8!:
    <3>1. "query" \in Input
      BY DEF Input
    <3>2. stdin' = [stdin EXCEPT ![req[r].proc] = Append(stdin[req[r].proc], "query")] \/ UNCHANGED stdin
      BY <2>3 DEF ReadOne
    <3>. QED  BY <1>2, <1>3, <3>1, <3>2, WriteType
  <2>4. ASSUME NEW p \in Procs, ServerStep(p)
        PROVE  <1>8!:
    <3>1. Tail(stdin[p]) \in Seq(Input)
      BY <1>2, <2>4 DEF ServerStep
    <3>. QED  BY <1>2, <2>4, <3>1 DEF ServerStep
  <2>5. CASE UNCHANGED stdin
    BY <1>2, <2>5
  <2>. QED
    BY <2>1, <2>2, <2>3, <2>4, <2>5, LspFrames
    DEF LspNext, ThreadStep, ServerExits, lspVars
<1>9. stdout' \in [Procs -> Seq(Piece)]
  <2>1. ASSUME NEW r \in Requests, InRead(r), StreamStep(r)
        PROVE  <1>9!:
    BY <1>2, <1>11, <2>1, TakeType
  <2>2. ASSUME NEW p \in Procs, ServerStep(p)
        PROVE  <1>9!:
    <3>1. Head(stdin[p]) \in Input
      BY <1>2, <2>2 DEF ServerStep
    <3>2. PICK written \in Replies(Head(stdin[p])) :
            stdout' = [stdout EXCEPT ![p] = stdout[p] \o written]
      BY <2>2 DEF ServerStep
    <3>3. stdout[p] \o written \in Seq(Piece)
      BY <1>2, <3>1, RepliesType
    <3>. QED  BY <1>2, <3>2, <3>3
  <2>3. CASE UNCHANGED stdout
    BY <1>2, <2>3
  <2>. QED
    BY <2>1, <2>2, <2>3, LspFrames, ReadersRead DEF LspNext, ThreadStep, ServerExits, lspVars
<1>10. reads' \in [Requests -> Reading]
  <2>1. ASSUME NEW r \in Requests, ReadsOn(r)
        PROVE  <1>10!:
    <3>1. InRead(r) /\ Stream(r) # <<>>
      BY <2>1 DEF ReadsOn
    <3>2. Stream(r) \in Seq(Piece)
      BY <1>2, <1>11, <3>1 DEF Stream
    <3>4. Received(r) \in Piece
      BY <3>1, <3>2 DEF Received
    <3>3. Received(r).message \in Message
      BY <3>4 DEF Piece
    <3>. QED  BY <1>2, <2>1, <3>3, ReadsType
  <2>2. ASSUME NEW r \in Requests,
               \/ Initialized(r) \/ StartRaises(r) \/ InitializeFails(r)
               \/ ReadCheck(r) \/ ReadOne(r) \/ ReadReply(r)
        PROVE  <1>10!:
    <3>1. (\E m : Returns(r, m)) \/ Raises(r) \/ UNCHANGED reads
      BY <2>2 DEF Initialized, StartRaises, InitializeFails, NoResult, ReadCheck, ReadOne,
                  ReadReply
    <3>. QED  BY <1>2, <3>1, ReadsType
  <2>3. CASE UNCHANGED reads
    BY <1>2, <2>3
  <2>. QED
    BY <2>1, <2>2, <2>3, LspFrames DEF LspNext, ThreadStep, ServerStep, ServerExits, lspVars
<1>. QED
  BY <1>1, <1>4, <1>5, <1>6, <1>7, <1>8, <1>9, <1>10 DEF LspTypeOK

(* The parts of the invariant that the steps below use.                      *)
LEMMA LspInvParts ==
  ASSUME LspInv
  PROVE  /\ LspTypeOK /\ RequestsInOrder /\ ServersHaveHomes
         /\ None \notin Procs \cup Workspaces \cup Requests
         /\ lock \in Requests \cup {None}
         /\ \A r \in Requests : at(r) = "starting" <=> lock = r
         /\ cached \in [Workspaces -> Procs \cup {None}]
         /\ home \in [Procs -> Workspaces \cup {None}]
         /\ alive \subseteq Procs
         /\ stdin \in [Procs -> Seq(Input)]
         /\ stdout \in [Procs -> Seq(Piece)]
         /\ req \in [Requests -> Request]
         /\ \A r \in Requests :
              /\ req[r].proc \in Procs \cup {None}
              /\ at(r) # "idle" => req[r].ws \in Workspaces /\ req[r].doc \in Documents
              /\ at(r) \in {"starting", "open", "reading", "replying"} =>
                   req[r].proc \in Procs
              /\ InRead(r) => req[r].proc \in Procs
              /\ req[r].proc # None => home[req[r].proc] = req[r].ws /\ req[r].ws \in Workspaces
BY LspAssumption DEF LspInv, LspTypeOK, RequestsInOrder, ServersHaveHomes, Request, InRead

(* A server stays in its workspace, and what was opened stays opened.        *)
LEMMA HomesStay ==
  ASSUME LspInv, [LspNext]_lspVars
  PROVE  \A p \in Procs : home[p] # None => home'[p] = home[p]
<1>1. ASSUME NEW r \in Requests, NEW kept, NEW p \in Procs, Spawn(r, p, kept)
      PROVE  \A q \in Procs : home[q] # None => home'[q] = home[q]
  BY <1>1, LspInvParts DEF Spawn
<1>2. CASE UNCHANGED home
  BY <1>2
<1>. QED
  BY <1>1, <1>2, LspFrames DEF LspNext, ThreadStep, ServerStep, ServerExits, lspVars

LEMMA OpenedStays ==
  ASSUME LspInv, [LspNext]_lspVars, NEW d, NEW w \in Workspaces, Opened(req, d, w)
  PROVE  Opened(req', d, w)
<1>1. PICK q \in Requests : req[q].ws = w /\ req[q].doc = d
  BY DEF Opened
<1>2. at(q) # "idle"
  BY <1>1, LspInvParts DEF RequestsInOrder
<1>3. req'[q].ws = w /\ req'[q].doc = d
  BY <1>1, <1>2, LspInvParts, RequestsAfterStep
<1>. QED  BY <1>3 DEF Opened

(* The servers of the cache and of the threads after any step.               *)
LEMMA HomesAfterStep ==
  ASSUME LspInv, LspTypeOK', [LspNext]_lspVars
  PROVE  ServersHaveHomes'
<1>0. /\ \A p \in alive : home[p] # None
      /\ \A w \in Keys(cached) : home[cached[w]] = w
      /\ \A p \in Procs : home[p] = None => stdin[p] = <<>> /\ stdout[p] = <<>>
  BY LspInvParts DEF ServersHaveHomes
<1>1. ASSUME NEW p \in alive'
      PROVE  home'[p] # None
  <2>1. CASE p \in alive
    BY <1>0, <2>1, HomesStay, LspInvParts
  <2>2. CASE \E kept : \E r \in Requests : Spawn(r, p, kept)
    BY <1>1, <2>2, LspInvParts DEF Spawn, LspTypeOK
  <2>3. p \in alive \/ \E kept : \E r \in Requests : Spawn(r, p, kept)
    <3>1. ASSUME NEW r \in Requests, NEW kept, NEW s \in Procs, Spawn(r, s, kept)
          PROVE  p \in alive \/ p = s
      BY <1>1, <3>1 DEF Spawn, StillAlive
    <3>2. ASSUME NEW r \in Requests, NEW kept, SpawnFails(r, kept)
          PROVE  p \in alive
      BY <1>1, <3>2 DEF SpawnFails, StillAlive
    <3>3. ASSUME NEW s \in Procs, ServerExits(s)
          PROVE  p \in alive
      BY <1>1, <3>3 DEF ServerExits
    <3>5. ASSUME NEW r \in Requests, InitializeFails(r)
          PROVE  p \in alive
      BY <1>1, <3>5 DEF InitializeFails
    <3>4. UNCHANGED alive => p \in alive
      BY <1>1
    <3>. QED
      BY <3>1, <3>2, <3>3, <3>4, <3>5, LspFrames DEF LspNext, ThreadStep, ServerStep, lspVars
  <2>. QED  BY <2>1, <2>2, <2>3
<1>2. ASSUME NEW w \in Keys(cached')
      PROVE  home'[cached'[w]] = w
  <2>0. w \in Workspaces /\ cached'[w] # None /\ cached'[w] \in Procs
    BY <1>2, LspAssumption DEF Keys, LspTypeOK
  <2>1. CASE cached'[w] = cached[w]
    <3>1. home[cached[w]] = w
      BY <1>0, <2>0, <2>1 DEF Keys
    <3>. QED  BY <2>0, <2>1, <3>1, HomesStay, LspInvParts
  <2>2. ASSUME NEW r \in Requests, Initialized(r), cached'[w] # cached[w]
        PROVE  home'[cached'[w]] = w
    <3>1. cached'[w] = req[r].proc /\ w = req[r].ws /\ home' = home
      BY <2>0, <2>2, LspInvParts DEF Initialized
    <3>. QED  BY <2>0, <3>1, LspInvParts
  <2>3. cached'[w] = cached[w] \/ \E r \in Requests : Initialized(r)
    <3>1. ASSUME NEW kept, cached' = Restricted(kept)
          PROVE  cached'[w] = cached[w]
      BY <2>0, <3>1, LspInvParts, RestrictedCache
    <3>. QED
      BY <3>1, LspFrames
      DEF LspNext, ThreadStep, Spawn, SpawnFails, ServerStep, ServerExits, lspVars
  <2>. QED  BY <2>1, <2>2, <2>3
<1>3. ASSUME NEW q \in Requests, req'[q].proc # None
      PROVE  home'[req'[q].proc] = req'[q].ws
  <2>1. CASE UNCHANGED req
    BY <1>3, <2>1, LspInvParts, HomesStay
  <2>2. ASSUME NEW r \in Requests, NEW op \in Operations, NEW w \in Workspaces,
               NEW d \in Documents, LspCall(r, op, w, d)
        PROVE  home'[req'[q].proc] = req'[q].ws
    <3>1. q # r /\ req'[q] = req[q]
      BY <1>3, <2>2, LspInvParts, CallMoves DEF LspCall, RequestsInOrder
    <3>. QED  BY <1>3, <3>1, LspInvParts, HomesStay
  <2>3. ASSUME NEW r \in Requests, NEW x, NEW a, Moves(r, x, req[r].proc, a)
        PROVE  home'[req'[q].proc] = req'[q].ws
    <3>1. req'[q].proc = req[q].proc /\ req'[q].ws = req[q].ws
      BY <2>3 DEF Moves
    <3>. QED  BY <1>3, <3>1, LspInvParts, HomesStay
  <2>4. ASSUME NEW r \in Requests, Reuse(r)
        PROVE  home'[req'[q].proc] = req'[q].ws
    <3>1. Moves(r, "open", cached[req[r].ws], req[r].answer)
      BY <2>4, LspInvParts, ThreadMoves DEF server_of
    <3>2. /\ cached[req[r].ws] \in alive /\ req[r].ws \in Workspaces
      BY <2>4, LspInvParts DEF Reuse, Usable, server_of
    <3>3. home[cached[req[r].ws]] = req[r].ws
      BY <1>0, <3>2, LspInvParts DEF Keys
    <3>4. home' = home
      BY <2>4 DEF Reuse
    <3>. QED  BY <1>3, <3>1, <3>3, <3>4, LspInvParts DEF Moves
  <2>5. ASSUME NEW r \in Requests, NEW kept, NEW p \in Procs, Spawn(r, p, kept)
        PROVE  home'[req'[q].proc] = req'[q].ws
    <3>1. Moves(r, "starting", p, req[r].answer)
      BY <2>5, LspInvParts, ThreadMoves
    <3>2. home'[p] = req[r].ws
      BY <2>5, LspInvParts DEF Spawn
    <3>3. CASE q = r
      BY <3>1, <3>2, <3>3 DEF Moves
    <3>4. CASE q # r
      <4>1. req'[q] = req[q]
        BY <3>1, <3>4 DEF Moves
      <4>. QED  BY <1>3, <4>1, LspInvParts, HomesStay
    <3>. QED  BY <3>3, <3>4
  <2>6. ASSUME NEW r \in Requests, ThreadStep(r)
        PROVE  \/ UNCHANGED req
               \/ \E x, a : Moves(r, x, req[r].proc, a)
               \/ Reuse(r)
               \/ \E kept : \E p \in Procs : Spawn(r, p, kept)
    <3>2. \/ \E kept : SpawnFails(r, kept)
          \/ Initialized(r) \/ StartRaises(r) \/ InitializeFails(r) \/ DidOpen(r)
          \/ NoSuchFile(r) \/ ReadOne(r) \/ ReadReply(r) \/ Touch(r)
          => \E x, a : Moves(r, x, req[r].proc, a)
      BY LspInvParts, ThreadMoves
    <3>3. ReadCheck(r) \/ ReadsOn(r)
            => UNCHANGED req \/ \E x, a : Moves(r, x, req[r].proc, a)
      BY LspInvParts, ThreadMoves
    <3>4. \/ Reuse(r) \/ ReadCheck(r) \/ ReadsOn(r)
          \/ \E kept : \E p \in Procs : Spawn(r, p, kept)
          \/ \E kept : SpawnFails(r, kept)
          \/ Initialized(r) \/ StartRaises(r) \/ InitializeFails(r)
          \/ DidOpen(r) \/ NoSuchFile(r)
          \/ ReadOne(r) \/ ReadReply(r) \/ Touch(r)
      BY <2>6 DEF ThreadStep
    <3>. QED  BY <3>2, <3>3, <3>4
  <2>. QED
    BY <2>1, <2>2, <2>3, <2>4, <2>5, <2>6 DEF LspNext, ServerStep, ServerExits, lspVars
<1>4. ASSUME NEW p \in Procs, home'[p] = None
      PROVE  stdin'[p] = <<>> /\ stdout'[p] = <<>>
  <2>0. home[p] = None /\ stdin[p] = <<>> /\ stdout[p] = <<>> /\ p \notin alive
    BY <1>0, <1>4, HomesStay, LspInvParts
  <2>1. ASSUME NEW r \in Requests, ThreadStep(r)
        PROVE  stdin'[p] = stdin[p]
    <3>1. ASSUME NEW kept, NEW s \in Procs, Spawn(r, s, kept)
          PROVE  stdin'[p] = stdin[p]
      <4>1. p # s
        BY <1>4, <3>1, LspInvParts DEF Spawn
      <4>. QED  BY <3>1, <4>1, LspInvParts DEF Spawn
    <3>2. CASE DidOpen(r)
      <4>1. \/ UNCHANGED stdin
            \/ /\ req[r].proc \in alive
               /\ stdin' = [stdin EXCEPT ![req[r].proc] = Append(stdin[req[r].proc], req[r].doc)]
        BY <3>2 DEF DidOpen
      <4>. QED  BY <2>0, <4>1, LspInvParts
    <3>3. CASE ReadOne(r)
      <4>1. \/ UNCHANGED stdin
            \/ /\ req[r].proc \in alive
               /\ stdin' = [stdin EXCEPT ![req[r].proc] = Append(stdin[req[r].proc], "query")]
        BY <3>3 DEF ReadOne
      <4>. QED  BY <2>0, <4>1, LspInvParts
    <3>. QED  BY <2>1, <3>1, <3>2, <3>3, LspFrames DEF ThreadStep
  <2>2. ASSUME NEW r \in Requests, ThreadStep(r)
        PROVE  stdout'[p] = stdout[p]
    <3>1. CASE StreamStep(r) /\ stdout' # stdout
      <4>1. req[r].proc # p
        BY <2>0, <3>1 DEF StreamStep, Stream
      <4>. QED  BY <3>1, <4>1, LspInvParts DEF StreamStep, Take
    <3>. QED  BY <2>2, <3>1, LspFrames DEF ThreadStep
  <2>3. ASSUME NEW s \in Procs, ServerStep(s)
        PROVE  stdin'[p] = stdin[p] /\ stdout'[p] = stdout[p]
    BY <2>0, <2>3, LspInvParts DEF ServerStep
  <2>. QED
    BY <2>0, <2>1, <2>2, <2>3, LspFrames DEF LspNext, ServerExits, lspVars
<1>. QED  BY <1>1, <1>2, <1>3, <1>4 DEF ServersHaveHomes, Keys

(* What eviction leaves is part of the cache and has room for one more.      *)
LEMMA EvictionMakesRoom ==
  ASSUME NEW keys, IsFiniteSet(keys), NEW kept \in evict_oldest(keys)
  PROVE  /\ kept \subseteq keys /\ IsFiniteSet(kept)
         /\ Cardinality(kept) < MaxSize
<1>1. Cardinality(keys) \in Nat /\ MaxSize \in Nat
  BY FS_CardinalityType, LspAssumption
<1>2. CASE Cardinality(keys) < MaxSize
  BY <1>2 DEF evict_oldest
<1>3. CASE ~(Cardinality(keys) < MaxSize)
  <2>1. kept \subseteq keys /\ Cardinality(kept) = MaxSize - 1
    BY <1>3 DEF evict_oldest, MostRecent
  <2>. QED  BY <1>1, <2>1, FS_Subset
<1>. QED  BY <1>2, <1>3

(* The entries that are left are those that were kept, unchanged.            *)
LEMMA KeysAfterEviction ==
  ASSUME LspTypeOK, NEW kept, kept \subseteq Keys(cached), cached' = Restricted(kept)
  PROVE  /\ Keys(cached') = kept
         /\ \A w \in kept : cached'[w] = cached[w]
<1>1. cached \in [Workspaces -> Procs \cup {None}]
  BY DEF LspTypeOK
<1>2. \A w \in Workspaces : cached'[w] = IF w \in kept THEN cached[w] ELSE None
  BY <1>1, RestrictedCache
<1>. QED  BY <1>2 DEF Keys

(* A thread that starts a server takes no other step, but for reading on,    *)
(* than its start's end.                                                     *)
StartEnds(r) == Initialized(r) \/ StartRaises(r) \/ InitializeFails(r)

LEMMA HolderWaits ==
  ASSUME LspInv, [LspNext]_lspVars, lock # None, ~StartEnds(lock)
  PROVE  /\ UNCHANGED <<lock, cached>> /\ req'[lock] = req[lock]
         /\ lock \in Requests /\ at(lock) = "starting" /\ alive' \subseteq alive
<1>1. lock \in Requests /\ at(lock) = "starting"
  BY LspInvParts
<1>2. ASSUME NEW r \in Requests, NEW op \in Operations, NEW w \in Workspaces,
             NEW d \in Documents, LspCall(r, op, w, d)
      PROVE  r # lock /\ req'[lock] = req[lock]
  BY <1>1, <1>2, LspInvParts, CallMoves DEF LspCall
<1>3. ASSUME NEW r \in Requests, ThreadStep(r)
      PROVE  /\ ~StartEnds(r)
             /\ UNCHANGED req \/ (r # lock /\ \E x, p, a : Moves(r, x, p, a))
             /\ \A kept : ~SpawnFails(r, kept) /\ \A p \in Procs : ~Spawn(r, p, kept)
  <2>1. \A kept : ~SpawnFails(r, kept) /\ \A p \in Procs : ~Spawn(r, p, kept)
    BY DEF SpawnFails, Spawn
  <2>2. ~StartEnds(r)
    BY LspInvParts DEF StartEnds, Initialized, StartRaises, InitializeFails
  <2>3. ~Reuse(r) /\ ~Touch(r)
    BY DEF Reuse, Touch
  <2>4. CASE ReadsOn(r)
    BY <2>1, <2>2, <2>4 DEF ReadsOn
  <2>5. CASE DidOpen(r) \/ NoSuchFile(r) \/ ReadCheck(r) \/ ReadOne(r) \/ ReadReply(r)
    <3>1. r # lock
      BY <1>1, <2>5 DEF DidOpen, NoSuchFile, ReadCheck, ReadOne, ReadReply
    <3>2. UNCHANGED req \/ \E x, p, a : Moves(r, x, p, a)
      BY <2>5, LspInvParts, ThreadMoves
    <3>. QED  BY <2>1, <2>2, <3>1, <3>2
  <2>. QED  BY <1>3, <2>1, <2>2, <2>3, <2>4, <2>5 DEF ThreadStep, StartEnds
<1>4. req'[lock] = req[lock]
  BY <1>1, <1>2, <1>3 DEF LspNext, ServerStep, ServerExits, lspVars, Moves
<1>5. UNCHANGED <<lock, cached>> /\ alive' \subseteq alive
  <2>1. ASSUME NEW p \in Procs, ServerExits(p)
        PROVE  <1>5!:
    BY <2>1 DEF ServerExits
  <2>2. ASSUME NEW p \in Procs, ServerStep(p)
        PROVE  <1>5!:
    BY <2>2 DEF ServerStep
  <2>3. ASSUME NEW r \in Requests, ThreadStep(r)
        PROVE  <1>5!:
    <3>1. ~Reuse(r) /\ ~Touch(r)
      BY DEF Reuse, Touch
    <3>. QED  BY <1>3, <2>3, <3>1, LspFrames DEF ThreadStep, StartEnds
  <2>. QED  BY <2>1, <2>2, <2>3, LspFrames DEF LspNext, lspVars
<1>. QED  BY <1>1, <1>4, <1>5

(* The limit holds after any step, and the room a start needs.               *)
LEMMA RoomAfterStep ==
  ASSUME LspInv, [LspNext]_lspVars
  PROVE  RoomIsKept'
<1>0. /\ IsFiniteSet(Keys(cached)) /\ Cardinality(Keys(cached)) \in Nat
      /\ Cardinality(Keys(cached)) <= MaxSize /\ MaxSize \in Nat
      /\ lock # None => /\ Cardinality(Keys(cached)) < MaxSize
                        /\ req[lock].ws \notin Keys(cached)
  BY FS_CardinalityType, LspAssumption DEF LspInv, RoomIsKept
<1>1. ASSUME NEW r \in Requests, NEW kept, kept \in evict_oldest(Keys(cached) \ {req[r].ws}),
             cached' = Restricted(kept), req'[r].ws = req[r].ws, lock' \in {None, r}
      PROVE  RoomIsKept'
  <2>1. IsFiniteSet(Keys(cached) \ {req[r].ws})
    BY <1>0, FS_Subset
  <2>2. /\ kept \subseteq Keys(cached) \ {req[r].ws} /\ IsFiniteSet(kept)
        /\ Cardinality(kept) < MaxSize
    BY <1>1, <2>1, EvictionMakesRoom
  <2>3. Keys(cached') = kept
    BY <1>1, <2>2, LspInvParts, KeysAfterEviction
  <2>4. Cardinality(kept) \in Nat
    BY <2>2, FS_CardinalityType
  <2>. QED  BY <1>0, <1>1, <2>2, <2>3, <2>4 DEF RoomIsKept, Keys
<1>2. ASSUME NEW r \in Requests, NEW kept, SpawnFails(r, kept)
      PROVE  RoomIsKept'
  <2>1. req'[r].ws = req[r].ws
    BY <1>2, LspInvParts, ThreadMoves DEF Moves
  <2>. QED  BY <1>1, <1>2, <2>1 DEF SpawnFails
<1>3. ASSUME NEW r \in Requests, NEW kept, NEW p \in Procs, Spawn(r, p, kept)
      PROVE  RoomIsKept'
  <2>1. req'[r].ws = req[r].ws
    BY <1>3, LspInvParts, ThreadMoves DEF Moves
  <2>. QED  BY <1>1, <1>3, <2>1 DEF Spawn
<1>4. ASSUME NEW r \in Requests, StartEnds(r)
      PROVE  RoomIsKept'
  <2>1. lock = r /\ lock # None /\ lock' = None
    BY <1>4, LspInvParts DEF StartEnds, Initialized, StartRaises, InitializeFails
  <2>2. CASE UNCHANGED cached
    BY <1>0, <2>1, <2>2 DEF RoomIsKept, Keys
  <2>3. CASE Initialized(r) /\ cached' = [cached EXCEPT ![req[r].ws] = req[r].proc]
    <3>1. req[r].ws \in Workspaces /\ req[r].proc \in Procs
      BY <2>1, LspInvParts
    <3>2. Keys(cached') = Keys(cached) \cup {req[r].ws}
      BY <2>3, <3>1, LspInvParts DEF Keys
    <3>3. /\ IsFiniteSet(Keys(cached) \cup {req[r].ws})
          /\ Cardinality(Keys(cached) \cup {req[r].ws}) = Cardinality(Keys(cached)) + 1
      BY <1>0, <2>1, FS_AddElement
    <3>. QED  BY <1>0, <2>1, <3>2, <3>3 DEF RoomIsKept
  <2>. QED  BY <1>4, <2>2, <2>3 DEF StartEnds, Initialized, StartRaises, InitializeFails
<1>5. CASE lock # None /\ ~StartEnds(lock)
  BY <1>0, <1>5, HolderWaits DEF RoomIsKept, Keys
<1>6. CASE UNCHANGED <<lock, cached>> /\ lock = None
  BY <1>0, <1>6 DEF RoomIsKept, Keys
<1>7. ASSUME lock = None
      PROVE  \/ UNCHANGED <<lock, cached>>
             \/ \E kept : \E r \in Requests : SpawnFails(r, kept) \/ \E p \in Procs : Spawn(r, p, kept)
  <2>1. ASSUME NEW r \in Requests
        PROVE  ~Initialized(r) /\ ~StartRaises(r) /\ ~InitializeFails(r)
    BY <1>7, LspInvParts DEF Initialized, StartRaises, InitializeFails
  <2>. QED
    BY <2>1, LspFrames DEF LspNext, ThreadStep, ServerStep, ServerExits, lspVars
<1>. QED
  BY <1>2, <1>3, <1>4, <1>5, <1>6, <1>7, LspInvParts

(* A pipe holds what it held, in what is written to it or left of it.        *)
LEMMA Written ==
  ASSUME NEW s \in Seq(Piece), NEW t \in Seq(Piece)
  PROVE  \A i \in DOMAIN (s \o t) :
           \/ \E j \in DOMAIN s : (s \o t)[i] = s[j]
           \/ \E j \in DOMAIN t : (s \o t)[i] = t[j]
<1>. SUFFICES ASSUME NEW i \in 1..(Len(s) + Len(t))
              PROVE  \/ \E j \in 1..Len(s) : (s \o t)[i] = s[j]
                     \/ \E j \in 1..Len(t) : (s \o t)[i] = t[j]
  OBVIOUS
<1>1. CASE i <= Len(s)
  BY <1>1
<1>2. CASE i > Len(s)
  <2>1. i - Len(s) \in 1..Len(t) /\ (s \o t)[i] = t[i - Len(s)]
    BY <1>2
  <2>. QED  BY <2>1
<1>. QED  BY <1>1, <1>2

LEMMA LeftOver ==
  ASSUME NEW S, NEW s \in Seq(S), s # <<>>
  PROVE  \A i \in DOMAIN Tail(s) : \E j \in DOMAIN s : Tail(s)[i] = s[j]
<1>1. \A i \in 1..(Len(s) - 1) : i + 1 \in 1..Len(s) /\ Tail(s)[i] = s[i + 1]
  OBVIOUS
<1>. QED  BY <1>1

(* What is in the pipes after any step was opened in their server's home.    *)
LEMMA PipesAfterStep ==
  ASSUME LspInv, LspTypeOK', [LspNext]_lspVars
  PROVE  PipesAreHome'
<1>. SUFFICES ASSUME NEW p \in Procs
              PROVE  /\ \A i \in DOMAIN stdin'[p] :
                          stdin'[p][i] \in Documents => Opened(req', stdin'[p][i], home'[p])
                     /\ \A i \in DOMAIN stdout'[p] :
                          stdout'[p][i].message.kind = "diagnostics"
                            => Opened(req', stdout'[p][i].message.about, home'[p])
  BY DEF PipesAreHome
<1>. DEFINE In(m) == m \in Documents => Opened(req', m, home'[p])
            Out(x) == x.message.kind = "diagnostics"
                        => Opened(req', x.message.about, home'[p])
<1>0. /\ \A i \in DOMAIN stdin[p] :
           stdin[p][i] \in Documents => Opened(req, stdin[p][i], home[p])
      /\ \A i \in DOMAIN stdout[p] :
           stdout[p][i].message.kind = "diagnostics"
             => Opened(req, stdout[p][i].message.about, home[p])
      /\ home[p] = None => stdin[p] = <<>> /\ stdout[p] = <<>>
      /\ stdin[p] \in Seq(Input) /\ stdout[p] \in Seq(Piece)
  BY LspInvParts DEF LspInv, PipesAreHome, ServersHaveHomes
<1>1. \A d : home[p] # None /\ Opened(req, d, home[p]) => Opened(req', d, home'[p])
  BY HomesStay, OpenedStays, LspInvParts
<1>2. \A i \in DOMAIN stdin[p] : In(stdin[p][i])
  <2>1. \A i \in DOMAIN stdin[p] : home[p] # None
    BY <1>0
  <2>. QED  BY <1>0, <1>1, <2>1
<1>3. \A i \in DOMAIN stdout[p] : Out(stdout[p][i])
  <2>1. \A i \in DOMAIN stdout[p] : home[p] # None
    BY <1>0
  <2>. QED  BY <1>0, <1>1, <2>1
<1>. HIDE DEF In, Out
<1>4. ASSUME NEW m \in Input, In(m), stdin'[p] = Append(stdin[p], m)
      PROVE  \A i \in DOMAIN stdin'[p] : In(stdin'[p][i])
  <2>1. \A i \in 1..Len(stdin[p]) : In(stdin[p][i])
    BY <1>0, <1>2
  <2>2. \A i \in 1..(Len(stdin[p]) + 1) :
          stdin'[p][i] = IF i \in 1..Len(stdin[p]) THEN stdin[p][i] ELSE m
    BY <1>0, <1>4
  <2>3. DOMAIN stdin'[p] = 1..(Len(stdin[p]) + 1)
    BY <1>0, <1>4
  <2>. QED  BY <1>4, <2>1, <2>2, <2>3
<1>5. \A i \in DOMAIN stdin'[p] : In(stdin'[p][i])
  <2>1. CASE stdin'[p] = stdin[p]
    BY <1>2, <2>1
  <2>2. ASSUME NEW r \in Requests, NEW kept, NEW s \in Procs, Spawn(r, s, kept)
        PROVE  stdin'[p] = stdin[p] \/ stdin'[p] = <<"initialize">>
    BY <2>2, LspInvParts DEF Spawn
  <2>3. stdin'[p] = <<"initialize">> => \A i \in DOMAIN stdin'[p] : In(stdin'[p][i])
    BY LspAssumption DEF In
  <2>4. ASSUME NEW r \in Requests, DidOpen(r), stdin'[p] # stdin[p]
        PROVE  \A i \in DOMAIN stdin'[p] : In(stdin'[p][i])
    <3>1. /\ req[r].proc \in alive /\ at(r) = "open"
          /\ stdin' = [stdin EXCEPT ![req[r].proc] = Append(stdin[req[r].proc], req[r].doc)]
      BY <2>4 DEF DidOpen
    <3>2. p = req[r].proc /\ stdin'[p] = Append(stdin[p], req[r].doc)
      BY <2>4, <3>1, LspInvParts
    <3>3. /\ req[r].doc \in Documents /\ req[r].ws \in Workspaces
          /\ home[p] = req[r].ws
      BY <3>1, <3>2, LspInvParts
    <3>5. Opened(req, req[r].doc, home[p]) /\ home[p] # None
      BY <3>3, LspInvParts DEF Opened
    <3>4. In(req[r].doc)
      BY <1>1, <3>5 DEF In
    <3>6. req[r].doc \in Input
      BY <3>3 DEF Input
    <3>. QED  BY <1>4, <3>2, <3>4, <3>6
  <2>5. ASSUME NEW r \in Requests, ReadOne(r), stdin'[p] # stdin[p]
        PROVE  \A i \in DOMAIN stdin'[p] : In(stdin'[p][i])
    <3>1. /\ req[r].proc \in alive
          /\ stdin' = [stdin EXCEPT ![req[r].proc] = Append(stdin[req[r].proc], "query")]
      BY <2>5 DEF ReadOne, Raises
    <3>2. p = req[r].proc /\ stdin'[p] = Append(stdin[p], "query")
      BY <2>5, <3>1, LspInvParts
    <3>3. "query" \in Input /\ In("query")
      BY LspAssumption DEF Input, In
    <3>. QED  BY <1>4, <3>2, <3>3
  <2>6. ASSUME NEW s \in Procs, ServerStep(s), stdin'[p] # stdin[p]
        PROVE  \A i \in DOMAIN stdin'[p] : In(stdin'[p][i])
    <3>1. stdin[p] # <<>> /\ stdin'[p] = Tail(stdin[p])
      BY <2>6, LspInvParts DEF ServerStep
    <3>. QED  BY <1>0, <1>2, <3>1, LeftOver
  <2>. QED
    BY <2>1, <2>2, <2>3, <2>4, <2>5, <2>6, LspFrames
    DEF LspNext, ThreadStep, ServerExits, lspVars
<1>6. \A i \in DOMAIN stdout'[p] : Out(stdout'[p][i])
  <2>1. CASE stdout'[p] = stdout[p]
    BY <1>3, <2>1
  <2>2. ASSUME NEW r \in Requests, StreamStep(r), stdout'[p] # stdout[p]
        PROVE  \A i \in DOMAIN stdout'[p] : Out(stdout'[p][i])
    <3>1. /\ stdout[p] # <<>>
          /\ \/ stdout'[p] = Tail(stdout[p])
             \/ stdout'[p] = <<LeftOf(Head(stdout[p]))>> \o Tail(stdout[p])
      <4>1. req[r].proc = p /\ Stream(r) = stdout[p]
        BY <2>2, LspInvParts DEF StreamStep, Take, Stream
      <4>. QED  BY <2>2, <4>1, LspInvParts DEF StreamStep, Take, Received
    <3>2. \A i \in DOMAIN Tail(stdout[p]) : Out(Tail(stdout[p])[i])
      <4>1. \A i \in DOMAIN Tail(stdout[p]) : \E j \in DOMAIN stdout[p] :
              Tail(stdout[p])[i] = stdout[p][j]
        BY <1>0, <3>1, LeftOver
      <4>. QED  BY <1>3, <4>1
    <3>3. CASE stdout'[p] = <<LeftOf(Head(stdout[p]))>> \o Tail(stdout[p])
      <4>. DEFINE t == <<LeftOf(Head(stdout[p]))>>
      <4>1. Head(stdout[p]) \in Piece /\ Tail(stdout[p]) \in Seq(Piece)
            /\ 1 \in DOMAIN stdout[p] /\ Head(stdout[p]) = stdout[p][1]
        BY <1>0, <3>1
      <4>2. /\ LeftOf(Head(stdout[p])).message = Head(stdout[p]).message
            /\ LeftOf(Head(stdout[p])) \in Piece
        BY <4>1 DEF LeftOf, PieceOf, Piece
      <4>3. Out(LeftOf(Head(stdout[p])))
        BY <1>3, <4>1, <4>2 DEF Out
      <4>4. t \in Seq(Piece) /\ \A i \in DOMAIN t : Out(t[i])
        BY <4>2, <4>3
      <4>. HIDE DEF t
      <4>5. \A i \in DOMAIN (t \o Tail(stdout[p])) :
              \/ \E j \in DOMAIN t : (t \o Tail(stdout[p]))[i] = t[j]
              \/ \E j \in DOMAIN Tail(stdout[p]) :
                   (t \o Tail(stdout[p]))[i] = Tail(stdout[p])[j]
        BY <4>1, <4>4, Written
      <4>6. stdout'[p] = t \o Tail(stdout[p])
        BY <3>3 DEF t
      <4>. QED  BY <3>2, <4>4, <4>5, <4>6
    <3>. QED  BY <3>1, <3>2, <3>3
  <2>4. ASSUME NEW s \in Procs, ServerStep(s), stdout'[p] # stdout[p]
        PROVE  \A i \in DOMAIN stdout'[p] : Out(stdout'[p][i])
    <3>. DEFINE input == Head(stdin[p])
    <3>8. PICK v \in Replies(Head(stdin[s])) : stdout' = [stdout EXCEPT ![s] = stdout[s] \o v]
      BY <2>4 DEF ServerStep
    <3>9. s = p
      BY <2>4, <3>8, LspInvParts
    <3>1. stdin[p] # <<>>
      BY <2>4, <3>9 DEF ServerStep
    <3>2. input \in Input /\ In(input)
      BY <1>0, <1>2, <3>1
    <3>7. PICK w \in Replies(input) : stdout'[p] = stdout[p] \o w
      BY <3>8, <3>9, LspInvParts
    <3>. HIDE DEF input
    <3>3. \A i \in DOMAIN w : Out(w[i])
      <4>1. Out(PieceOf("header", Notification)) /\ Out(PieceOf("body", Notification))
            /\ Out(PieceOf("header", Response)) /\ Out(PieceOf("body", Response))
        BY DEF Out, PieceOf, Notification, Response
      <4>2. input \in Documents => /\ Out(PieceOf("header", Diagnostics(input)))
                                    /\ Out(PieceOf("body", Diagnostics(input)))
        BY <3>2 DEF Out, In, PieceOf, Diagnostics
      <4>3. input \in Documents =>
              w = <<PieceOf("header", Notification), PieceOf("body", Notification),
                    PieceOf("header", Diagnostics(input)), PieceOf("body", Diagnostics(input))>>
        BY <3>7 DEF Replies, Sent
      <4>4. input \notin Documents => w \in {Sent(Response), Sent(Notification)}
        BY <3>7 DEF Replies
      <4>5. CASE input \in Documents
        BY <4>1, <4>2, <4>3, <4>5
      <4>6. CASE input \notin Documents
        BY <4>1, <4>4, <4>6 DEF Sent
      <4>. QED  BY <4>5, <4>6
    <3>4. w \in Seq(Piece)
      BY <3>2, <3>7, RepliesType
    <3>6. stdout[p] \in Seq(Piece)
      BY <1>0
    <3>5. \A i \in DOMAIN (stdout[p] \o w) :
            \/ \E j \in DOMAIN stdout[p] : (stdout[p] \o w)[i] = stdout[p][j]
            \/ \E j \in DOMAIN w : (stdout[p] \o w)[i] = w[j]
      BY <3>4, <3>6, Written
    <3>. QED  BY <1>3, <3>7, <3>3, <3>5
  <2>. QED
    BY <2>1, <2>2, <2>4, LspFrames DEF LspNext, ThreadStep, ServerExits, lspVars
<1>. QED  BY <1>5, <1>6 DEF In, Out

(* An error is reported of what was read from the workspace's own server.    *)
LEMMA ErrorsAfterStep ==
  ASSUME LspInv, [LspNext]_lspVars
  PROVE  ErrorsStayInTheirWorkspace'
<1>. SUFFICES ASSUME NEW r \in Requests, req'[r].answer = "errors"
              PROVE  \E d \in Broken : Opened(req', d, req'[r].ws)
  BY DEF ErrorsStayInTheirWorkspace, Opened
<1>1. CASE req[r].answer = "errors" /\ at(r) # "idle"
  <2>1. PICK d \in Broken : Opened(req, d, req[r].ws)
    BY <1>1 DEF LspInv, ErrorsStayInTheirWorkspace, Opened
  <2>2. req'[r].ws = req[r].ws /\ req[r].ws \in Workspaces
    BY <1>1, LspInvParts, RequestsAfterStep
  <2>. QED  BY <2>1, <2>2, OpenedStays
<1>2. ASSUME ReadCheck(r), BrokenAt(r)
      PROVE  \E d \in Broken : Opened(req', d, req'[r].ws)
  <2>1. at(r) = "reading" /\ req[r].proc \in Procs /\ home[req[r].proc] = req[r].ws
        /\ req[r].ws \in Workspaces
    BY <1>2, LspInvParts DEF ReadCheck
  <2>2. 1 \in DOMAIN stdout[req[r].proc] /\ Received(r) = stdout[req[r].proc][1]
    BY <1>2, <2>1, LspInvParts DEF Received, Stream, BrokenAt
  <2>3. Received(r).message.about \in Broken /\ Opened(req, Received(r).message.about, req[r].ws)
    BY <1>2, <2>1, <2>2 DEF LspInv, PipesAreHome, BrokenAt
  <2>4. req'[r].ws = req[r].ws
    BY <2>1, LspInvParts, RequestsAfterStep
  <2>. QED  BY <1>2, <2>1, <2>3, <2>4, OpenedStays
<1>3. CASE req'[r] = req[r]
  BY <1>1, <1>3, LspAssumption, LspInvParts DEF RequestsInOrder
<1>4. ASSUME NEW q \in Requests, NEW op \in Operations, NEW w \in Workspaces,
             NEW d \in Documents, LspCall(q, op, w, d)
      PROVE  req'[r] = req[r]
  <2>1. req[q].answer = None /\ req'[q].answer = req[q].answer
    BY <1>4, LspInvParts, CallMoves DEF LspCall, RequestsInOrder
  <2>. QED  BY <1>4, <2>1, LspInvParts, CallMoves, LspAssumption
<1>5. ASSUME NEW q \in Requests, ThreadStep(q)
      PROVE  \/ req'[r] = req[r]
             \/ req[r].answer = "errors" /\ at(r) # "idle"
             \/ ReadCheck(r) /\ BrokenAt(r)
  <2>1. ASSUME NEW x, NEW p, NEW a, Moves(q, x, p, a), a = req[q].answer \/ a # "errors"
        PROVE  req'[r] = req[r] \/ req[r].answer = "errors"
    BY <2>1 DEF Moves
  <2>2. at(r) = "idle" => req[r].answer # "errors"
    BY LspInvParts, LspAssumption DEF RequestsInOrder
  <2>3. ASSUME Reuse(q) \/ \E kept : SpawnFails(q, kept) \/ \E p \in Procs : Spawn(q, p, kept)
        PROVE  req'[r] = req[r] \/ req[r].answer = "errors"
    BY <2>1, <2>3, LspInvParts, ThreadMoves
  <2>4. ASSUME StartEnds(q) \/ DidOpen(q) \/ NoSuchFile(q)
        PROVE  req'[r] = req[r] \/ req[r].answer = "errors"
    BY <2>1, <2>4, LspInvParts, ThreadMoves DEF StartEnds
  <2>7. ASSUME ReadsOn(q)
        PROVE  req'[r] = req[r]
    BY <2>7 DEF ReadsOn
  <2>5. ASSUME ReadOne(q) \/ ReadReply(q) \/ Touch(q)
        PROVE  req'[r] = req[r] \/ req[r].answer = "errors"
    BY <2>1, <2>5, LspInvParts, ThreadMoves
  <2>6. CASE ReadCheck(q)
    <3>1. CASE UNCHANGED req
      BY <3>1
    <3>2. CASE \E a \in {"ok", "raised"} : Moves(q, "touching", req[q].proc, a)
      BY <2>1, <2>2, <3>2
    <3>3. CASE BrokenAt(q) /\ Moves(q, "touching", req[q].proc, "errors")
      BY <2>6, <3>3 DEF Moves
    <3>. QED  BY <2>6, <3>1, <3>2, <3>3, LspInvParts, ThreadMoves
  <2>. QED  BY <1>5, <2>2, <2>3, <2>4, <2>5, <2>6, <2>7 DEF ThreadStep, StartEnds
<1>. QED
  BY <1>1, <1>2, <1>3, <1>4, <1>5 DEF LspNext, ServerStep, ServerExits, lspVars

(* The first state: nothing is cached, nobody started anything.              *)
LEMMA LspInitInv == LspInit => LspInv
<1>. SUFFICES ASSUME LspInit PROVE LspInv
  OBVIOUS
<1>1. LspTypeOK
  BY LspAssumption DEF LspInit, LspTypeOK, Request, LspPhases, LspAnswers, Operations, at,
     AtLine, Reading
<1>2. Keys(cached) = {} /\ lock = None /\ alive = {}
  BY DEF LspInit, Keys
<1>3. IsFiniteSet(Keys(cached)) /\ Cardinality(Keys(cached)) = 0
  BY <1>2, FS_EmptySet
<1>4. 0 <= MaxSize
  BY LspAssumption
<1>5. RoomIsKept
  BY <1>2, <1>3, <1>4 DEF RoomIsKept
<1>6. RequestsInOrder
  BY DEF LspInit, RequestsInOrder, at
<1>7. ServersHaveHomes /\ PipesAreHome
  BY <1>2 DEF LspInit, ServersHaveHomes, PipesAreHome
<1>8. ErrorsStayInTheirWorkspace
  BY LspAssumption DEF LspInit, ErrorsStayInTheirWorkspace
<1>9. OnlyRaisingStartsLeak
  BY <1>2, <1>3, <1>4 DEF OnlyRaisingStartsLeak
<1>10. \A r \in Requests : req[r].answer # "not_started"
  <2>1. \A r \in Requests : req[r].answer = None
    BY DEF LspInit
  <2>. QED  BY <2>1, LspAssumption
<1>. QED  BY <1>1, <1>5, <1>6, <1>7, <1>8, <1>9, <1>10 DEF LspInv

(* The start of a server ended in an exception.                              *)
Abandoned(p) == \E r \in Requests : req[r].proc = p /\ req[r].answer = "not_started"

(* A live server is the cached one of its workspace, is being started, or    *)
(* was abandoned.                                                            *)
Kept(p) ==
  \/ cached[home[p]] = p
  \/ lock # None /\ req[lock].proc = p
  \/ Abandoned(p)

(* What was abandoned stays so: the request that started it is at its end.   *)
AbandonedAreDone == \A r \in Requests : req[r].answer = "not_started" => at(r) = "done"

LEMMA AbandonedStay ==
  ASSUME LspInv, [LspNext]_lspVars
  PROVE  /\ AbandonedAreDone'
         /\ \A p \in Procs : Abandoned(p) => Abandoned(p)'
<1>. USE DEF AbandonedAreDone
<1>0. AbandonedAreDone /\ None \notin Procs
  BY LspInvParts DEF LspInv
<1>1. ASSUME NEW r \in Requests, NEW op \in Operations, NEW w \in Workspaces,
             NEW d \in Documents, LspCall(r, op, w, d)
      PROVE  /\ req[r].answer # "not_started"
             /\ \A q \in Requests \ {r} : req'[q] = req[q]
             /\ req'[r].answer = "not_started" => req'[r].pc = "done"
  <2>1. at(r) = "idle" /\ req[r].answer # "not_started"
    BY <1>0, <1>1 DEF LspCall
  <2>2. req'[r].answer = req[r].answer /\ \A q \in Requests \ {r} : req'[q] = req[q]
    BY <1>1, LspInvParts, CallMoves
  <2>. QED  BY <2>1, <2>2
<1>2. ASSUME NEW r \in Requests, ThreadStep(r)
      PROVE  \/ UNCHANGED req
             \/ /\ req[r].answer # "not_started"
                /\ \A q \in Requests \ {r} : req'[q] = req[q]
                /\ req'[r].answer = "not_started" => req'[r].pc = "done"
  <2>1. at(r) # "done"
    BY <1>2 DEF ThreadStep, Reuse, SpawnFails, Spawn, Initialized, StartRaises,
       InitializeFails, DidOpen, NoSuchFile, ReadsOn, InRead, ReadCheck, ReadOne, ReadReply,
       Touch
  <2>2. req[r].answer # "not_started"
    BY <1>0, <2>1
  <2>3. ASSUME NEW x, NEW p, NEW a, Moves(r, x, p, a),
               a = "not_started" => x = "done"
        PROVE  /\ \A q \in Requests \ {r} : req'[q] = req[q]
               /\ req'[r].answer = "not_started" => req'[r].pc = "done"
    BY <2>3 DEF Moves
  <2>4. UNCHANGED req \/ \E x, p, a : Moves(r, x, p, a) /\ (a = "not_started" => x = "done")
    <3>1. Reuse(r) \/ (\E kept : SpawnFails(r, kept) \/ \E p \in Procs : Spawn(r, p, kept))
            => \E x, p, a : Moves(r, x, p, a) /\ (a = "not_started" => x = "done")
      BY <2>2, LspInvParts, ThreadMoves
    <3>2. Initialized(r) \/ DidOpen(r) \/ NoSuchFile(r)
            => \E x, p, a : Moves(r, x, p, a) /\ (a = "not_started" => x = "done")
      <4>1. Initialized(r) => Moves(r, "open", req[r].proc, req[r].answer)
        BY LspInvParts, ThreadMoves
      <4>2. DidOpen(r) => \/ Moves(r, "reading", req[r].proc, req[r].answer)
                          \/ Moves(r, "touching", req[r].proc, "raised")
        BY LspInvParts, ThreadMoves
      <4>3. NoSuchFile(r) => \E a \in {"not_ok", "goals"} : Moves(r, "touching", req[r].proc, a)
        BY LspInvParts, ThreadMoves
      <4>. QED  BY <2>2, <4>1, <4>2, <4>3
    <3>5. StartRaises(r) \/ InitializeFails(r)
            => \E x, p, a : Moves(r, x, p, a) /\ (a = "not_started" => x = "done")
      BY LspInvParts, ThreadMoves
    <3>3. ReadOne(r) \/ ReadReply(r) \/ Touch(r)
            => \E x, p, a : Moves(r, x, p, a) /\ (a = "not_started" => x = "done")
      BY <2>2, LspInvParts, ThreadMoves
    <3>4. ReadCheck(r) \/ ReadsOn(r)
            => UNCHANGED req
                 \/ \E x, p, a : Moves(r, x, p, a) /\ (a = "not_started" => x = "done")
      <4>1. ReadCheck(r) \/ ReadsOn(r)
              => \/ UNCHANGED req
                 \/ \E a \in {"ok", "raised", "errors"} : Moves(r, "touching", req[r].proc, a)
        BY LspInvParts, ThreadMoves
      <4>2. \A a \in {"ok", "raised", "errors"} : a # "not_started"
        OBVIOUS
      <4>. QED  BY <4>1, <4>2
    <3>. QED  BY <1>2, <3>1, <3>2, <3>3, <3>4, <3>5 DEF ThreadStep
  <2>. QED  BY <2>2, <2>3, <2>4
<1>3. \/ UNCHANGED req
      \/ \E r \in Requests :
           /\ req[r].answer # "not_started"
           /\ \A q \in Requests \ {r} : req'[q] = req[q]
           /\ req'[r].answer = "not_started" => req'[r].pc = "done"
  BY <1>1, <1>2 DEF LspNext, ServerStep, ServerExits, lspVars
<1>4. AbandonedAreDone'
  <2>1. CASE UNCHANGED req
    BY <1>0, <2>1 DEF at
  <2>2. CASE ~(UNCHANGED req)
    <3>1. PICK r \in Requests :
            /\ \A q \in Requests \ {r} : req'[q] = req[q]
            /\ req'[r].answer = "not_started" => req'[r].pc = "done"
      BY <1>3, <2>2
    <3>. QED  BY <1>0, <3>1 DEF at
  <2>. QED  BY <2>1, <2>2
<1>5. ASSUME NEW p \in Procs, NEW r \in Requests, req[r].proc = p, req[r].answer = "not_started"
      PROVE  Abandoned(p)'
  <2>1. ASSUME ~(UNCHANGED req)
        PROVE  req'[r] = req[r]
    <3>1. PICK q \in Requests :
            /\ req[q].answer # "not_started"
            /\ \A t \in Requests \ {q} : req'[t] = req[t]
      BY <1>3, <2>1
    <3>. QED  BY <1>5, <3>1
  <2>2. req'[r] = req[r]
    BY <2>1
  <2>. QED  BY <1>5, <2>2 DEF Abandoned
<1>. QED  BY <1>4, <1>5 DEF Abandoned

(* No live server is forgotten but by an exception.                          *)
LEMMA KeptAfterStep ==
  ASSUME LspInv, LspTypeOK', [LspNext]_lspVars,
         \A p \in alive : Kept(p)
  PROVE  \A p \in alive' : Kept(p)'
<1>. SUFFICES ASSUME NEW p \in alive' PROVE Kept(p)'
  OBVIOUS
<1>0. p \in Procs
  BY DEF LspTypeOK
<1>5. CASE Abandoned(p)
  BY <1>0, <1>5, AbandonedStay DEF Kept
<1>1. CASE lock # None /\ ~StartEnds(lock)
  <2>1. /\ UNCHANGED <<lock, cached>> /\ req'[lock] = req[lock]
        /\ alive' \subseteq alive
    BY <1>1, HolderWaits
  <2>2. p \in alive /\ home'[p] = home[p]
    BY <2>1, HomesStay, LspInvParts DEF ServersHaveHomes
  <2>. QED  BY <1>5, <2>1, <2>2 DEF Kept
<1>2. ASSUME NEW r \in Requests, Initialized(r), ~Abandoned(p)
      PROVE  Kept(p)'
  <2>1. lock = r /\ lock # None
    BY <1>2, LspInvParts DEF Initialized
  <2>2. p \in alive /\ UNCHANGED <<home, alive>>
    BY <1>2 DEF Initialized
  <2>3. req[r].ws \in Workspaces /\ req[r].proc \in Procs /\ home[req[r].proc] = req[r].ws
    BY <1>2, LspInvParts DEF Initialized
  <2>4. cached' = [cached EXCEPT ![req[r].ws] = req[r].proc]
    BY <1>2 DEF Initialized
  <2>5. CASE p = req[r].proc
    <3>1. cached'[home'[p]] = p
      BY <2>2, <2>3, <2>4, <2>5, LspInvParts
    <3>. QED  BY <3>1 DEF Kept
  <2>6. CASE p # req[r].proc
    <3>1. cached[home[p]] = p
      BY <1>2, <2>1, <2>2, <2>6 DEF Kept
    <3>2. home[p] \in Workspaces
      BY <1>0, <2>2, LspInvParts DEF ServersHaveHomes
    <3>3. home[p] \in Keys(cached) /\ req[r].ws \notin Keys(cached)
      BY <1>0, <2>1, <3>1, <3>2, LspInvParts DEF LspInv, RoomIsKept, Keys
    <3>4. home[p] # req[r].ws
      BY <3>3
    <3>5. cached'[home'[p]] = p
      BY <2>2, <2>4, <3>1, <3>2, <3>4, LspInvParts
    <3>. QED  BY <3>5 DEF Kept
  <2>. QED  BY <2>5, <2>6
<1>3. ASSUME NEW r \in Requests, StartRaises(r) \/ InitializeFails(r), ~Abandoned(p)
      PROVE  Kept(p)'
  <2>1. lock = r /\ UNCHANGED <<cached, home>> /\ alive' \subseteq alive
    BY <1>3, LspInvParts DEF StartRaises, InitializeFails
  <2>2. \/ Moves(r, "done", req[r].proc, "not_started")
        \/ req[r].proc \notin alive'
    BY <1>3, LspInvParts, ThreadMoves
  <2>3. CASE req[r].proc = p
    <3>1. req'[r].proc = p /\ req'[r].answer = "not_started"
      BY <2>2, <2>3 DEF Moves
    <3>. QED  BY <3>1 DEF Kept, Abandoned
  <2>4. CASE req[r].proc # p
    <3>1. cached[home[p]] = p
      BY <1>3, <2>1, <2>4 DEF Kept
    <3>. QED  BY <2>1, <3>1 DEF Kept
  <2>. QED  BY <2>3, <2>4
<1>4. ASSUME lock = None, ~Abandoned(p)
      PROVE  Kept(p)'
  <2>1. p \in alive => cached[home[p]] = p /\ home[p] \in Workspaces
    BY <1>4, LspInvParts DEF Kept, ServersHaveHomes
  <2>2. ASSUME NEW kept, cached' = Restricted(kept), p \in StillAlive(kept),
               home'[p] = home[p]
        PROVE  Kept(p)'
    <3>1. p \in alive /\ ~(\E w \in Keys(cached) \ kept : cached[w] = p)
      BY <2>2 DEF StillAlive
    <3>2. home[p] \in Keys(cached)
      BY <1>0, <2>1, <3>1, LspInvParts DEF Keys
    <3>3. home[p] \in kept
      BY <2>1, <3>1, <3>2
    <3>4. cached'[home'[p]] = p
      <4>1. home[p] \in Workspaces /\ cached[home[p]] = p
        BY <2>1, <3>1
      <4>2. Restricted(kept)[home[p]] = cached[home[p]]
        BY <3>3, <4>1, LspInvParts, RestrictedCache
      <4>. QED  BY <2>2, <4>1, <4>2
    <3>. QED  BY <3>4 DEF Kept
  <2>3. ASSUME NEW r \in Requests, NEW kept, SpawnFails(r, kept)
        PROVE  Kept(p)'
    BY <2>2, <2>3 DEF SpawnFails
  <2>4. ASSUME NEW r \in Requests, NEW kept, NEW s \in Procs, Spawn(r, s, kept)
        PROVE  Kept(p)'
    <3>1. CASE p = s
      <4>1. lock' = r /\ Moves(r, "starting", s, req[r].answer)
        BY <2>4, LspInvParts, ThreadMoves DEF Spawn
      <4>. QED  BY <3>1, <4>1, LspInvParts DEF Kept, Moves, at
    <3>2. CASE p # s
      <4>1. home'[p] = home[p] /\ cached' = Restricted(kept) /\ p \in StillAlive(kept)
        BY <1>0, <2>4, <3>2, LspInvParts DEF Spawn
      <4>. QED  BY <2>2, <4>1
    <3>. QED  BY <3>1, <3>2
  <2>5. CASE UNCHANGED <<cached, home>> /\ alive' \subseteq alive
    <3>1. cached'[home'[p]] = p
      BY <2>1, <2>5
    <3>. QED  BY <3>1 DEF Kept
  <2>6. ASSUME NEW s \in Procs, ServerExits(s)
        PROVE  UNCHANGED <<cached, home>> /\ alive' \subseteq alive
    BY <2>6 DEF ServerExits
  <2>7. ASSUME NEW s \in Procs, ServerStep(s)
        PROVE  UNCHANGED <<cached, home>> /\ alive' \subseteq alive
    BY <2>7 DEF ServerStep
  <2>8. ASSUME NEW r \in Requests
        PROVE  ~Initialized(r) /\ ~StartRaises(r) /\ ~InitializeFails(r)
    BY <1>4, LspInvParts DEF Initialized, StartRaises, InitializeFails
  <2>. QED
    BY <2>3, <2>4, <2>5, <2>6, <2>7, <2>8, LspFrames DEF LspNext, ThreadStep, lspVars
<1>. QED  BY <1>1, <1>2, <1>3, <1>4, <1>5, LspInvParts DEF StartEnds

(* Every step keeps the invariant.                                           *)
LEMMA LspNextInv ==
  ASSUME LspInv, [LspNext]_lspVars
  PROVE  LspInv'
<1>1. LspTypeOK'
  BY LspInvParts, LspNextType
<1>2. RequestsInOrder' /\ ServersHaveHomes' /\ RoomIsKept' /\ PipesAreHome'
      /\ ErrorsStayInTheirWorkspace'
  BY <1>1, LspInvParts, RequestsAfterStep, HomesAfterStep, RoomAfterStep,
     PipesAfterStep, ErrorsAfterStep
<1>3. OnlyRaisingStartsLeak'
  <2>1. \A p \in alive : Kept(p)
    BY DEF LspInv, OnlyRaisingStartsLeak, Kept, Abandoned
  <2>2. \A p \in alive' : Kept(p)'
    BY <1>1, <2>1, KeptAfterStep
  <2>. QED  BY <1>2, <2>2 DEF OnlyRaisingStartsLeak, Kept, Abandoned, RoomIsKept
<1>4. AbandonedAreDone'
  BY AbandonedStay
<1>. QED  BY <1>1, <1>2, <1>3, <1>4 DEF LspInv, AbandonedAreDone

(* So it holds in every state of the cache.                                  *)
LEMMA LspInvariant == LspSpec => []LspInv
<1>1. LspInv /\ [LspNext]_lspVars => LspInv'
  BY LspNextInv
<1>. QED  BY <1>1, LspInitInv, PTL DEF LspSpec

(* Types; whoever waits for a new server, and nobody else, holds the lock of *)
(* _get_or_create_lsp.                                                       *)
THEOREM LspTypeCorrect == LspSpec => []LspTypeOK
<1>1. LspInv => LspTypeOK
  BY DEF LspInv
<1>. QED  BY <1>1, LspInvariant, PTL

(* The cache of language servers never holds more than _LSP_MAX_SIZE, however*)
(* starts, deaths and evictions interleave with the requests that read: the  *)
(* room that eviction made is still there when the new entry is written.     *)
THEOREM CacheKeepsItsLimit == LspSpec => [](Cardinality(Keys(cached)) <= MaxSize)
<1>1. LspInv => Cardinality(Keys(cached)) <= MaxSize
  BY DEF LspInv, RoomIsKept
<1>. QED  BY <1>1, LspInvariant, PTL

(* Whatever a server writes and however its header ends, a live one is the    *)
(* cached server of its workspace, the one being started under the lock, or  *)
(* one whose start ended in an exception: evictions, deaths and starts that  *)
(* return None forget none.                                                  *)
THEOREM ServersAreAccountedFor == LspSpec => []OnlyRaisingStartsLeak
<1>1. LspInv => OnlyRaisingStartsLeak
  BY DEF LspInv
<1>. QED  BY <1>1, LspInvariant, PTL

(* Whatever server answers whoever reads it first, an error that a check     *)
(* reports is of a document that some request opened in the same workspace.  *)
THEOREM ErrorsAreOfTheWorkspace == LspSpec => []ErrorsStayInTheirWorkspace
<1>1. LspInv => ErrorsStayInTheirWorkspace
  BY DEF LspInv
<1>. QED  BY <1>1, LspInvariant, PTL

(* With the standard header of the language server protocol no server is     *)
(* ever cached and no request gets past the start of one.                    *)
NothingServed ==
  /\ \A w \in Workspaces : cached[w] = None
  /\ \A r \in Requests : /\ at(r) \in {"idle", "called", "starting", "done"}
                          /\ req[r].answer \in {None, "not_ok", "not_started"}

LEMMA NothingServedStays ==
  ASSUME StandardFraming, LspInv, NothingServed, [LspNext]_lspVars
  PROVE  NothingServed'
<1>1. \A w \in Workspaces : ~Usable(w)
  BY LspInvParts DEF NothingServed, Usable, server_of
<1>2. ASSUME NEW r \in Requests, ThreadStep(r)
      PROVE  \/ \E kept : SpawnFails(r, kept) \/ \E p \in Procs : Spawn(r, p, kept)
             \/ StartRaises(r) \/ InitializeFails(r) \/ ReadsOn(r)
  <2>1. at(r) \in {"idle", "called", "starting", "done"}
    BY DEF NothingServed
  <2>2. ~Reuse(r)
    <3>1. at(r) = "called" => req[r].ws \in Workspaces
      BY LspInvParts
    <3>. QED  BY <1>1, <3>1 DEF Reuse
  <2>3. ~DidOpen(r) /\ ~NoSuchFile(r) /\ ~ReadCheck(r) /\ ~ReadOne(r) /\ ~ReadReply(r)
        /\ ~Touch(r) /\ ~Initialized(r)
    BY <2>1 DEF Initialized, DidOpen, NoSuchFile, ReadCheck, ReadOne, ReadReply, Touch
  <2>. QED  BY <1>2, <2>2, <2>3 DEF ThreadStep
<1>3. \A w \in Workspaces : cached'[w] = None
  <2>1. ASSUME NEW kept, cached' = Restricted(kept)
        PROVE  \A w \in Workspaces : cached'[w] = None
    BY <2>1, LspInvParts, RestrictedCache DEF NothingServed
  <2>2. CASE UNCHANGED cached
    BY <2>2 DEF NothingServed
  <2>. QED
    BY <1>2, <2>1, <2>2, LspFrames
    DEF LspNext, SpawnFails, Spawn, ServerStep, ServerExits, lspVars
<1>4. ASSUME NEW r \in Requests, NEW x, NEW p, NEW a, Moves(r, x, p, a),
             x \in {"starting", "done"}, a \in {req[r].answer, "not_ok", "not_started"},
             NEW q \in Requests
      PROVE  /\ req'[q].pc \in {"idle", "called", "starting", "done"}
             /\ req'[q].answer \in {None, "not_ok", "not_started"}
  BY <1>4 DEF Moves, NothingServed, at
<1>5. ASSUME NEW q \in Requests
      PROVE  /\ req'[q].pc \in {"idle", "called", "starting", "done"}
             /\ req'[q].answer \in {None, "not_ok", "not_started"}
  <2>1. ASSUME NEW r \in Requests, NEW op \in Operations, NEW w \in Workspaces,
               NEW d \in Documents, LspCall(r, op, w, d)
        PROVE  /\ req'[q].pc \in {"idle", "called", "starting", "done"}
               /\ req'[q].answer \in {None, "not_ok", "not_started"}
    BY <2>1, LspInvParts, CallMoves DEF NothingServed, at
  <2>2. ASSUME NEW r \in Requests, ThreadStep(r)
        PROVE  \/ UNCHANGED req
               \/ \E x, p, a : /\ Moves(r, x, p, a) /\ x \in {"starting", "done"}
                               /\ a \in {req[r].answer, "not_ok", "not_started"}
    <3>1. ASSUME NEW kept, SpawnFails(r, kept) \/ \E p \in Procs : Spawn(r, p, kept)
          PROVE  \E x, p, a : /\ Moves(r, x, p, a) /\ x \in {"starting", "done"}
                              /\ a \in {req[r].answer, "not_ok", "not_started"}
      BY <3>1, LspInvParts, ThreadMoves
    <3>2. CASE StartRaises(r) \/ InitializeFails(r) \/ ReadsOn(r)
      BY <3>2, LspInvParts, ThreadMoves
    <3>. QED  BY <1>2, <2>2, <3>1, <3>2
  <2>3. CASE UNCHANGED req
    BY <2>3 DEF NothingServed, at
  <2>. QED
    BY <1>4, <2>1, <2>2, <2>3 DEF LspNext, ServerStep, ServerExits, lspVars
<1>. QED  BY <1>3, <1>5 DEF NothingServed, at

(* What the code's framing comes to: a server that ends its header the       *)
(* standard way answers nobody. Every request for it is not ok or raises out  *)
(* of the start.                                                             *)
THEOREM StandardFramingAnswersNobody ==
  ASSUME StandardFraming
  PROVE  LspSpec => [](\A r \in Requests : req[r].answer \in {None, "not_ok", "not_started"})
<1>1. LspInit => NothingServed
  BY DEF LspInit, NothingServed, at
<1>2. LspInv /\ NothingServed /\ [LspNext]_lspVars => NothingServed'
  BY NothingServedStays
<1>3. NothingServed => \A r \in Requests : req[r].answer \in {None, "not_ok", "not_started"}
  BY DEF NothingServed
<1>. QED  BY <1>1, <1>2, <1>3, LspInvariant, PTL DEF LspSpec
=============================================================================
