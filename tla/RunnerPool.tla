------------------------------ MODULE RunnerPool ------------------------------
(* How the gateway runs Lean: interactive checks and batch verifications call *)
(* a runner (runner.py), perhaps through a semaphore, that starts a command   *)
(* on the host, in a container or in a microVM and waits with a time limit;   *)
(* the interactive check does so in a worker thread of its own with a second  *)
(* time limit (worker_runner.py).                                             *)
EXTENDS Integers, FiniteSets

CONSTANTS
  Unset,          \* an environment variable without a value
  Calls,          \* requests the gateway serves
  Environments    \* settings the gateway may be started with

Kinds == {"interactive", "batch"}
RunnerNames == {"local", "container", "microvm"}
Backends == {"LocalRunner", "ContainerRunner", "MicroVMRunner", "FirecrackerRunner"}

(* The settings read by get_runner; a limit that is not a number is a name.  *)
Environment ==
  [OBR_INTERACTIVE_RUNNER : RunnerNames \cup {Unset},
   OBR_BATCH_RUNNER : RunnerNames \cup {Unset},
   OBR_WORKER_RUNNER : RunnerNames \cup {Unset},
   OBR_MICROVM_RUNTIME : {"runsc", "firecracker", Unset},
   OBR_INTERACTIVE_RUNNER_MAX : Int \cup {Unset},
   OBR_BATCH_RUNNER_MAX : Int \cup {Unset}]

ASSUME RunnerAssumption ==
  /\ IsFiniteSet(Calls)
  /\ Unset \notin RunnerNames \cup {"runsc", "firecracker"} \cup Int
  /\ Environments \subseteq Environment

VARIABLES
  env,       \* the settings the gateway was started with
  permits,   \* the semaphores' counters
  call,      \* the requests
  command,   \* the command of a request's current or last run
  left       \* requests a run of which has left processes behind

vars == <<env, permits, call, command, left>>

(* get_runner and _microvm_runner.                                           *)
runner_env(k) ==
  LET own == IF k = "interactive" THEN env.OBR_INTERACTIVE_RUNNER
             ELSE env.OBR_BATCH_RUNNER
  IN IF own # Unset THEN own ELSE env.OBR_WORKER_RUNNER
get_runner(k) ==
  CASE runner_env(k) = "container" -> "ContainerRunner"
    [] runner_env(k) = "microvm" ->
         IF env.OBR_MICROVM_RUNTIME = "firecracker"
         THEN "FirecrackerRunner" ELSE "MicroVMRunner"
    [] OTHER -> "LocalRunner"

(* _maybe_pool_limit: only a positive number limits; anything else does not. *)
setting(k) == IF k = "interactive" THEN env.OBR_INTERACTIVE_RUNNER_MAX
              ELSE env.OBR_BATCH_RUNNER_MAX
Limited(k) == setting(k) # Unset /\ setting(k) >= 1

Phases == {"idle", "waiting", "starting", "running", "returned"}
Answers == {Unset, "result", "TimeoutError", "raised"}

(* pc and runs are where the thread that uses the runner is, and how many    *)
(* runs it has left; ok, that each run so far has returned 0; answer is what *)
(* the request's caller was told.                                            *)
Call == [kind : Kinds, pc : Phases, runs : 0..3, ok : BOOLEAN, failed : BOOLEAN,
         expired : BOOLEAN, answer : Answers]

RunnerInit ==
  /\ env \in Environments
  /\ permits = [k \in Kinds |-> IF Limited(k) THEN setting(k) ELSE 0]
  /\ call \in [Calls -> {[kind |-> k, pc |-> "idle", runs |-> 0, ok |-> TRUE,
                          failed |-> FALSE, expired |-> FALSE, answer |-> Unset] : k \in Kinds}]
  /\ command = [c \in Calls |-> "none"]
  /\ left = {}

pc(c) == call[c].pc
kind(c) == call[c].kind

(* A request comes in. batch_verify runs build, audit and fresh checker in   *)
(* turn; an interactive check submits one run to a worker thread and waits   *)
(* for it with a time limit.                                                 *)
Submit(c) ==
  /\ pc(c) = "idle"
  /\ call' = [call EXCEPT ![c].pc = "waiting",
                          ![c].runs = IF kind(c) = "batch" THEN 3 ELSE 1]
  /\ UNCHANGED <<env, permits, command, left>>

(* The semaphore, when there is one.                                         *)
Acquire(c) ==
  /\ pc(c) = "waiting"
  /\ Limited(kind(c)) => permits[kind(c)] > 0
  /\ permits' = IF Limited(kind(c)) THEN [permits EXCEPT ![kind(c)] = @ - 1]
                ELSE permits
  /\ call' = [call EXCEPT ![c].pc = "starting"]
  /\ UNCHANGED <<env, command, left>>

Start(c) ==
  /\ pc(c) = "starting"
  /\ call' = [call EXCEPT ![c].pc = "running"]
  /\ command' = [command EXCEPT ![c] = "running"]
  /\ UNCHANGED <<env, permits, left>>

(* finally: the permit goes back, whether the run returned or raised.        *)
KeptOnException(c) ==      \* a mistake: released only after a normal return
  IF Limited(kind(c)) /\ ~call'[c].failed
  THEN [permits EXCEPT ![kind(c)] = @ + 1] ELSE permits
release(c) ==
  IF Limited(kind(c)) THEN [permits EXCEPT ![kind(c)] = @ + 1] ELSE permits

(* A mistake: one run more than there are tools.                             *)
ReturnOneTooMany(c, ok) ==
  /\ call' = [call EXCEPT ![c].runs = @ - 1, ![c].ok = ok,
                ![c].pc = IF call[c].runs = 0 THEN "returned" ELSE "waiting"]
  /\ permits' = release(c)
  /\ UNCHANGED env

(* The run returned some exit code, -1 for OSError and the time limit. The   *)
(* audit and the fresh checker run whatever the run before them returned.    *)
Return(c, ok) ==
  /\ call' = [call EXCEPT ![c].runs = @ - 1, ![c].ok = ok,
                ![c].pc = IF call[c].runs = 1 THEN "returned" ELSE "waiting"]
  /\ permits' = release(c)
  /\ UNCHANGED env

CommandNotFound(c) ==
  /\ pc(c) = "starting"
  /\ Return(c, FALSE)
  /\ UNCHANGED <<command, left>>

(* subprocess.run waits for what it started, or kills it, and only that: the *)
(* command's own children, and those of a firecracker script, may go on. The *)
(* client of a container has returned 0 when all of the container has ended; *)
(* when it failed or was killed, the container may go on.                    *)
Contained(c) == get_runner(kind(c)) \in {"ContainerRunner", "MicroVMRunner"}
MayLeave(c) == left' \in {left, left \cup {c}}

Finish(c) ==
  /\ pc(c) = "running"
  /\ command' = [command EXCEPT ![c] = "ended"]
  /\ \/ /\ Return(c, call[c].ok)
        /\ IF Contained(c) THEN UNCHANGED left ELSE MayLeave(c)
     \/ Return(c, FALSE) /\ MayLeave(c)

(* A mistake: the exit code of a run that was killed is taken for 0.         *)
KilledIsOk(c) ==
  /\ pc(c) = "running"
  /\ command' = [command EXCEPT ![c] = "ended"]
  /\ MayLeave(c) /\ Return(c, call[c].ok)

TimeLimit(c) ==
  /\ pc(c) = "running"
  /\ command' = [command EXCEPT ![c] = "ended"]
  /\ MayLeave(c) /\ Return(c, FALSE)

(* Output that is not text raises once the command has closed its output; no *)
(* runner catches it, and the request ends there. The exit code is lost.     *)
Undecodable(c) ==
  /\ pc(c) = "running"
  /\ call' = [call EXCEPT ![c].pc = "returned", ![c].failed = TRUE]
  /\ command' = [command EXCEPT ![c] = "ended"]
  /\ permits' = release(c)
  /\ MayLeave(c)
  /\ UNCHANGED env

(* run_with_timeout: the limit counts from the submission, so a run that     *)
(* waited for its permit is charged for the waiting.                         *)
Expire(c) ==
  /\ kind(c) = "interactive"
  /\ pc(c) \notin {"idle", "returned"} /\ ~call[c].expired
  /\ call' = [call EXCEPT ![c].expired = TRUE]
  /\ UNCHANGED <<env, permits, command, left>>

(* The caller of an expired run still waits, at the end of the `with` block, *)
(* for the worker thread to finish.                                          *)
LeavesWhenExpired(c) ==    \* a mistake: shutdown(wait=False)
  pc(c) = "returned" \/ call[c].expired
worker_done(c) == pc(c) = "returned"

Answer(c) ==
  /\ worker_done(c) /\ call[c].answer = Unset
  /\ call' = [call EXCEPT ![c].answer =
       CASE call[c].expired -> "TimeoutError"
         [] call[c].failed -> "raised"
         [] OTHER -> "result"]
  /\ UNCHANGED <<env, permits, command, left>>

(* What was left behind comes to its end.                                    *)
LeftoversEnd(c) ==
  /\ c \in left
  /\ left' = left \ {c}
  /\ UNCHANGED <<env, permits, call, command>>

CallStep(c) ==
  \/ Acquire(c) \/ Start(c) \/ CommandNotFound(c)
  \/ Finish(c) \/ TimeLimit(c) \/ Undecodable(c)
  \/ Answer(c)
RunnerNext ==
  \E c \in Calls : Submit(c) \/ CallStep(c) \/ Expire(c) \/ LeftoversEnd(c)

RunnerSpec == RunnerInit /\ [][RunnerNext]_vars

(* A run ends by itself or at its time limit. A waiting thread gets a permit *)
(* in the end: each thread takes at most three.                              *)
RunnerFairness == \A c \in Calls : WF_vars(CallStep(c))
-----------------------------------------------------------------------------
(* Types; runs counts down to nothing.                                       *)
RunnerTypeOK ==
  /\ env \in Environments
  /\ permits \in [Kinds -> Int]
  /\ call \in [Calls -> Call]
  /\ command \in [Calls -> {"none", "running", "ended"}]
  /\ left \subseteq Calls

UsingRunner(k) ==
  {c \in Calls : kind(c) = k /\ pc(c) \in {"starting", "running"}}

(* "at most N runs are concurrent", and no permit is lost or made on any     *)
(* path out of a run: permits and running calls add up to the limit.         *)
PermitsAddUp ==
  \A k \in Kinds : Limited(k) =>
    /\ permits[k] >= 0
    /\ permits[k] + Cardinality(UsingRunner(k)) = setting(k)

(* Whoever got an answer, TimeoutError included, has no command running; and *)
(* where the runs are containers, whose runs all returned 0 left nothing     *)
(* behind that goes on writing the workspace it was judged in. On the host   *)
(* "any child processes left by the command are not reaped by the Gateway"   *)
(* (worker-isolation.md:54), whatever its exit code.                         *)
AnswersAreQuiet ==
  \A c \in Calls : call[c].answer # Unset =>
    /\ command[c] # "running"
    /\ Contained(c) /\ call[c].ok /\ ~call[c].failed => c \notin left

(* Every request is answered, however many share the pool and whatever their *)
(* runs do: again and again no request that came in is without an answer.    *)
EveryRequestIsAnswered ==
  []<>(\A c \in Calls : pc(c) = "idle" \/ call[c].answer # Unset)
=============================================================================
