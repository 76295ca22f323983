# A verification development of the Lean obligation runtime

These modules specify, model-check and prove properties of the runtime in this
repository: a LangGraph state machine that judges a Lean patch, the gateway that
runs the tools and keeps the human reviews, and the policy code that decides.
TLA+ definitions carry the names of the Python they stand for, and
`PROJECT.json` maps each one to its lines.

## 1. The system

| part | state it keeps | operations | interacts with |
|---|---|---|---|
| obligation graph (`runtime/graph.py`, `nodes/handlers.py`, `routes.py`, `initial_state.py`) | the channels of one invocation; the thread's checkpoint | 13 nodes, 4 routers, 2 state factories | gateway through the SDK; policy code; checkpointer |
| policy engine (`packages/policy/engine.py`, `patch_metadata.py`) | none | `evaluate`: ten gates, the first that fires decides | called by `policy_review` |
| protocol evaluators (`protocol_evaluator.py`) | accumulators of one pass over an event log | seven evaluators | called by `evaluate_protocol` and the CLI |
| pack loader (`pack_loader.py`) | the process-wide cache of merged packs | load, extend, import, detect conflicts and circles | both judging nodes |
| acceptance lane (`batch/*`, `routes_batch.py`) | none; subprocesses in the session's workspace | build, axiom audit, fresh checker, combine, strict acceptance | `batch_verify` node |
| review store and endpoints (`review_store*.py`, `routes_reviews.py`) | per thread: payload and decision | create, get, approve, reject, resume | graph, UI, orchestrator |
| orchestrator HTTP and CLI (`http_server.py`, `cli.py`) | none | run, resume, artifacts, review | graph, checkpointer, gateway |
| sessions and workspaces (`routes_sessions.py`, `overlay_fs.py`, `session_manager.py`) | session table, workspace directories | create, apply-patch, interactive-check | graph, lane, language servers |
| environments (`snapshot_store.py`, `routes_environment.py`) | snapshot directories by fingerprint | open | sessions |
| Lean transports (`transport.py`, `lsp_client.py`) | cache of language-server processes | check, start, evict | sessions |
| runners (`runner.py`, `worker_pool.py`, `worker_runner.py`) | pool counters | run with a timeout, in a container, in a VM | lane, transports |
| MCP server (`mcp_server.py`, `mcp_session_store.py`) | session context in memory, Redis or Postgres | tools | SDK |
| review UI (`apps/review-ui`) | per page: the payload shown, an error, calls under way | load, approve, reject, resume | review endpoints |
| webhooks (`webhooks.py`) | background tasks | notify with two retries | review endpoints; a receiver outside |
| wiring and reports (`app.py`, `deps.py`, `capabilities.py`, `routes_health.py`, `orchestrator_capabilities.py`) | none beside the environment; stores made at import | assert at startup, build, report, answer `/ready` | every part of the gateway |
| coordination queue (`coordination/queue.py`) | messages | enqueue, claim | nothing in the repository |

What is hard here. Several processes act on one `thread_id`: a run, a re-run, a
gateway resume, a CLI resume. They share the thread's checkpoint, which
LangGraph merges into the next invocation's input channel by channel, so every
channel an input leaves out is inherited. The review is published by an HTTP
call whose failure is swallowed and whose client may give up before the server
acts. The approve endpoint names a thread and not what was approved. A process
can die between any two nodes. Absent results make gates vanish rather than
fail. Below the graph, a snapshot directory is filled without a lock and taken
for complete because it exists; a patch is written file by file while checks may
read; language servers are started and evicted under a lock but read without
one, a header line and a body at a time, so that two readers can cut one
message; a runner waits for its own child and not for that child's children; a
session store loses half a record and says nothing. A review page learns only
from the answers to its own calls, which may come in any order, and a call it
has given up may be handled later. And five places read the same environment
variables, each in its own way. `PROJECT.json` lists each of these under
`hazards`, at its line.

What makes each part correct, in a sentence:

- graph: nothing is accepted, refused or reviewed without the evidence the
  invocation itself gathered on the way;
- policy engine: no pack, patch or rule outvotes a failed lane, and a harder
  case is never judged more laxly;
- protocol evaluators: the one-pass verdict is the property of the whole log;
- review: behind an acceptance through the gateway stands an approval of an
  obligation that passed the lane and that policy flagged;
- sessions: a run's interactive check, build, audit and fresh check all judge
  the snapshot with the whole patch, and a sealed snapshot never changes;
- language servers: the cache keeps its limit, no process is forgotten by a
  start that returns, errors stay in their workspace, and a request whose server
  reads ends, unless two cut one message;
- runners: no permit is lost, nobody is answered while its command runs, and a
  container all of whose runs succeeded leaves nothing behind;
- review page and webhooks: nobody is told what did not happen, and a reviewer
  who waits sees the decision that is in force, if a call of the page put it
  there that the page had not given up;
- wiring: what is reported is built, and what is said to be kept is kept;
- packs: a pack loads exactly when what it is composed of is complete, acyclic,
  where asked free of conflicts, and merges to a `PolicyPack`; each of its keys
  is that of the last writer, as long as nobody edits what the process has read;
- MCP: a call goes to a session of the client that makes it or of a thread it
  shares, of the thread it restores, and not to another one than the call
  before.

## 2. Modules

| module | what it is |
|---|---|
| `PolicyRules` | `PolicyEngine.evaluate`, `summarize_patch`, the class order of `evaluate_protocol`; pure |
| `AcceptanceLane` | what auditors and checkers can return, `combine_batch_results`, `apply_acceptance_strict`; pure |
| `PolicyCases` | what `evaluate` can be asked, as a walk each step of which makes the case (`asked`) harder in one respect |
| `ObligationGraph` | the graph: `pc`, `ch` (one copy of the channels per invocation), `checkpoint`, `answer`; one action per node |
| `ReviewFlow` | extends the graph with the review store (`review`), payloads on their way (`outbox`), what a resume handler read (`req`) |
| `AcceptanceGate` | the abstract specification: pass, clear or flag, file, rule, grant, accept |
| `ProtocolEvaluator` | the seven evaluators reading one event log side by side, one event per step |
| `SessionWorkspace` | environments and sessions: `repo`, the snapshots (`base`, `present`, `sealed`), the workspaces (`work`), `leases`, and where each caller is |
| `LspCache` | the language-server cache: lock, entries, their age, processes with their pipes (`stdin`, `stdout`), one record per request thread (`req`) and how far into `_read` it is (`reads`) |
| `RunnerPool` | choice of a runner, its semaphore, a command's life in each backend, the worker thread's time limit |
| `PackLoader` | the files of packs, which may be edited and removed (`changed`), `merge_pack_layers` as a recursive function, `model_validate`, the cache |
| `McpSession` | MCP servers with their context, over a store in memory, Redis or Postgres |
| `ReviewDesk` | pages of the review UI (`shown`, `error`, `call`), calls they gave up and the gateway did not (`late`), the record behind them, and the gateway's notifications (`task`) |
| `Deployment` | extends `AcceptanceLane` with an environment (`env`), what the code builds and reports from it, gateway processes (`up`, `mem`) and a Postgres (`db`, `dbUp`) |
| `MC*` | small instances; `MCJudgments` and `MCConfiguration` put two modules without common variables side by side, `PolicyCases` with `ProtocolEvaluator` and `Deployment` with `PackLoader` |
| `*Proofs` | theorems (section 5), a module beside each component, except that `ObligationGraphProofs` has those of the policy code too, `RunnerPoolProofs` those of `LspCache`, and `ConfigurationProofs` those of `PackLoader` and `Deployment` |

How the graph corresponds to the code. `pc[i]` is the node that invocation `i`
executes next; `ch[i]` is the dictionary the node is handed; `Goto` is the
node's return, LangGraph's merge of the update, the checkpoint write and the
conditional edge. A node is one step: no other process writes the dictionary a
node works on, and the gateway's reply is the only thing it learns meanwhile.
The one node in two steps is `interrupt_for_approval`, because its POST is
visible to reviewers before it returns. `Abort` is an exception (re-raised by
`_with_tracing`) or the death of the process; it leaves the last checkpoint.
`RunObligation` and `ResumeThread` build the input with `make_initial_state` and
`make_resume_state` and merge it over the checkpoint. `answer` is an
observation: what the gateway answered this invocation's batch-verify, kept
apart from `batch_result`, which another input can clear or replace.

How the review flow corresponds. `PostReviewSent` puts the payload on its way
and `create_pending_review` is the gateway's handler, at any later moment: the
client may have timed out, the server has not. `PostReviewLost` is the swallowed
exception. `ResumeRead` is `resume_review` up to its outgoing call and
`ResumeForward` that call, so everything may happen in between. `approvals` is
an observation: the obligations whose record was approved.

How the workspace corresponds. `ensure_snapshot` is its parts, because each is
visible to other threads: the test for the directory (`FindSnapshot`), its
creation (`MakeSnapshot`, which fails where there is one by now), each file of
the copy (`FillSnapshot`), sealing (`SealSnapshot`). `create_session` lists the
base it finds and copies it file by file; `apply_patch` writes file by file and
stops at a path outside the workspace. `Restart` keeps directories and loses
leases and whatever was under way. `seen` is an observation: the trees a graph
run's checks read; `whole`, which sessions were made from a sealed base.

How the language-server cache corresponds. A request is a thread in one phase of
`run_check` or of one of the goal-like functions. `Spawn` takes the lock, drops
a dead entry, evicts and starts; `Initialized` takes the first message and gives
the lock back; `InitializeFails` terminates the server, dead or alive, and may
fail to within its two seconds, `StartRaises` leaves it. `_read` is two reads of
one stream that any thread may come between: `ReadsOn` takes the header line,
and `Returns` or `Raises` is its end, in whichever function called it
(`ReadCheck` is a turn of the loop of `run_check`, with the deadline as one of
its outcomes). A body that another thread has taken is made up from what follows
(`Astray`), and what a read leaves of a message stays in the stream for the
next. Time stamps matter only by their order, which is `older`.

How the runners correspond. `Acquire` and `release` are the semaphore of
`_PoolLimitedRunner`; `Finish`, `CommandNotFound`, `TimeLimit` and `Undecodable`
the ways out of `run`, the last one the exception no runner catches; `Expire`
and `Answer` are `run_with_timeout`, whose `with` block waits for the worker
thread even after its time limit. A batch request is three runs.
`subprocess.run` waits for what it started, or kills it, and for nothing else
(`MayLeave`): whatever a command on the host, a VM script or a failed or killed
container client had started may go on, and its request is then in `left`. Only
a container whose client returned 0 has ended with all in it (`Contained`).

How the MCP servers correspond. `create_session` sets the context, then
`set_session` and `set_thread` are the store's writes, one step or two as the
backend has it, so that a server can end between them. `ToolCall` is
`_session_id` and the call it is for. `get` may find any row in Postgres (`LIMIT
1`, no order) and nothing where the store cannot be reached. Observations:
`made` says who created a session, under which thread the call named (`given`,
None where it named none) and under which the code filed it (`filed`); `told`,
which sessions a server's client was told of.

How the review desk corresponds. A page is one visit of `ReviewPage`; `shown[p]`
is its `payload` state. `Click` is a handler up to its `await`, `Succeeds` and
`Fails` what follows it; between them is the call, as the gateway handles it
(`get_review`, `decide_review`, `ResumeReads` and what the orchestrator
answers). `Fails` takes a call that never arrived, one answered with an error,
and one whose answer was lost. `BreaksOff` is a call that the gateway has and
the page has given up: it stays in `late`, and `LateDecision`, `LateResumeReads`
and `LateResumeEnds` handle it at any later time, after the answer to the page's
next call too, or never. `by` is an observation: the page whose call, not given
up, put the decision in force. A task is `background_tasks.add_task`; its
receiver is outside. A gateway that ends (`Restart`) loses its tasks and a
record in memory.

How the deployment corresponds. Each operator is one place's reading of the
environment: `literally_production` and `assert_production_state` (app.py), what
`deps.py` builds (`lean_transport`, `axiom_auditor`, `fresh_checker`,
`review_store`), what `capabilities.py` reports (`capability_snapshot`,
`degraded`), `ready`, `checkpointer_kind` and `get_checkpointer` of the
orchestrator, and `batch_verify` with its own default for strictness. Requests
go to any process. `Write` is a store's write that was answered, `WriteRaises`
one that raised, before or after its commit. `latest` is an observation: the
records that may be in force. A variable takes a value of each kind the readers
tell apart; a DATABASE_URL of blanks is taken to name no database.

How the packs correspond. `merged_dict` is `_merged_dict_for_entry` without its
cache, `load_pack` the call that fills the cache, `load_answer` what it answers,
from the cache or not. Only `Flags` (`_IMPORT_SCALAR_KEYS`) are compared between
strict imports; every key is merged. `WriteFile` adds, edits or removes a file
while the process runs, `PackRestart` empties the cache.

Mistakes. Operators introduced as "a mistake" are variants of the definition
that follows them; no specification uses them. They say which bug each property
exists to catch, and `PROJECT.json` pairs them under `mutants`.

## 3. Abstractions

A file is a model value and a glob the set of files it matches; a patch is the
files it writes and those whose text has an import line. A reason list is its
first reason. A log of protocol events enters the graph as the set of classes
that refuse it, which `ProtocolEvaluator` computes from the events. Text,
timings, hashes, traces, `resolved_rules` and attempt counters (written, never
read) are left out. What is compared with None is disjoint from it by the
assumptions on constants, and so are other kinds of values that share a
variable: `NoneAssumption`, `LspAssumption` (no document is the text
`initialize` or `query`, which stand for messages that are no `didOpen`),
`PackAssumption` (a file is not the absence of one, a dictionary not an
exception). The checkpoint is the last one written, which is what LangGraph
reads for a `thread_id` without a `checkpoint_id`; the Postgres checkpointer and
LangGraph itself are external and modelled from that use. An in-memory
checkpointer, which each CLI call creates anew, is the special case of an
instance with a single invocation.

A tool is its exit code. The fingerprint is the contents of the files it hashes.
A message of a language server is its kind and the document it is about, in two
pieces, header line and body. `_read` asks for at most 65536 characters where
the header counts bytes: a body is taken to be no longer and to have as many of
the one as of the other, and two bodies to be equally long exactly when they are
equal. Framing is one constant, `StandardFraming`, because it decides whether a
message can be read at all. A pack is its references, `strict` and a dictionary:
one key stands for the scalar keys that strict imports compare, one (`name`,
required, with a value of the wrong type among its values) for those that are
only merged, lists among them, since `dict.update` replaces both whole, and one
for an `import` that is empty. An MCP record leaves out fingerprint and path,
which no tool reads.

## 4. Runs

| run | question | instance |
|---|---|---|
| `graph` | can invocations that share a checkpoint carry one another past a node's evidence? | 2 runs, 1 resume, 5 jobs, 3 interactive and 3 batch answers; 1.6 M states |
| `review` | does the human gate hold under late, lost, repeated and crossing requests; does the flow implement `AcceptanceGate`? | 2 runs, 1 gateway resume, 1 CLI resume, 2 jobs, 2 answers; 0.17 M states |
| `judgments` | is a harder case ever judged more laxly; do the one-pass evaluators say what the whole log says? | 2 files, one rule, all lane answers; logs of up to 4 of 20 events; 0.37 M states |
| `session_workspace` | do checks judge one tree, and do snapshots stay as they are, while others open, patch, edit and restart? | 1 graph run, 2 SDK callers, 2 files, 2 patches; 0.87 M states |
| `lsp_cache` | does the cache keep its limit and its processes, do errors stay in their workspace and do requests end, when two threads read one stream? | 2 threads, 2 workspaces, a cache of 1, 3 servers; 0.30 M states |
| `runner_pool` | do permits and commands survive every way out of a run? | 3 requests, 2 settings; 0.85 M states |
| `configuration` | do startup, wiring, reports and requests agree on what an environment means, on several processes and a database that fails; which packs load, and as what? | 2 gateways, some 860 environments; 4 packs, up to 2 imports and a base, depth 2, one edit; 0.58 M states |
| `mcp_session` | do calls stay with their client, thread and session over restarts, a shared thread and a store that forgets? | 2 clients, 3 servers, 2 threads, one of them used by both clients, 2 sessions, 3 backends; 0.49 M states |
| `review_desk` | what do reviewers and receivers see of decisions that cross, answers that are lost, calls handled late, restarts and re-posts? | 2 pages, one of a hasty reviewer, 1 payload, 2 stores, `MaxActs` = 3, `MaxRefused` = 1; 0.59 M states |
| `rejected_token` | a document says that a rejected run is not accepted (section 6) | 1 run, 1 resume |
| `one_lock` | a document says that locks are of a resource each (section 6) | as `judgments` |
| `lsp_framing` | a docstring says that a workspace has one language server (section 6) | as `lsp_cache`, with the standard header |

Besides, `LspTypeOK`, `SessionTypeOK`, `ProtocolTypeOK` and `PackTypeOK` are the
type invariants of modules whose runs spend their properties otherwise, and
`StaleOnlyIfChanged` is what a cached pack is worth; each holds on its run's
instance when its name is added to the cfg, and section 5 proves each.

Why the bounds are enough. Two runs are needed for one to disturb another
through the checkpoint, and a third would only repeat what the second does,
since a run reads the checkpoint once. The jobs of `graph` are chosen so that
each exit of the graph is taken (accepted, refused by the lane, by the protocol
and by the gate, put before a human) and so that each fallback of the pack
lookup occurs. In `review` the gateway resume and the CLI resume cross each
other and the runs. The four events of a log reach lock, release, re-lock and a
violation; with two files a rule can match one of the two. Runs, and gateway
resumes, are only compared for equality, so the runs use their symmetry; runs
with a liveness property use none.

A cache of one server is full after one start, so two workspaces evict each
other, and three processes allow a start after a death and an eviction. Two
threads of one workspace share a stream and cut each other's messages. The
limits of `runner_pool` are one (every second request waits), two, and the ones
that do not limit; three requests fill and overfill each. They differ in nothing
but their names, so one order of their kinds is enough. Three acts on the review
desk (`MaxActs` counts clicks, posts, decisions from elsewhere and restarts) are
a decision, a second one that crosses it or is handled after it, and a restart,
a re-post or a resume; one task that meets a failing receiver (`MaxRefused`)
goes through all of its tries. The environments of `configuration` are all
combinations of the settings about tools, and all of those about stores. Two
files tell a partial tree from a whole one, one of them hashed and one not; a
second SDK caller is what disturbs the first one's session. Four packs make a
chain deeper than allowed, circles of two and three, and a pack reached on two
ways; one edit or removal (`MaxEdits`) makes a cached pack stale. In the runs
`judgments` and `configuration` one of the two modules moves while the other is
at rest, since they share nothing. The first MCP client has two servers and two
threads, so that one thread's session is created at one server and asked for at
the other; the second client uses one of the two as well, so that calls can
cross, and the other is the thread it has no claim to.

Fairness. `FairLspSpec` lets a thread that can go on do so and assumes nothing
of the servers; `RunnerFairness` lets a run end by itself or at its time limit
and a waiting thread get a permit. Both are weak fairness on each thread's own
steps, which the operating system's scheduler gives; a lock or a permit is given
to each waiter in the end because each thread takes it a bounded number of
times. On the review desk, handlers, browser and tasks go on (weak fairness on
`Handle` and `TaskStep`), and the outgoing call of `resume_review` has its 60
seconds; the orchestrator need not answer and nobody has to click. Requests,
exits, edits, posts, clicks, connections that break, calls handled late and
restarts have no fairness. No run assumes that a graph invocation is started,
continued or resumed. `RequestsEnd` has the assumptions that are not facts in
its own words: each server again and again has read all it was sent, or exits,
and the request did not itself read in the middle of a message that another
thread was in the middle of. What the other cases come to is in section 6.
Deadlock is checked where the system never rests (`mcp_session`); elsewhere it
may stop, when all have ended.

## 5. Proofs

Eight modules hold theorems. Each theorem is of the specification TLC checks,
for every value of the constants that the named assumptions admit; the
assumptions only say that constants have their types and that values of
different kinds differ, unless said otherwise below. Each strengthened invariant
was checked by TLC on its run's instance before it was proved. Every safety
invariant and every action property of the passing runs has its theorem.

**Policy and graph** (`ObligationGraphProofs`), for any number of runs and
resumes, any jobs, packs and answers. The first gate exists and is the first
(`FirstGateIsFirst`, from the least element of a set of naturals); from it
follow `LaneVerdictDominates` (a verdict of accepted or needs_review implies no
interactive error, `batch.ok` and no blocking reason) and
`AcceptancePassesEveryGate`. `StricterNeverLoosens` compares two calls of
`evaluate` for every lane result: a stricter pack, a patch that does more and an
error where there was none never improve the verdict. It goes along the
severities (`SeverityOfVerdict`): a call that is refused or sent to review stays
so, because each condition that did it still holds of the harder call.
`HarderCasesNeverLoosen` applies it to each step of the walk (`StepIsHarder`).
Of the graph: `GraphTypeCorrect`, `AcceptanceNeedsLane`,
`ApprovalIsNotInherited`, `ProtectedPathsNeedHuman`, `ProtocolRefusalSurvives`,
`RefusalsAreFounded`, `WitnessesAreCounted`.

`AcceptedPassedLane` is not inductive: it speaks of ended runs, and a run in
`finalize` says nothing of how it came there. `LaneInv` adds what each run has
behind it at each node: a session before the checks, a clear interactive result
before the lane, its own answer in `batch_result` before policy, and a passed
lane after it, the step where `LaneVerdictDominates` is used. `VerdictInv` adds
what was written on the way: the verdict channel is empty before
`evaluate_protocol`, the protocol's verdict after it and the joint one after
`policy_review`, and the witness channel is as long as what was delivered.
`InteractiveAssumption` is about the gateway: an interactive answer that is ok
has no error diagnostic. The route passes on what its transport answers:
`run_check` (lsp_client.py) computes `ok` from the severities, and the
subprocess transport and the test double report no error when they answer ok.
`RefusalsAreFounded` needs it. That theorem is about verdicts: a refusal rests
on what the run's own lanes answered, on its missing token, or on the pack and
event log it was judged with, and never on a verdict that an earlier invocation
left in the checkpoint. The pack and the log may themselves be inherited, where
the caller named none (section 6).

**Review flow** (`ReviewFlowProofs`). `FlowImplementsGraph`: every step of the
flow is a step of the graph or leaves it alone, so the graph's invariants carry
over. `FlowInv` says that payloads on their way were earned, that a record shows
an earned payload and an approval it holds was seen, and that the same is true
of the copy each resume handler read, with whose decision the resume runs:
without the copy, a record overwritten meanwhile would lose what the handler
acts on. From it `FlowTypeCorrect`, `ReviewsShowEarned`, `AcceptanceHasHuman`.
`FlowImplementsGate` is the refinement of `AcceptanceGate`: a run's step passes,
clears, flags or accepts one obligation or is invisible (`RunGateStep`, with
`OneMoves` for the sets that grow by one), a resume's step accepts or is
invisible (`ResumeGateStep`), a step of the store files, rules or grants
(`ReviewGateStep`). `GateInv` makes the gate's own `AcceptanceRestsOnLane`
inductive, and `FlowRestsOnLane` carries it to the flow.

**Protocol evaluators** (`ProtocolEvaluatorProofs`), for any agents, tasks and
events; the bound `MaxEvents` is any natural, so logs of every length are
covered. `ProtocolInv` says that each accumulator is what it stands for, read
off the log (`ClaimIsLast`, `HolderIsOwner`, `ApprovalIsSeen`). `LastBefore` is
a `CHOOSE`, so the proof first shows that it has a value (`GreatestIndex`), that
it does not look at later events (`LaterEventsDoNotMatter`), and what one more
event does to it (`OneMoreEvent`). The verdicts are then the properties of the
whole log: `LockVerdictIsRight`, `HandoffVerdictIsRight`,
`EffectVerdictIsRight`. `RejectionsStay` needs no invariant: the verdict is a
rejection just when a looping evaluator has refused, because the evidence token
is tried last.

**Sessions** (`SessionWorkspaceProofs`), for any repositories, patches and
clients. `SealedBaseStays` needs `OneFiller`: the directory is made with
`mkdir`, which fails for the second of two, so nobody fills what another has
sealed. For `ChecksReadOwnPatch`, `SessionInv` follows the run's workspace file
by file: while it is copied, the files no longer to do are the snapshot's; while
it is patched, it is `PatchedBy` the first `written` files (`OneMoreWritten` is
the step). The other clients' steps leave it alone (`OthersStay`), because no
other client has a graph run's session.

**Runners** (`RunnerPoolProofs`), for any settings of the gateway and any number
of requests: `RunnerTypeCorrect`, `NoPermitIsLost`, `AnswersComeAfterTheRun`.
The invariant is `PoolInv`. To the types and the permits it adds `CallsInOrder`:
a request on its way has a run left (without it a returning request could count
below zero and go on), only a running request has a running command, only one
that has returned is answered, and a container none of whose runs failed has
left nothing behind. Of runs on the host and in a VM the theorem says no such
thing, whatever their exit code. `PermitGivenBack` is the argument all ways out
of a run share: one request leaves the users of its runner and one permit comes
back. `RunnerAssumption`: finitely many requests, and settings of their types.

**Language servers** (`RunnerPoolProofs`), for any threads, workspaces,
documents, size of the cache and either framing: `LspTypeCorrect`,
`CacheKeepsItsLimit`, `ServersAreAccountedFor`, `ErrorsAreOfTheWorkspace`. What
`run_check` answers it reads from a stream that other threads read and write
too, in pieces, so the last needs `LspInv` to follow a document all the way:
what a request named (`RequestsInOrder`), that the server a request or an entry
holds was started for its workspace (`ServersHaveHomes`), and that whatever is
in a pipe, either way, whole or cut, is about documents opened in that server's
workspace (`PipesAreHome`). That the cache keeps its limit needs `RoomIsKept`:
room for the new one and no entry in its place until the lock is given back.
`ServersAreAccountedFor` says where each live server is: in the cache, being
started by whoever has the lock, or abandoned by a start that raised
(`AbandonedStay`: for good). With the standard header that last case is every
start: `StandardFramingAnswersNobody` shows that then the cache stays empty and
no request is answered from a server's messages (section 6).

**Review desk** (`ReviewDeskProofs`), for any pages, payloads and bounds:
`DeskTypeCorrect`, `PagesAndEventsTellTruth`, `PatientReviewersSeeTheirs`. The
two promises say nothing of calls under way, from which pages learn. `DeskInv`
adds that a call on its way back carries what happened (`CarriesTruth`), that a
page which has not loaded has nothing to decide (`LoadsFirst`), and that a
reviewer who waits has one call at a time, whose answer is about the decision in
force if that is the page's (`OneCallAtATime`, where hasty reviewers are left
out), and that a resume still under way for a page that gave up is with a
decision that was recorded (`LateOnesAreTrue`). The steps are proved in three
frames: a handler's on one call (`HandlerStep`), the end of a call on one page
(`CallEndsStep`), a decision from elsewhere, a late one among them, on the
record (`RecordStep`). `PatientReviewersSeeTheirs` is of decisions in force by a
call the page had not given up; the others are in section 6.

**MCP servers** (`McpSessionProofs`), for any clients, servers, threads and
sessions and each of the stores: `McpTypeCorrect`, `CallsGoHome`,
`ThreadsFindTheirSession`, and the action property `SessionsStick`. What a store
returns is any record under the key, in Postgres any row that has it, so the
invariant is about records: each says what its session was filed under and is
found by nothing else (`RecordsAreTrue`). `RestoredIsTrue` and
`RestoringKeepsOwn` turn that into what a restored context is. A context's
thread is the session's only while it is stored: a refused `create_session`
moves the one and not the other. Clients may use the same thread ids. Where they
do, the store gives one the other's session, and the client is told of it and
may name it afterwards, so the invariant is about what a client may use: what
was created for it or filed under a thread it uses (`MayUse`, `ToldAreOwn`).
`CallsGoHome` says that calls cross on no other way, and
`ThreadsFindTheirSession` that a thread id never finds a session created with
another one; it may find one created with none. `McpAssumption` only says that
values of different kinds differ, no thread id being a session id.

**Packs** (`ConfigurationProofs`), for any packs, files, imports and depth:
`SoundPacksLoad` (`LoadsExactlySoundPacks`), `LaterLayersWin`
(`LastWriterWins`), `StrictOrderIsFree` (`StrictFlagsCommute`),
`StaleOnlyAfterEdits` (`StaleOnlyIfChanged`) and `PacksTypeCorrect`. Every
recursion of the model stops at a number, so none of the library's induction
theorems is needed: `UpTo` is induction up to `n`, from the greatest element of
a set of indices, and `Recursion` gives a function on `0..n` that is defined
from its previous value. With them `MergeAllSteps` and `MergeLevels` say that
the merge, by layers and by depth, satisfies its own equations, and `ChainsAre`
that the reference's chains are the walks of at most `MaxDepth + 1` steps. Then:

- Whatever merges is good (`MergedIsGood`, up from the greatest depth): it is
  complete within the depth, its keys are the last writers', and each strict
  pack under it agrees.
- Whatever is complete and agrees merges (`SoundMerges`). The step that is not a
  layer's is the circle: `NoCircle` shows that a pack under itself could be
  walked round once more, to a walk longer than a complete pack has.
- The flags of a strict merge depend on the set of its layers only: it fails
  unless they agree, and otherwise has their union (`StrictMergeOfSet`).
  `StrictLayersAreASet` says so of two files with the same layers in any order
  and number; reversing is one case. Nothing of the kind is true of the other
  keys, lists among them, and none is claimed.

What a process answers from its cache depends on files it read long ago.
`PackInv` has `CacheWasMerged` for that: a cached pack was merged from files
that, but for those changed since, are still there. `OtherFilesKeepPacks` shows
that files it does not refer to make no difference to a pack that merged, so
that it is stale only after an edit or removal among its own
(`StaleOnlyAfterEdits`); `LaterLayersWin` rests on it.

**Deployments** (`ConfigurationProofs`), for any environments and any number of
gateways: `ReportsAreKept`, `EvidenceIsReal`, `StateIsKept`. `DeployInv` records
what running gateways were started with (`StartedSoundly`), that doubles are not
in production, that Postgres holds one of the latest records whether a write was
answered or raised, and that waiting runs are saved where the checkpointer is
Postgres. `AnswersShowEvidence` is about `apply_acceptance_strict` alone.

Only model-checked are the four liveness properties (`RequestsEnd`,
`EveryRequestIsAnswered`, `CallsAreAnswered`, `EventsAreAnnounced`): liveness
under fairness is out of the prover's reach. The runs that end in a
counterexample prove nothing and are not meant to.

## 6. Where the code and its documentation disagree

Three have a run that TLC ends with a counterexample; `PROJECT.json` quotes the
texts under `findings`.

- `RejectedTokenTerminates` (run `rejected_token`): under a reviewer-gated pack
  the token `rejected` lets a run be accepted.
- `OneHolderPerResource` (run `one_lock`): "only one holder per resource"
  (docs/architecture/multi-agent-protocol.md:15), but the lock evaluator has one
  lock for all resources, so two agents that lock a task each are a conflict.
  What it computes with its one lock is what the whole log says
  (`LockVerdictIsRight`).
- `OneServerPerWorkspace` (run `lsp_framing`): "one long-lived LSP process per
  workspace" (lsp_client.py:3). With a standard header, which ends in an empty
  line (`StandardFraming = TRUE`) as the client's own do, the client cannot read
  a message; the start raises past its clean-up, and each request leaves one
  more server running. `tests/unit/test_lsp_client.py` feeds the client messages
  without the empty line; the run `lsp_cache` is about what the client does with
  those.

Noticed while modelling and visible in the definitions, without a run of their
own:

- Witness. No witness of a gateway-verified run holds its batch result
  (docs/workflow.md:106): `AcceptanceSummary` forbids two fields every answer
  has, and the default takes its place (`WitnessAcceptance`).
- Graph. A refused run ends with status `auditing` (docs/workflow.md names
  `rejected` or `failed`); a second run on a thread inherits the pack name and
  event log its input leaves out, and can be refused for that log although its
  caller gave none; a resumed run's witness has no obligation id.
- Review. A lost POST leaves a thread awaiting a review that does not exist. The
  approval of one run resumes whatever run the thread holds by then. A resume
  quicker than the interrupted node's return is overwritten by its checkpoint.
  Decided reviews can be decided again. `obr resume` accepts a thread no run of
  which was verified, its decision defaulting to approved.
- Policy. A pack's `block_sorry_ax` and three more flags are loaded and never
  read. A cached pack is not read again after an edit, its own or of a pack
  under it, until the process starts again. A pack of a single file with an
  empty `import` keeps that key and fails its validation, each time it is
  loaded. "Visiting the same pack path twice while resolving extends/import
  raises ValueError" (docs/architecture/plugin-contract.md:44): it does so only
  while the first visit goes on, so a pack that two imports extend is merged
  twice and loads. Strict imports are compared on their scalar flags only: their
  order decides `protected_paths`, `path_rules` and `trust_gates`, the later
  list replacing the earlier one.
- Sessions. `ensure_snapshot` takes a directory another request is still
  filling, or a crash left half copied, for a snapshot; the fingerprint covers
  the toolchain, the lakefile, the manifest and the commit the caller names, by
  default HEAD, so edited sources are answered with the old snapshot. SDK and
  MCP callers that share a session can patch between another's build and audit.
- Language servers. A start whose first message has no result terminates the
  server and, if that takes more than two seconds, raises and leaves it running.
  A check answers ok when the stream ends, when its deadline passes, and on any
  response; within a workspace it can answer with another document's
  diagnostics. Two threads that read one server can cut one message: one raises,
  the other may wait for ever for bytes that were taken, and what is left of the
  message stays in the stream, where the next reader takes it for the end of the
  messages and answers ok without diagnostics. A server that stays silent blocks
  `readline` without a deadline, the first time under the lock.
- Runners. A killed docker client or VM script leaves its container or VM
  running in the workspace. On the host, children of a command are not reaped
  whatever its exit code (docs/architecture/worker-isolation.md:54 says so), so
  that the fresh checker of the same request may run beside what the build left.
  A limit that is zero, negative or no number does not limit. An interactive
  check's time runs while it waits for a permit.
- Review page. Any failure of the load is shown as "Review not found". Approve
  and Reject stay enabled until an answer comes: a reviewer who presses both
  sees the decision whose answer came last, not the one that was recorded last.
  A call whose connection broke may be handled after the reviewer's next one was
  answered, and then the page shows a decision that is no longer in force. A
  payload posted again while a page is open is approved unseen. What a resume
  returned is never shown (`setResumeResult` has no caller).
- Webhooks. An event's time is that of its task's start and not of the decision,
  so that two decisions' events can have times in the other order; and a
  receiver that drops repeats by `(event, thread_id)`, as
  docs/architecture/review-surface.md advises, drops a reversed decision. A
  restart drops events under way.
- Settings. `REVIEW_STORE=pg` passes the startup assertion, which only refuses
  `memory`, and keeps reviews in memory (docs/running.md:51 says that Postgres
  is enforced). `OBR_ENV=Production` skips that assertion and the strict
  default, yet suppresses `degraded`. `OBR_USE_LEAN_LSP=0` selects the language
  server, which is reported as absent. `OBR_ACCEPTANCE_STRICT=0` in production
  is no exemption at a request, though it is one at startup. Without
  DATABASE_URL each request to the orchestrator has a checkpointer of its own,
  so a run that waits cannot be resumed; without Postgres one gateway process
  alone knows a review.
- MCP. Records of a shared store carry no client: two clients that use one
  thread id reach each other's sessions. `create_session` without a thread
  stores the session under the thread of an earlier call
  (docs/architecture/mcp-adapter.md: "`thread_id` (if provided)"; `made` keeps
  `given` and `filed` apart for that), also when the gateway refused that
  earlier call; a call that names another thread goes to the current session;
  Postgres restores any of a thread's sessions, the other stores the last one
  stored. Nothing deletes records, so a session the gateway lost in a restart is
  restored and stays the current one. `_read_message` reads the body right after
  the header line, like the language-server client, and a standard message ends
  the server.

## 7. Not modelled, and the plan

`PROJECT.json` lists every component with its status. The modules above were
written in the order graph and policy, review flow, protocol evaluators,
language servers, sessions, runners, packs, MCP servers, review desk,
deployment. Left out: demos, benchmarks, evaluation fixtures, infrastructure
scripts and the tool wrappers, which keep no state and only call the parts
above; telemetry, which nothing reads; the SDKs' request building and the rest
of the schemas, which only carry fields. Next, in this order:

1. `FileCheckpointer`: its file, and what concurrent processes make of it.
2. The composition of `SessionWorkspace` with `RunnerPool`: leftovers of a
   killed run that go on writing a workspace the next run reads.
3. The coordination queue, which no component of the repository calls yet.

Out of reach: liveness and ENABLED in proofs; a resume given a partial state by
hand (`tests` do that; no caller in the source does); durability modes of
LangGraph's checkpointer.
