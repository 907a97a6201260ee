# A verification development for Ormica

Ormica runs colonies of LLM agents: a tree of nodes, a shared memory, a queue of tasks, and
several runners that work the queue off, in one process or in a fleet of them, durably, with
dependencies, and with self-healing. This directory holds TLA+ models of that machinery, the TLC
configurations that check them on small instances, and proofs about them checked by TLAPS.
Paths are relative to the repository; `ormica/` is `src/ormica/`.

To check everything: `tlc -config X.cfg M` for each run of the table below, `tlapm M_proofs.tla`
for the eight proof modules.

## 1. The system

### Components, their state, their operations

| component | state | operations | what makes it correct |
|---|---|---|---|
| Mycelium, `ormica/mycelium/` | key -> entry (value, author, expiry) in a backend: memory, file, SQLite, vectors | write, read, delete, all, prune_expired; claim, release on claimable backends | a lease has one owner at a time; a write is all or nothing; an expired entry is not read |
| Task records, `runtime.py`, `core.py` | `tasks/{id}` records with the status and result of each task | `_record_task`, `_checkpoint_queue`, `load_tasks`, `resume` | a crash anywhere leaves records that allow the work to be finished, and finished work is not repeated |
| Sequential runner, `TaskRunner` | sorted queue; status per task | `run`, `_process`, `_run_healing` | one bad task does not stop the others; every task ends |
| Banded runner, `AsyncTaskRunner` | bands of equal priority, a semaphore | `run`, `_bounded`, `_process`, `_run_healing_async` | higher bands finish before lower ones start; at most `concurrency` at work |
| DAG runner, `AsyncDagRunner` | prerequisite counters, remaining, launched, a set of futures | `run`: cycle check, `_schedule_ready`, `_block_downstream`, wait | a task starts once, after its prerequisites; failures stop exactly what is behind them; cycles are refused |
| Distributed worker, `distributed.py` | per worker: local queue, last snapshot, current lease, heartbeat thread, tally; shared: records and leases | publish, load, claim, re-read, execute, skip, release, beat | no task twice, none early, none lost; workers leave when the queue is drained |
| Healing, `healing.py`, `runtime.py` | attempts per task, failures in a row and open circuit per target, dead letter | retry, backoff, break, reroute, respawn, bury | bounded attempts; an open circuit is rested; nothing is lost on the way |
| Tree, `ormica/arbor/` | nodes with parent, children, state, rules, meta; an index by id | spawn, prune, find, snapshot, restore | index and tree are the same nodes; one root, no orphans |
| Spawn policies, `ormica/canopy/`, `cortex/policy.py` | governor's counter; approvers | allow | ceilings hold; a denial anywhere denies |
| Constitution, `ormica/cortex/` | rules on the org and on nodes, of four stages and two severities | add, check, enforce, verify | a rule reaches whatever is below it; an accepted answer broke none that mattered |
| Agent, `agent.py` | node state, budget, verify attempts, tool history | act, act_with_tools | hard rules stop a turn; overspending is bounded; verification is bounded; the history is one the vendor accepts |
| Brain wrappers, `ormica/brain/` | retry counters, LRU cache, token budget | think, consume | bounded retries; the cache returns what was answered |
| Stigma and learning, `ormica/stigma/`, `learning.py` | trails: strength, sources, time | emit, reinforce, sense, evaporate, select | no pheromone out of nothing |
| Postbox, `postbox.py` | messages under `mailbox/{recipient}/` | send, reply, inbox, fetch, mark_read, thread | a message is delivered once to its recipient; a thread is whole |
| Planner, `planner.py` | plan tree | plan, leaves, to_tasks, `_toposort` | what a step depends on is done before any leaf below it |
| Delegation, `delegation.py` | depth, spawned counter | solve, delegate | depth and fan-out are bounded; a solve ends |
| Observation, `ormica/observe/` | observers, counters, open and closed traces | emit, notify, trace_for | an observer cannot break the run; a trace shows one attempt of one task |
| Forest and evolution, `forest.py`, `evolution.py` | answers of trees, votes; generations | asolve, vote, evolve | the consensus is what the answers say; the winner is the best ever seen |
| Colonies, `ormica/colony/` | templates, registry | load_colony, plant | a bad file is refused whole; what is planted has what the file says |
| Dashboard, `ormica/dashboard/` | a bounded queue for each browser | subscribe, notify, stream | a browser that stays misses only what its full queue dropped |
| MCP, `ormica/mcp/` | request id, a pipe | `_rpc`, handle | a call gets the answer to its own request |
| CLI, configuration, artifacts, redaction, sandbox, integrations | little or none | | |

### How they interact

Runners resolve a task's target in the tree, build an agent with a brain, memory, signals,
constitution and budget, call `act` and record the outcome in the mycelium. Distributed workers
share nothing but the mycelium: records and leases. Healing uses the tree's `prune` and `spawn`,
which ask the spawn policy. The event bus calls observers synchronously from all of them. An agent
asks the constitution before and after it thinks, and may grow the tree itself (`delegate`), lay
trails, send messages and call tools of an MCP server from threads. The planner fills the queue that
the DAG runner works off. The dashboard is an observer with a queue for each browser.

### What is hard here

* **Interleavings** of worker processes around every access to the shared store; of a worker and
  its own heartbeat thread; of futures in one event loop; of the statements of two SQLite
  transactions.
* **Time**: leases that expire between a decision and the write it led to; cooldowns; backoff.
* **Crashes** between two record writes, and resumption from what they left.
* **Partial failure**: a write or a callback that raises outside the `try`; a spawn refused after
  the prune; a prerequisite that failed.
* **Stale data**: snapshots of the queue, circuits read once per pass, a budget checked before an
  await and consumed after it; `Node` objects that `load_tree` has replaced.
* **Threads without locks**: the LRU cache under a forest, the semantic index, the MCP client, the
  list of subscribed browsers.

`PROJECT.json` lists these hazards one by one, at their lines, with the properties that watch them.

## 2. The modules

| module | models | composed from |
|---|---|---|
| `LeaseTable` | the claimable interface (`mycelium/claim.py`, `InMemoryBackend`): the abstract specification of leases | |
| `SqliteLeases` | `SqliteBackend.claim` and `release` as transactions of several statements | refines `LeaseTable` |
| `DistributedWorker` | a fleet of `DistributedWorker`s with heartbeats | extends `LeaseTable` |
| `DagRunner` | one call of `AsyncDagRunner.run` | |
| `DurableRun` | a queue through calls, crashes, fresh processes and `resume()` | extends `DagRunner` |
| `Planner` | `Planner.plan`, `Plan.to_tasks` | |
| `PlannedRun` | a queue filled by hand or by a plan, and the call that runs it | extends `DagRunner`, `Planner` |
| `Arbor` | the tree and the governor's counter, as far as healing needs them | |
| `Healing` | `run(heal=)` and `arun(heal=)` | extends `Arbor` |
| `AgentTurn` | one turn of an agent, from await to await, with `RetryingBrain` and the emit tool | |
| `BandRunner` | `run()` and `arun()` without healing | extends `AgentTurn` |
| `Growth` | the tree under its policies, `load_tree`, `solve` and the delegate tool | |
| `Mycelium` | the dictionary, the JSON file and SQLite under the shared memory | |
| `Substrate` | entries with a time to live, trails and an inbox, of several processes | extends `Mycelium` |
| `Recall` | search by relevance among writing threads | |
| `SharedConnection` | a worker and a heartbeat on the one connection of a `SqliteBackend` | |
| `Mailroom` | replies, the send_message tool, threads of messages | |
| `Memory` | the shared memory from every side | extends `Substrate`, `Mailroom`, `Recall`, `SharedConnection` |
| `Conversation` | the history of a tool loop and what each vendor is sent of it | |
| `Charter` | rules, wherever they are attached, over growth and turns | |
| `Voting` | a forest of trees over one `CachingBrain` | |
| `Evolution` | `evolve` | |
| `Forests` | what is made of several trees at once | extends `Voting`, `Evolution` |
| `Sorting` | `list.sort`, the highest score first, for `Recall`, `Voting` and `Evolution` | |
| `Trails` | the `TraceObserver` and `trace_for` | |
| `Broadcast` | the bus, `SSEObserver` and the event stream to browsers | |
| `Observers` | what the dashboard and the traces together keep of a run | extends `Broadcast`, `Trails` |
| `Planting` | a colony's YAML file, loaded, planted, saved and loaded again | |
| `Colonies` | what a tree is grown from, file and rules together | extends `Planting`, `Charter` |
| `McpLink` | `MCPClient`, `MCPServer` and the pipe between them | |
| `MC...` | the constants of the TLC runs; `MCServices` puts twelve parts side by side | |
| `..._proofs` | theorems about `SqliteLeases`, `DistributedWorker`, `Healing`, `BandRunner`, `Growth` | |
| `DurableRun_proofs` | theorems about `DagRunner`, `DurableRun`, `Planner`, `PlannedRun` | |
| `Substrate_proofs` | theorems about `Substrate`, `SharedConnection`, `Recall`, `Mailroom`, `Voting`, `Evolution` and the sort | |
| `Services_proofs` | theorems about `Charter`, `Planting`, `McpLink`, `Conversation`, `Broadcast`, `Trails` | |

### Leases: `LeaseTable`, `SqliteLeases`

`LeaseTable` is what the workers rely on: a lease has an owner and some time left; a claim takes
effect at once if the lease is free, expired or the caller's own; a release drops the caller's own
lease only. `SqliteLeases` is the code: a clock reading when `claim` is called, the
`INSERT OR IGNORE` that opens the write transaction (SQLite lets one connection write at a time),
the conditional `UPDATE`, the commit, the rollback. Its clock is absolute, as in the code, and may
move between the reading and the commit. `belief[w][t]` is until when worker `w` counts on its
lease: from the `now` it passed plus the TTL, once its claim has answered true.
The refinement maps a row to the time it has left; the commit of a claim is the abstract claim.

### The fleet: `DistributedWorker`

Each access to shared state is one action: `PublishCheck` and `PublishWrite` (the membership test
and the write of `_publish`), `LoadTasks`, `TryClaim`, `Recheck` (the re-read after the claim),
`TurnToBlocked` and `SkipTask` (work behind a failed prerequisite), `Start` (the "running"
record), `Finish` (the agent's answer and the final record), `ReleaseTask` (the `finally` and the
tally), `Idle`, `LimitReached`. `BeatBegin` and `BeatEnd` are the heartbeat thread: a claim that
has begun may land after the main thread has released the task, because the stopper waits one
second only. `Crash` ends a worker anywhere; `Abort` is a write that raises, which passes through
the `finally`. `pc[w]` names the place in the code; the comment at `Stages` says which.

### One DAG call: `DagRunner`

Code between two awaits is one step, but for the two loops in which `run()` writes records: each
round of those is a step, so that a write can raise, and the process die, between two of them. `ahead`
is what such a loop has still to do. `Begin` cuts the queue at `max_tasks`; `Checkpoint` records its
next task and `CheckpointBreaks` is the write that raises; `Launch` is the cycle check, the counters
and the first launch. A future waits for the semaphore (first come, first served within and between
launches), is `active`, or has `ended` and is not looked at yet. `Settle` is the next round of the loop
over the futures that ended, in no order; `Skip` is one of `_block_downstream` (`SkipBreaks` where
its write or event raises: the task is then failed in memory and perhaps not on disk, and the rest of the
chain is neither); `Relaunch` is the launch after the loop. Futures that end while `run()` is in the
loop belong to its next wake-up: they make no step while the phase is `settling`. `BreakStart` and
`BreakEnd` are exceptions that leave `_process` (a failing record write, an `on_task_*` callback): the
future ends with the exception and `Raise` passes it on out of `run()`. `Cancel` is the event loop
closing under orphaned futures.

The cycle check of the model is declarative: a queue is refused when some set of tasks each has a
prerequisite in the set, the set Kahn's algorithm cannot empty. A queue with a cycle that was let
through would break `ReturnsFinished` or `PlannedRunEnds`; that a plan never has one follows from
the order of its tasks (`PlanKept`). `Planner` numbers steps as the brain hands them out; `Toposort`,
`Built` and `Attach` are the code's algorithms, as recursive functions: `Kahn` goes round by round with
the queue of ready steps, `Build` walks the tree with what is ahead in a sequence, where the code calls
itself, and `Inherited` hands dependencies down. `PlanKept` compares them with `WaitsFor`, which says
what a dependency between two steps means for the leaves below them.
`PlannedRun` puts planning, `enqueue_plan` and the call in a row; its other initial states are queues
filled by hand.

### Calls, crashes, resume: `DurableRun`

The same variables, over several lives. `DagStep` is a step of the call, `Crash` keeps the records
only, wherever it falls, between two writes of a checkpoint or of a chain of skips too (a task that was
never recorded is then forgotten), `Resume(retry)` is `load_tasks` plus the reset of interrupted (and, with `retry_failed`,
failed) tasks, and the sequential runner on the result: `SeqCheckpoint`, `SeqStart`, `SeqEnd`, `SeqBreak`.
`CallAgain` calls `arun_dag` again in the same process. A second call while futures of a call that
raised are still alive is left out (`Free`): `arun_dag` would take the tasks those futures still
wait to run a second time.

### Healing: `Arbor`, `Healing`

The two runners make the same judgements. The sequential one takes one task at a time; the
concurrent one gathers the whole queue and judges it in queue order afterwards. In the model both
run *passes*: of one task, or of the whole queue. `NextPass` reroutes tasks off open circuits,
`Start`, `Succeed` and `Failing` are `_process`, `JudgeDone` and `JudgeFailed` one round of the
loop that counts, breaks circuits (`Break`, with `RespawnNode`) and retries or buries the task.
Time is kept as what is left of each wait, so it needs no bound. The governor's `max_spawns` is the
policy that may refuse the respawn; nodes are known by their names, which are taken to be distinct.

Worth knowing, and in the model: a rerouted task keeps the root as its target for good
(`runtime.py:380`); `fails` is not reset when a circuit opens, so after the cooldown one more
failure opens it again; a branch is pruned with its descendants, and tasks that target those fail
until they are rerouted or buried; a task that waits for its retry is recorded as failed, so
`resume()` leaves it alone unless `retry_failed` is set.

### Turns and bands: `AgentTurn`, `BandRunner`

A turn is a frame (`turn[t]`): the place between two awaits, the attempts of verification, the
thinks and tool calls of this response, the retries of the `RetryingBrain`. The actions end where
the code awaits: `ActBegins` and `LoopBegins` up to the first `brain.think`; one action for each
way an answer goes on (a rule broken first, accepted, a correction, given up, tools asked for);
`LoopCalls` a tool that returns; `BrainRetries` and `BrainRaises`. Each tells its caller whether the
turn goes on, answers or raises, and `BandRunner` puts the code of `_process` around it: the records,
the events, the callbacks, `Escapes` for a record or a callback that raises, `Cancel` for an event
loop that is closed. Charges go to the budget, the metrics and the trace in one step, as the code
makes no await between them. Which tools are called, and what rules say, is `Charter` and
`Conversation`; here a rule is broken or not.

### The growing tree: `Growth`

`Tree._index` maps ids to Node objects, and `load_tree` puts a new object for every id, so `objs`
keeps objects and ids apart, and `Spawn`, `Prune` and `Solve` may be called on any object ever made.
`Allowed` is the chain constitution, governor, canopy in the order of the code: the governor counts a
spawn once those inside it have allowed it, and a spawn the constitution refuses does not reach it.
The checks, the approvers, the count and the append are one step: it is assumed that one thread
grows a tree and that an approver answers without growing or cutting it. `stack` is the agents of a
`solve`, the delegating one below. `Responds` is an iteration of a tool loop, with any number of calls
of `delegate` up to `MaxCalls` (none where the model asks for other tools, or its answer is not
accepted); `Delegate` takes the next of the calls, and `Delegated` and `NotDelegated` are its subtasks;
`AgentEnds` is an answer, which costs tokens, or a loop that is exceeded or a model that raises, which
costs none. `Load` after `Restart` finds what the last `Save` left. The ghost `astray` notes that a tree
was changed through an object that `load_tree` had replaced: that is where the code keeps none of
its promises about the index, and the invariants say so.

### Shared memory: `Mycelium`, `Substrate`, `Recall`

`Mycelium` is one call of a backend: the dictionary; the dictionary and then the file, written whole
to a temporary file and renamed; SQLite, where all processes see one table. `raised` is a call that
ends in an exception: a file backend has then changed its memory and not its file; a SQLite one does
not roll back, so that the transaction (`txn`) stays open, with the change if it was the commit that
raised, and the next commit of the process takes it along. Until then the process reads what its
transaction shows, and a write on a snapshot that others have overtaken raises (`MayWrite`). The ghost `owed`
is what disk may hold given the calls that returned. `Substrate` is what `Stigma`, `Postbox` and
`prune_expired` make of several calls: `ReinforceLoad` and `ReinforceWrite`, sweeps that list keys
and delete them one by one, `FetchScan` and `FetchMark`. Strength halves with each tick of the
clock, in whole numbers. The clock moves at any time: a `reinforce` that is slow writes back as fresh
what it read, and so lays again what has faded meanwhile. The ghosts `faded` and `laid` keep account of
that, and `NeverInvented` says that this is the only pheromone nobody deposited. `past` is what had
been fetched when a fetch began. `Recall` is search over the semantic and the Chroma backend: `PutEntry` and
`PutVector` are the two statements of `set`, `EmbedRaises` the embedder that raises between them, which
leaves the entry with the vector of an older one or with none; `NextEntry` and `Scores` the loop over a dictionary that
threads change, which raises a `KeyError` over an entry without a vector; a value is how close it is to
the one query. What `list.sort` makes of scores is in
`Sorting`: a match's place is how many are `Ahead` of it.

`SharedConnection` is the inside of one `SqliteBackend` that two threads use. `SqliteLeases` takes a
claim as a transaction of its own; here the transaction is the connection's, and either thread ends
it. `Busy` is a statement that waits past `busy_timeout` and raises; `claim` then rolls back, in a
step of its own.

### Messages: `Mailroom`, `Conversation`

`Mailroom` is what links messages: replies, the `send_message` tool with its limit, and `Thread`,
what a walk over the links in both directions comes upon. `Conversation` is the history of a tool loop,
one step for each response and each tool call, and `Request` what each adapter makes of it: system
prompts, merged roles, results. Claude and OpenAI are sent the ids of the calls and of the results.
Gemini is sent a call under the name of its tool without an id (`NoId`), and a result under the id
`call_i_j` the adapter made up; so for Gemini `HistoryLinked` can only ask for as many results as
calls, right behind them and in their order (`LinkedByPlace`).

### Rules: `Charter`

Rules are attached to the org and to nodes, by anyone at any time; `Standing` collects those a node
is under. `Upholds` is the rule library, with a text as the set of traits the rules ask about.
`Allowed` is `ConstitutionPolicy.allow`; `Opens`, `OpensLoop`, `Replies` and `AsksTools` are the turns
of two agents as far as rules and tokens go. Several oddities of the code are in the model as they
are: `act_with_tools` never asks the pre rules; whether the verify rules are asked is decided when
the turn begins; soft violations of a spawn rule are dropped; a pruned node loses its parent.

### Forests and generations: `Voting`, `Evolution`

`Voting` runs the trees of a forest as threads between the operations on the shared cache's
dictionary: look, touch, think, store, measure, evict, with `clear` at any time; an eviction may find
the dictionary emptied by others. `Reconcile` is the vote; the groups of
`majority_vote` are those of the trees, sorted by the votes of their answers (`Sorting`).
`Evolution` grades one genome a step and breeds with any crossing and mutation.

### What is observed: `Trails`, `Broadcast`

`Trails` follows the `TraceObserver` through tasks that interleave, are retried, or are left without
an end; a trace that could not be written is one outcome of its end. `Broadcast` is `EventBus.emit`
over a snapshot of the subscribed browsers, their bounded queues, and the threads that serve them.

### Colonies and tools: `Planting`, `McpLink`

`Planting` parses a file of three templates, each with one setting in one of the forms a YAML value
can have, a bare key (`require_json:`, `topic:`) among them; plants it node by node through a policy that may refuse; saves and loads. Templates are
numbered as the walk of `_plant_blueprint` meets them, so the recursion is a set of what is ahead and
its next element the least. The id of a node, twelve random hexadecimal digits in the code, is the call
and the template: another one for each node. `McpLink` is the
pipe: ids given out, requests and answers in flight, threads between writing and reading, noise on
the line, a server that dies. `Greets` is a handshake that succeeds and is followed by its
notification; a call or a handshake answered by an error, or a pipe that is closed, ends in `Ends`.

## 3. What the runs check

| run | module / cfg | instance | shows |
|---|---|---|---|
| `sqlite_leases` | `SqliteLeases` | 2 processes, 1 task, TTL 2, clock to 5 | mutual exclusion of beliefs; refinement of `LeaseTable` |
| `fleet_safety` | `MCDistributedWorker` / `FleetSafety` | 2 workers, 3 tasks (one dependency), TTL 2, 1 crash or abort | no task twice or early, final records final, no idle lock, drained at exit, tallies add up |
| `fleet_leaves` | `MCDistributedWorker` / `FleetLiveness` | 2 workers, 2 tasks, `max_tasks` 1, 1 crash | every worker leaves |
| `fleet_reclaim` | `MCDistributedWorker` / `FleetReclaim` | as above, workers that never give up | *violation* `DeadWorkReclaimed` |
| `fleet_double_publish` | `MCDistributedWorker` / `FleetDoublePublish` | both workers publish the same 2 tasks | *violation* `RunOnce` |
| `dag_runs` | `MCDagRunner` / `DagRunner` | all graphs of 3 tasks, all acyclic graphs of 4, a fifth cut off; all plans of at most 4 leaves on 2 levels; 2 slots | never early or twice, skipped for cause, nobody forgotten, a plan's dependencies kept, the call ends |
| `durable_runs` | `MCDurableRun` / `DurableRun` | 3 tasks, 6 graphs, queue cut at 2, 1 crash, 1 retry, 1 further call | finished work is neither repeated nor lost; recorded work gets finished |
| `resume_graph` | `MCDurableRun` / `ResumeGraph` | 3 tasks, one dependency, 1 crash | *violation* `ResumeHonoursGraph` |
| `healing` | `MCHealing` / `Healing` | 3 tasks on any target, 2 nodes in any tree, 2 retries, threshold 2, cooldown 2, one spawn granted, both runners, every setting of reroute and respawn | no task lost or given up early, open circuits rested, only failing branches cut, records true, the run returns |
| `agent_turns` | `MCBandRunner` / `BandRunner` | 3 tasks on a node with tools and one without, one or two bands, sequential or 2 at a time, budget of 2, 2 attempts of verification, 3 iterations, 1 retry, 1 fault | charges agree and overspending is bounded, what is done was verified, node states, order of bands, records and results, the run ends |
| `growth` | `MCGrowth` / `Growth` | 3 agents and 2 spawns at most, 5 Node objects, depth 3 (1 after a restart), 1 solve of 2 levels, 2 delegate calls in a response | index and tree agree, ceilings hold, delegation is bounded and ends |
| `services` | `MCServices` / `Services` | twelve scenes, one at a time | below |

Parts that share no state are explored side by side in one run, `services`: the scene is chosen at
the start and the rest stays in one initial state, so its states are the sum and not the product.

| scene | instance | property |
|---|---|---|
| memory | 2 processes on SQLite or 1 on the others, a key, a trail, 2 messages, 3 calls, 1 crash, clock to 2 | `AckedSurvives`, `NeverInvented`, `MailKept`, `SubstrateInv` |
| mcp | 2 threads, 4 ids, 1 line of noise, a server that dies | `AnswersMatch` |
| forest | 3 trees on 2 threads, a cache of 1, 2 prompts, 3 answers, 1 `clear` | `VotesKept` |
| feed | 2 emitters of 2 events, 2 browsers, queues of 1 | `FeedKept` |
| mail | 4 messages between 2 members, 1 a turn by the tool | `ThreadWhole` |
| talk | every vendor, with and without a system prompt, 3 responses of up to 2 calls | `HistoryLinked` |
| recall | both backends, 2 keys, 2 threads, 2 writes, `k` 1 | `RecallTells` |
| trail | 2 tasks, 2 attempts of 2 thoughts | `TrailsTell` |
| colony | 3 templates, every setting in every form, 2 calls of `plant` | `ColonyKept` |
| evolve | 3 of 2 genomes, 2 survive, 3 generations, grades that vary or not | `BestKept` |
| law | 2 agents, 3 nodes, 3 turns, 2 constitutions (one of growth and tokens, one with a rule of most other kinds), 1 rule added | `CharterKept` |
| wire | a worker of 4 calls and a heartbeat of 2 on one connection, another process | `ConnectionTells` |

Several properties are conjunctions, so that one run asks one question: `NothingLeft` is `NoIdleLock`,
`DrainedAtExit` and `CountedOnce`; `DependenciesKept` is `ReadyWhenRunning` and `SkippedForCause`;
`HealsForCause` is `BrokenForCause` (of the sequential runner; the concurrent one counts a pass in
the order of its queue, where failures can be in a row that were not so in time, and when its circuits
break is left to that count), `CutForCause`, `RetriesRest` and `RecordsTell`; `SpendKept` is
`SpendBounded`, `AccountsAgree` and `SignalsRationed`; `RunTells` is `TurnTypeOK`, `BandsInOrder` and
`OutcomesAgree`; `GrowthBounded` is `CeilingsHold` and `DelegationBounded`; `MailSound`
in `Memory`, `ForestSound` in `Forests`, `ColonySound` in `Colonies` and `ObservedWhole` in
`Observers` join two scenes each, `MemoryTells` in `Memory` three of them, and `CharterKept` is
`RoleKept`, `OverspendBounded` and `AnswersLawful`.

### The disagreements found

* **A dead worker's task is not taken over** (`distributed.py:116`). Only pending tasks are
  runnable; the worker that died left a running record, and its expired lease changes nothing.
  The documentation says another worker reclaims it.
* **Publishing the same queue from every process can run a task twice** (`distributed.py:146`).
  The membership test and the write of `_publish` are two steps; a worker that stops between them
  writes a stale pending record over a finished task. The guide advises every process to build the
  same queue. With one publisher, `RunOnce` holds and is proved.
* **`resume()` ignores dependencies** (`core.py:466`): it runs the sequential runner.

Met while modelling, in the models as the code has it, and not given a run:

* "We don't keep a transaction open between calls, so SQLite-level locking is the only concern"
  (`mycelium/sqlite_backend.py:45`): the heartbeat's thread has its calls in between. When its claim
  finds the database locked, and the runner executes a statement before the rollback, the rollback
  drops the statement: the runner's `claim` answers true without a row in the table, so that another
  process can hold the lease too, or its `write` returns without a record. `ConnectionTells` says that
  this is the only way.
* The same comment does not hold of one thread alone either: `write` and `delete` do not roll back when
  a statement or the commit raises (`mycelium/sqlite_backend.py:85`, `:106`), so the transaction stays
  open, and a change the caller was told had failed is committed with a later one. `AckedSurvives` and
  `MailKept` hold all the same.
* A set whose embedder raises leaves its entry behind (`mycelium/semantic.py:178`); where the key is new,
  every search raises until the key is set or deleted. `RecallTells` says that this is the only way
  without calls that overlap.
* A slow `reinforce` undoes the decay between its read and its write (`stigma/stigma.py:65`, `:109`).
* Gemini's API takes the name of the function in a `function_response`; it is sent the id the adapter
  made up for the call (`brain/gemini.py:67`).
* Among ready tasks of a DAG run the semaphore's line is first come, first served
  (`runtime.py:799`), so priority orders only tasks that become ready together.
* Concurrent healing waits `backoff(1)` before every pass (`runtime.py:612`); the sequential one
  doubles its wait with the attempts.
* `Plan.to_tasks` makes tasks in the order of dependencies, "the sequential runner executes in this
  order" (`planner.py:109`); `TaskRunner` sorts by priority first, which a plan leaves equal unless a
  caller changes it.
* Attempts of a forest are "genuinely independent" (`forest.py:20`) unless trees share a
  `CachingBrain`: then one answer can be counted several times.
* `unique_role_in_subtree` (`cortex/rules.py:86`) looks below the parent only; two nodes of the role
  can stand in different branches of the subtree the rule is attached to.
* `max_tokens` is tested before a turn, and the turns at work when it is reached go on:
  `OverspendBounded` and `SpendBounded` say by how much it is passed. `act_with_tools` does not ask
  it at all.
* A verify rule added to a node during a turn that began under none is not asked in that turn.
* A task that was recorded as failed and is then buried is counted twice by the metrics.
* A saved tree has neither rules nor the declared tools of its nodes.

### Why these bounds

Two workers are enough for every race here: each property is violated, if at all, by one actor
acting on what another has changed, and the third role (the clock, the heartbeat, the crash) is a
separate action. TTL 2 gives a lease that is fresh, about to expire and expired. Two slots let two
futures end before `run()` looks; four tasks give chains, diamonds and forks; the fifth task gives a
prerequisite outside the queue. Four leaves on two levels give a dependency between two steps that
are both decomposed. One crash per run suffices for resume, whose outcome depends on the records
only; a second call and a retry put runs in a row. Two retries let a circuit break, close and break
again. A budget of two with two turns at work is passed by one of them while the other thinks. Five
Node objects let a tree of two be loaded while callers hold the old one. Three calls are a scan, and
a write of the other process between it and its end. A cache of one entry evicts at every miss, a
queue of one overflows at once.

The bounds that appear in guards are `MaxTime`, `MaxCrashes`, `IdleCap`, `MaxRetries` and `MaxCalls`
(`DurableRun`, and the shared memory's), `MaxLeaves`, `MaxFaults`, `MaxObjects`, `MaxSolves`,
`MaxRestarts`, `MaxIds`, `MaxNoise`, `MaxClears`, `MaxEvents`, `MaxLetters`, `CallBound`, `ThinkBound`,
`MaxWrites`, `MaxAttempts`, `MaxThoughts`, `MaxPlants`, `MaxSites`, `MaxRules`, `MaxTurns`,
`MaxDeeds`, `MaxBeats` and `Generations`; each is a constant with a comment, and the
theorems hold for every value of them.
The `MaxCalls` of a tool loop, and of `Growth`, bounds the calls of one response. `max_retries` of healing, the maximal
depths and `max_tasks` are the code's own parameters.

### Fairness

* `DistributedWorker.FairSpec`: each worker that has not died keeps taking steps (its brain and the
  store answer), a heartbeat claim in flight ends, time passes. A dead worker owes nothing.
* `PlannedRun.PlannedSpec`: `run()` begins on a queue that is there, goes on with its loops and is woken
  when a future has ended, and a future that has a slot ends. Nobody is bound to plan, or to enqueue a plan.
* `DurableRun.DurableFair`: the same, and `resume()` is called after an interruption; `NothingLost`
  is about colonies that are resumed.
* `Healing.FairSpec`: the runner goes on, each attempt ends, time passes.
* `BandRunner.Spec`: each task that has a slot goes on (its brain and its tools answer), `run()` goes
  on to the next band and returns.
* `Growth.Spec`: the agents of a `solve` go on; callers, who share the tree with them, need not.

All of it is weak fairness of steps a live process makes by itself. Deadlock checking is off
wherever the modelled program ends.

## 4. What is proved

The theorems hold for any number of workers, tasks, agents, threads, graphs and rules and for any
bounds. Every state formula below that a run checks was checked first and proved then; every proof
has the same shape: an inductive invariant made of named parts, one lemma for each part, in it one
step for each action.

`SqliteLeases_proofs` assumes only what the constants are; the model has one thread to a connection
(`SharedConnection` is about two). `Inv` says that whoever counts on a lease
has the committed row, with the expiry it counts on, and that an open transaction holds the
committed table plus rows it could take. That is what makes `ExclusiveBelief` inductive: the row
has one owner. `RefinesLeaseTable` shows by cases that a commit is an atomic claim, a release a
release, a tick an elapse, and everything else a stutter.

`DistributedWorker_proofs` assumes what the documentation asks for: `Prompt`, that a lease outlasts
the pause between a claim and the next record write, and `PublishedOnce`, that one process publishes
a task (`fleet_double_publish` shows it is needed). `FleetInv` says what each stage of a worker
knows whatever the others do: its snapshot may be old, but what it saw finished is finished
(`SnapshotsHold`); between claim and write the lease is alive and its own (`LeaseHeld`), so two
workers never are between claim and write of one task; the record is then still pending
(`RecordKnown`). `RunOnce` follows because the running record is written in the step that counts
the run; `FinalStays` because every record write happens in a stage where the record is known not to
be final. `DependenciesKept` needs `PrerequisitesFirst` besides, that a process creates a task after
its prerequisites: `GraphInv` then says that a task is never in the queue without its prerequisites (`QueueClosed`), so that
a prerequisite missing from a worker's snapshot cannot be an unfinished one, and that what a worker
has decided to run or to write off is still so (`ClaimsReady`). `NothingLeft` needs `EveryTaskPublished`, that the queue is what the fleet made. It
stands on three layers: `LockInv` (a lease of unfinished work is one its owner is at work on, and a beat in flight is for the task
being run or for a finished one), `DrainInv` (a pending task is in somebody's hands, or waits for
another, or some worker has yet to look at it), `CountInv` (a finished task is in one tally, or about
to be).

`DurableRun_proofs` begins with one call, and needs nothing beyond the assumptions on the constants. `DagInv` says that a task
is in one place (waiting, active, ended, or not launched), that its status is what the place says,
that the counter of `run()` is the number of prerequisites not yet seen done (`DegreesExact`), and
that what has a future has all its prerequisites done (`LaunchedReady`). The counter is where the
argument is: several futures have ended when `run()` wakes, and each decrement must be for a
prerequisite that had not been counted. `AheadKnown` says what the loops have before them: a task is
put on the stack of skips for a prerequisite that failed, and has no future. From it: `NeverEarly`, `RecordsFollow`, `ReturnsFinished`
and `SkippedForCause`, with a further invariant, `Sound`: a broken future is never settled, a call
that returns had none, and a call that runs has no stuck tasks. `RecordsFollow` holds between any two
writes: memory and record differ for a task whose own write raised, and for what the checkpoint has
not come to.

It then takes the queue through several lives. `LifeInv` is what outlives a process: every start of a
task that may be started again has been excused, by a cut or by `retry_failed` (`Excused`), and the
place of a task, in either runner, says what its record is (`Places`, `Marks`). Of a
`DagStep` it needs only that a start takes a task that waits and a record is written where the task
ended. `RerunsExcused` and `DoneStays` follow.

Last come plans. The assumptions are that the widths of answers are numbers, that no task stands for
two leaves and that there are tasks enough (`SlotsAssumption`); depth, widths and graphs are free.
`PlanTypes` is what the planner has in hand: every step is younger than the one it is part of and
needs siblings only, the calls of `_expand` still to make are for leaves, each for another, and there
is room for the leaves. `PlanTasksHolds` says what `to_tasks` makes of any such tree, those with a
cycle included. It takes three steps.

* `AttachTells`: `attach` gives a leaf exactly the leaves it is to wait for. The functions that go up the
  tree (`AboveOf`, `Inherited`) have the values they should by the least step of which it is not so,
  the one that goes down (`LeavesByStep`) by the last.
* `ToposortTells` and `SortedUnlessCycle`: after n rounds (`KahnStates`) each step taken has all it needs
  before it, what is ready is not taken, and everything that could be ready is. So when nothing is
  ready any more, the steps left out each need another of them, and only then does the code raise.
* `BuiltTells`: what is ahead in the walk and the leaves already made are in an order (`InOrder`)
  where none needs a later one or a part of it; replacing a step by its sorted substeps keeps that.
  With each step visited once, the walk has ended after as many rounds as there are steps, so no leaf
  is left out (`Covered`).

`PlannedInv` adds that a call has not begun before the tasks are there, and that the dependencies of
the tasks hold all that the plan means (`DueKept`), which the runner never changes. `PlanKeptHolds` is
that and `NeverEarly`; `PlannedCallHolds` repeats what is proved of a call for one on a planned queue,
whose graph `enqueue_plan` has changed.

`Healing_proofs` holds for any tasks, tree, policy and either runner, from the assumptions on the
constants. `HealInv` says where a task may be (`Placed`: in the queue it is pending, in the pass it
is not dead, elsewhere it is done or dead, and never in two places), how its starts follow from its
failures (`Counted`: one more while it runs or waits to be judged, as many once it is retried), and
that nothing waits in a pass for an open circuit (`Rested`). The last is inductive for two reasons
the code leaves implicit: a circuit only breaks when the whole pass has ended, and the root, where
rerouted tasks go, has no circuit. From it: `NoTaskLost`, `DeadForCause` and `OpenIsRested`.
`HealsForCause` adds `CauseInv`: what a circuit has counted are failures in a row, and what a record
says is the place of its task.

`BandRunner_proofs` is about one run of turns. `RunTells` takes `BandInv`: of the tasks launched
all that has not ended is of one band, and a task has ended with the record and the events its
status says. `DoneIsVerified` follows turns through every await: a frame that may still be accepted
has attempts left, and what is accepted has passed. `NodeTells` needs that a node works for a turn
that has it, and knows of the turns cut off. `SpendKept` has two parts. `AccountInv` says budget,
metrics and trace differ by nothing at every await, because they are charged in one step;
`CreditInv` counts, with the cardinality of a set of points, what the turns that are past the
budget's check can still spend, so that the overdraft is theirs (`CostsBounded`: there is a largest
cost of a response).

`Growth_proofs` is about a tree whose objects are held by callers and agents that nobody controls.
`IndexIsTree` and `GrowthBounded` rest on `TreeInv`: a parent is older than its children and was
given its id before them (`ObjsInv`), so that every object has a path; no object below another one
has the id of the root, or of the root last saved, so that no prune, through whatever object, takes
the root out of the index (`RootInv`); an id is in the tree once (`LiveInv`); and what is saved is a
tree of at most the saved depth (`SavedInv`), so that what `load_tree` builds is one too. `Path` is a
recursive function; that its equation has a solution, and that paths nest, grow and are cut as they
should, is proved by the least object of which it is not so (`LeastOf`, `ForestInduction`).
`StackInv` adds that the agents of a `solve` are each one level deeper than the one below and on a
younger object, so that none of those at work shares a node, and the numbers in the names of its
children are below its count.

`Substrate_proofs` proves `AckedSurvives` for any processes, keys and calls of the three backends,
including those that raise and processes that die. `AckInv` adds that
the dictionary in front of a file holds only what is owed too, because the next flush puts all of it
on disk, and that a store which is not shared has one user. `ChangeKeeps` and `DeleteKeeps` are the two calls of a backend that
write; every action of `Substrate` is one of them or none. `NeverInvented` is about copies: an entry
of a trail exists on disk, in the dictionary, in what is owed, in a read under way and in a write
about to be made, and each of these is `Faint`, the deposited strength halved by an epoch some clock
has reached. Halving a power of two is what the arithmetic needs. `MailKept` goes the same way over
letters: wherever a message is marked, on disk, in a dictionary or in a transaction left open, some
fetch has returned it, has it in hand, or lost it; and a fetch that comes to its end read a store in
which the marks of the fetches before it were. The
module also has what uses the memory, and what sorts as a search does:

* `ConnectionTells`, for a worker and a heartbeat on one connection: `WireInv` is about the table as
  the next commit, by whichever thread, would make it.
* `RecallTells`, for any keys, threads, closeness and `k`. While no two calls overlap one thread at
  most is between the two statements of a write or a delete, on the only key whose vector is not what
  its entry says (`OneAtWork`), but for the keys the embedder raised on (`unembedded`), and a search finds everybody at
  rest; so the slots it has passed are in its matches (`Loop`). `RankedFacts` says of the sort and the cut after it that a match left out has
  `k` as close ahead of it. With `SubstrateInv` and `ConnectionTells` it makes `MemoryTells`.
* `ThreadWhole`, for any letters: one replies to an older one, so each has an opening, which is a
  recursive function with the values it should have (`OriginsSolved`). Links keep the opening, and a
  set that links do not leave has its opening and all that came of it. With `MailKept` it makes `MailSound`.
* `BestKept` and `VotesKept`, which make `ForestSound`. `Sorted` says of the sort that it has every
  place once and none behind one with a lower score: the number of those ahead tells the places apart,
  so each number below their count belongs to one. The elite of a steady evaluation is graded as
  before (`Carried`). In the cache, a thread that has stored owes an eviction (`CacheKept`).

`Services_proofs` covers the smaller parts.

* `AnswersLawful`, a part of `CharterKept`, for any rules, texts, agents and
  trees. Two facts make it inductive: an agent that began under a verify rule asks the verify rules in
  the whole turn (`FrameAsks`), and a rule that judges answers sees the answer only, so a verdict stands
  while the tree and the rules change (`AnswerRulesSeeNoTree`).
* `OverspendBounded`, for any costs, texts and trees and any finite set of agents. Each attempt an agent at
  work has left is a point of credit (`Credit`). Below the cap the bound counts the credit all agents could have; once it
  is reached nobody sits down, and each answer takes the point it spends (`SpendInv`).
* `RoleKept`, for any trees, rules and cuts: a path to the root only shrinks, because a node that is cut
  off takes what is above it out of the paths below it, and a new node is on no older one's path. What `Node.path` computes is
  a recursive function, and that it has the values it should (`PathsSolved`) goes by the least node for
  which it would not.
* `ColonyKept`, for any file and calls of `plant`: a template is planted, is ahead in the walk, or has a
  parent that is not planted (`Covered`), so when nothing is ahead there is no first one left out; and
  nodes and snapshot are right by the same definition (`NodesKept`), which a save and a load trade.
  With `RoleKept`, `OverspendBounded` and `AnswersLawful` it makes `ColonySound`.
* `AnswersMatch`, for any number of calls that do not overlap, any noise and failures: `PipeInv` says
  that ids only grow, and that of all lines on their way one at most bears the id that is waited for,
  whatever calls that failed have left behind.
* `HistoryLinked`, for any number of responses and calls: a history is a row of whole exchanges
  (`Full`) followed by one that is being answered (`Chain`), under ids for two vendors, by place for the
  third.
* `FeedKept` and `TrailsTell`, which make `ObservedWhole`. A browser is in the list of subscribers and
  in every snapshot of it at most once, so each event that is on its way to it will be put or dropped
  once, and what it has read, has queued, has dropped and is to get make up what was emitted, in the
  order of each emitter. A trace is begun and ended by one attempt, and the observer's thoughts are
  those of the attempt that has begun.

### What is only model-checked

Liveness: `EveryWorkerLeaves`, `PlannedRunEnds`, `NothingLost`, `RunReturns`,
`RunEnds`, `SolveEnds`. Fairness and ENABLED are out of the proof system's reach. Every other property
of a passing run is the statement of a theorem.

## 5. What is not modelled, and the plan

Left out for good: what models answer, prompts and formatting; vendor APIs; HTTP and HTML; the
command line, configuration and preferences, which keep no state of their own; learning, a random
choice over trails; the `Router`, a lookup of a brain by name and role; the sandbox's processes, of which a verdict is kept; redaction, artifacts and
the integrations, pure parsing or I/O; logging. The words an approver or a risk level is guessed from
are any answer.

Not modelled yet: rule packs and the judge, automatic emissions and evaporation around
a run, a restore from a snapshot made by hand.

Assumed: one thread grows a tree, and its approvers only answer (`Growth`); no second call of `arun_dag`
beside the futures of one that raised (`DurableRun`).

Abstracted: clock skew between machines (all workers of a fleet see time pass together); failing
writes during healing; duplicate node names; the strength of a trail in whole halves.

What would come next: the restore of half a snapshot, which `save` never writes.
