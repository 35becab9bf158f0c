# ZeAgent in TLA+

ZeAgent is a multi-agent backend: FastAPI handlers over a MySQL database, served
by several uvicorn worker processes (`docker/Dockerfile.backend:51` starts four),
with agents that call tools, workflows of agents, triggers that start them, and
an administration side where agents are edited, reviewed and published. These
modules model the parts of it whose correctness depends on the order in which
things happen: between workers that share the database, between asyncio tasks
that share a process, and across crashes, stalls and failed writes.

Contents: [inventory](#inventory), [modules](#modules),
[runs](#what-the-runs-check), [findings](#findings),
[known divergences](#known-divergences), [fairness](#fairness),
[proofs](#proofs), [what is left out](#what-is-not-modelled), [plan](#plan).

## Inventory

| Component | State | Operations | Hard behaviours | What makes it correct |
|---|---|---|---|---|
| Agent release life cycle (`services/agent_version_service.py`, `api/admin/agent_manage.py`, repositories) | `tb_agent` (working copy, `release_status`), `tb_agent_relation` (bindings), `tb_agent_version` (frozen versions) | create, edit, submit, approve, reject, snapshot, rollback, toggle, delete, backfill command | every repository call is a transaction of its own; workers interleave between them; a failed write is swallowed; a handler may die half way | a review is of the working copy, one version pending, one published, nothing unsubmitted goes live, editing ends a review |
| MCP process pool (`tools/data_providers/mcp_client/process_pool.py`, `utils/mcp/stdio.py`) | lists of connections per key, LRU order, child processes, locks | acquire, create, call, remove, evict, idle cleanup, shutdown | awaits between check and use, processes that end, timeouts, cancelled tasks | each call gets its own answer, connections are exclusive, the pool is bounded, no process leaks |
| Trigger leader election (`services/trigger/leader_election.py`, `registry.py`, `server.py`) | the lease row, `was_leader`, the loaded triggers of each replica | load at startup, heartbeat, load, unload | replicas interleave between SELECT and UPDATE; crashes, stalls, database errors | webhook and file-watch triggers run on one replica, and failover leaves them running |
| Trigger registry of one worker (`registry.py`, `file_watch_trigger.py`, `cron_trigger.py`, `api/admin/trigger.py`) | dict of running triggers, watch tasks, APScheduler jobs | register, unregister, reload, enable, disable | awaits between pop and register; registering twice | one running instance per enabled trigger, none of a disabled one |
| Human review (`utils/review/registry.py`, `core/guard/`, `api/plan/review_routes.py`, `api/approval/`) | a queue of one place per review id, in each worker | register, await, answer, time out | answer against timeout, second answer, re-registration, the answer reaching another worker | a guarded tool runs only after the approval of that call; an answer is used or refused, not lost |
| Multi-agent dispatch (`services/multi_agent_service.py`) | `tb_dispatch_record` | dispatch, review, advance, complete, fail | the reader of the stream leaves; rounds share an id | a rejected round is the last; what is registered is waited at |
| Quota (`services/quota_service.py`, `quota_guard.py`) | counters per workspace and period | check and deduct | check and deduction in two transactions; fails open | the counted use does not exceed the limit by more than the overlap |
| Workflow graph (`executor/workflow/`) | task results per thread, seeds, rounds | build graph, run node, skip, loop, replan | parallel tasks, failure of some, ids that are reused, loop and replan limits | a task runs after its dependencies, once, under its own id; rounds end |
| Plan executor (`executor/plan_executor.py`, `utils/planning/`) | plan, results by events, threads of the session | plan, run, review, iterate, stop | two copies of the results; a reviewer's plan is not validated; a client that leaves | every message ends, and is answered from what its tasks returned |
| Memory (`memory/`, `api/admin/memory.py`, `memory_decay_trigger.py`) | rows in SQLite, two caches, one searcher per tier | remember, recall, forget, update, decay, clear, roll back, restart | copies held across awaits, background deletions, searchers built while writers go on | caches have rows, searchers have every memory, what is forgotten stays so |
| Circuit breaker (`utils/circuit_breaker.py`) | state, failure count, time of opening | allow, success, failure | half-open probes of concurrent tasks | one per request, so it never opens |
| Approval notifications (`api/ws_approvals.py`) | sockets per worker, a Redis channel | broadcast, subscribe | delivered locally and again over Redis | best effort |
| Caches (`core/subagent/registry.py`, `utils/common/cache.py`) | definitions with a TTL per worker | get, invalidate | other workers' caches | staleness bounded by the TTL |
| Single-agent executors, chat API | request-scoped | drive language models | streams, cancellation | depends on the model's answers |
| Knowledge bases, plugins and marketplace, authentication, text-to-SQL, front end | stores, files, sessions | see PROJECT.json | partial writes | see PROJECT.json |

How they interact: the administration handlers write the agent tables; the chat
and trigger sides read them through `get_effective_agent`, which lays the
published version over the working copy; tool calls of an agent go through the
guard (human review) and, for MCP tools, through the process pool; triggers and
the chat API start dispatches and the plan executor, which build workflow graphs
of agents and ask reviewers between the rounds; requests over the API pass the
quota first; executors remember and recall through the memory manager.
Workers share the database (and Redis for notifications); pools, caches, the
trigger registry and the review registry exist once per worker process.

## Modules

| Module | Models |
|---|---|
| `ReleaseGate` | the abstract approval flow of one agent: what editors and reviewers may rely on |
| `AgentRelease` | the handlers, one action per database transaction |
| `AgentReleaseProps` | their properties, and the strengthening the proofs use |
| `ReleaseView` | what is seen of the agent between handlers: the refinement of `ReleaseGate` |
| `AgentReleaseProofs` | theorems about `AgentRelease` and `ReleaseView` |
| `MCReleaseSerial` | one worker |
| `MCReleaseWorkers` | two workers and a fault |
| `McpPool`, `MCPool` | the MCP process pool of one worker |
| `McpPoolProofs` | theorems about `McpPool` |
| `Lists`, `ListsProofs` | taking members out of a list, and lemmas about it and about joining lists |
| `TriggerLeader` | the lease and the heartbeats of all replicas |
| `TriggerLeaderProofs` | theorems about `TriggerLeader` |
| `TriggerRegistry`, `MCTriggers` | rows, registries, jobs and watch tasks of the triggers |
| `TriggerRegistryProofs` | theorems about `TriggerRegistry` |
| `Dispatch`, `MCDispatch` | dispatches, messages and guarded tools: quota, record, review |
| `DispatchProofs` | theorems about `Dispatch` |
| `PlanRounds`, `MCPlan` | the plan executor: plans, graphs, rounds, reviews |
| `PlanRoundsProofs` | theorems about `PlanRounds` |
| `MemoryTiers`, `MCMemory` | the three tiers of the memory and their searchers |
| `MemoryTiersProofs` | theorems about `MemoryTiers` |

### AgentRelease

The handlers of `agent_manage.py` and `agent_version.py` are `async def` without
an `await` between their repository calls, so one worker runs one handler at a
time; each repository call opens and commits a session of its own, so the
handlers of different workers interleave between those calls. A handler is a
sequence of actions; `pc[w]` names the next transaction of worker `w`, `loc[w]`
holds what the handler has read. `agent` is the row of `tb_agent`, `bound` the
bindings, `rows` the versions.

- `repo.update` reads a row and writes it in one session, unconditionally: an
  atomic blind write. A read that only decides on "not found" is merged with
  the next step where the two commute.
- `BaseRepository.update` logs an exception and returns None, which no caller
  looks at (`LoseWrite`); a failed read ends the handler with an error
  (`LoseRead`); a worker may die anywhere (`Abort`). `MaxFaults` bounds the three.
- `get_pending` and `get_by_version` have no ORDER BY: any matching row.
- The visibility filter of skills and MCP servers is the set of tools an editor
  sees (`Views`). Both kinds are one binding relation, replaced by a removing
  and an inserting transaction. A rollback binds without that filter.
- `cfg` stands for one column of the snapshot: with `Nullable` one that may be
  NULL (`agent_config`), without it one that may not. The version number is the
  patch part of the semantic version; `Tries` is `next_version_no`'s limit of 100.
- Agents do not share rows, so one agent is modelled. The backfill command runs
  beside the workers and counts as one.
- `clean` is a history variable: the worker whose handler nothing has
  overlapped and nothing has failed in. It states what a handler guarantees when
  it does run alone, from whatever state races and faults have left behind.

### McpPool

asyncio tasks of one worker interleave only where the code suspends; `pc[t]` is
what task `t` awaits: a process being spawned, its handshake, the end of the
connection it replaces, the answer to its call, the end of a failed connection.
`acquire` finds a free connection and the caller takes its lock without a
suspension between the two; `_remove_conn` and the signal to terminate happen
before the await of `close()`. `order` and `conns` are the ordered dict of lists,
`proc` the child processes with the requests each still owes an answer to
(`owed`), `closing` the evicted connections whose close is a scheduled task,
`sweep` what the cleanup loop has yet to close. The list of a key is held across
an await in `_create_connection`; when the pool drops or replaces that list
meanwhile, the task's local list is an `orphan`. `list_tools` is one more request
of the same shape as `call_tool` and not told apart from it.

One tick of the clock is the call timeout (`CallTimeout = 1`); the idle timeout
of five minutes is longer, which is all `SweepSparesBusy` relies on.

### TriggerLeader

Worker processes are replicas; the lease is the single row of
`tb_trigger_leader`, `lease.left` the ticks to its expiry. `acquire_or_renew`
reads the row (`Read`) and writes it (`Write`): the read locks nothing and the
UPDATE repeats no condition, while two INSERTs are told apart by the primary
key. `load_from_db` loads by the answer, `start_heartbeat` then asks `is_leader`
(`Probe`) to set `was_leader` (`was`), and a heartbeat loads or unloads when the
answer differs from it. Replicas end (`Crash`: a shutdown does not give the
lease back either), stall (`Pause`: a blocked event loop), restart with the same
holder id (host and process number; a restart under another id is another
replica starting), and meet database errors in every statement (`Fault`),
including a commit that fails after it took effect. `list_enabled` turns a
failed query into an empty list (`trigger_repository.py:80-82`), so a boot that
cannot list goes on with nothing loaded, and a reload that cannot list
(`ReloadFault`) sets `was_leader` all the same and never tries again.

A tick is 15 seconds: `Interval = 1`, `Ttl = 2` are the defaults of the code.
Clocks agree; a replica that does not stall completes an election, and a boot,
within a tick. Loading and unloading is one step here (`loaded`) and taken apart
in `TriggerRegistry`.

### TriggerRegistry

`row` is `tb_trigger`, `reg[w]` the dict of running instances of worker `w`,
`jobs` the APScheduler store all workers share, `watching[w]` the watch tasks.
A request is atomic except between its statements on the row, where the worker
may be killed (`torn`), and where it awaits the watch task it has stopped
(`FileWatchTrigger.stop`). `update` reloads, `enable` registers the row it read,
`disable` and `delete` unregister, `create` registers nothing even if the trigger
is enabled (`missed`). The heartbeat loads and unloads the triggers that are not
cron by an arbitrary answer of the election: who leads is `TriggerLeader`'s
matter. A failed statement is swallowed (`lost`). `overlaid` records an instance
that was registered over another one that nobody stopped.

The checked instance has one worker: registries of several workers do not hear
of each other's changes, so agreement between rows and registries is not even
meant to hold there (see [known divergences](#known-divergences)). The module
takes any number.

### Dispatch

A run is a dispatch over the API or by a trigger, a message the plan executor
works on, or the call of a guarded tool. `step[r]` is where it is, `home[r]` its
worker, `queue[w]` the class-level dict of `ReviewRegistry` in worker `w`, `box[r]`
the one place of the queue that run made, `told[r]` the answer a reviewer was told
is accepted. Reviews are registered under the dispatch id, the session id (a
message: `Session`), or a fresh id (a tool). A dispatch registers, yields the
event and waits when its reader asks for more (`Offer`, `Await`); a message
yields first; a tool does both at once. A wait ends by an answer, a timeout, a
cancellation or the end of the worker, and removes whatever queue its id has by
then. The trigger that started a dispatch reads its events as dictionaries;
`plan_review` is a string, so it raises and abandons the dispatch (`Abandon`).

The check of the quota and the deduction are two transactions of one step of the
event loop: `Free(w)` says that nothing else of that worker runs between them.
`human_approval` is on and the quota's action is `block`, the configurations in
which there is something to check; one unit of the quota is one request's
estimate. A round is one step here (`PlanRounds` takes it apart).

### PlanRounds

One session of the chat. A message is planned (`Planned`: what the model answers,
what `_validate_plan_structure` refuses, the fallback to one task whose text is the
prompt of the planner), and
runs as one workflow (`graph`) or as a sequence of them (`dynamic`, `debate`). A
workflow is a sequence of rounds: a graph in super-steps, a review of the first
rounds, and `WorkflowRunner.advance`, which loops, replans or finishes. LangGraph
is external: the tasks of `front` run together, their writes are merged into the
thread when all have returned, and a task becomes ready when its joined edges
have fired (`Ready`). A node skips its task when a result with its id is seeded
(`Todo`, `Skip`), waits for the semaphores (`Free`, `AcquireTimeout`), and returns
a result however its agent ends: the exception is caught two layers below, so
`on_failure` is never looked at. The results are kept twice, by events in
`context` and by the graph in `threads`. Ids are names a planner invents for each
plan; results remember the task they came from, for the properties.

### MemoryTiers

`imm` and `st` are the caches of the first two tiers, `row` the SQLite table, `index`
the searchers that `recall` builds on first use (`built`), each with the number of
copies it has of a memory: the searcher appends without looking for one and
removes the first (`hybrid_search.py:201-218`). A handler is at one await at a
time: `op[h]` says which, with the memory or the copies it holds. What `remember`
stored it looks up the searcher for afterwards (`Look`) and adds after the
embedding (`IndexAdd`).

Storage has one FIFO lock, so a cache mutation and the row write behind it are
one step. The storage may fail (`faults`): a save or a deletion behind a cache is
logged and the cache has changed all the same (`SavedBehind`, `DeletedBehind`), the
deletion of an evicted row raises out of the add (`EvictRaises`), and what writes
the long-term tier raises to the caller (`Raise`). A worker killed between the
cache and its row is a failure followed by a restart; reads do not fail.
Evictions and sweeps delete rows in background tasks (`doomed`) that a restart
loses. The administration names a tier, "long_term" by default, and the long-term
tier goes by id whatever the row says (`sqlite.py:75-90`): `Delete` and `UpdateGet`
with it find any row.

Four histories say what the properties except, memory by memory: `torn` is a
memory whose own write the storage failed, that the administration reached
through another tier than its own, or whose update found it gone from its
cache; `stray` one that was stored while a searcher was being built, or put back
after it had gone; `twice` one that a searcher was given although it had it;
`gone` those forgotten while nobody else held them, which is what forgetting is
claimed of. The divergences say what happens to the first three. One user; the
content of memories, ranking and what the model answers to a conflict are
arbitrary, and the duplicates that `remember` finds by their content
(`manager.py:129-133`), which change a memory already there, are left out.

## What the runs check

Passing runs:

| Run | Instance | Shows |
|---|---|---|
| `release_serial` | 1 worker, 3 versions, 2 values, 1 tool, all operations | one handler at a time: at most one version pending, an agent is under review exactly when one is, an edit ends a review or publication; the handlers implement `ReleaseGate`, where only an approval publishes |
| `release_workers` | 2 workers, 2 versions, 1 fault, all operations of the review | a draft snapshot is never published, however handlers interleave; an approval (a submission) that runs alone leaves exactly its version published (has frozen the working copy under a fresh number), whatever came before |
| `release_edits` | 2 workers, 1 version, 1 fault, edit, submit, snapshot, toggle, delete | an edit that runs alone takes effect, reverts the agent and voids the version it found pending |
| `mcp_pool` | 2 tasks, 2 keys, 3 connections, pool of 2, 1 crash | without cancellation, a call returns the answer to its own request; the pool exceeds its limit by less than the number of callers |
| `mcp_pool_shared` | 3 tasks, 1 key, 3 connections, pool of 3, 1 cancellation | no connection carries two calls, and the cleanup loop closes none that a call waits on, also when calls replace each other's connections and are cancelled |
| `trigger_failover` | 2 replicas, 2 crashes, 1 stall, 2 database errors | elections exclude each other until something goes wrong; if the loops know what is loaded, then after all crashes, stalls and errors at most one replica runs the triggers in the end (`Converges`) and, if one stays up, one does (`Served`) |
| `plan_rounds` | a message with one of 6 plans, 4 follow-ups, 2 edited plans, 2 prompts, 2 replans, 1 loop, 2 iterations | an agent starts after its dependencies' results (`AfterDeps`); no task of a planner's plan is left out (`AllRan`) or runs twice on a thread (`OncePerThread`); a skipped task is that task, if its id is not given to two (`SkipsOwn`); both copies of the results agree (`ContextAgrees`); loops, replans and iterations are counted, so every message ends whose agents return and whose reviewer does not for ever send back nothing (`Ends`) |
| `memory` | 2 handlers, 3 memories in 2 sessions, caches of one place; jobs, restarts, memories that age and the third memory count one each, a failure of the storage two, up to 3 | caches have rows in their tier, searchers miss nothing, forgetting is final, the first restart refills the caches, but for what the histories except |
| `triggers` | 1 worker, 2 triggers with 5 configurations, 2 requests at once of 4, 2 beats, 1 restart, 1 fault | when nobody is at work, the registry holds exactly the enabled triggers in their rows' configuration, the job store agrees with it, and a watch task nobody can stop comes of registering over another one only |
| `dispatch` | 2 workers, 5 runs of 4 kinds of which 3 start, 2 rounds, limit 1, 2 faults | a registered queue is waited at or was left by its reader; a wait can be answered; one answer is accepted and is what happens; the quota is exceeded by less than one request per worker |

The runs that refute a statement of the repository, `plan_stop` and
`trigger_restart`, are listed under [findings](#findings).

Why these bounds are enough to meet the interesting cases: three versions are
one published, one pending and one old (archived, rejected or draft) at once; a
race in the release module is between two handlers, so two workers suffice, and
the theorems cover any number. `release_workers` leaves out edits and a third
version, and `release_edits` a second version, because their product is too
large to enumerate; theorems cover the product. Three
connections over two keys force eviction, replacement and reuse of each; a
request left unanswered, a dead process and a full pool coincide. Two replicas
with two crashes and two errors reach every order of take-over, stall and
restart; the same run with three replicas and one of each fault was also
checked and holds. `trigger_failover` uses no symmetry because it checks
liveness. In `plan_rounds` the plans are a join, a chain with a loop condition, a
fork with a diamond, a cycle, and one for each iterating mode; the follow-ups
reuse a task, repeat one twice, are empty, or a cycle, so that the planner falls
back twice, for two prompts; the reviewer's plans keep a
changed task's id, drop a dependency, contain a cycle, and use one id twice.
Caches of one place evict on every second memory and three memories fill both
sessions. `memory` would not end with all of its bounds reached at once, so
`Budget` trades them: with two memories any two jobs and a restart, or a failed
write and the restart that shows it; with three memories two jobs (a decay that
meets a forget, a merge and its rollback), a job and a restart, or a failure.
Its proofs have no such bound. In `triggers` four requests, two at once, create and change two triggers: of
two that are unloaded, one changes while the other one's task ends. In `dispatch` any three of the runs start: both messages of a
session with a dispatch or a tool, or one of each kind; two faults are a kill
and a lost write, or two cancellations. Its proofs cover every larger instance.

Deadlock is checked except in `plan_rounds`, `plan_stop`, `memory`, `triggers` and
`dispatch`, where the bounded requests run out and the system really rests.

`Converges` and `Served` have the premise `Known`: each heartbeat loop's
`was_leader` agrees with what is loaded. It is not an invariant (see the
finding `trigger_restart`); it isolates the one place where the code breaks it, the
second query at startup, from everything else the heartbeats are meant to repair.

## Findings

| Run | The code | What is said of it |
|---|---|---|
| `plan_stop` | a task with `on_failure = "stop"` fails, and what depends on it starts on its empty result: the exception never reaches the node (`task_executor.py:253`) | `utils/planning/prompts.py:101`: stop ends at a failure; `docs/specs/2026-07-07-stategraph-builder-design.md:249` |
| `trigger_restart` | workers that start together after the lease has expired both load the triggers; the one that was overwritten starts its heartbeat with `was_leader = False` and never unloads them | `README.md:103`: only the leader runs them; `registry.py:92` |

The counterpart of the last one, a leader that has loaded nothing and never
tries again (its first election failed while its earlier lease was still valid,
or its reload could not list the triggers), is why `Served` needs its premise.

## Known divergences

What the models do because the code does it, beside the findings above. Those
marked (*) contradict a doc or comment; none of them is hidden by a property,
which states what remains true.

Release (the second is about `get_effective_agent`, which is not modelled; views of
all tools in the checked instances keep the third out):

- (*) Two workers that submit the same draft both pass the status check and
  insert a pending version each; `agent_version_repository.py:80` says at most one.
- (*) A version frozen while `agent_config` was NULL does not cover the working
  copy (`config_db.py:113`), so setting it on a published agent is live at once;
  `config_db.py:89` and `README.md:97` say edits are not.
- (*) A request that repeats the bindings as they are counts as no change, but
  drops those the editor cannot see (`agent_crud_service.py:268`); `README.md:94`
  says any change reverts to a draft.

MCP pool:

- (*) A cancelled call leaves its connection pooled with an answer outstanding,
  and the next caller returns it (`process_pool.py:280`; `:9`, `:83`). `mcp_pool`
  runs without cancellation; `MaxCancels` turns it on.
- (*) A connection appended to a list that has left the pool is never reclaimed
  (`process_pool.py:245`; `:8`).
- A pool call that timed out may be executed again by the fallback.

Triggers:

- (*) `unregister` looks only into the registry of the worker that got the
  request (`registry.py:194`): a cron trigger disabled or deleted at another
  worker keeps its job in the shared store, also across restarts;
  `api/admin/trigger.py:182` says otherwise, and `docker/Dockerfile.backend:51`
  starts four workers. Other workers never hear of an update either.
- Creating a trigger as enabled registers nothing until the next start.
- (*) A worker that loses the lease lists the triggers that are not cron and stops
  them one by one; one that an update turns into a cron trigger meanwhile is
  stopped as well (`registry.py:138`; its docstring says all that are not cron),
  and nothing but a start or another request registers it again (`missed`).
- Enabling an enabled file watcher, or two reloads at once, leave a watch task
  nobody can stop (`registry.py:188`, `:208`).
- A graceful shutdown of one worker removes every worker's cron jobs; a kill
  between the row and `unregister` leaves a job nothing removes.
- A replica that does not lead registers webhooks and watches on request; a
  watch loop that crashed stays down; enabling an instance that does not start
  answers success; failed writes are ignored.
- With `human_approval`, a dispatch by a trigger always breaks at the review, its
  queue stays registered, and its record stays "running". A dispatch that fails
  is logged as completed (its errors are yielded, not raised), and the log never
  has a dispatch id, since no event carries it under the expected type.

Reviews and dispatches:

- All rounds of a dispatch share one id: an answer to round 1 sent late, or
  twice, counts for round 2.
- An answer that comes with the timeout gets 200 and is discarded; a second
  answer to a full queue is an error 500; answers reach only the worker that has
  the queue. The plan route takes any text for an action; anything but "reject"
  goes on.
- A message registers after its event, so an immediate answer is refused with
  404; two messages of one session replace each other's queue, and the first
  timeout removes the second one's.
- A client that leaves between the event and the wait leaks the queue, and the
  list of pending reviews shows it for ever.
- Rejected, cancelled and killed dispatches keep the status "running"; the cleanup
  that should fail them raises on each call (`multi_agent_service.py:87`).
- Tools without a coroutine, and tools at the threshold itself (`>`), are not guarded.

Plans:

- (*) A replan may reuse an old id for another task, which is then skipped with
  the old result (`runner.py:137`; the comment at `:77` expects new ids).
- (*) A "modify" without a valid plan repeats the round and its review without
  being counted (`plan_executor.py:738-750`), for ever if the reviewer answers so
  for ever; the comment at `:720-721` says that this is avoided. `AmendNothing` is
  not bounded, and `Ends` has as a premise that it stops. A modified plan that
  does not build replaces the old one all the same.
- All fallbacks of the planner are named `fallback_task` (`generator.py:308`),
  whatever they were asked. The second one in a session, after a replan or in a
  later message with MySQL threads, is skipped with the result of the first.
- With MySQL threads the second message of a session reuses the first thread, so
  the task `direct_agent` is skipped. (*) A rejection in the dynamic mode ends the
  step only, though the log says it ends the execution.
- A failed task is seeded and never retried by a replan; a loop round starts
  with the context of the one before; a wait for the semaphore that times out is
  a failure that "stop" does not stop; agents in stream mode have no timeout; a
  debate ignores a direct final answer; one-task dynamic plans become agents.

Memory:

- `short_term.add` raises KeyError when a sweep deletes the emptied session it
  waits in (`short_term.py:60`).
- (*) After a restart the immediate caches hold the newest memory first, so the
  next full add evicts the newest (`immediate.py:180`; docstring `:172`).
- The administration's delete and update take the tier from the request, and by
  default it is "long_term", which goes by id alone: a DELETE of a cached memory
  takes its row and leaves the cache, a PUT turns its row into one of the
  long-term tier and leaves the cache with the old content
  (`api/admin/memory.py:87-107`). Either way the memory is lost to the cache at
  the next restart.
- A failed save or deletion behind a cache is logged and the cache goes on
  (`immediate.py:53-56`, `:165-169`; `short_term.py:25-29`, `:194-198`): a memory in a
  cache that no restart brings back, or a row that one brings back though it was
  forgotten. The deletion of an evicted row (`immediate.py:46`) is not protected:
  the add raises, what is evicted is gone from the cache with its row still there,
  and the new memory is not stored.
- A searcher that is registered between the save of a memory and the look at
  the searchers (`manager.py:142`) has it already and gets it a second time. A
  forget removes one copy (`hybrid_search.py:210-218`), so the memory is found
  until the searcher is built again.
- The administration's delete leaves the searchers as they are; invalidating the
  long-term searcher pops a key that does not exist (`manager.py:403`).
- The duplicate branch calls a coroutine without awaiting it (`manager.py:132`);
  conflict resolution never runs under hybrid search; consolidation merges
  nothing; decay and promotion have no callers.
- Decay, a merge or a rollback that holds a copy brings a forgotten memory back;
  a touch is not saved; lost background deletions leave rows; expired rows
  survive `clear_user_memories`.

## Fairness

`AgentRelease`, `McpPool`, `TriggerRegistry`, `Dispatch` and `MemoryTiers` state
safety only: no fairness (a reviewer need not answer, a request need not come).
`PlanRounds` assumes `WF(Progress)`: asyncio goes on with a coroutine that can
run, a wait for the semaphores times out, and a review ends, by
`human_approval_timeout` at the latest. That agents return (`AgentReturns`) is no
fairness of the specification, since an agent in stream mode has no timeout: it
is a premise of `Ends`, as is that the reviewer does not for ever answer with a
modification that is none. Nothing else is assumed of what the model or the
reviewer answers: that a message ends is due to the counters. `TriggerLeader`
assumes that time passes (`WF(Tick)`), that a replica that is up and not
stalled goes on with its election or heartbeat (`WF(Elects(r))`: asyncio runs a
task whose sleep is over, and the database answers, if only with an error), and
that a stall ends (`WF(Resume(r))`). No fairness on `Start`: nobody has to start
a worker, hence the premise of `Served` that one stays up.

## Proofs

All are for every value of the constants, from the named assumptions
`ReleaseAssumption`, `PoolAssumption`, `LeaseAssumption`, `RegistryAssumption`,
`DispatchAssumption`, `PlanAssumption` and `MemoryAssumption`, which TLC evaluates in the runs.

`AgentReleaseProofs`:

- `TypeCorrect`: `Spec => []TypeOK`.
- `DraftsNeverPublished`: `DraftsStayDrafts`, an action property. It needs
  `HoldsRow`: the version a handler has in hand was submitted, or inserted as
  published; a version that was never goes back to "free" or "draft" (`RowsKeep`).
- `ApprovalPublishesOne`, `SubmissionFreezesCopy`, `EditsTakeEffect`: `CleanApproval`,
  `CleanSubmission` and the action property `CleanEdit`. None is inductive. The
  invariant is `Inductive == TypeOK /\ HoldsRow /\ CleanAlone /\ Kinded /\
  EditSoFar /\ ApprovalSoFar /\ SubmissionSoFar /\ CleanSubmission`: a clean worker
  is the only one inside a handler, so every other step removes it from `clean`
  and only its own steps remain, and the three "so far" parts say what has been
  established by the label the handler is at. `Kinded` says which handler that can
  be: an edit and a rollback share their writes. `NextNoFresh` is what
  `next_version_no` returns.
- `OneWorkerOnePending` and `OneWorkerUnderReview`: `AtMostOnePending` and
  `UnderReview`, if `Serial`: one worker, no faults, and no agent that is created
  under review (`agent_manage.py:484` takes the status of the request). With two workers both
  are false: two submissions of one draft pass the check before either writes.
  `ReviewSoFar` says label by label which version is pending while the status of
  the agent is not yet, or no longer, the one that goes with it.
- `OneWorkerEdits`: `EditInvalidates`, if `Serial` and `Reviewed`: agents are created
  as drafts, since one that is created published has no version to compare with,
  and every editor sees every tool, since a tool an editor does not see is
  dropped although the request with it does not count as a change (see
  [known divergences](#known-divergences)). From `CopySoFar`, which says the same
  of what is pending and published before the handler is through (`Matches`).
- `OneWorkerImplementsGate`: `ImplementsGate`, under the same hypotheses. The
  refinement mapping reads the history variable `seen`, the state when the last
  handler returned. `SeenSoFar` relates it to what the handler at work has done
  so far; a step that does not return is a stutter, and a return is one of the
  steps of `ReleaseGate` (`UpdateSeen`, `DropSeen`, `FreezeSeen`, `ReviewSeen`,
  `OtherSeen`, one for each kind of handler).

`TriggerLeaderProofs`:

- `TypeCorrect`: `Spec => []TypeOK`.
- `OneLeader`: `Spec => []Exclusive`. While nothing is troubled, the replica that
  holds the lease has at least `Ttl - age` ticks left when it has slept `age` of
  them (`Leading`), so its renewal comes before the expiry, so nobody else gets
  further than the read (`Following`), but for the first INSERT, which the
  primary key lets happen once. It needs only `Interval <= Ttl`.

`TriggerRegistryProofs`:

- `TypeCorrect` and `OrphansAreOverlaid` (`OrphansOverlaid`), for any number of
  workers, from `Inductive == TypeOK /\ ShuttingDown /\ Numbered`. The types alone
  are not inductive: that a worker which is down holds nothing needs that its
  shutdown has every instance on its list and no request at work
  (`ShuttingDown`). `Numbered` is `OrphansOverlaid` with the type of the instance,
  by which `register` knows what it overlays; `Number` returns a number that no
  watch task has because finitely many are taken (`NumberFresh`).
- `OneWorkerOnlyWanted`, `OneWorkerAllWanted`, `OneWorkerJobsAgree`: `OnlyWanted`,
  `AllWanted` and `JobsAgree`, if there is one worker (`OneWorker`): with more they
  are false, since registries do not hear of each other's changes. The three
  are about a registry nobody works on; their invariant `Abiding` says what
  holds while somebody does. An instance that its row does not justify is about
  to be stopped by a request (`Agreeing`), an instance that is missing is about to
  be registered by one (`Covered`), what a request or a start carries still
  agrees with the row it read (`AboutRows`, `Loading`), the jobs a dead worker
  leaves are those it will want (`JobsKept`), and only one of those at work does
  not await a task (`OneAtATime`), which is what makes the rest true. The proof
  of `AllWanted` failed where `_unload_non_cron_triggers` stops a trigger that has
  turned cron since it made its list; hence `missed`.

`McpPoolProofs`, for any tasks, servers and connections and with crashes and
cancellations, from `Sound == Typed /\ Unshared /\ Ordered /\ Awaited`:

- `TypeCorrect`: `TypeOK`. Even the types need that the lists hold no connection
  twice and that the order has exactly the servers with a list (`Ordered`): what
  an eviction drops is a prefix of them all.
- `CallersApart`: `OneCaller`, from `Unshared`: what a task opens is not pooled yet,
  and two tasks that use a connection use different ones.
- `BusyAreSpared`: `SweepSparesBusy`, from `Timed`: the idle time of a connection
  counts from the start of its call. `CallTimeout <= IdleTimeout` is all it takes.
- `AnswersAreOwn`: `OwnAnswer` until the first cancellation, from `Answering`: a
  connection that nobody uses owes no answer, one that is used owes its
  caller's at most. The [divergence](#known-divergences) at `process_pool.py:280` is why it stops there.
- `PoolIsBounded`: `PoolBound`. Each task adds at most the connection it creates, and
  an eviction before the creation leaves room for one; tasks are finitely many.

`ListsProofs` has what these proofs need of lists: which members `Only` and
`FlattenSeq` keep, that they repeat none, and how long the result is. The
recursive functions they are made of exist by the least argument at which they
would not.

`DispatchProofs`:

- `TypeCorrect`, `QueuesAreWaitedAt`, `VerdictsHold`: the three invariants, from
  `Inductive == TypeOK /\ QueuesWaited /\ VerdictHolds /\ Places /\ Offered /\
  Boxed`. `Places` says at which steps a kind of run can be and that tools that
  were called and records that are completed are at their end; `Offered` that a
  dispatch which has yielded its review is registered; `Boxed` that an answer in
  a queue is the one that was accepted and that a queue without one has had
  none. The registry has three kinds of steps (`QueueSame`, `QueueRegistered`,
  `QueueRemoved`), and every action is one of them; the answers are followed
  run by run (`Answered`). That ids of different kinds differ, and that only
  messages share one, is all the assumption says of them.
- `QuotaBounded`: what is used and what is checked but not yet deducted stay
  within `Limit + Cardinality(Workers) - 1` (`Reserved`), because the runs that
  are between check and deduction are on different workers (`OnePerWorker`), which
  injects them into `Workers`.

`PlanRoundsProofs`, for any plans, valid or not, that the planner and the
reviewers come up with (`PlanAssumption` gives them the types of `TaskNode` and
`ExecutionPlan`, no more), and any limits:

- `TypeCorrect`, `DependenciesFirst` (`AfterDeps`), `RunsOnce` (`OncePerThread`),
  from `Inductive == TypeOK /\ Phased /\ Frontier /\ Traced`. `Frontier` says that
  the dependencies of what is in the front have run, and that what has run has
  left its result; `Traced` that an agent that was started is in the results of
  its thread or still in the front. One lemma per kind of step: a round that is
  launched (`LaunchKeeps`), a task that gets on (`TaskKeeps`), a super-step.
- `ResultsAgree`: `ContextAgrees`, if `SharedSaver = FALSE`. A workflow's own
  threads start from nothing or from the context, and a new round has a thread
  no earlier round had (`Upto`), so what is in the thread was in the context
  (`Private`). With the shared saver it is false: a thread of an earlier message
  holds results the new one never collected.
- `EveryTaskRuns`: `AllRan`. Until a reviewer edits it, the plan is valid
  (`Covered`), for `_diff_and_reuse_ids` keeps a plan valid unless two tasks get
  one id (`ReuseIdsIs`, `ReusedValid`), which no graph is built of. A graph that
  has stopped has run everything: of the tasks left, the one of the least rank
  would have all its dependencies and be ready (`NoneLeft`).
- `SkippedForOwn`: `SkipsOwn`. Every id in a plan, the context, a seed or a thread
  was given to that task by a plan of the planner or a reviewer (`Named`), also
  through shared threads and renamings. So an id that these plans, the fallbacks
  among them, give to one task (`OneName(i)`) finds the result of that task. The
  other ids are the divergences above; in the run these are `fallback_task`, asked
  with two prompts, and an id of the reviewer's plan `Loose`.

`MemoryTiersProofs`, for any handlers (finitely many), memories, sessions, limits and
failures:

- `TypeCorrect` (`TypeOK`), `CacheIsDurable` (`CachedDurable`), `RecallIsComplete`
  (`Complete`), `ForgottenIsGone` (`ForgottenStays`) and the action property
  `RestartBringsBack` (`RestartKeeps`), all from one invariant `Inv`. Each of the
  first four alone is not inductive, because what a handler does after an await
  depends on what it read before it:
  - `OneTier`: whatever says of a memory which tier it is in says the same: its
    row, a cache, an audit entry, the handler that holds it (`Said`). Two tiers
    never write the row of one memory, but for a torn one, which the long-term
    tier may have taken over.
  - `Fresh` and `Pending`: nobody knows a memory that has not been stored, but
    the handler that is about to store it.
  - `Leaving`: what is being forgotten or deleted in the background is in no
    cache any more, unless an update put it back, and then it is both stray and
    torn.
  - `Collected`, `Searched` and `Copies`: a searcher that is being built, and one
    that is there, has what is in its tier unless the writer has still to look;
    it has it once, unless it was built with it before the writer looked.
  - `Alone` and `Forgotten`: a handler that believes it is alone with its memory is;
    what is in `gone` is held by nobody but a rollback, whose steps take it out.
  - `Bounded`: an immediate cache with the updates about to write to it stays
    within `MaxSize + Cardinality(Handlers)`. The length alone is not enough: an
    update needs its place before it takes it.
  - `RowsCached`: until a restart, an immediate row is cached, about to be
    deleted, or torn; with it, what is reloaded fitted before (`LoadKeeps`).
- What is excepted is excepted memory by memory: the histories are sets of
  memories, so that a failure that hits one says nothing of the others, in
  `CachedDurable`, `Complete` and `ForgottenStays`. Only the premise of `RestartKeeps`
  is about all of them (`torn = {}`, `doomed = {}`): one row too many may take the
  place of another memory when the caches are loaded.
- The proof of `Alone` found that a handler that listed memories without holding
  one (`Build`, `Decay`, `Clear`) took idle handlers for holders, which then
  never moved again; `Go` was corrected. TLC had passed, with behaviours missing.
- `Load` is a recursive function. That it stays within the limits (`LoadFits`) and
  drops nothing that fits (`LoadKeeps`) is proved from the least number of rows
  taken at which it would not.

Only model-checked: `Converges`, `Served` and `Ends`, since liveness under fairness
and ENABLED are out of the prover's reach, as are induction with an operator for
the hypothesis and any RECURSIVE operator.

## What is not modelled

- In the release module: validation of fields, permissions other than the
  visibility filter, notifications, the plan cache and registry reloads that
  some handlers touch after their last write, the text of versions and messages;
  `get_effective_agent`, which lays what is published over the working copy for the
  readers: `ImplementsGate` says who changes what is published, not who reads it.
  A temperature of 0 that is read back as the default 0.7 is data the
  properties do not tell apart.
- In the pool: `shutdown`, the reset of the singleton, and the fallback's own
  process (`Fallback` only returns). A pool call that timed out may be executed
  twice through it.
- In the triggers: the ticks of a cron trigger, polling and debouncing of a
  watch, the semaphore and the logs of `handle`. The election is modelled as it
  runs on MySQL, the database of `docker-compose.yml`.
- In the dispatches: the policy that says which tools are guarded, the quota
  actions `warn` and `degrade`, the change of its period, the hooks after a
  dispatch, `resume_dispatch`, which nothing calls.
- In the plans: prompts, model calls, texts, the retry policy that never fires.
- In the memory: content and ranking, reads of the storage that fail, several users, `clear_session`, promotion,
  preference summaries, consolidation.
- The circuit breaker: each `MultiAgentService` makes its own, and each request
  makes a `MultiAgentService`, so it never counts two dispatches.
- Everything listed as `not_modelled` in PROJECT.json, with the reason there.

## Plan

Done, in this order: `AgentRelease` with `ReleaseGate`, `McpPool`,
`TriggerLeader`, `PlanRounds`, `MemoryTiers`, `TriggerRegistry`, `Dispatch`.

What remains worth doing:

1. `TriggerLeader` and `TriggerRegistry` composed: `led` from the lease instead of
   an arbitrary answer, with two workers.
2. `McpPool`: shutdown and reset.
3. The knowledge-base versions beside `AgentRelease`.
4. Theorems: that heartbeats preserve `Known`.
