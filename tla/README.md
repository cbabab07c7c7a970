# Formal model of the online judge

TLA+ modules, TLC instances and TLAPS proofs for the services of this repository.

## 1. The system

An online judge: users read problems and submit programs; submissions travel
through a queue to a judge which compiles and runs them in sandboxed agents; the
verdict is written back. Everything is a set of small services:

```
 client -> gateway -> api_server (problems, test cases)      -> Postgres
                   -> auth (tokens, users)                   -> Postgres
                   -> api_server_submission --(RabbitMQ)--> submission_processor
                                   |                              |  judge_core_sdk (HTTP)
                                   v                              v
                                Postgres                 judge_core_manager
                                                          |  unix sockets, containerd
                                                          v
                                                 judge_core_agent (one per container)
```

| part | state it keeps | operations | hard behaviour | what makes it correct |
|---|---|---|---|---|
| `judge_core_manager/pool.rs` | task queue, agent list, per-agent atomics, dispatcher's wake-up channels | submit, dispatch, execute and retry, health check, drain, shutdown | five loops and any number of futures share atomics without a common lock; retries; agents vanish under running tasks | no task lost or executed twice at once; counters exact; no lost wake-up; every task answered; draining ends |
| `judge_core_manager/scaler.rs` | cooldown clocks, confirm counter, smoothed queue growth | a decision every tick | creations take 30 s and are not counted; decisions on snapshots; unhealthy agents are counted and not used | how far beyond `max_agents` it goes; it marks an agent only above `min_agents`; a full queue gets agents |
| `judge_core_manager/provisioner.rs` | containerd snapshots, containers, tasks, run directories | create, destroy, list | every step can fail and the manager can stop between two steps | nothing is left running that no manager knows; what is left can be removed later |
| `judge_core_agent` | one work directory per frame, child processes, pipes | handle a verdict frame: prepare, compile, run batches, clean up | eight cases at a time finishing in any order; timeouts; a retried frame meets its predecessor; pipes fill up | the verdict depends on the task only; the process ends; nobody judges a foreign file |
| `submission_processor`, `api_server_submission` | submissions table, broker queue | create pending and publish; consume, judge, mark completed, ack | two stores without a transaction; at-least-once delivery; crash between two steps | a published submission ends completed; a completed one never goes back; nothing is acked unjudged |
| `auth` | tables `users`, `refresh_tokens` | register, token (password, refresh), revoke, introspect | check-then-insert; several statements without a transaction; handlers that are dropped half-way; two logins of one second share a token | one account per name and per email, and its owner is told; a revoked token is refused; nobody is refused without a cause |
| `gateway` | route table, rate limiter cache, JWKS cache | route, authenticate, limit, proxy, drain | concurrent first requests; keys rotate under a cache; entries are evicted | the most specific route wins; a client gets no more than its rate; an identity is that of a verified token; the key cache follows the auth service |
| `api_server`, `api_server_db` | problems, tags, test cases | list, get, create, update, delete, replace test cases | check-then-act; delete-all then insert in concurrent transactions at READ COMMITTED; lock waits and deadlocks | what was answered with success stands; a failed request leaves nothing; a submission sees whole uploads |
| `algorithm` | none | ICPC ranking | ties, penalty arithmetic | the ranking is a sorted permutation with equal ranks for ties |
| `apps/api`, `packages` (TypeScript) | as the Rust API | an older API with the same queue and tables of its own schema (other columns and keys) | two producers disagree about the wire format and the table; other transactions and keys than the Rust API | as for the Rust API |

A full list of components with their sources, and of the behaviours that are hard
to test, is in `PROJECT.json` (`components`, `hazards`).

## 2. Modules and how they correspond to the code

Each module is the component; `MC<module>` instantiates it for TLC and
`<module>_proofs` holds its theorems. One action is what a process of the code
does between two points where another can interfere: a lock, an `await`, a call
that leaves the process, a relaxed atomic. A definition whose comment says *slip*
is a plausible mistake in the definition after it; nothing uses it except to show
that a property notices it.

| module | models | state | actions |
|---|---|---|---|
| `TaskService` | what `AgentPool::submit` promises | status and number of attempts per call | take, turn away, attempt, succeed, try again, give up |
| `AgentPool` | `judge_core_manager/pool.rs` | `queue`, the agent list, the atomics of every `AgentHandle`, the signal channel and the `Notify` permit, where the dispatcher and the drain loop are, what the health loop still has to join | one per branch of `submit`, `dispatch_loop`, the spawned future, `health_check_loop`, `drain_loop`, `add_agent`, `shutdown_agent`; an agent may crash |
| `AutoScaler` | `judge_core_manager/scaler.rs` over a pool reduced to counts | phase of the loop, the metrics it decides on, cooldowns, confirmation counter; agents that are being created, up (some adopted at the start), draining, and which of them are healthy | tick, decide, mark or miss; a creation ends or fails, an agent becomes unhealthy or healthy again, the drain loop takes off the drained and the unhealthy, tasks come, start and end |
| `AgentFleet` | `provisioner.rs` and the parts of `pool.rs` and `main.rs` that create, adopt and destroy agents | containerd's snapshots, containers and tasks, the socket directories; the manager's list, how far each `create` and each `destroy` is | one per call of `create` and `destroy`, success and failure; start, adopt, discard, serve, shut down, exit, crash |
| `VerdictHandler` | `judge_core_agent/verdict/mod.rs` under both callers (`judge_core_agent/main.rs`, `judge_core_standalone/main.rs`), prepare, compile and cleanup of `cpp.rs` | per handler: frame id, stage, verdicts of its cases, result; per id: the work directory with source, object and executable, each remembered by the task it was made from | one per step of `handle`; the manager gives up, retries, is replaced; a client disconnects, the service restarts, a compiler left alone ends, SIGINT, drain and its timeout |
| `CaseRunner` | `Cpp::verdict` | the program, three bounded pipes, two readers with their buffers, the `Notify`, the judge | the program reads, writes, exits as it likes; the judge spawns, feeds, waits, kills, collects, decides |
| `SubmissionPipeline` | `api_server_submission`, `apps/api` (submissions), `submission_processor` | rows, messages at the broker, buffered deliveries, what `process_message` is doing | post, publish, deliver, judge, update, acknowledge, each with its failure; channels break, the broker restarts, the processor stops |
| `Gateway` | `gateway` | the route table, per connection how far its request is with path, client, token, the `x-user-id` the client sent or the gateway set, and route; the limiter cache and the limiters made for it; the cached key and the refresh task; the auth service's key | accept, request, health, route, look up and insert a limiter, check, the four levels of authentication, the upstream's answer or failure, end; a second passes; the key changes and is fetched; SIGINT, drain, its timeout, a failing `accept` |
| `Accounts` | `auth/src/router.rs` with `token.rs`, `hash.rs` and the two tables | clock, the two tables, and per request what it asks, what it has read or signed, which statement comes next and what it was answered | one per statement of `register_handler`, `token_handler`, `revoke_handler`, `introspect_handler`, found or not, failing or not; a handler's future is dropped; a second passes |
| `ProblemStore` | `api_server_db/src/repositories` (problems, test cases, the reads of a submission) behind `api_server`, and the same operations of `apps/api` | which of the two programs serves; one problem's row, its tags and cases with who wrote them, the row lock; per request its statements, what it has seen, deleted and inserted in its transaction | find, refuse, insert, scan and delete, insert rows or meet a taken key, write the row, commit, store a submission; the database aborts one of a circle; a statement fails |

How they fit together. The pipeline's judge is the manager (or the standalone
service); a submission's task is one call of `submit`. `AgentPool` and
`AutoScaler` are two views of the same loops: the pool's `AddAgent` and
`ShutdownAgent` are what the scaler decides, with the scaler's guard kept
(`MinAgents`), and the scaler's pool is the agent list with its counters.
`AgentFleet` is below both: it says what an agent consists of and leaves open
which agents are to be drained. An agent's `Succeeded`/`Failed` in the pool is a
reply or no reply of a `VerdictHandler`, and one of its cases is a `CaseRunner`.
`Gateway` is in front of the APIs and shares nothing with them but the auth
service's key, which is a number there. `Accounts` is that auth service; the gateway
verifies its access tokens by the key alone and never asks its tables.
`ProblemStore` ends where `SubmissionPipeline` begins: its `submit` requests make the
row and the task whose message the pipeline carries.
The modules are checked separately: composed, their state spaces multiply
without a property that needs the product.

Abstractions worth knowing:

- Source code, test cases, verdict details, usage figures and messages are model
  values or dropped. `CaseRunner` alone looks at output, as a sequence of units of
  which a two-byte character takes two, because `read_to_string` fails on halves.
- Ids that are uuids are fresh, and used again only when nothing refers to them
  any more; frame ids are numbers, because they do repeat.
- Time occurs as order (a timer may fire at any moment once it is started) except
  in `AutoScaler`, which counts check intervals.
- In `Gateway` a path is a sequence of characters, a token is the number of the key
  that signed it, and each key has one limiter per maker, because two first requests can
  make one each. HTTP/2 streams of one connection are like several connections. An
  `x-user-id` of the client's own is the value `Claimed` (`Claiming` bounds the paths it is sent
  with). Bodies and upstream addresses are not modelled. `level` and `raced` are history: no action reads them.
- In `Accounts` a token is its subject, type and second of issue, which is all a JWT of
  this service consists of; that is why two can be equal. An account's id is the request
  that made it. The first matching row decides, in no order, as the query has none.
  A request may present a token of either type at any endpoint, under any `token_hint`; an
  access token is one of the type, with the subject and the second of a login's refresh token.
  Those that a refresh grant issues are verified in the same way and not presented.
- In `VerdictHandler` a compiler runs on when its handler is dropped (it is spawned without
  `kill_on_drop`) and writes its object or executable into whatever is in the directory by
  then. A file operation that is under way when a handler is dropped has been done or not begun.
- In `ProblemStore` a statement sees what is committed and its own transaction's changes.
  A DELETE finds its rows in one step and then takes them one by one, in any order (SQL promises
  none), keeping what it has while it waits for another; in between other transactions may
  commit, and the waits may close a circle, of which the database aborts one. The tables start
  empty or with rows by `Nobody` (`Earlier`: what either program can have stored). `Patches`
  bounds which columns and tags come together in one update; a TypeScript patch that sets no
  column throws before it has done anything, and empty strings and zeros count there as not
  set. Somebody else's request ends at the check and is left out.
- External parts are modelled from their use: containerd's calls succeed or
  fail, and a failed call has had no effect; the broker keeps unacknowledged
  messages for a channel and gives them back when it closes; the kernel's pipes
  are bounded and are closed when the program is gone.

## 3. Runs

| run | module, instance | what it shows |
|---|---|---|
| `pool_safety` | `AgentPool`, 3 tasks, 1 agent id (agents may follow one another under it) with 2 slots, queue of 2, 1 retry, failure threshold 2, 2 faults, 1 scale-down | tasks are conserved, counters are exact, no wake-up is lost, first tries are bounded by `max_queue_size`, a drained agent takes at most one task with it |
| `pool_live` | `AgentPool`, 1 task, 2 agents, threshold 2 | the pool implements `TaskService`; the task is answered and dead and draining agents leave |
| `scaler` | `AutoScaler`, at most 1 agent wanted, 3 that can exist, 1 adopted, a cooldown that ends while a creation is under way (2 intervals each), a drain of 1 | the pool overshoots by a batch and no more, agents are marked only above `min_agents`, a full queue moves |
| `fleet` | `AgentFleet`, 2 agents, 2 faults | no task without a container record, what is listed is whole, shutdown ends, with restarts every ended task is taken away |
| `fleet_retained` | 1 agent, no fault | **violated**: a creation cut off by an orderly shutdown leaves a container whose removal fails at every restart |
| `handler` | `VerdictHandler`, 2 handlers, 2 ids, a task that fails, one that stops on the first error over two batches, one that does not compile, 1 fault | a verdict is the task's own, errors have a cause, directories go, SIGINT ends the agent |
| `case` | `CaseRunner`, input fits the pipe, output limit 2, 4 writes, 1 fault | accepted and wrong rest on the whole output; limits are not blamed wrongly; nothing outlives its verdict; a case ends |
| `case_stuck` | input of 2 units, pipe of 1, no fault | **violated**: a program that does not read its input keeps the judge waiting before the wall timer exists |
| `pipeline` | `SubmissionPipeline`, 2 submissions, 2 verdicts, 3 faults, a supervisor, a submissions table that either or both of the programs can write | nothing is acknowledged unjudged, a refused submission is never judged, acknowledged verdicts are final, queued messages are judged |
| `gateway` | `Gateway`, 2 connections, 1 client, 2 requests with or without an `x-user-id` of their own, 1 key change, tables with an exact and a prefix route of one path, nested prefixes of which one ends in "/", and an invalid one; 1 cell per second, idle after 2 | a client is within its burst unless two of its first requests met; what is forwarded came by the best route with the identity its level asks for; the key cache catches up |
| `accounts` | `Accounts`, 4 requests of which 2 at most register or log in, 2 names, 2 emails, seconds 0 to 2, refresh tokens good for 1, leeway 1, 1 fault (a failing statement, a dropped handler or a token of the wrong type) | racing registrations are told apart and told the truth, logging out holds, refusals have a cause |
| `store` | `ProblemStore`, 3 requests of any kind, 2 of which may bring tags, either program, tables empty or not, 2 columns, 2 tags, 2 cases per upload, 1 fault | answers are true, a submission sees whole uploads, a request fails without a fault only for what it asks or for a rival that replaced the same rows |

What the properties say. Each is one formula that is hard to keep; several have named parts,
which the proofs treat one by one:

| run | property | in words |
|---|---|---|
| `pool_safety` | `TasksAccounted` | a task is in one place, and every agent's counter is the number of tasks that run there |
| | `NoLostWakeup` | the dispatcher does not sleep over a task it could place unless something will wake it |
| | `FirstTriesBounded`, `DrainedLosesAtMostOne` | retries may exceed the queue's limit, first tries do not; a drained agent takes one task with it at most |
| `pool_live` | `Promise`, `EveryTaskAnswered`, `AgentsLeave` | the pool implements `TaskService`; a submitted task is answered; draining and dead agents leave |
| `scaler` | `OvershootBounded`, `ScaleDownKeepsMin`, `FullQueueMoves` | how far beyond one limit and why not below the other, and a full queue does not stay full |
| `fleet` | `FleetIsWhole` | a task has the record discovery looks for, what is listed is whole, nobody creates and destroys one agent |
| | `ShutdownEnds`, `DeadIsRemoved` | a shutdown ends; restarts remove what has died |
| `handler` | `OutcomeIsOwn` | verdict and errors are the task's own |
| | `NothingLeft`, `DrainEnds` | directories go; SIGINT ends the agent |
| `case` | `VerdictJustified` | accepted and wrong rest on the whole output, limits and internal errors have their cause |
| | `NobodyLeft`, `CaseEnds` | the program does not outlive its verdict; a case ends |
| `pipeline` | `NothingLost` | nothing is acknowledged before its verdict is stored, and what the processor holds a crash gives back |
| | `RefusedNeverJudged`, `AckedVerdictStands`, `QueuedIsJudged` | a refused submission stays pending, an acknowledged verdict is final, a queued submission is judged (and its verdict stored, if the table has the columns) |
| `gateway` | `AllowanceHeld`, `ForwardedAsConfigured`, `KeysCatchUp` | the burst, the route and identity, the key cache |
| `accounts` | `RegistrationTold`, `LogoutHolds`, `RefusalsHaveCause` | see section 4 for their exceptions |
| `store` | `AnswersAreTrue`, `SubmitSeesOneVersion`, `ErrorsHaveCause` | likewise |

Why the bounds are enough. The interesting orders need two of something (two
handlers, submissions, tasks on an agent) and one thing that goes wrong between two of
their steps; three tasks make one agent full while another task waits and a
retried one comes back. A queue of 2 can be full, a batch of 2 with three cases
makes a second batch, a limit of 2 units with 4 writes lets both streams or one
exceed it, an id bound of 2 is enough for an id to come back after a restart;
two connections with two requests let both miss the limiter cache together, or the second
find what the first left. Four requests to the auth service are a registration, a login of
the same second, a revocation and somebody who comes later; three to the store let two
change the problem around a third that reads it, and two tags, or two cases, are the least that
two requests can lock in opposite orders; a third request with tags would only lengthen a circle.
In the scaler the cooldown is over once while a creation is under way, so that one batch too many
can start, and does: with the bound one smaller TLC finds it. Counters that
grow in the code (frame ids, faults, scale-downs, writes) are bounded by named
constants in guards (requests and key changes of the gateway too); none of them is read by the code except the frame id.
The bounds matter only for TLC: the theorems of section 5 hold for every value.

Refinement and temporal properties of the pool are checked with one task; with
two the state space takes longer than is practical. What several tasks do to one another is
covered by the invariants of `pool_safety`, which are the ones the refinement rests on.

Deadlock is checked for the pool, the scaler, the fleet and the case (a finished
case stutters explicitly). The pipeline and the handler stop when every
submission and every handler is used up and no fault is left, the gateway when its
process has ended, the auth service when every request is over and the clock at its bound.
It is checked for the store: no set of transactions waits for ever, because each circle of
waits has a victim (requests that are over stutter explicitly).

### Fairness

- `AgentPool`: the loops are tokio tasks, and the awaits in them have timeouts
  (connect, receive, probe, destroy) but for one, the `send` of the task to its agent
  (`pool.rs:446`), which is assumed to return. So dispatcher, health loop, drain loop and
  futures are weakly fair. `ScaleUp` is weakly fair when the load exceeds the
  list's capacity, which is the scaler's condition. Callers, scale-downs, crashes
  and missed probes are not fair and are finite.
- `AutoScaler`: tick and decision weakly; a creation ends; strong fairness that
  some creation succeeds if creations are made again and again, and that a free
  agent is given a task.
- `AgentFleet`: calls return, the agent stops after SIGINT (its own drain has a
  timeout), main goes on; a dead agent is scanned. `RestartedSpec` adds someone
  who restarts the manager for ever, which is what finding leftovers needs.
- `VerdictHandler`: only the drain and its timeout. A case may hang.
- `CaseRunner`: the judge and its readers; nothing of the program.
- `Gateway`: the refresh task goes on; a fetch, which has no timeout in the code, is
  assumed to end, and not all fetches to fail. Clients, upstreams and signals are free.
- `SubmissionPipeline`: `FairSpec` assumes nothing restarts the processor, as in
  the repository; `SupervisedSpec` adds a supervisor.

## 4. What the runs found

The two violated runs are disagreements between the code and what it says of itself;
`findings` in `PROJECT.json` quotes the lines.

1. `provisioner.rs:189`: "container will be retained for retry", but the retry fails
   at the same line when there is no task.
2. `cpp.rs:166`: the input is written before the readers and the wall timer exist.

Met on the way and kept as the hypotheses of properties rather than as findings:

- An attempt the manager gave up goes on in the agent, under the same id and in
  the same directory as its retry. Handlers of one task cannot spoil each other's
  verdict on the cases, but the first to clean up can take the directory from the other,
  which then reports a compilation or an internal error (the part `ErrorsAreOwn` of `OutcomeIsOwn` speaks of handlers that
  were alone). Two managers' frames under one id can exchange executables
  (`VerdictIsOwn` speaks of handlers that met their own task only).
- A drained agent may take the one task with it that was matched with it and not
  yet counted (`DrainedLosesAtMostOne`); the task is retried.
- A verdict may be overwritten by a redelivery until the acknowledgement has
  arrived (`AckedVerdictStands` begins there).
- "It will be redelivered" (`submission_processor/main.rs:94`) needs the channel to close:
  nothing rejects a message whose processing failed. `QueuedIsJudged` holds because the
  broker closes a channel with a delivery that is unacknowledged for too long, and because
  the run has a supervisor.
- Two first requests of a client that meet between the limiter cache's `get` and `insert`
  make a limiter each, and the loser's cells are not counted (`AllowanceHeld` leaves such keys
  out). Two routes with the same path share a limiter, with the burst of whichever is asked first.
- The permit of a gateway connection goes back when its arm of the accept loop ends, not with the
  connection, so `max_connections` bounds nothing (`Accept` has no such guard).
- `config.rs:35` says of an `optional` route that "Incorrect tokens will be rejected". It forwards
  a request with a token that does not verify, with the token, as an anonymous one
  (`auth.rs:81-93`, `Anonymous`).
- On `none`, `optional` and `bypass_and_strip` routes an `x-user-id` that the client wrote itself
  is forwarded as it is; `auth/src/extractor.rs:19` calls it the header the gateway injects. So
  `Identified`, in `ForwardedAsConfigured`, promises whose the header is on `required` routes
  only, and elsewhere that it is the verified user's or the client's own.
- A prefix that ends in "/" matches no path but itself: the route "/" of the example
  configuration serves "/" and nothing below (`Meant`).
- An error of `accept()` ends a serving gateway without a drain (`AcceptFails`).
- A user whose submission was refused sees it pending for ever (`RefusedNeverJudged`).
- What the Rust submission API queues is camelCase (`api_server_submission/src/message.rs:6`), what the
  processor reads is snake_case: it discards and acknowledges what it cannot read, so those rows
  stay pending (`Readable`, `Discard`; `QueuedIsJudged` and `NothingLost` speak of readable messages).
- The messages it can read are those of the TypeScript API, whose table has `submission_status`, an
  enum for the language and a text `user_id` (`migration.sql:25-35` under `apps/api/drizzle`), while
  `mark_completed` reads and writes `status` and the language as integers and `user_id` as a uuid.
  There it fails every time, and the submission is judged again at each redelivery and stays
  pending. Which table there is, is chosen at the start (`table`: of either program, or one that both
  can write), so that one run says what holds of the code as it is and what would hold if the columns
  agreed; `QueuedIsJudged` promises a stored verdict only where `mark_completed` can write it.
- The room below `max_agents` does not count creations that are under way (`scaler.rs:66`), so
  every cooldown that ends during a creation lets another batch through. `OvershootBounded` says
  how far that goes: with the defaults (a creation of up to 30 s, a decision every 10 s, a cooldown
  of 5 s, batches of 3) up to 19 agents where `max_agents` is 10.
- `agent_count` includes agents that are unhealthy; they get no task (`pool.rs:266`) and the drain
  loop removes them even while busy (`pool.rs:533`). So a scale-down leaves `min_agents` of those
  the list had when it was decided, and of agents that can take a task fewer, or none
  (`ScaleDownKeepsMin` counts the unhealthy and those removed since).
- Tokens have no id and whole seconds. Two logins of one user within a second get the same refresh
  token in two rows, and a revocation deletes one: the token stays good (`Twins` in `LogoutHolds`). A
  revocation whose query or delete fails answers 200 all the same.
- A registration whose account was made can answer an error afterwards (signing or storing the
  token failed); the account is there and its owner can log in (`RefusalsHaveCause`), but a second
  registration is told the name is taken.
- `users.rs:14,19` calls name and email lowercased; nothing lowercases them. Names are model
  values in `Accounts`, so that two spellings are two names, as in the code.
- Two uploads that run at the same time leave the cases of both (`SubmitSeesOneVersion` allows a mix of
  overlapping uploads only); the API's document (`docs/problems-api.md:19`) says an upload overwrites.
- A submission may take its limits and its cases from two versions of the problem, both current
  while it ran (`SubmitSeesOneVersion` bounds each, not their combination).
- Two uploads, or two Rust updates with tags, that run at the same time can fail with 500 as a
  deadlock's victim, even if their new tags or cases do not meet: each deletes the rows that are
  there, in an order that nobody promises. A Rust update can also meet another's key, and a
  request that names a tag twice meets its own (`ErrorsHaveCause`, `Rivals`).
- A TypeScript patch that brings only tags, or nothing, answers 500: it calls `set({})`
  (`apps/api/src/modules/problems/repository.ts:207-219`), which throws (`SetsNothing`).
- The migration of the TypeScript API makes `problem_id` alone the key of `problem_tags` (the
  schema's two `.primaryKey()` columns): every request with two tags fails, and a creation
  leaves the problem behind without tags, as it has no transaction.
- TypeScript submissions do not look at `deleted_at`: a deleted problem can be submitted to.

## 5. Proofs

`tlapm` checks every theorem for all values of the constants under the named
assumptions of the modules (finite sets, natural numbers, at least one slot, a
model value outside a set). Each proof has the same shape: an inductive
invariant, `Init => IInv`, one lemma per group of actions for
`IInv /\ [Next]_vars => IInv'`, and the temporal step.

| module | theorems | the inductive invariant and why it is needed |
|---|---|---|
| `AgentPool_proofs` | `TypeCorrect`, `AlwaysAccounted` (`TasksConserved`, `CountersExact`), `DispatcherWakes`, `FirstTriesAlwaysBounded`, `DrainedLosesLittle`, `PromiseKept` | `NoLostWakeup` alone is not inductive: that an eligible agent with `active > 0` will notify needs the counter to equal the number of running tasks (`CountersExact`), which needs every task to have exactly one place (`TasksConserved`) and the counter of an id that is used again to be zero. First tries have distinct places in the queue, so the length that `submit` tests bounds their number. An agent about to be drained is marked, so the dispatcher gives it nothing more, and when it was found idle it ran nothing: only a task already chosen for it can be its own (`DrainInv`). `PromiseKept` is the refinement of `TaskService`: each step, seen through `StatusOf` and `AttemptsOf`, moves one task as the service allows or none; that the head of the queue waits (`TaskHeldOnce`) and that retries stay in range (`TypeOK`) is what it takes from the invariant |
| `Manager_proofs` (scaler and fleet) | `OvershootHeld`, `MinAgentsHeld`; `TypeCorrect`, `AlwaysWhole` (`TasksAreFound`, `ListedAreWhole`, `NeverBoth`) | scaler: scale-ups are a cooldown apart and begin at most a batch each, so that of the agents not older than any given age few are still being created: at most a batch for each cooldown that fits into a creation, whatever the configuration; under `DownCooldown > DrainTicks` no agent drains when another is marked; the metrics in hand bound the pool they were taken from, unhealthy agents and those lost since included. Fleet: how far each `create` and `destroy` is, related to what exists outside the manager; the ids of main, of the drain loop and of creations are kept apart |
| `CaseRunner_proofs` | `TypeCorrect`, `VerdictsJustified` (`AnswersJudgedWhole`, `LimitJustified`, `InternalJustified`), `NobodyOutlives` | what a reader's end, the `Notify` permit and the outcome say about the pipe and the program at each stage of the judge |
| `SubmissionPipeline_proofs` | `TypeCorrect`, `NeverLost` (`NothingAckedUnjudged`, `HandsBacked`), `RefusedStaysPending`, `VerdictStands` | relates message, row, inbox and the step of the processor, and a stale inbox to a channel that is broken |
| `VerdictHandler_proofs` | `TypeCorrect`, `OutcomesAreOwn` (`VerdictsAreOwn`, `ErrorsHaveCause`), `DirectoriesGo` | meeting in a directory is symmetric and known to both; a file made from another task's source is there only if its maker was met or the file has not been used yet; verdicts of finished cases are the task's as long as only the own task was met; a task that is joined has passed |
| `Gateway_proofs` | `TypeCorrect`, `AllowanceKept`, `MatchRouteBest`, `ForwardedHeld` | a limiter in hand or in the cache has a maker that counts every cell let through for its key, unless two first requests met (`LimitInv`); `AllowanceKept` has the hypothesis that a limiter evicted as idle has all its cells back, which is what the time to idle is for. `ForwardedHeld` joins two invariants: the key a token was verified with stays at most the cached one because the cached key never gets older than one a fetch brings (`IdentityInv`), and a request keeps from its lookup the route that `match_route` gave it (`RoutedInv`); it says of each level whose the `x-user-id` is. That the route is meant for the path, segment by segment, is a lemma about prefixes. That this route is a best one is `MatchRouteBest`: the value after `i` routes is a best of the first `i` (`BestOf`), because one that beats the best so far is beaten by nothing the best was not beaten by |
| `Accounts_proofs` | `TypeCorrect`, `RegistrationAlwaysTold`, `LogoutAlwaysHolds`, `RefusalsAlwaysHaveCause` | `Distinct` (names and emails of the accounts differ), every row is the genuine trace of a login, and `Own(r)` for each request: what its stage says about what it has read, signed and stored. `Kept` is the heart of the refusals: the row a token was stored in stays until a revocation of this token deletes it, so who reads after the login finds it. `Gone` is that of the logout: an answered revocation that met no failure has left no row of its token, unless the token has a twin; a later request reads after it, and does not find what is gone |
| `ProblemStore_proofs` | `TypeCorrect`, `AnswersTrue`, `SubmitOneVersion`, `ErrorsCaused`, `NoOtherCircle` | `AnswersAreTrue` says what the table holds when a request is over, and why it does lies in the transactions that are not: `OldIsHeld` (a replacement that has scanned has in `seen` or in `gone` every stored row of a request that was over when it came, and of other uploads all or nothing, so that its commit leaves none of the old and no part of another), `GoneFits` (nobody else deletes them meanwhile), `MineFits` (what it inserts are the first of the rows it brings), `Replaced` (its rows stand, or somebody who came later has taken the place). `CasesFit` and `SubmitFits` carry that over to what a submission reads in its two statements. `ErrorsCaused` rests on who holds what: who has the row of the problem waits for nobody, and who waits for rows or a key waits for one that brings rows to the same table; so the victim of a circle has a rival that runs at the same time. `NoOtherCircle` says who can be a victim at all: uploads at their DELETE, and Rust updates of tags |

What the fold of `match_route` (a recursive function) computes for every table needs an induction. The induction theorems of the library take an
operator, which the provers cannot instantiate; `Least` (a non-empty set of naturals has a
least element, from the well-foundedness of `<`) gives the same: a set of indices at which the
claim fails is empty, because its least element is not 0 and its predecessor is not in it.

Only model-checked: everything temporal (`EveryTaskAnswered`, `AgentsLeave`, `FullQueueMoves`,
`ShutdownEnds`, `DeadIsRemoved`, `QueuedIsJudged`, `CaseEnds`, `DrainEnds`, `KeysCatchUp`), since
liveness under fairness is out of the prover's reach, and freedom from deadlock, which is a
statement about ENABLED. Every other property of the runs is a theorem.

## 6. Not modelled, and the plan

Not modelled because TLC could say nothing about it: serialization and the frame
protocol's bytes, the seccomp filter, container specs, HTTP parsing, password
hashing and signatures beyond what they let through, configuration loading, logging.
Of the problem store: lists, filters, details and statistics, which only read; tags that do not
exist (a foreign key fails the statement, which `Fails` does); what an empty string or a zero
in a TypeScript patch is (it counts as a column that is not set). Of the auth service: the JWKS document, a constant
that `Gateway` reads as a key. `auth/src/extractor.rs` parses headers and keeps nothing.

Left:

1. `IcpcRanking`: the sort as any sorted permutation and the rank assignment as a recursive
   function, against "one more than the number of teams that are strictly better"; overflow. Nothing
   calls the function yet.
