# Verification of the agent core of oh-my-goat

TLA+ specifications, TLC configurations and TLAPS proofs for the concurrent core
of `oh-my-goat`: the loop that runs a model and its tools (`packages/agent`), the
machinery of the coding agent around it (`packages/coding-agent`), the refresh of
shared credentials (`packages/ai`), and the event queue of the triage bot
(`python/robomp`). Every definition is translated from the source; `PROJECT.json`
maps it to the lines it models.

The core is TypeScript on one event loop. A step of a model is therefore what the
code does between two `await`s, and the interleavings are those of promise
continuations, timers, host calls and callbacks. Where microtasks must have run
before the next event can be taken up, a module says so with one predicate
(`Drained`, `Quiet`). In the triage bot, and between processes that share a
database, threads and processes interleave anywhere.

## 1. Inventory

### Modelled

| component | state | operations | modules |
|---|---|---|---|
| tool batch (`agent-loop.ts`, `executeToolCalls`; `pause.ts`) | the promise of each call, `lastExclusive`/`sharedTasks`, the interrupt state, two abort controllers, the pause gate | schedule, run, interrupt, watch the queue, poll peers, park, sweep | `ToolBatch`, `BatchContract` |
| agent loop (`agent-loop.ts`, `runLoopBody`; `agent.ts`) | steering and follow-up queues, messages taken but not committed, turn and retry flags, deadline | prompt, continue, steer, retract, clear, abort, boundary polls, commit, yield | `AgentLoop` |
| background jobs (`async/job-manager.ts`, `session/yield-queue.ts`, `tools/hub`, `tools/bash.ts`) | job rows, suppression, watch and consumption marks, retention timers, deliveries, entries of the yield queue | register, settle, deliver, drain, wait, snapshot, cancel, evict, session transition | `AsyncJobs` |
| session journal (`session/session-manager.ts` over `session-storage.ts`) | entries, the file, an open writer, disk epoch, rewrite fence, flags, latched failure, an atomic batch | append, rename, rewrite, commit and roll back a batch, repair, flush, seal, release, crash, reload | `SessionJournal` |
| agent lifecycle and message bus (`registry/`, `irc/bus.ts`) | refs of a reusable id, sessions, adoption and its timer, a park, revivals, kills, sends, a waiter, the mailbox | register, adopt, park, revive, release, reclaim, restore, tear down, send, wait | `AgentFleet` |
| work pool (`task/workpool.ts`) | items, agents and their queues, the dispatch chain, batches as jobs, the aggregate job | push, dispatch, spawn, run a batch, close, cancel, drain | `WorkPool`, `PooledTurns` |
| concurrency limits (`task/parallel.ts`, `task/provider-concurrency.ts`) | slots, waiters, a limit that changes | acquire, abort, release, resize | `ProviderSlots`, `PooledTurns` |
| event queue of the triage bot (`python/robomp`: `queue.py`, `db.py`, `slot_pool.py`, `worker.py`) | event rows, routes and records of pull requests, keys in flight, hooks, marks, slots, worker threads | receive, replay, claim, resolve, record, bounce, run, retry, cancel, stop, crash, start | `EventQueue` |
| credentials (`packages/ai`: `auth-storage.ts`, `sqlite-credential-store.ts`) | the row and its lease in the database, each process's snapshot and flight | select, prepare, refresh under the lease, write, disable, log in | `RefreshLease` |

How they interact. `AgentLoop` samples the model; a reply with tool calls starts a
*batch* (one atomic step of `AgentLoop`, the subject of `ToolBatch`). While a batch
runs, the host steers the agent; the batch peeks at the steering queue and may cut
waits short, but only the loop takes messages out of it, at boundaries. A tool call
may register a *background job*, whose result comes back as an aside: the job
manager delivers it to the session's sink, the sink puts it into the yield queue,
and the loop drains that queue at its boundaries (`AgentLoop`'s asides,
`AsyncJobs`' `Drain`, `Commit` and `Discard`). A *work pool* runs its batches as
jobs of the same manager, under its limit, and the turns of its workers call a
provider under that provider's cap: `PooledTurns` composes the two. Workers and
other subagents belong to the *fleet*: an idle one is parked by a timer and revived
by the next message. Each session has a *journal* on disk, from which a parked
agent is revived. Every request to a provider needs a *credential*, which all
processes of a machine refresh through one database. The triage bot drives whole
agent processes from its own *event queue*.

What must be right:

* tool batch: conflicting calls in order and without overlap, one answer per call,
  answers that do not lie about side effects, foreground work never lost to a
  message, no lost wake-up, abort always unwinds;
* agent loop: no message reordered, lost without a cause, or taken by a dying run;
  the transcript records what the model saw; a run ends only when it answered; a
  queued message is eventually taken;
* background jobs: each result reaches the model, once, in its own session, through
  whichever of its five ways, although ids are reused while deliveries of their earlier
  jobs are pending (section 4 has the overlaps of two uses that the code misses);
* session journal: an entry reported as written is in the file from then on, over
  superseded rewrites, repairs, a successor and crashes; one reported as rejected
  stays out; the flags that allow the hot path tell the truth; fences fall;
* fleet: no session is live that nobody would end, parking costs no message and no
  turn, an idle agent is always timed, a killed one stays dead, every send returns;
* work pool and caps: no item is lost or run twice, nothing that was dropped runs,
  the pool settles after a full drain, no slot leaks or idles while somebody waits;
* event queue: one run per issue, no running row forgotten, every event decided
  over crashes, shutdowns and retries;
* credentials: one process at a time sends a token that is accepted once, the
  account is not lost to a race, late answers are dropped, requests return.

### Not modelled

| component | why not |
|---|---|
| session (`agent-session.ts`, `turn-recovery.ts`, `session-maintenance.ts`) | modelled as far as the components above use it: sink, transitions, drain of queued messages; retry, compaction and mode changes are candidates |
| tool choice queue | belongs to the loop's tool directives, which are abstracted |
| daemon broker (`launch/`) | next in the plan |
| robomp tasks | calls to git, GitHub and the agent process; their order, and how they find their workspace, is in the event queue |
| model providers and catalog | wire formats; the loop sees a reply, a leak or an error |
| context compaction | computations over texts and images that depend on token counts |
| protocol clients, collaboration, blob broker | external servers; little shared state here |
| tools, user interfaces, extensions, memory, statistics, native code, libraries | input and output, rendering, configuration, or data a model checker does not reach |

These are by far the most lines of the repository. `PROJECT.json` lists each with
the files at its centre. Each of the modelled components has a part that is left
out; it is named in section 2.

## 2. The modules

| file | what it is |
|---|---|
| `BatchContract.tla` | what a batch promises, without interrupts, controllers or hooks |
| `ToolBatch.tla` | `executeToolCalls`, promise by promise |
| `ToolBatchProofs.tla` | its theorems, and the refinement of the contract |
| `AgentLoop.tla` | `runLoopBody` and the queues |
| `AgentLoopProofs.tla` | types; the order, loss, answer, record and aside theorems |
| `AsyncJobs.tla`, `AsyncJobsProofs.tla` | job manager, sink, yield queue, hub, foreground wait; its theorems |
| `SessionJournal.tla`, `SessionJournalProofs.tla` | `SessionManager`'s writing of the transcript file; its theorems |
| `AgentFleet.tla`, `AgentFleetProofs.tla` | registry, lifecycle manager and message bus, for one id; their theorems |
| `WorkPool.tla` | one pool and the part of the job manager it uses |
| `ProviderSlots.tla` | the resizable semaphore |
| `PooledTurns.tla`, `PooledTurnsProofs.tla` | the pool's turns under the cap; the theorems of the semaphore and of the pool, and that the composition uses the semaphore by its operations only |
| `EventQueue.tla`, `EventQueueProofs.tla` | the triage bot's queue; its theorems |
| `RefreshLease.tla`, `RefreshLeaseProofs.tla` | one OAuth row, its lease, and the processes that share it; their theorems |
| `MC*.tla`, `MC*.cfg` | the instances |

Definitions named `X_Something` directly before a definition `X` are mutated forms
of it. They are used by no specification: each shows that a property fails once
the code it models has a plausible mistake.

### ToolBatch

`pc[c]` is where `runTool` of call `c` stands: *waiting* for its start promise,
*parked* at the pause gate, *running* the tool, in the afterToolCall *hook*,
*settling*, *checking* for interrupts after it, and *done*, *failed* or *cut*
(rejected start). The start promise is `Deps`: everything before an exclusive
call, the last exclusive call for a shared one. `peek` holds the interrupt check
each checker (a call, the watcher, the timer) is in the middle of: the queue is
read in one step and acted on in a later one, so what was read may be stale. Host
actions (steer, retract, peer interrupt, pause, resume, abort) are enabled at all
times. `batch` goes from *running* to *settled* (`Promise.allSettled`) to
*returned*, after the final sweep answered the calls that have no result yet.

Abstracted: argument values and contents of results (only what a result claims is
kept), progress updates, telemetry, and which of two interrupt sources is named in
a text, in the final sweep too (`agent-loop.ts` 2881, which may name an interrupt
of an earlier check). A failed peek ends the event-driven watcher for the rest of
the batch (2825); the liveness run has no failing peeks.

### AgentLoop

`place[m]` follows every message from *unsent* over *queued*, the loop's locals
*held* and *pending*, to *context* and *answered*, or out: *retracted*, *dropped*,
*discarded*, *lost*. `pc` is the await the loop is at. Every point where the code
can leave (abort, deadline, gate, terminal result, exception, failed model call)
is a disjunct of the step it is in, with the `finally` block's discards. The asides
of one drain are resolved in the order of their numbers: when one throws
(`AsidesFail`), those before it are dropped by their own thunks or discarded, and it
and those after it are *lost*, since nobody is told of them. An abort
after a boundary dequeue still commits what was dequeued (1513), as in the code.

Abstracted: a batch of tools is one step; the pause gate, because the loop parks
there with nothing in its hands and the wait is the arbitrary delay any step has;
the order of messages inside one injected batch, late asides before follow-ups
included (1547); tool directives, of which one cached over a retried reply
(1316) is a hazard not covered here, and soft tool requirements; streaming of the
reply; a new `prompt` overlapping the delivery of `agent_end`. The agent's deadline
is fixed for its life, so it stays past over runs, as in the code.

### AsyncJobs

A job's result is in `place[j]`: *queued* in the manager, in the *sink* that
formats it, an *entry* of the yield queue, *held* by the loop. `suppressed`,
`watched` and `consumed` are the manager's sets of ids, and `seen` (a history
variable) the jobs whose outcome the model was told, by whichever way.
`epoch`, `stamp` and `born` follow session transitions. Tool calls and the
injection of results exclude each other, because the loop polls between batches.

An id is free when it has no row (`FreeId`), as in the code: a session transition
frees ids while a delivery of theirs is in its sink, and the retention timer may
fire at any time, also while a delivery or a cancelled process is still on its way.
`crossed` (history) keeps the jobs that an overlap of two uses of an id has
reached, in one of three ways:

* `Lingers`: the job got its id while the cancelled process of the id's last job, the
  wait for it, or a timer set by its end was still there;
* `Strayed`: the job's row was evicted by retention while its delivery was pending;
* `Mistaken`: the return of another job's delivery marked its result as consumed
  before anybody had been shown it.

The code does not protect these jobs, and section 4 has a trace for each. The
properties exempt them and no others: a job that gets an id while the delivery of an
earlier one is in its sink is not among them, nor is the earlier job.

Timers do not fire between microtasks: a foreground or hub wait whose job has
settled returns before any of them (`Returning`). `PhotoFinish = FALSE` says that no
peer message ends a hub wait in those microtasks either.

Abstracted: one agent and one hub wait at a time; jobs queued for a slot, several
owners, dead letters, `dispose` of the manager, retained artifacts and the poll
ladder; retention is positive; that a foreground wait takes a settlement over in
two microtasks. A batch the loop discards tells its producers so (section 4 has
the one path where it does not).

### SessionJournal

An entry is a value and `disk` the sequence of entries a reload would find.
`tasks` are the promises chained on `#diskTail`: atomic rewrites (`TaskStep`:
close the writer, publish, look at the epoch and at what was appended meanwhile,
go round again) and title changes with their fallback to a rewrite. `diskEpoch`,
`fence` and `dirty` are the three variables by which a synchronous append tells a
running rewrite that it is superseded; `writer` may be *detached*, when the file it
writes to was replaced, or *broken*. `batch` and `repair` are the coroutines of an
atomic batch and of an authoritative rewrite after a failure; `batch.from` says
after how many entries the batch was staged. `acked`, `rejected` and `unmarked` are
history: what callers were told, and whether a repair that was superseded before
its first turn has cleared the dirty mark of a newer rewrite (section 4). Every
storage operation may fail, and the process may crash at any step, leaving `disk`.

Abstracted: failures and crashes share the budget `faults`; repairs are started
only up to `MaxEpoch`; a title append that fails is caught in the same step;
publishing a file and setting the flags is one step; a batch's acknowledgement does
not speak of titles. A rewrite asked for while the file is not wanted yet (before
the first answer) is left out: only the removal of images can do that, see the
hazard at `session-manager.ts` 984. Not modelled: relocation by `moveTo`, fork,
drafts, the entry tree, blobs, indexed storages.

### AgentFleet

One id. `refs` are the generations of its `AgentRef`, `sess` the sessions built for
them, `adopted` the manager's record with its reviver and timer; `park`, `revival`
and `kills` are the coroutines that may be in flight, at the await they are at;
`msgs` are `send`s, at theirs. `Drained` lets a timer or the end of an I/O come
only when no resumption is due: the code relies on that between the cancellation of
a park and the send that did it. `hurt` is history: somebody killed the agent, tore
the manager down, let it end or had its reviver fail, or a scan of the disk found it
killed or replaced it while it was being revived.

A scan registers the agent of a transcript when the id is free (`Restore`), and
when a parked, detached ref has it (`Replace`), which it unregisters: in the code
that ref must belong to another root session, here any parked ref may. Either way
the new ref is aborted if its transcript has a tombstone. A replaced ref may still
be in `dispose` of its park, since parks are kept by id: sends to the new ref, and
its kill, then wait for or ignore that park as the code does. One thing is lost on
that path. When the timer of a newer generation fires while the park of the older
one still disposes, `park` returns the older promise (`agent-lifecycle.ts` 244-245)
and no timer is left (`missed`); `IdleIsTimed` exempts that agent until it next
runs. It takes a disposal that outlasts a whole time to live.

Abstracted: the end of a first run, and the build of a session, are one step each;
a message to an idle session starts its turn at once. Left out: main and advisor
agents, adoption without a timer, filters by sender, awaited targets, the cap of a
mailbox, and the timer of an adoption that a newer generation overwrote.
`ensureLive` hands out a session that a plain release or the end of an isolated run
is disposing, although the comment at `agent-lifecycle.ts` 309-316 speaks of every
disposal; `ParkIsSafe` states what holds, for parks, and exempts turns that were
begun on a session whose revival had not finished, and a disposed manager.

### WorkPool, ProviderSlots and PooledTurns

A worker is named by the item it was spawned for. `chain` is the promise chain
items are dispatched on, `spawning` whether its head awaits the reservation of an
id, `freshQueue` the items that wait for a fresh worker, `work[w]` a worker's own
queue and `batch[w]` the items of its turn; `job[w]` is that turn's background job
and `ending` the jobs whose run has returned but which the manager still counts.
`pool` is the aggregate job, `due` whether its waiter was resolved. `ceiling` is
`task.maxConcurrency`, which the user may change at any time (`Reconfigure`).
`Quiet` holds when no continuation is due. A push whose aggregate job is refused
leaves its items undispatched, a batch whose job is refused leaves its worker marked
running, and the items that wait for fresh agents are deserted when the last worker
has gone and no id can be reserved for the next one (`unreserved` records such a
failure): all three are what the code does (section 4).

`ProviderSlots` is the semaphore with its queue; zero stands for no limit. In
`PooledTurns` each worker is a caller: it holds a slot while an answer streams and
none between two requests, and cancelling its job aborts its wait in the same
event.

Left out: the choice among idle workers by their context (any may be chosen), a
second job with the pool's name, the bounded maps over arrays.

### EventQueue

`row` is an event's row, `later` whether its time is in the future; they survive
the process. `subject[e]` is the issue or pull request a delivery is about; `origin`
is what the issues' rows say of a number (`find_issue_by_pr`). `key[e]` is chosen from
it when the delivery is received, a pull request's own number if it has no issue on
record, and `place[e]` when the task resolves its workspace (`Resolve`), from the
records of that moment or by the branch of the pull request, which is then recorded.
A turn records a pull request it has opened (`RecordPull`) at any moment after it
exists. `disp` and `got` are the dispatcher, which claims, starts, bounces, naps and
waits; `run[e]` the task and worker thread of an event, from its slot over resolving,
preparing, spawning, arming its hook and its turn to reclaiming caches and
releasing its key. `loose` are threads whose task was cancelled: the thread goes
on. `Stop`, `DrainEnds`, `Interrupt`, `Stopped` and `Exit` are a shutdown step by
step, `Crash` ends the process anywhere and `Start` is `reset_stuck_running`.

Abstracted: attempts are counted to `MaxRetries + 1`; a bounce leaves them
counted, so it uses up the budget of retries, as in the code; backoff times are
arbitrary. A number has one record: where two rows of the table name a pull request
(its own, kept for a review, and its issue's), a query returns either. Pull requests
of others keep their own number and are among the `Issues`. Deliveries that route
skips are not deliveries, and the one key of release events is an issue. Left out: rate limiting, the sweep of caches at start, the native
caches' collection, other tables.

### RefreshLease

`row` and `lease` are the database; each statement is a step. `flight[p]` is the
one refresh of a process (look, acquire, sleep, recheck, request, write or disable,
release), `call[c]` a request for a key: it selects, joins or starts a flight,
writes back what it was handed (*keep*), and prepares the credential a second time
after the usage report. Tokens are numbered as issued; those up to `due` are about
to expire. The provider is outside the source: it replaces a token it accepts and
refuses one that is spent. `hurt` is history: a token was lost in a way no client
can prevent (a crash or a time-out after the grant, a lease outslept, a withdrawn
grant), or the write of section 4's finding has happened.

Left out: the choice among accounts and their blocks, API keys, the usage probe's
own refresh, logout and a login under a new id, the broker that stands in for the
database, a provider that revokes a family of tokens. A crashed process does not
come back; its lease runs out. With the durable lease the path without one
(`#disableDefinitiveOAuthFailure`) is not reached. The update's comparison with the
token that was sent already keeps the properties; the lease's own fence in the same
`WHERE` clause is not what they rest on.

## 3. The runs

| run | instance | shows |
|---|---|---|
| `batch_schedule` | 3 calls, every pattern of exclusive and shared with at most one exclusive of two neighbours, the middle one a wait; peers; failing queue peeks | `SerialOrder`, and the refinement of `BatchContract`, which includes one answer per call |
| `batch_interrupt` | a wait beside a foreground tool, every outcome of the wait's prepare phase, hooks, pauses, event-driven watcher | `HonestResults`, `SteeringSparesForeground`, `NoStaleStart`, `SteerUnblocksWaits`, `AbortUnwinds` |
| `loop_faults` | 1 steer, 1 follow-up, 2 asides, all faults, throwing thunks and leaks | `AbortKeepsQueue`, `LossNeedsCause`, `AsideSettled` |
| `loop_clean` | 2 steers one at a time, 1 follow-up, without throwing callbacks or leaks | `QueueOrder`, `EndMeansAnswered`, `SeenIsRecorded`, `SteerDelivered` |
| `jobs` | 2 jobs, 2 ids, one session transition, one discarded batch | `ResultNotLost`, `IdsMatch`, `RowsExpire`, `EventuallyKnown` |
| `journal` | 2 messages of which one is an answer, a title, a batch of one entry, 2 disk tasks, 1 failure or crash | `AnswersHold`, `JournalInv`, `WritersReturn` |
| `fleet` | 2 messages, 1 killer, 2 generations, 4 sessions, 1 failing reviver | `FleetInv`, `IdleIsTimed`, `RefusedForAReason`, `AbortedIsFinal`, `ParkIsSafe`, `SendReturns` |
| `pool` | 3 items, a ceiling of 1 or 2 workers and a cap of 1 or 2 requests that both change while it runs, 3 jobs of which 1 may be somebody else's | `PoolInv`, `QueuedOnce`, `SlotsSafe`, `OverIsFinal`, `PoolEnds` |
| `robomp` | 2 events, about an issue and its pull request or twice about the pull request, 2 slots, a retry, a replay, a cancellation, one end of the process | `QueueInv`, `RowHasRunner`, `InterruptedStays`, `EveryEventDecided` |
| `credentials` | 2 requests in one process (one after a refusal), 1 in another (after a refusal), 3 tokens of which 1 comes to be due, 1 fault | `LeaseInv`, `AccountKept`, `LateAnswerIsDropped`, `KeyReturns` |
| `journal_late_title` | 3 messages, 2 faults, a title write may fail after its epoch has passed | a counterexample to `AckedSurvives` |
| `credentials_stale` | as `credentials` | a counterexample to `RotationKept` |

`JournalInv`, `FleetInv`, `PoolInv`, `QueueInv` and `LeaseInv` join the type
invariant of their module with a safety property (`CurrentIsTrue`, `NoOrphan`,
`DrainIsFull`, `OneRunPerKey` and `OneUserUnlessStrayed`, `OneRequester`).

Bounds. `N` and the `Max...` constants and the message sets are bounds of the
instances only; the theorems hold for every value.

* Batches and loop: three calls are the fewest in which an exclusive call stands
  between, before or after shared ones, which is where the two scheduling variables
  matter; interrupts act on each call by itself, so two calls (one that is cut, one
  that must not be) suffice there. Two steers are the fewest that can be reordered
  or split between two one-at-a-time dequeues; the follow-up shows the two queues
  against each other. Two asides are the fewest of which one can be resolved before, and
  one is left behind, the one that throws; two steers with all faults were explored
  too (7.4 million states).
* Jobs: two jobs with two ids give reuse of an id by a job while another is in each
  of its states; one transition and one discard suffice because each changes a
  job's place once. The invariants were also explored with three jobs that share one
  id over two transitions (4.1 million states).
* Journal: an answer, and a message before or after it, reach both sides of the
  lazy gate; a rewrite needs one fresher append to be superseded, and a second task
  to be overtaken by. Two faults (1.5 million states) and three tasks (3.6 million)
  were explored too.
* Fleet: two generations are the fewest in which old work can touch a newer ref; two
  messages race for one revival. A third lets a park outlive the ref that replaced
  its own: the inductive invariant was explored with three generations (83 thousand
  states with one message) and with four (5.6 million with two).
* Pool: with two workers, the third item has to wait behind another, or for a fresh
  worker; a job of somebody else makes the limit of three reachable. Explored with
  four items and four jobs (0.4 million).
* Queue: two events under one key exclude each other, under two run side by side in
  two slots. The second is about the pull request, so that it is routed before or
  after its issue is recorded, and meets the first in the issue's workspace or not.
  The safety properties were explored with any two subjects and two ends, a crash
  after a restart (1.5 million), and with three events and one end (5.4 million).
* Credentials: two processes contend, two requests of one process share a flight.
  The safety properties were explored without the bound on due tokens (1.0 million
  states) and with every choice of the refused requests (2.8 million).

Deadlock is checked in the batch and loop runs. In the others an idle system whose
work has all ended has nothing left to do.

Fairness.

* `batch_interrupt`: tools that are aborted return, hooks and promise continuations
  run, the watcher and the poll timer are scheduled, queue peeks return; tools that
  are not aborted may run for ever, and nobody need steer, resume or abort. Failing
  peeks are excluded there, because a failed peek ends the watcher by design.
* `loop_clean`: awaited callbacks and the provider return; and the session
  continues a stopped agent that has queued messages, which is `AgentSession`'s
  drain of stranded messages (`agent-session.ts` 867-892 and 6768-6832).
* `jobs`: the delivery loop, the sink and waits make progress; `Drain` is strongly
  fair because the loop polls asides at every boundary, while a poll is only
  possible between batches; jobs may run for ever.
* `journal`: disk tasks, a batch's commit or rollback, and a repair go on; storage
  operations return, if only with an error.
* `fleet`: awaits return (revivers, builds, disposals), and a park that has begun
  goes on; the idle timer need not fire, nobody need kill.
* `pool`: continuations run, reservations return; a stream and a turn that can end
  again and again do end (strong fairness, since a turn alternates between requests
  and their answers). Nobody need close or cancel.
* `robomp`: the event loop and its threads go on, backoffs elapse, a turn ends (it
  has a hard time limit), a shutdown proceeds and a supervisor starts the process
  again.
* `credentials`: requests and flights go on (a request has a time limit), the lease
  of a dead owner runs out. Nobody need log in, and nobody need crash.

## 4. Where the code and its words differ

Two runs end in a counterexample trace.

| run | property | what the trace shows |
|---|---|---|
| `journal_late_title` | `AckedSurvives` | a title write fails after a newer rewrite was started; its catch clause takes the newer rewrite's fence down, an append then goes the hot path, and the rewrite replaces the file without that entry (`session-manager.ts` 1086) |
| `credentials_stale` | `RotationKept` | a request that awaited a usage report writes the token it had prepared back, under a comparison with a snapshot that another request of the process has moved on: the newer token of a login or a peer is replaced (`auth-storage.ts` 2368). The same happens with two requests that joined one flight |

The following were met too. Each is reproduced by adding the property, or the
value of the constant, to the configuration named; the properties of the runs
exempt exactly these cases.

| to reproduce | what the trace shows |
|---|---|
| `SteerSkipsRemainingTools` in a batch run | the comment on `Agent.steer` says a message "skips remaining tools"; non-interruptible calls still run, as the loop's own comments and tests demand |
| `EndMeansAnswered` with `Leaks = TRUE` | a leaked reply in a turn that a steer opened at a stop boundary: the `continue` that should sample again leaves the loop, and the message stays unanswered (`agent-loop.ts` 1299) |
| `EveryAsideSettled` in `MCAgentLoopFaults.cfg` | a dequeue hook rejects after the late asides were drained (1544), or one of several drained asides throws as it is resolved and the later ones are dropped with it (1008-1021): they are neither inserted nor reported as discarded, against `types.ts` 36. `YieldQueue.drainLazy`'s own thunks catch what they call, so the second case needs another producer |
| `DequeuedIsInjected` in `MCAgentLoopFaults.cfg` | the deadline passes between a boundary dequeue and its injection: the message is in neither queue nor context (1135, against `types.ts` 237-239) |
| `ResultNotLost` with `PhotoFinish = TRUE` | a peer message wins a hub wait just as a watched job settles: the result is not delivered again although the comment says it is (`hub/index.ts` 514) |
| `ResultNotLost` with `Mistaken(J) == {}` | a session transition evicts a job whose delivery is in its sink, the id is given to a job of the next session and that job completes: the old sink, which the epoch turns away, returns as if it had delivered and so marks the new result as consumed (`job-manager.ts` 1063, 745-751); a hub snapshot then omits the result and silences its delivery. The comments take the id's reuse into account for the old result (566-569, `agent-session.ts` 2155-2158), not for the new one |
| `IdsMatch` with `Strayed(i) == {}` | the retention timer fires while a delivery is pending, which 780-787 expects: its suppression goes with the row, so that a result a snapshot has shown is injected again, or the delivery, no longer found by the id's row, outlives a session transition and reaches the next transcript, against 563-565. `ResultNotLost` fails as well: what is evicted before it is retried is dropped (1068) |
| `IdsMatch` with `Lingers(i) == FALSE` | a cancelled process that outlives retention arms a timer on its reused id, which evicts a running job (`job-manager.ts` 352); `ResultNotLost` fails as well |
| `FileHoldsAll` in `MCSessionJournal.cfg`, with two titles and two faults | a repair that was superseded before its first turn clears the dirty mark of a newer rewrite; when that rewrite is a title's fallback, it does not go round again for an entry recorded in a batch meanwhile, and the flags say the file is current (`session-manager.ts` 758, against what `flushSync` relies on, 1818-1834) |
| `IdleIsTimed` without `missed`, with three generations and one message | the timer of a newer generation fires while the park of an earlier one still disposes its session, and is not armed again (`agent-lifecycle.ts` 244-245) |
| `NewerKeepsAdoption` in `MCAgentFleet.cfg` | a revival of an old generation adopts its id after a new one did (`agent-lifecycle.ts` 381, against 18-20) |
| `FreshAreServed` in `MCPooledTurns.cfg` | with fresh agents, the last worker dies and the reservation for the item that takes over fails: the items left in `#freshQueue` wait for a worker that is not there, and the pool never settles (`workpool.ts` 225, against `docs/tools/eval.md` 163) |
| `RunningHasJob` in `MCPooledTurns.cfg` | the job limit refuses a batch whose items are marked running: its worker stays busy and the pool never settles (`workpool.ts` 329, against `docs/tools/eval.md` 163) |
| `CancelReachesAgent` in `MCEventQueue.cfg` | a cancellation falls between a thread's look at the mark and its installation of the hook (`queue.py` 245, against 242-243) |
| `NoneSpawnsAfterStop` in `MCEventQueue.cfg` | a cancelled task leaves a thread behind that still spawns its agent after `stop` has returned (`queue.py` 159-161) |
| `OneUserPerWorkspace` in `MCEventQueue.cfg` | a delivery about a pull request is routed before the pull request is on record, under its own number; its task resolves the workspace of the issue, by the record or by the branch, while an event of the issue is at work there under the issue's key (`github_events.py` 276 and `tasks.py` 239-242, against `github_events.py` 234-236 and `queue.py` 345-346). `QueueInv` exempts exactly the events whose key and workspace differ (`Strayed`) |

## 5. The proofs

All by TLAPS, for every value of the constants that satisfies the named
assumptions (`BatchAssumption`, `LoopAssumption`, `JobsAssumption`,
`JournalAssumption`, `FleetAssumption`, `SlotsAssumption`, `PoolAssumption`,
`PooledAssumption`, `QueueAssumption`, `LeaseAssumption`): any number of calls,
messages, jobs, ids, entries, tasks, agents, callers, items, events, processes
and limits. Each inductive invariant was checked by TLC on the instance of its
run before it was proved.

**ToolBatch.** None of the safety properties is inductive. `IInv` adds what each
call's flags say at each place of `runTool` (`CallInv`: an unanswered call has no
result, a parked one was not invoked, ...), that a call which has begun found all
of `Deps` fulfilled (`StartedInTurn`, from which `SerialOrder` follows for two
calls with any number of shared ones between them), that a foreground call past
its gate is told what became of it (`ForegroundInv`), and that a recorded interrupt
aborted a controller (`TriggerAborts`). From it: `TypeCorrect`, `OrderCorrect`,
`HonestyCorrect`, `AnswersCorrect`, `ForegroundCorrect`, and the action properties
`PauseCorrect`, `InterruptCorrect` and their conjunction `StartsCorrect`
(`NoStaleStart`). `RefinesContract` shows that every step is a step of
`BatchContract` or a stutter; the invariant is needed in the mapping, since a call
that starts must be *pending* in the contract and its predecessors *over*.

**AgentLoop.** `OrderInv` orders the two queues (what is queued is younger than
what was taken) and gives `QueueOrderCorrect` and `AbortKeepsQueueCorrect`;
`HandInv` says at which awaits the loop has messages in its hands, and gives
`LossCorrect` and, with `HeldAtFollow` (a resolved aside is outside the pending
messages only at the follow-up poll), `AsidesCorrect`; `AnsweredInv`
(after a reply nothing in the context is unanswered) gives `AnsweredCorrect` when
no reply leaks; `RecordInv` says at which awaits the transcript may lag behind the
context, and by what, and gives `RecordedCorrect` (`SeenIsRecorded`), again when
no reply leaks.

**AsyncJobs.** The argument is *who may use an id*: a job that runs, that has a
delivery which may still reach the model, or that completed in a foreground wait owns
the row of its id unless it is in `crossed` (`InUseOwnsRow`); where an earlier
process or its timer is still there, the job in the row is in `crossed`
(`LiveSharers`, `TimerIsDue`). A delivery that a transition caught in its sink owns
no row, and needs none: its job is older than its stamp, the rows are of this session
(`StatusIsLive`, `RowIsOwnSession`), so that its return can only touch a later job,
which is then `Mistaken`. Deliveries belong to this session (`DeliveryIsOwn`), and
marks on an id speak of the job in its row (`MarksAreHonest`, `WatchedIsWaited`,
`ForegroundIsSilent`). This gives `IdsCorrect` (`IdsMatch`: `RunningHasRow`,
`NoReplay`, `OwnSession`), without any assumption on times. `ResultsCorrect`
(`ResultNotLost`, with `~PhotoFinish`) needs in addition `OnItsWay`: an unseen result
of this session is being delivered, or belongs to a foreground wait, or to a hub wait
that has silenced it and will show it. The invariant was also checked with three
jobs that share one id over two session transitions.

**SessionJournal.** The argument is about the present epoch. At most one task of it
runs at a time (`InOrder`), behind a raised fence and with no writer open that
could reach the file (`FenceHolds`); a repair is alone, behind a latched failure
(`RepairAlone`). A task or repair of an older epoch publishes nothing, so what
replaces the file is a body of this one. Such a body has all that was acknowledged when it was
serialized (`AckedKept`), and what is recorded later either supersedes it, or marks
it dirty, or is a title with a task of its own (`BodyIsCurrent`, `RepairIsCurrent`,
`TitlesDue`, `FileIsCurrent`). The entries of a batch are where they were staged
(`BatchPlaced`), and those of a batch that was rolled back are in nothing that is
written any more (`RolledBack`, `RejectedIsOut`). It gives `JournalCorrect`
(`JournalInv`) and `AnswersKept` (`AnswersHold`), both under the hypothesis that a
title write does not fail after its epoch has passed: without it the theorems are
false, as `journal_late_title` shows. The attempt to prove `CurrentIsTrue` without
`unmarked` led to `FileHoldsAll` of section 4. The invariant was checked on the
instance of its run, and with three tasks (4.2 million states), two faults (1.7
million), and two titles with two faults (10.5 million).

**ProviderSlots and PooledTurns.** `SlotsSafe` is inductive together with the types
(`SlotsInvariant`): the counter is the number of holders, the queue is the set of
waiters, each once, and nobody waits while a slot is free. Removing a waiter
(`AbortSafe`), admitting one (`ReleaseSafe`) and admitting a prefix of the queue
(`ResizeSafe`) rest on lemmas about sequences and finite sets. It gives
`SlotsCorrect`, and `CapCorrect`: no request is admitted at or beyond the cap.
`UsesSlots` shows that every step of `PooledTurns` is an operation of the semaphore
or leaves it alone, so the invariant holds in the pool with every way a turn can
end (`PooledSlotsCorrect`).

**WorkPool.** The argument is *where an item is*. `PoolIInv` says that the chain, the
queue for fresh agents and the queues of workers hold nobody twice (`NoDuplicates`)
and nobody in common (`Apart`), that who is in one of them is queued and the reverse
(`WaitingIsQueued`, `QueuedWaits`), that queues of workers are those of busy, reused
ones (`QueuesServed`), that a running item is in one batch (`BatchesRun`), and that
nothing is queued after the close or running after the drain (`OverIsEmpty`). Each
step takes an item out of where it is before it puts it elsewhere, which the lemmas
about queues as sets make precise. It gives `PoolCorrect` (types and `DrainIsFull`),
`QueuedOnceCorrect` and `OverIsFinalCorrect`. The attempt to prove `QueuedOnce`
without `unreserved` led to the deserted queue of section 4.

**AgentFleet.** `NoOrphan` needs to know, of every coroutine in flight, which
generation and session it still has a claim to. The argument follows the
generation: its session is attached until the step that hands it to a park, a kill
or a revival to dispose, and a generation that was unregistered never comes back.
`FleetIInv` says that what is referred to exists (`Referred`); that attachment is
mutual, and a detached live session is that of a tombstone (`AttachedOnce`); that a
revival is for a ref without a session until it attaches its own (`RevivalsHeld`);
that nobody revives, kills or disposes what a park is parking (`ParkHeld`); that a
kill owns its ref from the moment it drops the adoption (`KillsHeld`); that an
adopted session is live, its timer runs only while it is idle, and a ref that
replaced one whose park is not over yet is neither revived nor woken before that
(`Listening`); and,
as long as nothing was `hurt`, that the registered ref is live or parked and every
waiting send will find it so (`UnhurtAll`). It gives `FleetCorrect` (`NoOrphan`),
`IdleCorrect`, `RefusalCorrect`, and the action properties `AbortedCorrect` and
`ParkCorrect`. It was checked on instances with three and with four generations.

**EventQueue.** A key stays in flight as long as an event queued under it has a task
(`InFlight`), and it has one owner, be it a task or a thread that outlived its task
(`OneOwner`); threads outlive tasks only when nothing is dispatched any more
(`LooseWhenOff`, `OffWhenStopping`). The key of an event is chosen when its row is
still absent, and no absent row has an owner (`Received`). Issues have their own
workspace and their events keep their key (`RoutedHome`), so that an event whose key
and workspace differ is one of a pull request that was routed too early: that is
`OneUserUnlessStrayed`. With what the slots, hooks and waiting tasks say of the place
each task is at (`SlotsCounted`, `HooksArmed`, `Waits`, `UnwoundOnce`) this is
inductive (`QueueIInv`) and gives `QueueCorrect`, `RowHasRunnerCorrect` and
`InterruptedStaysCorrect`. The slots are counted by cardinalities of sets of events,
and the oldest delivery of a set exists by well-founded induction.

**RefreshLease.** The core is `RequesterOwns`: unless something was `hurt`, who is
in a request owns the lease and has not lost it, so there is one such process and
the provider replaces the row's token for it only. `RowLives` then says that the
row's token is live, or its live successor is in that process' hands; both need
that answers are about tokens that were issued (`TokensIssued`, `AnswersAreTrue`)
and that a disabled row's token is dead (`DisabledIsDead`). It gives `LeaseCorrect`
(`OneRequester`), `AccountCorrect` and `LateAnswerCorrect`.

Only model-checked: all liveness properties (`SteerUnblocksWaits`, `AbortUnwinds`,
`SteerDelivered`, `EventuallyKnown`, `WritersReturn`, `SendReturns`, `PoolEnds`,
`EveryEventDecided`, `KeyReturns`), which the prover does not reach.

## 6. Plan

Every property that a passing run checks and that is no liveness property is a
theorem. Next to be proved, with abstract specifications to be stated first: that
the journal implements a log that only grows and loses nothing acknowledged, that a
lease's processes implement one account with one refresh at a time, and that a work
pool implements a bag of items that are taken once each.

Next to be modelled:

1. the daemon broker: generations, restarts against stops, presence leases,
   completion notifications and their acknowledgement;
2. a composition of the loop's asides with the yield queue, replacing the held
   batch both modules assume;
3. tool directives in `AgentLoop`, with the tool choice queue;
4. retry and compaction of a session; relocation of a journal.

## 7. Running

    tlc -config MCToolBatchSchedule.cfg MCToolBatch
    tlapm ToolBatchProofs.tla

`PROJECT.json` lists every run with its configuration, the mutants, the findings,
the hazards with the properties that guard them, and the theorems. The longest run,
`credentials`, takes about two minutes with two workers.
