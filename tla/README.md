# A verification project for lcf-ecs

lcf-ecs is a header-only C++20 library: an entity component system (`ecs/`) over
a thread pool with a task graph (`thread/`), both over a set of containers and
codecs (`part/`, `reflection/`, `serialization/`). This directory holds TLA+
models of its concurrent core and of its component storage, the TLC runs that
check them on small instances, and proofs that hold for every instance.

Paths below are under `src/include/`. `PROJECT.json` maps every definition that
models code to the lines it models, lists the hazards with the properties that
cover them, and gives for every property of a passing run a mutation of the code
that the property catches.

- [The system](#the-system)
- [The modules](#the-modules)
- [The runs](#the-runs)
- [What is proved](#what-is-proved)
- [Where code and promise differ](#where-code-and-promise-differ)
- [What is left out](#what-is-left-out)
- [The plan](#the-plan)

## The system

### The thread pool

A `manager` owns workers. A thread submits a job; the job goes to a worker's
mailbox, to a worker's deque or to the backlog of a lane, and one parked worker
is woken. A worker runs `run_loop`: its deque, its mailbox, the injection
queues, the deques of others, and then it parks.

| part | state | operations | hard | promise |
|---|---|---|---|---|
| work deque, `thread/queue/work_deque.hpp` | `top_`, `bottom_`, a ring that grows, the rings it has outgrown | `push`, `pop` (owner), `steal` (anyone) | `pop` takes without a CAS when more than one job is left; thieves read a ring that is being replaced; a batch is claimed by one CAS | every job is returned once; nothing is left behind |
| MPMC queues, `thread/queue/mpmc_queue.hpp`, `mpmc_ring.hpp` | `head_`, `tail_`, a sequence number and a plain value per slot | `try_push`, `try_pop` | the plain value is protected only by the sequence number; a thread may stall between claim and publication | FIFO; no data race; an answer "full" or "empty" is true |
| parking, `thread/base/platform.hpp`, `thread/execution/worker.hpp` | a wake word and a count of sleepers per worker, `shutdown_` | `park_once`, `unpark`, `is_parked`, `idle_wait` | submission, stop and the last look for work race; the store of the wake word may be visible late | no job waits for a sleeping worker; stop joins |
| wait points, `thread/base/sync.hpp`, `thread/execution/coroutine.hpp` | a count, a lock-free list of waiters, three flags per coroutine | `complete_one`, `trigger`, `attach_waiter`, `drain`, `await_suspend`, `wake` | joining the list races with draining it; suspending races with waking | a coroutine goes on once, and not early |
| manager, `thread/pool/manager.hpp` | gate word, counts, lanes, workers | `submit`, `try_submit`, `start`, `stop`, `pump`, `drain` | submission against stop; two counts read one after the other | stop loses no accepted job; drain returns when all is done |
| lanes, `thread/execution/lane.hpp` | a queue and an owner per lane, one word of ready bits per runtime | `submit`, `try_pop`, `try_acquire`, `release`, `pump_lanes` | the bit is cleared beside a submission; ownership passes between threads | a lane keeps the order of its jobs; none is hidden |
| jobs, `thread/base/job.hpp`, `part/index_pool.hpp` | tagged free list, live bits | `allocate`, `release` | ABA | a slot has one owner |
| timers, `part/time/timing_wheel.hpp` | buckets per level, time, tick, count | `add`, `cancel`, `advance` | time jumps over slots and levels; callbacks change the wheel | nobody is overdue when `advance` returns |
| contexts, `thread/task/task_context.hpp`, `detail/context_store.hpp` | per slot a state, a generation, a count of references | create, retain, release, set, inherit | the count moves after the generation was looked at | a context lives as long as its references |
| admission, `thread/task/task_admission.hpp` | tokens out, per tenant and in all | `try_admit`, `on_complete` | an activation can fail after it was admitted | no token is lost, none too many |
| raw memory, `part/memory/memory_pool.hpp` | chunks, block headers, free lists by size, a cache, the wilderness, a stock of chunks, records of aligned blocks | `acquire`, `acquire_aligned`, `soft_delete`, `hard_delete`, `resize`, `reset`, `reduce_capacity` ... | blocks are split and merged in any order; five places mend the links of the neighbours | what is handed out is large enough, aligned and nobody else's; what comes back is found again |
| pools of objects, `part/class_pool.hpp` | slots, a bitmap of elements, one of objects to be destroyed, their number, the holes' number, a flag that there is none, a hint | `emplace_back`, `emplace`, `emplace_at`, `fill_the_hole`, `erase`, `sparse_erase_at`, `soft_dense_delete`, `reduce_capacity` ... | each call keeps flag, numbers and bitmaps in its own way; a soft deletion leaves its object behind | a slot has what was put there; an object is destroyed once |

### The task graph

A node is activated by clients, by predecessors, by a parent, by a signal or by
a resource that becomes free. Each activation has an epoch; a ticket with the
epoch goes to a queue; a worker that takes it runs the body, which may suspend
itself (a coroutine) and be woken.

| part | state | operations | hard | promise |
|---|---|---|---|---|
| node, `thread/task/task_node.hpp`, `detail/task_graph_runtime_impl.hpp` | `state_`, `dispatch_epoch_`, `flags_`, `pending_runs_`, `waits_`, tickets, counts of activations and completions | activate, deactivate, disable, enable, cancel, `wake`, execute, suspend, finish | every call may come at every moment; tickets outlive their epoch; queues fill up | a body runs once per activation and never twice at a time; a ready node is run; drain returns |
| joins, `task_flow.hpp` | `pending_children_`, `flag_join_any`, `join_parent_` of the child | `join`, `when_all`, `when_any`, end of a child | children end while the parent registers or suspends | the parent goes on when, and only when, what it awaits has ended |
| resources, `task_dependency.hpp` | readers, writer, wait chain per resource, waiting writers | acquire all or none, release one by one, wake the chain | a task needs several; woken tasks retry; two threads release | bodies exclude each other as declared; who waits is woken |
| dependencies, `task_builder.hpp` | `pending_deps_`, edges | `add_dependency`, `after`, end of a predecessor | two predecessors end at once; a task runs again | after all predecessors, once |
| other awaits, `task_flow.hpp`, `task_blocking.hpp`, `task_watchdog.hpp` | the record of the wait (`waits_`), the counter of a loop's chunks, the queue of the blocking domain | `parallel_for`, `sleep_for`, `blocking_call`, `wake_timed`, `destroy` | three kinds of threads wake the task while it suspends, or has gone on | each index is done once; an await returns when what it awaits has happened, and then it does |

### The ECS

Sequential code: the application calls it from one thread. What is hard is the
long run of calls, and callbacks that call back during a walk.

| part | state | operations | promise |
|---|---|---|---|
| entities, `ecs/entity/` | next index, released indices, a version per index | create, delete, preallocate, `valid` | a handle is issued once; a stale one is known to be stale |
| storage, `ecs/storage/single_class_set.hpp` | dense slots, sparse entries, tombstones, live count, hot cache, the active iterator | add, hard and soft removal, compact, sort, swap, clear, get, safe walk | a map from live handles to values, whatever moves underneath |
| manager, `ecs/manager.hpp` | the above, a mask per entity | the same, by type and entity | `has_component` and `get` agree; deletion removes everything |
| `multi_view`, `group`, `owning_group`, `ecs/view/`, `ecs/group/` | rows of slots, the versions they were noted at, a packed prefix | open, look (renew when a version differs) | what is handed out without looking again is exact |
| command buffer, `ecs/command/` | recorded calls, the entities of placeholders, a buffer id | record, flush, clear, resolve | a placeholder stands for its entity or for nothing |

### How the parts meet

Jobs carry tickets: the graph routes through the lanes into deques and mailboxes,
so `TaskNode`'s set of tickets stands for deque, mailbox and queues together, and
the runs of `WorkDeque` and `MpmcQueue` show that those keep what is put in. The
end of a body (`finish`) notifies, in this order, the tasks that wait for its
resources, its dependents, its parent in the tree and the task that joined it; each notification is a call of `activate` or `wake` on
another node. The counters and events of the pool are awaited by coroutines that
run as jobs. The ECS and the pool meet only in the application.

## The modules

One action is one access to a shared atomic, or one critical section of a lock;
local work goes with the access before or after it. Atomics are modelled
sequentially consistent but for one place. The orders in the code are acquire and
release around the accesses that matter; only the two deques have fences and
`seq_cst` (`work_deque.hpp:256`, `:302`, `task_queue.hpp:184`, `:225`). What
acquire and release do not order is a store before a later load of another
variable. In `unpark_other` (`platform.hpp:320-322`, release store of the word,
acquire load of `parks_`) that matters, and `WorkerPark` has the stores in a
buffer per thread. In `await_suspend` (`coroutine.hpp:287`: `suspended_`, then
`pending_resume_`) the late store shows nothing that a waker between its exchange
and its store does not show already. Elsewhere a read-modify-write of the same
thread stands between (`complete_one`, `begin_sleep`, `finish`, the submission
gate, the queues' claims). Counters that wrap in the code wrap
in the model where that matters (`pending_children_`, `pending_deps_`: `Wrap`).

**WorkDeque** has the owner's and the thieves' program counters, `top`, `bottom`
and one buffer per generation of `grow`. `Push...`, `Pop...` are the owner's
steps, `Steal...` a thief's; the owner that finds the deque full goes through
`GrowCopy` and `GrowPublish`, and a thief may go on reading the old buffer.
**DequeSpec** is the promise: a sequence, the owner at one end and thieves at the
other, each call at once. `WorkDeque` implements it with `items <- Live`.

**MpmcQueue** has a step for every load, comparison, CAS and publication of
`try_push` and `try_pop`. Positions are not reduced modulo 2^64.
`pushed` is a history: what was stored at each position.

**WorkerPark** has one mailbox per worker, the worker's way through `run_loop`,
`idle_wait` and `park_once`, and one "waking" record per thread for the steps of
`unpark`. `WakeStore` puts the new word into the thread's `stores`, where only
`Drain` makes it visible, before or after the look at `parks_`; a claim of a
mailbox slot, the count of a parked worker and the futex call wait for the buffer,
as on x86. `late` is a history: a sleeper's word moved after its writer had
looked. Jobs are only counted. `TimedPark` says whether the wait ends by
itself, as `WaitOnAddress` does and the Linux branch does not.

**WaitPoint** has the counter, the list of waiters, and `resume_waiter`'s three
flags; any number of threads drain the list at a time. A waiter's `Attach...`,
`Suspend...` steps and a waker's `Wake...` steps cross.

**TaskNode** has one node, its clients and workers; `pc` says where each thread
is, `hand` the epoch it works with. A body returns, fails or awaits an event. A
route ends in a queue with room, or, at any time, in queues that other tasks have
filled (`RouteFull`): the node is dormant then, whoever routed it. `Slots` bounds the node's own
tickets. `lost` is a history: activations that were counted and ended so, without a
completion. Tickets can tell
`TicketEpochs` epochs apart. A program says which calls each client makes.

**TaskJoin** has one parent and its children; a child is dormant, activated or
ended and its end goes through `subtract`, `look`, `wake`. **TaskResources** has
several tasks with their accesses, the resources' locks and chains, and the
`release_all` calls a thread is in, nested (`frames`): a woken task can be
refused and given back within a release. Where the queues may be full (`full`), a
client gives back what it has taken and leaves the task dormant (`RouteFull`, the
releases, `Drop`), and whoever wakes a task does it in the other order (`WakeFull`,
`WakeGive`). **TaskDeps** has a graph of tasks,
their counts, and the worker's walk over the edges of the task it has ended.
**TaskAwaits** has one task whose body awaits what its plan says: a `parallel_for`,
whose chunks are jobs of the workers or run in place, a call in the blocking
domain, which has a thread of its own, or a sleep, which the watchdog's
`wake_timed` ends. All of them meet in `suspend_bookkeeping` and
`wake_waiting_index`, cut at every access to the state, the note (`pending_`) and
the record of the wait. `early` is a history: an await returned before its time.
What `TaskNode` shows of tickets and claims is one step in these four. In `TaskJoin` and
`TaskAwaits` a wake and a rearm end with `Routed`: in a queue, or, with `full`, dormant; and
in `TaskJoin` the activation of a child may be refused.

**Manager** has the gate's word, the owner's program (start, pump, drain, stop,
start again), the submitters in `submit` or `try_submit`, and the workers taking,
running and counting jobs. Queues are sets of bounded size. A plan says how the
manager is configured: workers or none, mailbox size, whether a park times out,
which modes of stop. `fate` is a history: what has become of each job.

**Lane** has the queue of each lane, in which a push claims its place and
publishes it later, the ready bits, the owners, and threads that drain: workers
(`try_drain_lanes`) and threads that pump (`pump_lanes`), which share one owner id.
**IndexPool** has a step for every access of `allocate` and `release`; `Pack` is
the word with its generation, carry included. **TimingWheel** has one action per
call of `add` and `cancel`; `advance` is cut at every timer it takes from a slot,
so that the calls of a callback come in between (`Fire`, `Return`, `Spread`,
`NextSlot`).

**MemoryPool** is `memory_pool`, one action per call. An address is a number and
a block's header a record at it: its size, whether it is in use, free or cached,
whether it backs an aligned block, and the block before it in memory. The helpers
of the code are operators from pool to pool (`Link`, `Unlink`, `Merge`, `Split`,
`Flush`, `Trim`), and a call is their composition. `given` is a history: what was
asked for at each live pointer. `Delete` is also called with pointers that are no
longer live, as long as their header stands.

**ClassPool** is one `class_pool`, one action per call that changes it. Objects are
values in `slots`; constructing over one, destroying or assigning to none sets
`wrong`, unless T is `trivial`, copied byte by byte. Growing keeps everything and is
a number. `ShiftRightOne` moves bits as the code does, word by word with a carry;
`MCMpmcQueue` compares it with its definition over three words. `want` is a history:
the sequence of elements and holes that the calls ask for.

**ContextTable** has a step for every access of `create`, `at`, `retain` and
`release` of the table of contexts, and the tasks that refer to them; `holding` is
a history of the references that are somebody's. **Admission** has the steps of
`try_admit` and `on_complete`, and around them an activation that may be refused,
routed, run or taken back, in steps no finer than the tokens need.

**Sequencer** is a sequential role: clients activate, deactivate and reorder tasks
and leave commands in a bounded queue; the one pump takes a batch of them, handles
one after the other, each check of `handle_command` a step, and runs the first of
the heap, which is modelled as the array it is, with each task's note of its place
(`slot`). A behaviour has one `habit`, which says who calls what.

**EntityManager** (indices and versions), **ComponentSet** (EXTENDS it: slots,
sparse entries, tombstones, cache, walk) and **World** (EXTENDS both: masks and
the manager's calls) have one action per call; a walk's steps are actions of
their own and the calls of its callback come between them. **WorldSpec** is the
promise: handles issued once, each alive or dead, each live one with a value or
without. `World` implements it with `held` read through the cache. **Views**
(EXTENDS World) adds a second component type and one observer, and **Commands**
(EXTENDS Views) a command buffer whose flush makes the calls of the modules
below it, one recorded command a step.

`MC...` modules give the constants their values. A definition marked "variant"
is one the code does not have; it names a plausible error and stands for it in
`PROJECT.json`, and no specification uses it.

## The runs

Every run finishes in a few minutes at most. A run names few properties: an
invariant is often the conjunction of parts defined beside it, the type
invariant among them (`ExactlyOnce`, `TicketExact`, `LocksAgree`,
`RecordsAgree` ...). Some runs hold several small modules; a behaviour begins by
choosing the one it exercises (`way` in `MCWaiting`, `MCMpmcQueue` and `MCTasks`,
the plan in `MCWorld` and `MCManager`), which is the union of their runs.

| run | instance | shows |
|---|---|---|
| `deque` | owner, 2 thieves, 3 jobs, capacity 2 growing once, batches of 1 | `ExactlyOnce`, `Linearizable` (implements DequeSpec), `NothingStranded` |
| `queue` | queue: 2 producers, 2 consumers, 2 values, capacity 2, 4 pushes | `NoSlotRace`, `PopsItsPush`, `EmptyIsHonest`, `FullIsHonest`, and the proof's `IInv`, which includes `TypeOK` |
| | pool: 2 threads, 3 indices, 7 calls | `HandedOutOnce` |
| | wheel: 3 timers, 3 levels of 2 slots, ticks of 2, time to 17 in steps of 3 and 10 | `NobodyOverdue` |
| | memory: room for two chunks, of 16 or 24, a stock of one per size, four plans of calls | `MemoryExact` (its part `PoolExact`) |
| | objects: 4 slots in words of 2, capacities 2 and 8 or cut to 0 and 2, both kinds of T | `MemoryExact` (`SlotsExact`) |
| | contexts: 2 threads with 2 tasks each, 2 slots, 6 calls | `ReferencesExact` (the part of `ContextTable`) |
| | tokens: 2 threads, 2 tasks of up to 2 activations, a limit of 1, both kinds of policy | `ReferencesExact` (`TokensExact`) |
| `park` | 2 workers, a submitter of 2 jobs, stop, timed park | `NoSleepThroughUnpark`, `SubmittedRuns`, `StopJoins` |
| `waiting` | counter: 3 waiters, 2 completers, 2 units | `WokenOnceAtZero`, `NobodyLeftOnList` |
| | dependencies: a diamond, a fork and a chain on 2 workers | `DependentInOrder`, `DependentRuns` |
| | lanes: 2 submitters, 2 draining threads, four plans | `LaneInOrder`, `TurnComes` |
| | sequential role: 3 tasks, 2 clients, room for 2 commands, four habits | `KeysInOrder`, `TurnComes` |
| `tasks` | node: 2 clients, 2 workers, 1 slot, epochs to 3, one await and one queued run | `BodyExclusive`, `TicketExact`, `OutcomesAddUp`, `TasksGoOn` |
| | joins: 3 children; one await on 2 workers, two on 1, or a join of all on 3 | `JoinAwaitsChild`, `CountIsExact`, `TasksGoOn` |
| | resources: 2 to 4 tasks, 1 to 3 resources, 1 or 2 clients, 1 or 2 workers, 3 activations tried: four plans | `AccessExclusive`, `LocksAgree`, `OutcomesAddUp`, `TasksGoOn` |
| | awaits: up to three in a row, loops of up to 6 indices in 3 chunks, 1 or 2 workers: seven plans | `AwaitExact`, `TasksGoOn` |
| `manager` | 1 or 2 submitters, 2 workers, one or none, mailboxes of 1 or 2: five plans | `JobsAccounted`, `StopSettles`, `CallsReturn`, `AcceptedRuns` |
| `world` | 3 indices of 2 versions, 2 values, 2 cache lines, nine plans | `RecordsAgree`, `WalkVisitsAll`, `ViewExact`, `PlaceholdersExact`, `KeepsPromise` (implements WorldSpec) |
| `deque_batch` | owner, 1 thief, 4 jobs, capacity 8, batches of up to 2 | violates `NoDoubleTake` |
| `resource_starve` | 2 writers and 2 readers of one resource | violates `WaiterRuns` |
| `loop_uneven` | a loop of 1 to 6 indices in at most 3 chunks, 1 worker | violates `LastChunkWakes` |
| `wake_lost` | one blocking call, 1 worker | violates `WakeNotLost` |
| `world_ghost` | soft and hard removals in any order | violates `NoRevival` |

### Why the bounds are enough

- `deque`: three jobs over a buffer of two force one growth with jobs in it;
  with two thieves and the owner all three pairs meet on the last job. A second
  growth repeats the first with a larger buffer.
- `deque_batch`: a batch of two needs a quarter of a buffer of eight.
- `queue`: four pushes over two slots are two laps, so every slot is reused, and
  a thread can hold a position of the lap before. The proof is for any capacity.
- `park`: two workers make `wake_sibling` meet `submit`; the second job makes a
  worker park again after having been woken.
- pool: three indices and seven calls are enough for one thread to take, use and
  give back an index twice while the other is between its look and its CAS.
- wheel: with three levels of two slots a delay of 18 is beyond the last level,
  and a stride of 10 jumps over whole slots of every level but that.
- counter: two completers make the last unit's owner uncertain; the third waiter
  is one that joins while two others drain.
- node: the third epoch is needed for a ticket two activations old; with one slot
  two tickets of the node cannot wait side by side, and other tasks can fill the queues
  at any route. Programs pair the calls that change the same
  field: activate, cancel and wake from both clients, or queue, deactivate,
  disable and enable from one. `TicketEpochs` is larger than `MaxEpoch`: within
  it the code is checked as if tickets had room; see the divergences.
- joins: three children make "the last" differ from "the one before"; `Series`
  reuses the parent's fields three times. The queues may be full in `OneAwait` and
  `Series`, and in every plan of the awaits.
- resources: *Mixed* has tasks with overlapping pairs of accesses, *Writers*
  only writers (the liveness claim), *Contended* deactivates,
  *Readers* shares and cancels. The queues may be full in the first three: a client can then activate a task again while
  the worker that could not route it has still to give its resources back. Three tasks that all want something of each other
  let one stand between two in a chain, and close the circle of waits. `TasksGoOn`
  looks at one of three writers that are alike.
- awaits: three chunks stand for the code's thirty-two; up to six indices share
  them out evenly, with a shorter last chunk, and with none left for it. With room
  for two jobs the third chunk runs in place. A second await is what late word of
  the first can disturb; *InTurn* goes through all three kinds, *Late* has the
  sleep last, and in *Destroyed* the domain ends.
- dependencies: the diamond has two predecessors that end at once; in the fork and in
  the chain predecessors run twice, so that a dependent is notified again. `Wrap` is
  above the twelve ends four tasks can have, so that the count wraps below zero but
  never as far as one.
- lanes: *Bound* has one lane of one worker, *Shared* one without a ready bit,
  *Mixed* a worker and a pumping thread, *Pumped* two pumping threads and room
  for one job. Two jobs are the least for an order, and the least for one to come
  in while the other's pop clears the bit.
- sequential role: three tasks make a heap in which a node has two children; two
  clients that move one task store its key in one order and send the commands in
  the other; a task deactivated and activated twice has tickets of two old epochs.
  Two commands are fewer than two clients and a move can leave.
- contexts: five calls are enough for a thread to retain what has been released
  and whose slot has been taken since; six let it go on.
- memory: an alignment of two stands for the code's sixteen, which is also the size
  of a header and the number of second-level classes. A chunk has room for two or
  three blocks, so that each can have a neighbour on both sides; blocks of up to
  four units go through a cache that is trimmed at two; one chunk of each size fits
  the stock. The plans ask for blocks, resize, align, and change the capacity.
- objects: four slots are two words of the bitmaps, so that an insertion carries a
  bit over and a search for a hole goes from word to word; the first growth comes
  with elements and holes in place. One element besides the default value tells a
  slot filled by the pool from one filled by a call.
- `manager`: *Server* has jobs that resume coroutines, *Linux* a park without
  timeout, *Again* stops and starts, *Embedded* has no workers, *Early* submits
  before the start. A mailbox of one job is full with two submitters at once.
- `world`: three entities are the least for a slot to be moved between two
  others; the second version makes one reuse per index; two cache lines let
  indices 1 and 3 collide. *Lives* creates and deletes, *Moves* moves slots in
  every way, *Walks* and *Culls* remove within a callback. *Groups*, *Joins* open
  an observer of each kind, *Defers* and *Strips* record.

### Fairness

Weak fairness only, of a thread's own steps, never of a client's decision to
call.

- deque: the owner's steps and each thief's steal attempts, because `run_loop`
  never leaves a call of the deque unfinished and steals again in every round.
- park: a thread that is waking goes on waking, what it stored becomes visible, a
  worker goes on in its loop (one condition per thread for all of these), and stop goes on once it has closed the gate. With `TimedPark` the timeout is one
  of the worker's steps.
- counter: a thread in `complete_one` or in `await_suspend` goes on; a waiter awaits.
- node, resources: a call that has begun goes on; a worker takes tickets; the
  event a body waits for is signalled. Whether the queues have room is nobody's promise: a
  route and its refusal are two ways of the same step.
- awaits: the workers, the domain's thread and the watchdog go on, and time passes.
  The conditions of the four ways of `tasks` share five formulas: a behaviour takes
  one way, and each of its actors has one of them to itself.
- join, dependencies: parent, children and workers go on; in the latter the client activates
  what it will activate.
- lanes: a submission that has begun goes on, and each draining thread goes on
  with its round and begins the next. A manager without workers is pumped for
  ever only because its owner does so; `TurnComes` says what pumping is for.
- sequential role: a call that has begun goes on, and the role is pumped. A task
  with a large key can starve behind others that are activated again and again;
  the habits activate each task a bounded number of times.
- `manager`: workers, calls and the owner's stop go on; no one must submit.

Workers are threads of the operating system, and no step of theirs waits for a
lock that another holds for ever; that is all this needs. `waiting`, `park`, `tasks`
and `manager` allow deadlock: their work is finite and ends.
The other runs check that there is none.

### Conditions in the properties

A few properties leave out an interaction in which the code does not keep them;
the condition names it: `BodyExclusive` leaves out `deactivate`, and `disable` with `enable`
(`TakesBack`), `ReadyIsRouted` (in `TicketExact`) `deactivate`, `DrainSeesRest` (in
`OutcomesAddUp`) queued and taken-back activations and those that a refused wake or rearm has ended (`lost`), `FaultsAreReal` (likewise) re-enabling and `deactivate`,
`JoinAwaitsChild` and `CountIsExact` an await after a `when_any` (`NoStragglers`) and one that
registers with a child that may be under way (`Apart`), `JoinAwaitsChild` also a `when_all` on several workers, `RunsAfterAll` and `DependentRuns` a predecessor that runs again, `HeldByActive` (in `LocksAgree`) deactivation, `ReadyIsArmed` (in `KeysInOrder`) and the second half of `TurnComes` likewise, and `KeysAgree` a refused reorder.
`TasksGoOn` leaves out activations that are taken back, a join whose child can end
while the parent suspends itself, readers, external waits, a task that is dormant because
the queues refused its wake, and a `parallel_for` on
several workers or with a chunk that has no index; `AwaitExact` says that nothing
returns early only of plans in which no call and no `parallel_for` is followed by another await
(`NobodyLate`). The plans of `world` keep to a discipline
(`disciplined`): having removed softly, an application compacts before it
removes hard, deletes or sorts, and swaps no slot with a tombstone of the same
entity. `WalkVisitsAll` leaves out walks whose callback removed another entity than the
one it was called for (`strayed`). Each condition has its entry below; removing it makes TLC show the trace.

## What is proved

### The bounded queue

`MpmcQueue_proof` proves, for any sets of producers, consumers and values, any `MaxPushes` and any capacity of at least two
(`QueueAssumption`; the constructor asserts the capacity to be a power of two,
which the proofs do not need):

| theorem | says |
|---|---|
| `TypeCorrect` | types, and one history entry per claimed position |
| `InductiveInvariant` | `Spec => []IInv` |
| `NeverOverfull` | `head_ <= tail_ <= head_ + capacity` |
| `DataRaceFree` | no two threads are at the plain value of one slot |
| `FirstInFirstOut` | the pop of a position gets what the push of it stored, and a position is popped by one thread |
| `EmptyReportsAreHonest` | "empty" is answered only when nothing published is at the head |
| `FullReportsAreHonest` | "full" is answered only when the slot has not been given back |

The properties say nothing by themselves about how a slot's sequence number,
`head_`, `tail_` and the threads' positions hang together, so `IInv` adds it:

- `WriterInv`, `ReaderInv`: a thread between claim and publication owns its
  position alone, the position is within the window, and the sequence of its
  slot still has the value it was claimed at;
- `FilledInv`: a position of the window that no writer holds is published, with
  the value its push stored;
- `FreeInv`: a position of the next lap that no reader holds is free;
- `CasInv`: a thread before its CAS has a position not beyond `tail_` (`head_`),
  and if it is still the current one, its slot is as the thread saw it.

Ten of the sixteen actions change only what one thread has looked at;
`LookKeepsIInv` and `LookingActions` dispose of them at once. The other six (claim,
write and publish of a push, claim, read and release of a pop) have a lemma each.
All rest on facts about a ring, proved first: a position's slot, the same slot one lap on
(`SameSlotNextLap`), and that no two positions of one window share a slot
(`OneSlotPerLap`). The two honesty theorems are action properties and use `IInv`
before the step.

### Indices, tokens and contexts

The rest of `MpmcQueue_proof` is about three of the structures that share the queue's
run, for any finite set of threads (`Producers` in `MCMpmcQueue`) and any constants
within `MCAssumption`:

| theorem | says |
|---|---|
| `IndexesHandedOutOnce` | `MCSpec => []HandedOutOnce`: no index of the pool is in two hands, and the list from the first free one on ends and has every index that nobody holds or is giving back |
| `ReferencesAreExact` | `MCSpec => []ReferencesExact`: a context stays in its slot under its generation as long as somebody refers to it, a slot counts its references, and is in use when there are any; as many tokens are out as are counted, never more than the limit with *refuse* |

A behaviour keeps its way, so it is one of `IndexPool`, of `Admission`, of
`ContextTable`, or has nothing to do with them (`PoolWay`, `AdmissionWay`,
`ContextsWay`). Each has an inductive invariant.

`PoolInv`: that nobody has the same index says nothing of the list, and the list as
the code follows it (`next` from `first`) nothing of what a thread between its reads
and its CAS believes. It adds

- `ListOK`: there is a sequence without repetition of all that is in no hand
  (`Unheld`), which the links follow to the end;
- `TagsOK`, `ReadOK`: a value of `head_` seen with the present generation is the
  present one, and then what was read behind the first index is still behind it: taking and giving
  both advance the generation. `Take` therefore leaves the rest of the list, and `Give`
  puts before it what it has linked to it;
- `HandsOK`: an index that is being given back is in nobody's hand and given back by one
  thread, and `live` has what is held but not yet marked taken out;
- `CountOK`: `count_` is exact but for those who have still to count.

That the walk over the list reaches its end within `Size` steps is the
pigeonhole principle (`PoolSafe`). Generations are natural numbers here, of the pool and
of contexts; the code's have 32 bits, so the theorems are about threads that are not
overtaken that often within one call.

`TokenInv`: `TicketsOK` says that an activation's ticket is in one hand or routed,
and that those from `try_admit` to `on_complete` have a token; `SumsOK` that the two
counts are those of the tokens and of the threads between the two additions;
`LimitOK` that a thread before its CAS has seen a number below the limit. Where
nothing was ever deactivated, `SingleOK` gives each task one ticket at a time, of its
present epoch, and the state that goes with where the ticket is.

`ContextInv`: references are exact only while the generation of a slot stays, and
that it stays depends on the references. `HoldingOK` says that a reference is
of the context its slot has, and that a task or a thread answers for it
(`Accounted`); `HasOK`, `RetainOK` and `DropOK` the other way round, that who has a context
has its reference or the context is `Stale`, its slot having gone on to a later
generation; `BusyOK` that who takes or frees a slot is alone with it, while nobody
refers to it; `RefsOK` that the count is that of the references and of those
taken by mistake (`strays`). A `retain` that has looked before the slot was
reused raises the count of the next context: it is counted there, and keeps the slot from
being freed, which is why a reference is never left without its context. A
release only lowers what its own reference has raised (`Lower`), because with the
reference in place the generation it has checked cannot change.

`PoolAssumption`, `ContextAssumption` and `AdmissionAssumption` say that there is a slot and a limit,
that the threads are finitely many (the counts are sizes of sets of them), and that "no context"
is none: the code's `invalid_context` has an index no slot has.

### The work deque

`WorkDeque_proof` proves, for any number of thieves and jobs, any first
capacity of at least two and any number of growths (`DequeAssumption`):

| theorem | says |
|---|---|
| `InductiveInvariant` | `Spec => []IInv` |
| `EveryJobOnce` | `Spec => []ExactlyOnce`: a job is never given out twice, and one that is not in the window and not with its caller has been given out |
| `Refinement` | `Spec => Linearizable`: every step is a push at the back, a take at one end, or nothing, of `DequeSpec` |

Each has the hypothesis `MaxCount = 1`. `steal_batch` of the manager's
configuration (`manager.hpp:65`) is what a thief asks for, and one is a value it
may have; for a larger one the theorems are false (`deque_batch` finds the
counterexample), because `pop` takes without a CAS what a batch has copied.

`ExactlyOnce` is not inductive: a thief may sit on a copy from a buffer that has
since been replaced, with a CAS still to come. `IInv` adds

- `OwnerOK`: one slot of the buffer stays free; between `grow`'s copy and the
  publication the new buffer agrees with the old one on the window; at the CAS of
  `pop` the owner's `top` is the last position, and what it read is there if
  nobody has taken it; at the restore `top` is one past `bottom`;
- `JobsOK`: the jobs in the window are distinct, pushed and not taken, and every
  other pushed job has been taken once;
- `ThiefOK(t)`: what a thief has seen of `top_` is not ahead of it; if it is the
  current one, the window is not empty, and the copy is the job at the top,
  *whichever buffer it was copied from*: the CAS on `top_` validates the copy.

`StepKind` says what any step does to the window (`Keeps`, `Appends`,
`TakesLast`, `TakesFirst`): each action has a lemma that puts it in one of
these, `JobsOK` and the refinement follow from the kind alone.

### Parking

`WorkerPark_proof` proves, for any number of workers, submitters and jobs:

| theorem | says |
|---|---|
| `InductiveInvariant` | `Spec => []IInv` |
| `TypeCorrect` | types; jobs submitted are those executed and those in mailboxes |
| `NobodySleepsThroughUnpark` | a worker asleep on a word that has moved on has a waker at `unpark_other`'s look at `parks_` or at the futex call, or the word moved after its writer had looked |

`IInv` adds that `parks_` is one exactly between the increment and the
decrement of `park_once` (`ParksOK`), that nobody is asleep elsewhere, that a
waker has a target and that the stop wakes only after `shutdown_` (`WakeOK`).
The order the theorem rests on: `unpark_other` stores the word and looks at
`parks_` afterwards, `park_once` counts itself and looks at the word afterwards.
The code does not keep the first order, so the theorem allows for the store that
is visible too late, and says that this is the only way to sleep on. That the sleeping worker really is woken is liveness (`SubmittedRuns`,
`StopJoins`) and stays with TLC.

### Waiting for a counter

`WaitPoint_proof` proves, for any number of waiters, of threads that complete and
of units (`WaitAssumption`):

| theorem | says |
|---|---|
| `InductiveInvariant` | `Spec => []IInv` |
| `NobodyWokenTwice` | `Spec => []WokenOnceAtZero`: a coroutine goes on at most once and not before the counter is zero, and no node is in two hands |
| `NobodyWokenTwiceHere` | the same for `MCSpec`, which `waiting` checks |

Three may let one coroutine go on (itself, by not suspending or by taking its
suspension back, and a waker), and any number may hold pieces of what was the list.
`IInv` adds

- `Apart`: the list and all that is drained of it have no node in common and none
  twice; `NodeOK`: a node not pushed yet is on none and not signalled;
- `ThreadOK`: whoever has drained nodes has seen the counter at zero, and one in the
  middle of a wake has marked the first of them, so that two are never waking the
  same (`HeadsDiffer`);
- `WaiterOK`: by where a coroutine is, whether it has gone on. Once a waker has
  resumed it while it is still between `suspended_` and its look at
  `pending_resume_`, the node is marked and nobody is waking it: no word can come
  any more that would let it go on a second time.

That it goes on at all is not true (see below), that its node is not left on the
list is liveness (`NobodyLeftOnList`).

### Dependencies and lanes

`WaitPoint_proof` goes on with two of the other ways `MCWaiting` composes. `DepsWay`
and `LaneWay` show that a behaviour of the composition is one of `TaskDeps`, or of
`Lane`, or has nothing to do with it; each has an inductive invariant.

| theorem | says |
|---|---|
| `DependentsStartInOrder` | `MCSpec => []DependentInOrder`: for any graph, any calls of the client and any number of workers, a task is ready only when all it runs after have completed, unless one of several has run again, and is made ready once for the client's calls and once for its predecessors |
| `LanesKeepOrder` | `MCSpec => []LaneInOrder`: for any lanes, jobs, workers and threads that pump, a job of a bound lane starts when all that entered the lane before it have ended, and a shared lane gives its jobs out in their order |

`DepInv`: what the property says of ends (`done`) the code never looks at; it has a
count. The invariant connects them by what has been *counted* (`Counted`): the
ends of the predecessors, each as often as it came, less the notifications that
workers still have to make (`Owing`). An end adds as many of the one as of the other,
and a decrement takes one of the latter away. `CountOK` says what `pending_deps_`
then is: as long as fewer ends are counted than there are predecessors, what is
missing; from then on zero, or below zero and wrapped round. The second half is
why `Wrap` must exceed the ends there can be: between a `fetch_sub` that finds zero
and the store that puts it back, others may take one off each, and if they took
the count all the way round to one, a second worker would activate the dependent. The
code's counter has 32 bits; `DepsAssumption` asks that it can count more than
`runs + 1` ends of each task. `PlaceOK` says that whoever is past the refusal of an early activation has
seen enough counted; `FireOK` that only one worker ever finds the one that it makes zero,
so that being made ready is paid for, by a call of the client or by that worker.
That all ends counted are of *different* predecessors unless one ran twice is the
pigeonhole principle (`DepsFollow`); it is where `Repeated` comes in.

`LaneInv`: `LaneQueueOK` says that the queue is the rest of the lane's history, so
that what has left it (`Gone`) are the first to have entered; `CrewOK` and `ApartOK` that
a job is in one hand from the pop to its end, and that a thread draining a bound lane is the one
the lane is bound to, or, if several pump, owns it, so that no two drain one; `BoundOK`
that all but the last of the jobs that have left a bound lane have ended, which
is false for a shared lane. A worker that looks for work may see any
bits: the order does not rest on them, only that a job is run does (`TurnComes`, with
TLC). `LaneAssumption` says what a plan is, and that "nobody" and the shared
owner id of the threads that pump are no worker's.

### Resources

`MCTasks_proof` proves first of `TaskResources` (which `MCTasks` extends), for any finite sets of tasks, any resources, any
declarations (each resource once, as `add_access_impl` sees to,
`task_graph_define_impl.hpp:825-842`), any clients and workers and any number of
activations:

| theorem | says |
|---|---|
| `InductiveInvariant` | `Spec => []IInv` |
| `NobodyWritesWhatAnotherUses` | `Spec => [](Kept => AccessExclusive)`: no body writes what another body reads or writes at that time |
| `RecordsAreExact` | `Spec => [](Kept => LocksAgree)`: chains hold those that know they are in them, `waiting_writers_` counts the writers in them, whoever is recorded as the writer holds the resource or is being relieved of it, and only tasks that are under way hold any, or such as a thread gives back next |
| `RestIsSeen` | `Spec => []DrainSeesRest`: at rest every activation has been completed or has been ended by a refused wake (`lost`), where tasks are only activated: activations are completions, `lost` and the tasks ready, running or waiting whose activation has been counted (`CountsAgree`, an equation), since each of the others is with nobody |

`Kept` is: no client calls `deactivate`; `cancel` is allowed. With `deactivate` a
task may be routed without its resources (`AcquireLost`, its ticket is stale) and
keep resources after it has left, and `Facts`, what `IInv` says where `Kept`
holds, is not true of it; TLC checks the two properties with `deactivate`, in the plan `Contended` of the run `tasks`.

`AccessExclusive` says nothing of the time a release takes, and `LocksAgree`
nothing of readers. `Facts` adds

- `OwnerOK(t)`: a task that is activated is in exactly one place, a client's call,
  a queue, one chain, the hands of one thread that wakes it or of one that works for it
  (`Only`), and its state is the one that goes with the place;
- `TicketsOK`: no ticket is stale, so every one that is taken is run;
- `HeldOK`: who holds resources was granted them and has not ended, or was refused by the
  queues and a thread gives them back next (`Giving`);
- `FrameOK(p)`: the calls of `release_all` a thread is in, nested when a woken task was
  refused, have each access left once. Without `deactivate`, `WakeLate` never happens
  (`NeverLost`, `NeverStale` say the same of `AcquireLost` and `DropTicket`);
- `LocksOK`: the `Shares` in a resource are those of tasks that were granted it, of threads
  that give it back next and of calls that have still to do so. A recorded writer has the
  only share; without one nobody has a share to write; and `readers_` is at least the
  number of shares to read.

It is "at least" because of a window the code has (`:456-461`): between the store of
dormant and `release_all` a client may activate the task again. If it only reads, it gets
its resources a second time; whichever release comes first takes the flag and gives
back one of the two counts, and the other stays. No reader is ever missing, which is
what exclusion needs, but one may be counted that reads no more (see below). A share
is therefore told apart by who gives it back (`Tokens`), not by its task alone.

`Taking` is the step that matters: `acquire_all` finds no conflict, so of each
resource declared nobody has a share to write, and nobody one to read of those it writes;
`LocksOK` then holds of all of them at once, because each is declared once.
`Unlinking` and `Prepended` say what the two operations on a chain leave of its
order. That a waiting task gets its resources is liveness (`TasksGoOn`,
`WaiterRuns`) and stays with TLC.

### The manager

`Manager_proof` proves, for any finite sets of jobs, resumptions, submitters and
workers, any plan, and any capacities (`ManagerAssumption`, of which only
`Half > Cardinality(Submitters)` is more than a type: the gate's word counts
those inside below its closing bit, `manager.hpp:110-117`):

| theorem | says |
|---|---|
| `InductiveInvariant` | `Spec => []IInv` |
| `EveryJobAccounted` | `Spec => []JobsAccounted`: a pending job is in exactly one queue or run by one worker, any other job is nowhere, and the two counters are exact but for submissions that have not counted yet |
| `StopLeavesNothing` | `Spec => []StopSettles`: a stop that has waited for everybody leaves no job pending |

Neither property is inductive: that a job is in one place now does not say that
the submitter about to route it is alone in holding it, and that nothing is
pending in the end depends on all that the stop did before. `IInv` adds

- `PlaceOK(j)`: the one place a pending job is in, queue by queue; `MyOK`: a
  submitter between its call and the routing has a job nobody else has and
  nobody has decided about; `WorkersOK`: a worker has a job exactly while it
  runs, and who is not in the plan has nothing;
- `CountsOK`: `completed_` counts the jobs done, `submitted_` and the submitters
  between routing and counting together count the jobs taken on;
- `GateOK`: unless a start has opened the gate over a submission, its word
  is the number inside, plus the closing bit once a stop has closed it. So a
  stop that reads zero there knows that nobody is inside;
- `StopOK`: what phase, mode and the queues still to discard are at each step
  of a stop, and that no worker runs where it has joined them or never started;
- `SettleOK`: what a stop that has given nothing up has achieved at each step.
  Before the snapshot nobody is inside the gate; `drain` compares with what was
  submitted; after `drain` as many jobs are done as were taken on, hence
  (`DrainedRuns`) all of them, unless a resumption was counted among them; in a
  discard, the queues gone through stay empty.

Every action has a lemma. What workers do is alike for all that submitters and
the stop rely on (`WorkerKeeps`: a job only advances), and so are the
submitters' looks and the owner's steps that leave the jobs alone
(`LookingStep`, `OwnerKeeps`). The two conditions of `StopSettles` are the two
ways the code really leaves jobs behind (see below): the theorem says that
there is no third.

### The life of a node

`TaskNode_proof` proves, for any finite sets of clients and workers, any calls of
theirs, any ways a body may end, any number of slots but none, other tasks that fill the
queues whenever they like, any number of epochs a ticket can tell apart and any bounds (`NodeAssumption`):

| theorem | says |
|---|---|
| `InductiveInvariant` | `Spec => []IInv` |
| `TypeCorrect` | `Spec => []TypeOK`: the queues hold no more tickets than they have slots |
| `BodyIsExclusive` | `Spec => []BodyExclusive`: two workers are never in the body of the node |
| `TicketsAreExact` | `Spec => [](epoch < TicketEpochs => TicketExact)`: the ticket of an epoch is in one place, and a ready node has the ticket of its epoch queued, in a worker's hands or on its way |
| `OutcomesAlwaysAddUp` | `Spec => []OutcomesAddUp`: at rest every activation has been completed, or was ended by a refused wake or rearm (`lost`), and no fault is reported that no body had |

`MCTasks_proof` carries them over to what the run `tasks` checks, for any constants:
`MCSpec => []BodyExclusive` (`BodiesExclude`), `TicketExact` as long as tickets can
tell epochs apart (`TicketsExact`), and `OutcomesAddUp` with what it says of resources
(`OutcomesCounted`, which needs `RestIsSeen`). A behaviour never changes its way, and
what is not its way's it leaves as it is, so it is one of `TaskNode`, or `way` is never
`"node"` (`NodeWay`), and always one of `TaskResources` (`ResourcesWay`).

The conditions the properties carry (see *Conditions in the properties*) are the
calls with which the code does not keep them; trying to prove `BodyExclusive` with
`deactivate` is what showed that it needs seven epochs to fail. `IInv` adds

- `EpochsOK`: nobody carries an epoch that has not been given out, and, as long as
  a ticket can tell epochs apart, no two tickets or threads have the same;
- `RoutedOK`: who never calls `deactivate` is not in the middle of it, and what is
  ready is on its way;
- `HeldOK`, where the node is not taken back: one thread at most has the node,
  from the swap to ready until it has routed it, or from its ticket to its finish,
  and then there is no ticket; the state is the one that goes with the place, or
  disabled. This is why `RouteFull`, `ClaimLost` and `RearmFailed` do not store over
  what somebody else has made of the node;
- `WhyOK`: what each thread routes for, which decides whether it counts;
- `CountsOK`: activations counted, or about to be, exceed completions and `lost` by one at
  most, and only while one has begun (`Begun`: routed, or routed again, and not ended);
- `FaultsOK`: a reported fault was preceded by a failure, is the only one, and
  leaves the node with nobody.

The thirty-seven actions are first sorted by what they do to the node (`StepKind`):
most leave it alone (`Aside`), take it up to route it (`TakesUp`), go on with it
(`GoesOn`) or let go of it (`LetsGo`), and `EpochsStep`, `RoutedStep` and `HeldStep`
have one case for each of these and one for each of the eight others. `WhyStep`, `CountedStep` and
`FaultsRealStep` go through the actions one by one; the counts change in one of three ways
(`Counted`).

### Joins

The next part of `MCTasks_proof` is about `TaskJoin`, for any children, any wrap of the
count beyond what they need, and any loads (`JoinAssumption`: what is awaited, how often, on how many workers):

| theorem | says |
|---|---|
| `JoinsAwaitChildren` | `MCSpec => []JoinAwaitsChild`: a suspended parent goes on only when all it awaits have ended, or, after `when_any`, one |
| `CountsExact` | `MCSpec => []CountIsExact`: the count of a parked parent is the number of children still to report, and never stays below zero |

The proof is what showed that both need `Apart`: with a second worker, a child that was
activated before, by others or for an earlier await, may be between its last store
of `completed` and its notification when the parent registers with it. The
notification then answers for the run before, and the parent goes on at once; and if the
child has failed, the await is refused and takes back a count that the child has taken off
as well. `Apart` has two sides, and `JoinInv` says of each why it is enough: on one worker a
child runs or ends only while the parent is parked, and alone (`AloneOK`); of one await whose
children are dormant, whoever ends was prepared by it, and a wake that comes late finds a parent that
will not suspend itself again (`OnceOK`). Either way

- `EndsOK`, `MineOK`: whoever ends does so for this await, and knows no parent any more when it
  takes itself off the count;
- `Owed`: what is awaited and has not ended still knows the parent, so it is `Counted`;
- `ExactOK`: until a `when_any` has stored zero over it, the count is that of `Counted`, so a child that
  sees it fall from one, or a suspension that finds it zero, knows that all have ended;
- `BoundedOK`: afterwards it is at most that, or somebody is about to store zero (`NeverNegative`);
- `DoneOK`: what the parent waits for has happened once it is ready, and already when somebody is
  at its wake or has seen that it was the last.

### Other awaits

The last part of `MCTasks_proof` is about `TaskAwaits`, for any workers, any number of chunks,
any room for jobs and calls, and any plans: any number of sleeps, and one `parallel_for`, of any
number of indices, or one blocking call at the end (`NobodyLate`; TLC shows what goes wrong in
other plans, and the theorem has the condition in its statement).

| theorem | says |
|---|---|
| `AwaitsAreExact` | `MCSpec => []((way = "awaits" => A!NobodyLate) => AwaitExact)`: a loop calls its body once for each index, and an await returns only when what it awaits has happened |

`AwaitInv` distinguishes what the body has begun last:

- `SleepOK`: while it sleeps there are no chunks and no calls, so nobody but the watchdog can be at a
  wake. The watchdog gets that far only when the record of the wait is parked, and between its looking
  at the record and its wake the task stays as it is: the worker that suspended it has stored
  `waiting` before it marks the record (`Parked`), and nobody else makes it ready;
- `CallOK`: whoever brings a word for the task (`Word`: a note, the state ready, a thread that wakes
  or re-arms it) does so when the call has ended;
- `LoopOK`: a word comes when the count is zero. The count is the number of chunks `Outstanding`:
  not handed out, queued, under way or run and not yet taken off (`ChunksOK`); an index has been
  done if the chunk it belongs to has been run (`RanOK`). That each index belongs to a chunk
  (`Covered`) and to one only (`Disjoint`) is arithmetic about the width of chunks, which is rounded
  up, and holds for the lengths at which the last chunks are empty as well;
- `HolderOK`: one worker has the body, which is running then, and one thread at most is
  between waking the task and routing it.

Only actions that touch the loop need more than the definitions: `LaunchJob` and `TakeJob`
hand a chunk on (`HandedOn`), `LaunchHere` and `RunChunk` run one (`CallsOnce`), `Complete`
takes one off. At zero all have been run (`AllRan`).

### The entity component system

`Ecs_proof` proves of `EcsSpec`, the application with its two component types,
one walk, one observer and one command buffer, for any numbers of indices,
versions, values, cache lines, pending removals, commands, placeholders and
buffers, and any plans (`PlansAssumption` only says what a plan is):

| theorem | says |
|---|---|
| `InductiveInvariant` | `EcsSpec => []IInv` |
| `RecordsAlwaysAgree` | `EcsSpec => [](plan.disciplined => RecordsAgree)`: mask, cache, sparse entries, slots and the list of free slots are five records of one fact, after every call, callback and flushed command |
| `WalksVisitAll` | `EcsSpec => [](plan.disciplined => WalkVisitsAll)`: a walk that has not strayed has visited whoever kept the component exactly once, whatever its callback called |
| `ViewsExact` | `EcsSpec => [](plan.disciplined => ViewExact)`: what an observer hands out without looking again is exact |
| `PlaceholdersAlwaysExact` | `EcsSpec => []PlaceholdersExact`, disciplined or not |
| `NobodyRevives` | where every plan is disciplined, `EcsSpec => NoRevival` |
| `ImplementsPromise` | where every plan is disciplined, `EcsSpec => KeepsPromise`: every step is one of `WorldSpec` or a stutter |

`disciplined` is what the runs assume too (see *The runs*). Without it
`RecordsAgree`, `ViewExact`, `NoRevival` and `KeepsPromise` are false: `world_ghost`
shows it of `NoRevival`, and the others are under *Where code and promise differ*. `IInv` says of every application, disciplined or not,

- `EntityOK`: an index that has been given out is alive, waiting in `recycled`,
  reserved with its current version, or used up, and never two of these;
- `BornOK`, `CommandsOK`: a placeholder of the buffer's present id resolves to what
  was created for it, none is of a later id, and a recorded creation is of
  the present one, so that a flush only resolves what was recorded since `clear`;
- `SecondOK`, `ShapeOK`: the second type has no entity twice and none that is dead;

and, where it is disciplined (`Facts`, `ViewOK`),

- `StoreOK`: an entry leads to a slot that names its entity and version, a slot no
  entry leads to is a registered tombstone, and `live` counts the entries;
- `MaskOK`: the mask is the set of those with an entry, alive and of this version;
- `HotOK`: a cache line caches one of its own that has the component, and where;
- `WalkOK`: as long as the walk has not strayed, whom it owes a visit is ahead of its
  index and whom it has seen behind (`Ahead`, `Behind`), the one in the callback is
  at the index unless its slot was filled anew, and then the newcomer is ahead;
- `ViewOK`: while the versions agree, the rows are those of the entities with both
  components (`Shown`).

`RecordsAgree` is not inductive: it says nothing of who a slot without an entry
belonged to, so a reused slot could be somebody else's, and nothing of the walk and
the rows, which hold slots that a call may move.

Every call has a lemma (`...Keeps`) that says what it does to the entries, in
one of three forms: entities keep their component while slots move (`Moved`), one is
given it (`GivenTo`) or loses it (`TakenFrom`). Cache, mask, walk and the
effect on `WorldSpec` follow from the form (`HotStays`, `WalkSoft`, `WalkHard`,
`WalkMoves`, `Effect`), whether the application makes the call or a flush does.
`compact`, `sort` and an owning group work slot by slot: `Squeezed`, `Followed`, `PackedFirst` and
`PackedSecond` are functions of the number of slots handled, and what they
preserve is shown from one number to the next (`SqueezedKeeps`, `FollowedKeeps`,
`PackedFirstKeeps`), for a predicate written out each time, since `Climb`
climbs a set of numbers and not an operator. The rows of an observer stay as
they are in steps that leave entries and the second type alone or that move the version on.

### What stays with TLC

Liveness and everything that needs `ENABLED`: TLAPS cannot prove liveness under
fairness. Of the safety properties, those of the other modules are model-checked
only: `Sequencer` (`KeysInOrder`), `TimingWheel` (`NobodyOverdue`), `MemoryPool` and
`ClassPool` (`MemoryExact`). What the operators the models are built from compute by
recursion is proved only where a lemma says what a step of it preserves; that the heap of
`Sequencer` has its least key at the front is induction over the recursive functions
`SiftUp` and `SiftDown`, and out of reach.

## Where code and promise differ

Five have a run and an entry under `findings` in `PROJECT.json`:

- `work_deque.hpp:340`: `steal` claims up to a quarter of the buffer with one
  CAS on `top_`, while `pop` takes without a CAS as long as `top_ < bottom_`. An
  owner that pops into the range between the thief's copy and its CAS returns a
  job the thief also returns (`deque_batch`).
- `task_graph_runtime_impl.hpp:438`: the head of a resource's chain is tried and,
  when it is refused, put back, and nobody behind it is tried; a reader at the
  head is refused because a writer waits behind it (`resource_starve`).
- `task_flow.hpp:487`: `parallel_for` counts min(n, 32) chunks, each of them of
  ceil(n / chunks) indices, and leaves off at a chunk that would begin behind the
  end without counting it off: with 33 to 62 indices, or 100, the task waits for
  ever (`loop_uneven`).
- `task_graph_runtime_impl.hpp:585`: a wake that finds the task running stores a
  note; the suspension may have looked for one by then, and the task sleeps with
  the note set (`wake_lost`).
- `single_class_set.hpp:2776`: `hard_remove` rewrites the sparse entry of the
  slot it moves unless that entry is empty; a tombstone of an entity that has the
  component again elsewhere has an entry that is not (`world_ghost`).

The others were met while modelling, and are what the conditions above leave
out. They are reproduced by removing a condition or changing a constant.

A bare line number is one of `task/detail/task_graph_runtime_impl.hpp`.

| where | what | to see it |
|---|---|---|
| `platform.hpp:174` | the futex wait gets a null timeout, so a submission that finds `is_parked` false (`manager.hpp:1401`), or a shutdown between the check and the load of the word (`worker.hpp:473`), leaves a worker asleep | `park` with `TimedPark = FALSE` |
| `platform.hpp:320` | no fence between the store of the word and the load of `parks_`: the load may see 0 while the store is not visible yet, and the worker that has registered meanwhile sleeps on a word that has moved, with nobody to wake it. Its timeout ends the sleep on Windows; on Linux the next `unpark` does | `park` without `late[w]` in `NoSleepThroughUnpark` |
| `coroutine.hpp:242` | the waker finds `suspended_` false and leaves word; the waiter has looked for word before and suspends | state in `waiting` that a continued waiter always follows |
| `:591`, `sync.hpp:183` | a note made for one await, or the wake of a chunk that the awaiting body has overtaken, comes when the task is at its next one and cuts it short: a sleep, a blocking call whose argument is still in use, or a further `parallel_for`, whose chunks are under way when the body goes on | drop `NobodyLate` in `AwaitExact`; three loops in a row on two workers |
| `:556` | the worker that suspended a task marks the record of its wait as parked after another worker has gone on with it and prepared the next wait | the steps `Parked` and `BeginSleep` of two workers |
| `task_blocking.hpp:76` | `destroy` drops the calls that are queued: their tasks wait for ever | `WakeNotLost` with *Destroyed* |
| `task_watchdog.hpp:139` | the watchdog cancels a task it has seen running, which may have completed and been activated again by then | read off |
| `:818` | `deactivate` does not count the completion of what it takes back; `:812` it keeps its resources | drop the conditions of `DrainSeesRest`, `HeldByActive` |
| `:733`, `task_graph.hpp:1033` | a queued run is counted, and forgotten when the node completes in between | drop "queue" in `DrainSeesRest` |
| `:1369` | `disable` of a running node is overwritten by its finish, and a node that is enabled again before that is activated while its body runs | drop the condition of `BodyExclusive` |
| `:1170`, `:777` | a worker compares the epoch of its ticket; one client deactivates the node and activates it again; the worker claims the new activation; the client's route finds the queues full and stores dormant over the running node, so that the next activation runs a second body beside the first | drop `deactivate` in `TakesBack`, with `MaxEpoch = 7` and one client that activates and deactivates |
| `:606`, `task_graph.hpp:1025` | the queues refuse the ticket of a task that is woken or rearmed: the task is dormant and nothing is counted as completed, so a drain that waits for the activation waits for ever. Its token is not given back, nor are its resources, and the callers ignore the answer. A parent, a sleeping task or a loop dropped so goes on only when somebody activates it again | drop `lost` in `DrainSeesRest`, `Dropped` in `TasksGoOn`; resources of a suspended body and tokens are read off |
| `:456` | the same of a task that was given its resources; it is dormant before they are given back, and an activation in between gets resources that are read a second time: one of the two counts of readers is never given back, and no writer gets the resource any more | drop `lost` in `DrainSeesRest`; at rest, `readers` above zero in *Mixed* |
| `:1405`, `:1416` | `notify_dependents` ignores that the activation of a dependent was refused: nobody activates it again | read off: `TaskDeps` has room in the queues |
| `:819` | `deactivate` swaps ready for dormant and advances the epoch afterwards: an activation in between gets an epoch that is stale at once, and the node stays ready with no ticket | drop the condition of `ReadyIsRouted`, with two clients that activate and deactivate |
| `task_graph_define_impl.hpp:951` | `enable` leaves `flag_body_failed`, so the next run is reported as failed | drop `enable` in the condition of `FaultsAreReal` |
| `task_identity.hpp:130` | a ticket has 31 bits for an epoch of 32; past 2^31 every ticket of the node is dropped | `tasks` with `TicketEpochs = 2` |
| `:537` | the last child ends between the parent's look at the count and its store of `waiting` | drop "one worker" in `Suspends` |
| `:116`, `:1369` | `finish` stores `completed` before it looks for a joining parent: a join on another worker that registers in between activates the child again, and the end of the run before lets the parent go on while it runs | drop `Apart` in `JoinAwaitsChild`, with one join of an activated child on 2 workers |
| `:125`, `:1446` | in the same place, a child that has failed takes itself off the count, and so does the await that is refused: the count stays at 2^32 - 1, and the next join of the parent returns at once | the same with `CountIsExact` |
| `:1439`, `:1451`, `:1458` | children left over from a `when_any` end during the next await; a child looks at the parent's state after its subtraction | drop `NoStragglers` |
| `:432` | a cancelled task in a chain | drop the condition of `HeldByActive` |
| `:1414` | a predecessor that runs again before its dependent has run is counted a second time | drop `Repeated` in `RunsAfterAll` |
| `:1617` | an arm is dropped when the task still has an entry in the heap, which after a deactivation is one of an old epoch: the task stays ready and nothing runs it | drop the condition of `NoneWaits` |
| `:777` | an activation that finds the commands full stores dormant over whatever another client has made of the task since | the same |
| `task_graph_define_impl.hpp:731` | a reorder that finds the commands full reports an error and leaves the key changed, while the heap keeps the old one | drop `refused` in `KeysAgree` |
| `:1049` | a command for a sequential role wakes no worker, unlike a ticket: the role waits for whoever pumps it | `Pumping` is fair |
| `task_queue.hpp:571` | a fifo role refuses to reorder, but its heap orders by key all the same | read off |
| `:1522` | a parent completed by its last child gives back neither its resources nor its admission, as `finish` does | read off |
| `task_builder.hpp:707` | of two calls of `after` the builder keeps the last | `TaskDeps` models it: `Before` takes the last only |
| `task_builder.hpp:187` | `any_predecessor_` is read and never set: `after_any` is `after` | read off |

The thread pool's manager, lanes, pools, timers, contexts and admission:

| where | what | in the model |
|---|---|---|
| `pool/manager.hpp:1188` | `drain` compares two counts; a resumed coroutine counts as completed without having been submitted, and a submission is counted after it is routed: beside concurrent submitters `drain` answers complete too early | `StopSettles` speaks of the drain of a stop, after the gate has closed, and leaves out resumptions |
| `pool/manager.hpp:960` | `start` stores zero over a submission that is still inside the gate since before the stop | `stale`; the properties leave these behaviours out |
| `pool/manager.hpp:927` | a submission that finds the queues full sleeps until room is signalled or the stop wakes everybody; between its look and its sleep it misses both, and on Linux no timeout ends the sleep | `CallsReturn` asks for a timed park |
| stop with `abort` | does not wait for submissions inside the gate: a job can be routed after the queues are discarded | `gaveUp`, which leaves these behaviours out |
| `worker.hpp:233`, `:287`, `:582` | of a batch the worker takes, what its stack has no room for is released without being run or counted | `dropped` |
| `pool/manager.hpp` | `phase_` is running from the construction: jobs are accepted before the first `start`, which in threadless mode never sets `running_` | *Early* |
| `pool/manager.hpp:215` | lanes are numbered per manager, `lane_ready_` belongs to the runtime: two managers on `default_runtime` clear each other's bits | one manager |
| `create_lane` | reads the number of lanes and appends afterwards: two threads get the same number and bit | lanes are created before |
| `lane.hpp` | a pinned lane whose worker does not exist, or one of a manager without workers, is drained by nobody | not among `LanePlans` |
| `lane.hpp` | a shared lane gives jobs out in order; two owners in turn may run them side by side | `InOrder` says so |
| `index_pool.hpp` | the number for "none" carries into the generation's lowest bit; the generation still moves with every CAS. After 2^32 CASes it repeats | `Pack`; the repetition is beyond the bound |
| `timing_wheel.hpp:239` | a callback that cancels the next timer of the slot breaks the chain: it fires all the same, is counted off twice and the rest hangs nowhere | condition of `Cancel` |
| `timer_scheduler.hpp` | compaction from within a callback can fire a one-shot timer twice | read off |
| `task_context.hpp:165` | a `retain` that has compared the generation takes its reference of the context that has got the slot since; the caller is told it succeeded, and the slot is never free again | `strays` becomes positive |
| `context_store.hpp:53` | a task given the context it already has retains it once more and releases nothing | condition of `Set` |
| `:802` | `deactivate` gives back no token, so after enough of them nothing is admitted | `withdrawn` in `TokensExact` |
| `task_admission.hpp:131` | `drop_oldest` and `coalesce` do what `reject` does, and count it differently; `max_queue_` is read by nobody | `Policies` |
| `task_admission.hpp:166` | a controller attached while tasks run is given tokens it has not given out: it counts them off those of others, or stores zero | attached from the start |
| `memory_pool.hpp:1543` | `resize_inplace` does not ask whether the pointer is an aligned one, and takes the bytes before it for a header | read off: contents are left out |
| `memory_pool.hpp:853` | a pointer from before a `reset` passes as live when its old header still stands in a chunk taken from the stock | read off |
| `memory_pool.hpp:800` | a large block released softly is not merged, so `reduce_capacity` can keep a chunk nobody uses | `Release`; no property |
| `class_pool_impl.hpp:1141`, `:1268` | erasing among holes moves the bytes of a trivially copyable T, but not the bits: the holes stay where they were | condition of `Erase` |
| `class_pool_impl.hpp:1226` | when the last slot is a hole, `erase_unordered(i)` destroys the object at i and leaves its bits set; with a softly deleted object at either place that object is never destroyed | condition of `EraseUnordered` |
| `class_pool_impl.hpp:1030` | a reduction to zero into another pool leaves `sparse_bits_` at the inline word with a capacity of zero, and the destructor frees it | not modelled |
| `class_pool_impl.hpp:1605` | `usage/content_en/modules/containers.js:635` promises the lowest hole; the search begins at the word of the hole found last | `FillTheHole` says some hole |
| `class_pool_impl.hpp:79` | `bitmap_shift_left` loses bits that cross a word; nobody calls it | read off |
| `runtime.hpp:446` | the registry of suspended coroutines also resumes those it has found removed | read off |

Of the ECS, besides `world_ghost`, with `disciplined` FALSE: `hard_remove` of an
entity whose own older tombstone is the last slot leaves an unregistered
tombstone, which `compact` makes live; `reorder_dense_by_indices` does not
register the tombstones it moves; `swap_dense_and_pool` with the same entity at
both ends gives it the wrong slot; a group or view names an entity twice when its
tombstone and its new slot both lead to a row (`Orderly`). In disciplined plans too, and
without `strayed` in `WalkVisitsAll`: when a callback removes an entity the walk has
been at before, and the last slot moves into that place, the moved entity is noted for a
re-visit, as `single_class_set.hpp:2579` and `:2586` say; `operator++`
(`:2698`) then takes the note to be about the slot under the walk and drops it, so
the present entity is visited twice and the moved one never. The comment at
`single_view.hpp:294` allows a callback to remove the current entity and no other. Read off and not
modelled: `multi_view::size` stays as it was when the leading set becomes empty;
a set that did not exist when a group or view was made keeps it empty for ever;
`filter_changed` and `filter_added` remember observations by slot, which move;
the documentation says an owning group orders the set of its first type, the
code takes the smallest; a moved-from command buffer keeps its id; of nested
iterators only the innermost is told of removals; a recorded removal is a soft
one, so a deletion later in the same flush meets tombstones.

## What is left out

`PROJECT.json` lists every component with its status. Left out for good: codecs,
UTF-8, reflection tables, type erasure, hashes and macros (data
without control); operating-system calls (naming, pinning, NUMA, files);
messages and tracing (reporting). Within the modelled components:

- memory orders weaker than sequential consistency, but for the store of the wake word in `WorkerPark`;
- allocation failure; destruction of pool, graph and world;
- `mpmc_ring` is not modelled apart from `mpmc_queue`: the same algorithm;
- registration, reparenting and removal of nodes, delays and periods;
- in `complete`, a delta other than one (its store of zero wipes out an `add`
  that comes between, `sync.hpp:165`); `fence`;
- race and timeouts of `task_flow`, waits for a frame and changes of role; checks for
  cancellation in the awaits; more than one thread of the blocking domain; deadlines,
  heartbeats and hung tasks of the watchdog;
- disabled resources; what resources a body has while it is suspended;
- of the manager: the frame clock, metrics, the coupling to the task graph;
- `priority_stack` and its aging, `dispatch_index`, periodic timers;
- more than two component types at once, change tracking, callbacks other than
  those of a walk, archives, layers and tags;
- of the memory pool: what is in the blocks, statistics, `swap`, pointers whose
  header has been overwritten or comes from before a `reset`;
- of the class pools: copies, moves and `swap`, the reduction into another pool,
  walks, alignment and the inline bitmap;
- the wrap of 32-bit versions, generations and epochs.

## The plan

What would come next, composing with what is there:

1. **TaskScope**, **TaskTree**: automatic start of children, scopes.
2. **Watchdog**: deadlines, heartbeats, what it does to a task that is hung.
3. **Archive** over `World`: the renaming of entities on restore.
4. **Sync**: `fence`, `complete` with a delta.

Proofs: `TimingWheel` (`NobodyOverdue`), `MemoryPool` and `ClassPool` (`MemoryExact`).
