----------------------------- MODULE TaskAwaits -----------------------------
(***************************************************************************)
(* What the body of a task awaits besides other tasks: parallel_for and    *)
(* sleep_for of task/task_flow.hpp and blocking_call of task_blocking.hpp, *)
(* with the record of the wait (waits_ in task_graph_runtime_impl.hpp),    *)
(* the thread of the blocking domain and the watchdog's wake_timed.        *)
(*                                                                         *)
(* A chunk of a parallel_for that ends takes one off a counter; the last   *)
(* one wakes the task.  A blocking call wakes it from a thread of its own, *)
(* and a sleeping task is found by the watchdog.  All of them come through *)
(* wake_waiting_index, while the worker of the task is still suspending it *)
(* or another one has gone on with it.  A ready task has one ticket; what  *)
(* TaskNode shows of tickets is a step here.  The queues may be full of    *)
(* other tasks: then a task that is woken or put back at once is dormant.  *)
(***************************************************************************)
EXTENDS Integers, Sequences, FiniteSets

CONSTANTS
  Workers,    (* run the task and the jobs of its chunks                   *)
  Blocker,    (* the thread of the blocking domain                         *)
  Watchdog,   (* the thread that scans                                     *)
  Plans,      (* what the body awaits, one after the other                 *)
  MaxChunks,  (* parallel_for_max_chunks                                   *)
  JobRoom,    (* jobs that may be queued                                   *)
  OpRoom      (* calls that may be queued in the blocking domain           *)

(* The body's awaits; how many indices a parallel_for may have; the workers *)
(* that run; whether the blocking domain is destroyed; may the queues of   *)
(* the workers be full.                                                    *)
Plan == [awaits : Seq({"parallel", "block", "sleep"}), totals : SUBSET (Nat \ {0}),
         workers : SUBSET Workers, stops : BOOLEAN, full : BOOLEAN]

AwaitsAssumption ==
  /\ Blocker \notin Workers /\ Watchdog \notin Workers \cup {Blocker}
  /\ Plans \subseteq Plan
  /\ MaxChunks \in Nat \ {0} /\ JobRoom \in Nat /\ OpRoom \in Nat

VARIABLES
  plan,      (* which of Plans this behaviour is                           *)
  state,     (* state_ of the task                                         *)
  ticket,    (* a ticket of the task is queued                             *)
  wait,      (* waits_.kind_ and state_                                    *)
  noted,     (* waits_.pending_: a wake found the task running             *)
  due,       (* waits_.deadline_ has passed                                *)
  begun,     (* how many awaits the body has begun                         *)
  at,        (* where each thread is                                       *)
  total,     (* end_ - begin_ of the parallel_for                          *)
  next,      (* the chunk it hands out next                                *)
  jobs,      (* chunks queued as jobs                                      *)
  chunk,     (* the chunk each worker runs                                 *)
  count,     (* counter_.pending_                                          *)
  listed,    (* the task's node is in the list of counter_'s waiters       *)
  open,      (* running_ of the blocking domain                            *)
  ops,       (* calls queued in it                                         *)
  ran,       (* history: how often the body was called for each index      *)
  called,    (* history: blocking calls that were taken and have not ended *)
  early      (* history: an await returned before what it awaits happened  *)

vars == <<plan, state, ticket, wait, noted, due, begun, at, total, next, jobs, chunk,
          count, listed, open, ops, ran, called, early>>
node == <<state, ticket>>
waits == <<wait, noted, due>>
loop == <<total, next, jobs, chunk, count, listed, ran>>
calls == <<open, ops, called>>
flow == <<plan, begun, early>>

Threads == Workers \cup {Blocker, Watchdog}
NoWait == [kind |-> "none", state |-> "none"]
Preparing(k) == [kind |-> k, state |-> "preparing"]

Least(a, b) == IF a < b THEN a ELSE b
Chunks(n) == Least(n, MaxChunks)
Width(n) == (n + Chunks(n) - 1) \div Chunks(n)
First(c) == c * Width(total)
Indices(c) == First(c) .. Least(First(c) + Width(total), total) - 1

Init ==
  /\ plan \in Plans
  /\ state = "ready" /\ ticket = TRUE /\ wait = NoWait /\ noted = FALSE /\ due = FALSE
  /\ begun = 0 /\ at = [t \in Threads |-> "idle"]
  /\ total = 0 /\ next = 0 /\ jobs = {} /\ chunk = [w \in Workers |-> 0]
  /\ count = 0 /\ listed = FALSE /\ open = TRUE /\ ops = 0
  /\ ran = << >> /\ called = 0 /\ early = FALSE

Goto(t, from, to) == at[t] = from /\ at' = [at EXCEPT ![t] = to]
Swap(from, to) == state = from /\ state' = to

(* route_to finds a place in a queue, or none: then the task is dormant.   *)
Routed(s) ==
  \/ state' = s /\ ticket' = TRUE
  \/ plan.full /\ state' = "dormant" /\ UNCHANGED ticket

(* What the body awaits has happened. *)
Awaited == plan.awaits[begun]
Met ==
  CASE Awaited = "parallel" -> \A i \in DOMAIN ran : ran[i] = 1
    [] Awaited = "block"    -> called = 0
    [] Awaited = "sleep"    -> due

Judge == early' = (early \/ ~ Met)

-----------------------------------------------------------------------------
(* The body begins an await *)

Begins(w, kind, to) ==
  /\ begun < Len(plan.awaits) /\ plan.awaits[begun + 1] = kind
  /\ Goto(w, "body", to)
  /\ begun' = begun + 1

(* Fewer indices than chunks are one each. *)
BeginParallel(w) ==
  /\ Begins(w, "parallel", "launch")
  /\ \E n \in plan.totals : /\ total' = n
                            /\ count' = Chunks(n)
                            /\ ran' = [i \in 0 .. n - 1 |-> 0]
  /\ next' = 0 /\ listed' = FALSE
  /\ UNCHANGED <<node, waits, jobs, chunk, calls, plan, early>>

BeginSleep(w) ==
  /\ Begins(w, "sleep", "suspend")
  /\ due' = FALSE
  /\ wait' = Preparing("timed")
  /\ UNCHANGED <<node, noted, loop, calls, plan, early>>

BeginBlock(w) ==
  /\ open /\ ops < OpRoom
  /\ Begins(w, "block", "suspend")
  /\ wait' = Preparing("external")
  /\ ops' = ops + 1 /\ called' = called + 1
  /\ UNCHANGED <<node, noted, due, loop, open, plan, early>>

(* The queue is full, or the domain stopped: the body goes on with an error. *)
BlockRefused(w) ==
  /\ ~ open \/ ops >= OpRoom
  /\ Begins(w, "block", "body")
  /\ wait' = Preparing("external")
  /\ UNCHANGED <<node, noted, due, loop, calls, plan, early>>

Return(w) ==
  /\ begun = Len(plan.awaits)
  /\ Goto(w, "body", "idle")
  /\ wait' = NoWait
  /\ state' = "completed"
  /\ UNCHANGED <<ticket, noted, due, loop, calls, flow>>

-----------------------------------------------------------------------------
(* parallel_for: chunks are handed out as jobs, or run in place when there *)
(* is no room; then the task joins the waiters of the counter.             *)

(* variant: a chunk goes on to the index at which the next one begins *)
CallsFar(c) ==
  [i \in DOMAIN ran |-> IF i \in First(c) .. First(c) + Width(total) THEN ran[i] + 1 ELSE ran[i]]

Calls(c) == [i \in DOMAIN ran |-> IF i \in Indices(c) THEN ran[i] + 1 ELSE ran[i]]

More == next < Chunks(total) /\ First(next) < total

LaunchJob(w) ==
  /\ More /\ Cardinality(jobs) < JobRoom
  /\ Goto(w, "launch", "launch")
  /\ jobs' = jobs \cup {next}
  /\ next' = next + 1
  /\ UNCHANGED <<node, waits, total, chunk, count, listed, ran, calls, flow>>

LaunchHere(w) ==
  /\ More /\ Cardinality(jobs) >= JobRoom
  /\ Goto(w, "launch", "launch")
  /\ ran' = Calls(next)
  /\ count' = count - 1
  /\ next' = next + 1
  /\ UNCHANGED <<node, waits, total, jobs, chunk, listed, calls, flow>>

(* The chunks have all ended: the body goes on without suspending. *)
GoOn(w, from) ==
  /\ count = 0
  /\ Goto(w, from, "body")
  /\ Judge
  /\ UNCHANGED <<node, waits, total, next, jobs, chunk, count, ran, calls, plan, begun>>

Launched(w) ==
  /\ ~ More /\ count # 0
  /\ Goto(w, "launch", "attach")
  /\ wait' = Preparing("external")
  /\ UNCHANGED <<node, noted, due, loop, calls, flow>>

Attach(w) ==
  /\ count # 0
  /\ Goto(w, "attach", "push")
  /\ UNCHANGED <<node, waits, loop, calls, flow>>

Push(w) ==
  /\ Goto(w, "push", "pushed")
  /\ listed' = TRUE
  /\ UNCHANGED <<node, waits, total, next, jobs, chunk, count, ran, calls, flow>>

Pushed(w) ==
  /\ count # 0
  /\ Goto(w, "pushed", "suspend")
  /\ UNCHANGED <<node, waits, loop, calls, flow>>

Ready(w) ==
  \/ ~ More /\ GoOn(w, "launch") /\ UNCHANGED listed
  \/ GoOn(w, "attach") /\ UNCHANGED listed
  \/ GoOn(w, "pushed") /\ listed' = FALSE

Parallel(w) ==
  LaunchJob(w) \/ LaunchHere(w) \/ Launched(w) \/ Attach(w) \/ Push(w) \/ Pushed(w) \/ Ready(w)

(* A job: the chunk, complete_one, and the wake of the waiter. *)
TakeJob(w) ==
  \E c \in jobs :
    /\ Goto(w, "idle", "chunk")
    /\ jobs' = jobs \ {c}
    /\ chunk' = [chunk EXCEPT ![w] = c]
    /\ UNCHANGED <<node, waits, total, next, count, listed, ran, calls, flow>>

RunChunk(w) ==
  /\ Goto(w, "chunk", "complete")
  /\ ran' = Calls(chunk[w])
  /\ UNCHANGED <<node, waits, total, next, jobs, chunk, count, listed, calls, flow>>

Complete(w) ==
  /\ Goto(w, "complete", IF count = 1 THEN "drain" ELSE "idle")
  /\ count' = count - 1
  /\ UNCHANGED <<node, waits, total, next, jobs, chunk, listed, ran, calls, flow>>

Drain(w) ==
  /\ Goto(w, "drain", IF listed THEN "wake" ELSE "idle")
  /\ listed' = FALSE
  /\ UNCHANGED <<node, waits, total, next, jobs, chunk, count, ran, calls, flow>>

Job(w) == TakeJob(w) \/ RunChunk(w) \/ Complete(w) \/ Drain(w)

-----------------------------------------------------------------------------
(* suspend_bookkeeping, and a worker that takes the ticket *)

SuspendNoted(w) ==
  /\ noted
  /\ Goto(w, "suspend", "rearm")
  /\ noted' = FALSE
  /\ wait' = NoWait
  /\ UNCHANGED <<node, due, loop, calls, flow>>

Rearm(w) ==
  /\ Goto(w, "rearm", "idle")
  /\ state = "running" /\ Routed("ready")
  /\ UNCHANGED <<waits, loop, calls, flow>>

SuspendCheck(w) ==
  /\ ~ noted
  /\ Goto(w, "suspend", "park")
  /\ UNCHANGED <<node, waits, loop, calls, flow>>

Park(w) ==
  /\ Goto(w, "park", "parked")
  /\ state' = "waiting"
  /\ UNCHANGED <<ticket, waits, loop, calls, flow>>

(* variant: the record of the wait is left as it was *)
ParkedUnmarked(w) ==
  /\ Goto(w, "parked", "recheck")
  /\ UNCHANGED <<node, waits, loop, calls, flow>>

(* Another worker may have the task by now. *)
Parked(w) ==
  /\ Goto(w, "parked", "recheck")
  /\ wait' = [wait EXCEPT !.state = "parked"]
  /\ UNCHANGED <<node, noted, due, loop, calls, flow>>

Recheck(w) ==
  /\ Goto(w, "recheck", IF noted THEN "wake" ELSE "idle")
  /\ noted' = FALSE
  /\ UNCHANGED <<node, wait, due, loop, calls, flow>>

Suspend(w) ==
  SuspendNoted(w) \/ Rearm(w) \/ SuspendCheck(w) \/ Park(w) \/ Parked(w) \/ Recheck(w)

Take(w) ==
  /\ ticket
  /\ Goto(w, "idle", "body")
  /\ ticket' = FALSE
  /\ Swap("ready", "running")
  /\ IF begun = 0 THEN UNCHANGED early ELSE Judge
  /\ UNCHANGED <<waits, loop, calls, plan, begun>>

-----------------------------------------------------------------------------
(* wake_waiting_index *)

Wake(t) ==
  /\ Goto(t, "wake", "woken")
  /\ Swap("waiting", "ready")
  /\ UNCHANGED <<ticket, waits, loop, calls, flow>>

WakeRoute(t) ==
  /\ Goto(t, "woken", "idle")
  /\ wait' = NoWait
  /\ Routed(state)
  /\ UNCHANGED <<noted, due, loop, calls, flow>>

WakeMissed(t) ==
  /\ state # "waiting"
  /\ Goto(t, "wake", "missed")
  /\ UNCHANGED <<node, waits, loop, calls, flow>>

WakeLook(t) ==
  /\ Goto(t, "missed", IF state = "running" THEN "note" ELSE "idle")
  /\ UNCHANGED <<node, waits, loop, calls, flow>>

WakeNote(t) ==
  /\ Goto(t, "note", "idle")
  /\ noted' = TRUE
  /\ UNCHANGED <<node, wait, due, loop, calls, flow>>

Waking(t) == Wake(t) \/ WakeRoute(t) \/ WakeMissed(t) \/ WakeLook(t) \/ WakeNote(t)

-----------------------------------------------------------------------------
(* run_loop of the blocking domain *)

PopOp ==
  /\ open /\ ops > 0
  /\ Goto(Blocker, "idle", "op")
  /\ ops' = ops - 1
  /\ UNCHANGED <<node, waits, loop, open, called, flow>>

RunOp ==
  /\ Goto(Blocker, "op", "wake")
  /\ called' = called - 1
  /\ UNCHANGED <<node, waits, loop, open, ops, flow>>

(* destroy: the threads leave their loop, and the queue goes with what is  *)
(* in it.                                                                  *)
Destroy ==
  /\ plan.stops /\ open
  /\ open' = FALSE
  /\ UNCHANGED <<node, waits, at, loop, ops, called, flow>>

Abandon ==
  /\ ~ open /\ at[Blocker] = "idle" /\ ops > 0
  /\ ops' = 0
  /\ UNCHANGED <<node, waits, at, loop, open, called, flow>>

(* scan: wake_timed looks whether the task is parked, sleeps, and is due. *)
ScanState ==
  /\ wait.state = "parked"
  /\ Goto(Watchdog, "idle", "kind")
  /\ UNCHANGED <<node, waits, loop, calls, flow>>

ScanKind ==
  /\ Goto(Watchdog, "kind", IF wait.kind = "timed" THEN "due" ELSE "idle")
  /\ UNCHANGED <<node, waits, loop, calls, flow>>

(* variant: does not look at the time *)
ScanDueNever ==
  /\ Goto(Watchdog, "due", "wake")
  /\ UNCHANGED <<node, waits, loop, calls, flow>>

ScanDue ==
  /\ Goto(Watchdog, "due", IF due THEN "wake" ELSE "idle")
  /\ UNCHANGED <<node, waits, loop, calls, flow>>

Tick ==
  /\ ~ due
  /\ due' = TRUE
  /\ UNCHANGED <<node, wait, noted, at, loop, calls, flow>>

Worker(w) ==
  \/ BeginParallel(w) \/ BeginSleep(w) \/ BeginBlock(w) \/ BlockRefused(w) \/ Return(w)
  \/ Parallel(w) \/ Job(w) \/ Suspend(w) \/ Take(w) \/ Waking(w)
Blocking == PopOp \/ RunOp \/ Abandon \/ Waking(Blocker)
Scanning == ScanState \/ ScanKind \/ ScanDue \/ Waking(Watchdog)

Running(w) == w \in plan.workers /\ Worker(w)

Next == (\E w \in Workers : Running(w)) \/ Blocking \/ Destroy \/ Scanning \/ Tick

Spec == Init /\ [][Next]_vars

(* Workers take what there is, the threads of the blocking domain and of   *)
(* the watchdog go on, and time passes.                                    *)
FairSpec ==
  /\ Spec
  /\ \A w \in Workers : WF_vars(Running(w))
  /\ WF_vars(Blocking) /\ WF_vars(Scanning) /\ WF_vars(Tick)

-----------------------------------------------------------------------------
(* Properties *)

TypeOK ==
  /\ plan \in Plans
  /\ state \in {"ready", "running", "waiting", "completed", "dormant"}
  /\ ticket \in BOOLEAN /\ noted \in BOOLEAN /\ due \in BOOLEAN /\ listed \in BOOLEAN
  /\ wait \in [kind : {"none", "timed", "external"}, state : {"none", "preparing", "parked"}]
  /\ begun \in 0 .. Len(plan.awaits) /\ count \in 0 .. MaxChunks
  /\ ops \in 0 .. OpRoom /\ called \in 0 .. OpRoom + 1
  /\ jobs \subseteq 0 .. MaxChunks - 1

(* The chunks do not overlap: the body is called at most once per index.   *)
IndexOnce == \A i \in DOMAIN ran : ran[i] <= 1

(* A job or a call that wakes the task may still be at it when the task    *)
(* has gone on, and its word cuts a later await short; the code keeps its  *)
(* word only where such an await is the last one.                          *)
NobodyLate == \A k \in DOMAIN plan.awaits : plan.awaits[k] # "sleep" => k = Len(plan.awaits)

(* An await returns only when what it awaits has happened: every index was *)
(* done, the call has ended, the time has come.                            *)
AwaitExact == IndexOnce /\ (NobodyLate => ~ early)

Waits(kind) == begun > 0 /\ Awaited = kind /\ state = "waiting"
Went == state # "waiting"

(* A sleeping task goes on, or is dropped by a wake that the queues refuse: *)
(* the watchdog finds it, whatever it has awaited before, and whatever     *)
(* comes late.                                                             *)
SleepEnds == Waits("sleep") ~> Went

(* The last chunk of a parallel_for wakes the task, on one worker, where   *)
(* each chunk has an index to begin with.                                  *)
AllLaunched == total > 0 /\ First(Chunks(total) - 1) < total
LoopSuspended == Waits("parallel") /\ AllLaunched /\ Cardinality(plan.workers) = 1
LoopEnds == LoopSuspended ~> Went
=============================================================================
